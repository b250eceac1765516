----------------------------- MODULE ReplayEngine ------------------------------
(***************************************************************************)
(* ReplayEngine (src/replay_engine.cpp) and the TickReader it drives       *)
(* (src/tick_recorder.cpp:185-269).                                        *)
(*                                                                         *)
(* One thread controls the engine: start, stop, pause, resume and, last,   *)
(* the destructor.  start makes a second thread, which reads the file of   *)
(* ticks record by record and hands each to the callback; the callback may *)
(* call the engine too.  The two threads share running_ and paused_.       *)
(*                                                                         *)
(* Lines 24-30 of start are one action: when running_ is false the last    *)
(* replay thread, if any, is past its last shared access.  How long the    *)
(* thread sleeps between records, and with it the value of speed_ and the  *)
(* timestamps, is left out: a sleep is a step the scheduler delays.        *)
(*                                                                         *)
(* The file is its size in bytes.  A whole number of records, a file cut   *)
(* inside one and a file that is not there are all among them.             *)
(***************************************************************************)
EXTENDS Integers, Sequences

CONSTANTS RecordSize,  \* sizeof(TickRecord)
          MaxStarts    \* bound: calls of start that make a thread

ASSUME ReplayAssumption ==
  /\ RecordSize \in Nat \ {0, 1}
  /\ MaxStarts \in Nat

VARIABLES file_size,          \* size of the file, in bytes; -1 when it cannot be opened
          running,            \* running_
          paused,             \* paused_
          messages_replayed,  \* messages_replayed_
          joinable,           \* replay_thread_.joinable()
          client,             \* where the controlling thread is
          replay,             \* where the replay thread is in replay_loop
          offset,             \* the reader's current_offset_
          mapped,             \* the reader's mapped_ptr_ is not null
          callback,           \* callback_ is not empty
          terminated,         \* the process is gone: std::terminate, or a fault
          delivered,          \* history: records given to the callback in this run
          interrupted,        \* history: stop has been called in this run
          overrun,            \* history: records read while paused
          equipped,           \* history: callback_ was not empty when this run began
          starts              \* history: threads made

control == <<running, paused, joinable, client, callback, terminated, interrupted,
             equipped, starts>>
reading == <<offset, mapped>>
progress == <<replay, messages_replayed, reading, delivered, overrun>>
vars == <<file_size, control, progress>>
-------------------------------------------------------------------------------
(* TickReader.                                                              *)

Records == IF file_size < 0 THEN 0 ELSE file_size \div RecordSize

\* has_more: true of a partial record too.
HasMore == offset < file_size

\* What read_next requires.
CanRead == offset + RecordSize <= file_size

\* The constructor, of an engine for any file.
Unused == /\ running = FALSE
          /\ paused = FALSE
          /\ messages_replayed = 0
          /\ joinable = FALSE
          /\ client = "idle"
          /\ replay = "none"
          /\ offset = 0
          /\ mapped = FALSE
          /\ callback = FALSE
          /\ terminated = FALSE
          /\ delivered = << >>
          /\ interrupted = FALSE
          /\ overrun = 0
          /\ equipped = FALSE
          /\ starts = 0

Init == file_size \in Int /\ Unused

Idle == client = "idle" /\ ~ terminated
-------------------------------------------------------------------------------
(* start returns at once when the replay is running ...                     *)
StartAgain ==
  /\ Idle
  /\ running
  /\ UNCHANGED vars

\* ... and otherwise makes a thread and assigns it to replay_thread_.  Assigning
\* to a thread that was never joined, because its replay ended by itself and
\* nobody called stop since, calls std::terminate.
Start ==
  /\ Idle
  /\ ~ running
  /\ starts < MaxStarts
  /\ running' = TRUE
  /\ paused' = FALSE
  /\ messages_replayed' = 0
  /\ overrun' = 0
  /\ IF joinable
       THEN /\ terminated' = TRUE
            /\ UNCHANGED <<joinable, replay, reading, delivered, interrupted, equipped, starts>>
       ELSE /\ joinable' = TRUE
            /\ replay' = "open"
            /\ offset' = 0
            /\ delivered' = << >>
            /\ interrupted' = FALSE
            /\ equipped' = callback
            /\ starts' = starts + 1
            /\ UNCHANGED <<terminated, mapped>>
  /\ UNCHANGED <<file_size, client, callback>>

\* stop and the destructor: clear running_ and join the thread if there is one.
StopBegin(last) ==
  /\ Idle
  /\ running' = FALSE
  /\ interrupted' = TRUE
  /\ client' = IF joinable THEN IF last THEN "destroying" ELSE "stopping"
                           ELSE IF last THEN "gone" ELSE "idle"
  /\ UNCHANGED <<file_size, paused, joinable, callback, terminated, equipped, starts,
                 progress>>

\* Faulty variant of StopJoin: does not wait for the thread.
StopDetach ==
  /\ client \in {"stopping", "destroying"}
  /\ ~ terminated
  /\ joinable' = FALSE
  /\ client' = IF client = "destroying" THEN "gone" ELSE "idle"
  /\ UNCHANGED <<file_size, running, paused, callback, terminated, interrupted, equipped,
                 starts, progress>>

StopJoin ==
  /\ client \in {"stopping", "destroying"}
  /\ ~ terminated
  /\ replay = "exited"
  /\ joinable' = FALSE
  /\ client' = IF client = "destroying" THEN "gone" ELSE "idle"
  /\ UNCHANGED <<file_size, running, paused, callback, terminated, interrupted, equipped,
                 starts, progress>>

Pause ==
  /\ Idle
  /\ paused' = TRUE
  /\ UNCHANGED <<file_size, running, joinable, client, callback, terminated, interrupted,
                 equipped, starts, progress>>

Resume ==
  /\ Idle
  /\ paused' = FALSE
  /\ overrun' = 0
  /\ UNCHANGED <<file_size, running, joinable, client, callback, terminated, interrupted,
                 equipped, starts, replay, messages_replayed, reading, delivered>>

\* The thread may look at callback_ and speed_.
ThreadReads == replay \notin {"none", "exited"}

\* set_callback assigns a std::function the replay thread may be testing or
\* calling: then anything can happen, and the end of the process is one of it.
SetCallback ==
  /\ Idle
  /\ callback' = TRUE
  /\ terminated' \in IF ThreadReads THEN BOOLEAN ELSE {FALSE}
  /\ UNCHANGED <<file_size, running, paused, joinable, client, interrupted, equipped,
                 starts, progress>>

\* set_speed assigns an enum: the thread reads the old value or the new one, and
\* sleeps by it.
SetSpeed == Idle /\ UNCHANGED vars
-------------------------------------------------------------------------------
At(place) == replay = place /\ ~ terminated

Goto(place) == replay' = place

(* The replay thread: TickReader's constructor throws when the file cannot be *)
(* opened, and nothing catches that.  Of the file's mapping, which may fail,  *)
(* it keeps a null pointer.                                                   *)
OpenFile ==
  /\ At("open")
  /\ terminated' = (file_size < 0)
  /\ mapped' \in IF file_size > 0 THEN BOOLEAN ELSE {FALSE}
  /\ Goto("test")
  /\ UNCHANGED <<file_size, running, paused, joinable, client, callback, interrupted,
                 equipped, starts, messages_replayed, offset, delivered, overrun>>

\* while (running_ && reader.has_more())
TestMore ==
  /\ At("test")
  /\ Goto(IF running /\ HasMore THEN "wait" ELSE "finish")
  /\ UNCHANGED <<file_size, control, messages_replayed, reading, delivered, overrun>>

\* Faulty variant of LeaveWait: waits for resume whatever running_ says.
LeaveWaitResumed ==
  /\ At("wait")
  /\ ~ paused
  /\ Goto("recheck")
  /\ UNCHANGED <<file_size, control, messages_replayed, reading, delivered, overrun>>

\* Faulty variant of LeaveWait: does not look at paused_.
LeaveWaitAtOnce ==
  /\ At("wait")
  /\ Goto("recheck")
  /\ UNCHANGED <<file_size, control, messages_replayed, reading, delivered, overrun>>

\* while (paused_ && running_) sleep
LeaveWait ==
  /\ At("wait")
  /\ ~ (paused /\ running)
  /\ Goto("recheck")
  /\ UNCHANGED <<file_size, control, messages_replayed, reading, delivered, overrun>>

\* if (!running_) break
Recheck ==
  /\ At("recheck")
  /\ Goto(IF running THEN "read" ELSE "finish")
  /\ UNCHANGED <<file_size, control, messages_replayed, reading, delivered, overrun>>

\* Hand the record at offset to the callback, if there is one.  What is read while the
\* replay is paused is counted.
Deliver ==
  /\ delivered' = IF callback THEN Append(delivered, offset \div RecordSize) ELSE delivered
  /\ overrun' = IF paused THEN overrun + 1 ELSE overrun

\* Faulty variant of Read: a record that the file ends in is given, too.
ReadPartial ==
  /\ At("read")
  /\ mapped
  /\ offset' = offset + RecordSize
  /\ Deliver
  /\ Goto("callback")
  /\ UNCHANGED <<file_size, control, messages_replayed, mapped>>

\* if (!reader.read_next(current_record)) break; if (callback_) callback_(...)
Read ==
  /\ At("read")
  /\ \/ /\ CanRead /\ mapped
        /\ offset' = offset + RecordSize
        /\ Deliver
        /\ Goto("callback")
     \/ /\ ~ CanRead
        /\ Goto("finish")
        /\ UNCHANGED <<offset, delivered, overrun>>
  /\ UNCHANGED <<file_size, control, messages_replayed, mapped>>

\* read_next through the null pointer.
ReadFault ==
  /\ At("read")
  /\ CanRead /\ ~ mapped
  /\ terminated' = TRUE
  /\ UNCHANGED <<file_size, running, paused, joinable, client, callback, interrupted,
                 equipped, starts, progress>>

\* The callback pauses the replay, and stops it: then stop joins the thread it
\* runs on, which throws std::system_error out of that thread.
CallbackPause ==
  /\ At("callback")
  /\ callback /\ ~ paused
  /\ paused' = TRUE
  /\ UNCHANGED <<file_size, running, joinable, client, callback, terminated, interrupted,
                 equipped, starts, progress>>

CallbackStop ==
  /\ At("callback")
  /\ callback
  /\ running' = FALSE
  /\ interrupted' = TRUE
  /\ terminated' = TRUE
  /\ UNCHANGED <<file_size, paused, joinable, client, callback, equipped, starts,
                 progress>>

\* The callback returns; sleep; messages_replayed_++
CountRecord ==
  /\ At("callback")
  /\ messages_replayed' = messages_replayed + 1
  /\ Goto("test")
  /\ UNCHANGED <<file_size, control, reading, delivered, overrun>>

\* Faulty variant of Finish: leaves running_ set.
FinishSilently ==
  /\ At("finish")
  /\ Goto("exited")
  /\ UNCHANGED <<file_size, control, messages_replayed, reading, delivered, overrun>>

\* running_ = false, and the thread ends.
Finish ==
  /\ At("finish")
  /\ running' = FALSE
  /\ Goto("exited")
  /\ UNCHANGED <<file_size, paused, joinable, client, callback, terminated, interrupted,
                 equipped, starts, messages_replayed, reading, delivered, overrun>>
-------------------------------------------------------------------------------
Client == \/ StartAgain \/ Start \/ Pause \/ Resume \/ SetCallback \/ SetSpeed \/ StopJoin
          \/ \E last \in BOOLEAN : StopBegin(last)

\* What the replay thread does of itself, and what its callback may do.
Thread == \/ OpenFile \/ TestMore \/ LeaveWait \/ Recheck \/ Read \/ ReadFault
          \/ CountRecord \/ Finish

Replay == Thread \/ CallbackPause \/ CallbackStop

Next == Client \/ Replay

Spec == Init /\ [][Next]_vars

\* The scheduler runs the replay thread, callbacks return, and a join whose
\* thread has ended returns.  Nothing makes the client call anything.
FairSpec == Spec /\ WF_vars(Thread) /\ WF_vars(StopJoin)
-------------------------------------------------------------------------------
(* The callback is given consecutive records, each once, from the first if it *)
(* was set before start, in every run anew; messages_replayed_ counts those   *)
(* that have been dealt with, with a callback or without: also when the file  *)
(* ends inside a record, which is not given.  A run that ends without a call  *)
(* of stop has dealt with all, however often it was paused (lines 48-105).    *)
DeliveredInOrder ==
  ~ terminated =>
    /\ messages_replayed * RecordSize + (IF replay = "callback" THEN RecordSize ELSE 0) = offset
    /\ \A i \in DOMAIN delivered :
         /\ delivered[i] = offset \div RecordSize - Len(delivered) + i - 1
         /\ delivered[i] < Records
    /\ equipped => Len(delivered) * RecordSize = offset
    /\ replay = "exited" /\ ~ interrupted => messages_replayed = Records

(* is_running() tells its client whether there is a thread at work: never true *)
(* when it has ended, so that who waits for it is not deceived, and never     *)
(* false while it may still look at callback_ and speed_, so that a client who *)
(* sees false can assign them, which nothing else makes safe (line 72).       *)
RunningTellsThread == client = "idle" /\ ~ terminated => (running <=> ThreadReads)

(* pause() takes hold after at most one more record: the one the thread had    *)
(* already decided to read when paused_ was set.                              *)
PauseTakesHold == overrun <= 1

(* Once stop has returned, no callback runs until the next start: a client may *)
(* destroy what its callback refers to.                                       *)
QuietAfterStop ==
  [][~ joinable /\ ~ joinable' => UNCHANGED <<delivered, messages_replayed>>]_vars

(* stop and the destructor return, also when the replay is paused: the wait    *)
(* for resume() ends when running_ is cleared (line 58).                      *)
StopReturns ==
  client \in {"stopping", "destroying"} ~> client \in {"idle", "gone"} \/ terminated

(* A replay that is not paused ends.                                          *)
EndsUnlessPaused == running ~> (~ running \/ paused \/ terminated)
===============================================================================
