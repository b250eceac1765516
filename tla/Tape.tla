---------------------------------- MODULE Tape ----------------------------------
(***************************************************************************)
(* A recording and its replay: the file that TickRecorder leaves           *)
(* (src/tick_recorder.cpp:5-183), closed or killed, is the one that        *)
(* ReplayEngine plays (src/replay_engine.cpp), record by record.           *)
(*                                                                         *)
(* The two meet in file_size and in what the recorder calls content.  The  *)
(* engine is used once the recorder is gone: nobody writes what it reads.  *)
(***************************************************************************)
EXTENDS ReplayEngine

CONSTANTS PageSize, MinimumMap, MaxWrites

VARIABLES use_mmap, stream_open, mapped_ptr, mapped_size, record_count, pending, content,
          process, troubled, flushed, resumed

Recorder == INSTANCE TickRecorder

ASSUME TapeAssumption == Recorder!RecorderAssumption

recorderVars == <<use_mmap, stream_open, mapped_ptr, mapped_size, record_count, pending,
                  content, process, troubled, flushed, resumed>>
tapeVars == <<vars, recorderVars>>

TapeInit == Recorder!Init /\ Unused

\* The recorder is at work, and the engine is not.
Record == Recorder!Next /\ UNCHANGED <<control, progress>>

\* The engine plays what the recorder has left.
Gone == process \in {"closed", "killed"}
Play(step) == Gone /\ step /\ UNCHANGED recorderVars

TapeNext == Record \/ Play(Client) \/ Play(Replay)

TapeSpec == /\ TapeInit
            /\ [][TapeNext]_tapeVars
            /\ WF_tapeVars(Play(Thread))
            /\ WF_tapeVars(Play(StopJoin))
-------------------------------------------------------------------------------
\* Record numbers the replay has gone through, of this run.
Played == [i \in 1 .. messages_replayed |-> Recorder!TickAt(i - 1)]

\* A whole replay is behind us.
Ended == replay = "exited" /\ ~ interrupted /\ ~ terminated

(* A recorder whose calls succeed, and that is flushed only at its end, never *)
(* stores outside its file, and what it recorded, closed and replayed to the  *)
(* end is every record once, in order, and nothing else, whatever remappings  *)
(* the file grew through and however the replay was paused.  The condition is *)
(* the price of line 152, where a failing mmap leaves a pointer, and of flush *)
(* (line 177), which cuts the file below the mapping.                         *)
ReplaysRecording ==
  Recorder!Orderly =>
    /\ process # "fault"
    /\ process = "closed" /\ Ended => Played = [i \in 1 .. record_count |-> i]

(* A recorder that is killed leaves a replay of its first records, through    *)
(* the mapping of all it was given, the last half quote included; then come   *)
(* zeros the recorder never wrote, which the engine replays as ticks.         *)
ReplaysKilledRecording ==
  process = "killed" /\ Recorder!Orderly /\ Ended =>
    /\ \A i \in DOMAIN Played : Played[i] = IF i <= record_count THEN i ELSE 0
    /\ use_mmap => record_count <= messages_replayed
===============================================================================
