----------------------------- MODULE TickRecorder ------------------------------
(***************************************************************************)
(* TickRecorder (src/tick_recorder.cpp:5-183, the branch for POSIX): an    *)
(* append-only file of records of one size, written through a shared       *)
(* mapping that grows, or through an ofstream when the file cannot be      *)
(* opened for that.                                                        *)
(*                                                                         *)
(* The recorder numbers what it is given 1, 2, 3, ... and a record is its  *)
(* number.  content says what every place of the file holds, also beyond   *)
(* its end, where a mapped page can be written to: bytes there may or may  *)
(* not be in the file once it grows over them.  A store to a page that is  *)
(* wholly beyond the end kills the process, and so does a store through    *)
(* MAP_FAILED.  The process can be killed from outside between any two     *)
(* writes; what it stored through the mapping stays in the file then.      *)
(***************************************************************************)
EXTENDS Integers, FiniteSets, FiniteSetsExt

CONSTANTS RecordSize,   \* sizeof(TickRecord)
          PageSize,     \* of the operating system, in bytes
          MinimumMap,   \* the 1024 * 1024 of line 121
          MaxWrites     \* bound: records written

\* What a module that instantiates this one has to assume.
RecorderAssumption ==
  /\ {RecordSize, PageSize, MinimumMap} \subseteq Nat \ {0}
  /\ MaxWrites \in Nat

VARIABLES use_mmap,      \* use_mmap_
          stream_open,   \* file_ is open
          mapped_ptr,    \* mapped_ptr_: "null", "failed" (MAP_FAILED) or "mapped"
          mapped_size,   \* mapped_size_
          record_count,  \* record_count_
          pending,       \* record_quote has its second record still to write
          file_size,     \* size of the file, in bytes; -1 when there is none
          content,       \* what the file holds at each record's place, 0 for zeros
          process,       \* "running", "killed" from outside, "fault", or "closed"
          troubled,      \* history: a call to the operating system failed
          flushed,       \* history: flush has been called
          resumed        \* history: a record was written after a flush

vars == <<use_mmap, stream_open, mapped_ptr, mapped_size, record_count, pending,
          file_size, content, process, troubled, flushed, resumed>>
-------------------------------------------------------------------------------
Places == 0 .. MaxWrites - 1

\* The constructor: the file is made and empty, whichever way it is opened; if it
\* cannot be, the recorder drops its records.
Init == /\ use_mmap \in BOOLEAN
        /\ stream_open \in IF use_mmap THEN {FALSE} ELSE BOOLEAN
        /\ mapped_ptr = "null"
        /\ mapped_size = 0
        /\ record_count = 0
        /\ pending = FALSE
        /\ file_size = IF use_mmap \/ stream_open THEN 0 ELSE -1
        /\ content = [i \in Places |-> 0]
        /\ process = "running"
        /\ troubled = (~ use_mmap /\ ~ stream_open)
        /\ flushed = FALSE
        /\ resumed = FALSE

PageEnd(size) == ((size + PageSize - 1) \div PageSize) * PageSize

\* Bytes the next record ends at.
Needed == (record_count + 1) * RecordSize

\* Faulty variant of NewSize: grows to hold what has been written.
NewSizeShort == Max({record_count * RecordSize, MinimumMap})

NewSize == Max({Needed * 2, MinimumMap})
-------------------------------------------------------------------------------
(* remap_if_needed: map says where it leaves mapped_ptr_, mapped_size_ and    *)
(* the file's size.                                                         *)
Unchanged == [ptr |-> mapped_ptr, size |-> mapped_size, file |-> file_size,
              failed |-> FALSE]

\* munmap leaves null behind; MAP_FAILED is left where it is.
Unmapped == IF mapped_ptr = "mapped" THEN "null" ELSE mapped_ptr

Remaps ==
  IF Needed <= mapped_size
    THEN {Unchanged}
    ELSE { \* ftruncate and mmap succeed,
           [ptr |-> "mapped", size |-> NewSize, file |-> NewSize, failed |-> FALSE],
           \* mmap fails,
           [ptr |-> "failed", size |-> mapped_size, file |-> NewSize, failed |-> TRUE],
           \* or ftruncate does.
           [ptr |-> Unmapped, size |-> mapped_size, file |-> file_size, failed |-> TRUE] }

\* Where *dest = record goes, given the mapping.
Stored(map) == map.ptr = "mapped" /\ Needed <= map.file
StoredBeyond(map) ==
  map.ptr = "mapped" /\ map.file < Needed /\ Needed <= PageEnd(map.file)
Faults(map) ==
  map.ptr = "failed" \/ (map.ptr = "mapped" /\ PageEnd(map.file) < Needed)

WriteMapped ==
  /\ use_mmap
  /\ \E map \in Remaps :
       /\ mapped_ptr' = map.ptr
       /\ mapped_size' = map.size
       /\ file_size' = map.file
       /\ troubled' = (troubled \/ map.failed)
       /\ \/ /\ Stored(map)
             /\ content' = [content EXCEPT ![record_count] = record_count + 1]
             /\ UNCHANGED process
          \/ /\ StoredBeyond(map)
             /\ content' \in {content, [content EXCEPT ![record_count] = record_count + 1]}
             /\ UNCHANGED process
          \/ /\ Faults(map)
             /\ process' = "fault"
             /\ UNCHANGED content
          \/ /\ map.ptr = "null"
             /\ UNCHANGED <<content, process>>
  /\ record_count' = record_count + 1
  /\ UNCHANGED <<use_mmap, stream_open>>

\* file_.write: the stream keeps records back and hands them on, in order, when
\* it likes.
WriteStream ==
  /\ ~ use_mmap
  /\ content' = IF stream_open
                  THEN [content EXCEPT ![record_count] = record_count + 1]
                  ELSE content
  /\ file_size' \in IF stream_open THEN file_size .. Needed ELSE {file_size}
  /\ record_count' = record_count + 1
  /\ UNCHANGED <<use_mmap, stream_open, mapped_ptr, mapped_size, process, troubled>>

\* write_record
WriteRecord ==
  /\ process = "running"
  /\ record_count < MaxWrites
  /\ WriteMapped \/ WriteStream
  /\ resumed' = (resumed \/ flushed)
  /\ UNCHANGED flushed

\* record_trade writes one record, record_quote two, the bid and then the ask.
RecordTrade == ~ pending /\ WriteRecord /\ UNCHANGED pending
QuoteBid == ~ pending /\ record_count + 2 <= MaxWrites /\ WriteRecord /\ pending' = TRUE
QuoteAsk == pending /\ WriteRecord /\ pending' = FALSE

\* Faulty variant of Trim: does not count the last record.
TrimShort == IF record_count = 0 THEN 0 ELSE (record_count - 1) * RecordSize

\* The size flush gives the file.
Trim == record_count * RecordSize

\* flush: ftruncate may fail and nobody looks; the mapping stays as long as it was.
FlushFile ==
  /\ process = "running"
  /\ ~ pending
  /\ file_size' \in IF use_mmap THEN {Trim, file_size}
                    ELSE IF stream_open THEN {Trim} ELSE {file_size}
  /\ troubled' = (troubled \/ file_size' # Trim)
  /\ flushed' = TRUE
  /\ UNCHANGED <<use_mmap, stream_open, mapped_ptr, mapped_size, record_count, pending,
                 content, resumed>>

Flush == FlushFile /\ UNCHANGED process

\* The destructor: flush, unmap and close.
Close == FlushFile /\ process' = "closed"

\* The process is killed, as between the two records of a quote.
Kill ==
  /\ process = "running"
  /\ process' = "killed"
  /\ UNCHANGED <<use_mmap, stream_open, mapped_ptr, mapped_size, record_count, pending,
                 file_size, content, troubled, flushed, resumed>>

Next == RecordTrade \/ QuoteBid \/ QuoteAsk \/ Flush \/ Close \/ Kill

Spec == Init /\ [][Next]_vars
-------------------------------------------------------------------------------
\* Calls went as the code expects, and nothing was written through a mapping
\* after a flush.
Orderly == ~ troubled /\ ~ (use_mmap /\ resumed)

\* What a reader finds at a place of the file.
TickAt(i) == IF i \in Places THEN content[i] ELSE 0
===============================================================================
