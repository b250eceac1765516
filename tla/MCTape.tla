-------------------------------- MODULE MCTape --------------------------------
(***************************************************************************)
(* Tape for TLC.  Records of two bytes, pages of four and a first mapping  *)
(* of five: the mapping ends inside a record, as one of 1 MiB does with    *)
(* records of 40 bytes, and grows once.  The replay meets files that are   *)
(* not there, empty, whole and torn, and is started twice.                 *)
(***************************************************************************)
EXTENDS Tape
===============================================================================
