-------------------------------- MODULE MCSPSC --------------------------------
(***************************************************************************)
(* SPSCQueue for TLC.  A ring of two slots gets more than twice as many    *)
(* pushes, so that every slot is reused and both clients meet the full and *)
(* the empty queue.  A ring of one slot has a run of its own.              *)
(***************************************************************************)
EXTENDS SPSCQueue

CONSTANTS v1, v2

MCValues == {v1, v2}
===============================================================================
