--------------------------------- MODULE MCPool ---------------------------------
(***************************************************************************)
(* MemoryPool for TLC: chunks of two slots, three of them, and calls that  *)
(* nest three deep.                                                        *)
(***************************************************************************)
EXTENDS MemoryPool
=================================================================================
