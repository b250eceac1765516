------------------------------- MODULE MCParsers -------------------------------
(***************************************************************************)
(* MessageParsers for TLC: every buffer of up to seven bytes with three    *)
(* values.  In both protocols type 0 is not parsed; type 1 is the shortest *)
(* message there can be and type 2 is longer.                              *)
(***************************************************************************)
EXTENDS MessageParsers

MCITCHSize == [type \in {1, 2} |-> type + 2]
MCIEXSize == [type \in {1, 2} |-> type + 1]
===============================================================================
