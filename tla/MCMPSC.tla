-------------------------------- MODULE MCMPSC --------------------------------
(***************************************************************************)
(* MPSCQueue for TLC: two producers with two pushes each, and four         *)
(* addresses, so that the allocator has to reuse deleted ones.             *)
(***************************************************************************)
EXTENDS MPSCQueue

CONSTANTS p1, p2, n1, n2, n3, n4

MCProducers == {p1, p2}
MCNodes == {n1, n2, n3, n4}
===============================================================================
