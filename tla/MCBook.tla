-------------------------------- MODULE MCBook --------------------------------
(***************************************************************************)
(* EnhancedOrderBook for TLC: three orders on two sides and two prices,    *)
(* enough for a level to be shared, emptied and made again while another   *)
(* stays.                                                                  *)
(***************************************************************************)
EXTENDS EnhancedOrderBook

CONSTANTS id1, id2, id3

MCIds == {id1, id2, id3}
MCSymmetry == Permutations(MCIds)
===============================================================================
