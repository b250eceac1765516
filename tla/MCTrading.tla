------------------------------- MODULE MCTrading -------------------------------
(***************************************************************************)
(* TradingStrategy on OrderBook for TLC.                                   *)
(*                                                                         *)
(* One symbol: books and positions of different symbols share nothing, as  *)
(* the maps of OrderBookManager and TradingStrategy are keyed by it.  Two  *)
(* prices on two sides are crossed, equal and apart; what is added is      *)
(* nothing or more than MaxSize, and an amount set or executed leaves less *)
(* than MaxSize, or nothing.  Three orders open a position, add to it and  *)
(* turn it round.                                                          *)
(***************************************************************************)
EXTENDS TradingStrategy
================================================================================
