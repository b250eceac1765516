-------------------------------- MODULE MCDemo --------------------------------
(***************************************************************************)
(* Demonstration for TLC.  The divisors of adding, executing and           *)
(* cancelling are the code's; the strategy is asked every 5 messages in    *)
(* place of 1000.  Messages 0 to 21 take each of the four branches, with   *)
(* three executions (7, 14, 21) and a cancel (11), of which 11 and 21 name *)
(* orders that the message before them has added, to another book.         *)
(* Quotes cross each other and are narrower than the threshold, as the     *)
(* code's are (50 ticks of 500), and latencies lie below, at and above the *)
(* last bucket.                                                            *)
(***************************************************************************)
EXTENDS Demonstration

Quote(bid, ask, bid_size, ask_size) ==
  [bid_price |-> bid, ask_price |-> ask, bid_size |-> bid_size, ask_size |-> ask_size]

MCQuotes == {Quote(10, 11, 4, 1), Quote(16, 18, 1, 5), Quote(12, 15, 3, 3)}
===============================================================================
