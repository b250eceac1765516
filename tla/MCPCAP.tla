-------------------------------- MODULE MCPCAP --------------------------------
(***************************************************************************)
(* PCAPReader for TLC.                                                     *)
(*                                                                         *)
(* The headers are scaled down: 2 in place of 24 bytes for the file's, 3   *)
(* for 16, 1 for 14, 20 and 8; what decides is the order of the sums, and  *)
(* that an IPv4 header may say it is shorter or longer than the 1 (20)     *)
(* that is looked at.  Files end before, within and after the headers and  *)
(* the data of their first, second and third packets.                      *)
(***************************************************************************)
EXTENDS PCAPReader

MCSizes == {1, 4, 7, 10, 11, 13}
===============================================================================
