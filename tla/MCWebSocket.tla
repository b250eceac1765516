------------------------------ MODULE MCWebSocket ------------------------------
(***************************************************************************)
(* WebSocketServer for TLC: two peers, and a server that is started twice, *)
(* so that clients_ is appended to with and without moving.                *)
(***************************************************************************)
EXTENDS WebSocketServer

CONSTANTS p1, p2

MCPeers == {p1, p2}

\* One of the second form of header, and one of the third whose low bytes all differ.
MCMessageSizes == <<126, 16909060>>
===============================================================================
