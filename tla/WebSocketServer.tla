---------------------------- MODULE WebSocketServer ----------------------------
(***************************************************************************)
(* WebSocketServer (src/websocket_server.cpp:156-362): a server that sends *)
(* every message to all its clients.                                       *)
(*                                                                         *)
(* One thread, the owner, calls start, stop, broadcast and, last, the      *)
(* destructor.  start makes a second thread that accepts connections, does *)
(* the handshake with each and appends it to clients_, which broadcast     *)
(* walks without a lock.  Peers connect, send a request whole or in part,  *)
(* and leave, whenever they like.                                          *)
(*                                                                         *)
(* clients_ is a vector as libstdc++ has it: when its memory is full,      *)
(* push_back gives that back and then stores the pointer to the beginning  *)
(* of the new memory and the one to the end of the clients in it.  The     *)
(* accesses to the two pointers are the steps in which threads alternate;  *)
(* on x86, for which the library is written, a thread sees the stores of   *)
(* another in their order.                                                 *)
(*                                                                         *)
(* The operating system is that of Linux: closing a listening socket does  *)
(* not wake a thread that waits in accept on it, a port is in use as long  *)
(* as somebody listens on it, and sending to a peer that has left raises   *)
(* SIGPIPE, at the second send at the latest.  Peers read what they are    *)
(* sent, so a send never blocks.                                           *)
(***************************************************************************)
EXTENDS Integers, Sequences, FiniteSets, SequencesExt

CONSTANTS Peers,          \* each connects once; also the name of its socket
          MessageSizes,   \* bound: the sizes of the messages given to broadcast, in order
          MaxAstray,      \* bound: reads of a broadcast whose iterators are of different memory
          MaxStarts       \* bound: calls of start that go through

\* What of a number is above its low 32 bits.
High(size) == (size \div 65536) \div 65536

ASSUME ServerAssumption ==
  /\ MessageSizes \in Seq(Nat)
  \* size() is a size_t of 64 bits.
  /\ \A n \in DOMAIN MessageSizes : (High(MessageSizes[n]) \div 65536) \div 65536 = 0
  /\ MaxAstray \in Nat
  /\ MaxStarts \in Nat

VARIABLES server_socket,  \* server_socket_: the number of a listening socket, or Invalid
          running,        \* running_
          joinable,       \* accept_thread_.joinable()
          clients,        \* clients_, all active: nothing clears the flag
          reserved,       \* clients_.capacity()
          owner,          \* where the owner is
          acceptor,       \* where the accept thread is in accept_loop
          accepting,      \* the listening socket it waits on
          current,        \* the connection it has accepted and not dealt with, or Nobody
          cursor,         \* broadcast's iterator ...
          last,           \* ... and the end it was given
          dangling,       \* one of them points into memory clients_ has given back
          listening,      \* listening sockets that are open
          open,           \* connections that are open
          peers,          \* what each peer is doing
          request,        \* what it has sent
          inbox,          \* what it has been sent
          process,        \* how the process is
          sent,           \* history: how many frames were broadcast
          joined,         \* history: how many of them before each client registered
          astray,         \* history: which of them read memory given back
          overlapped,     \* history: start was called on a running server
          starts          \* history: calls of start that went through

threads == <<running, joinable, owner, acceptor, accepting, current>>
sockets == <<server_socket, listening, open>>
iteration == <<cursor, last, dangling>>
world == <<peers, request>>
history == <<sent, joined, astray, overlapped, starts>>
vars == <<threads, sockets, clients, reserved, iteration, world, inbox, process, history>>
-------------------------------------------------------------------------------
Invalid == 0
Nobody == "nobody"

\* The answer to a handshake.
Hello == [header |-> << >>, size |-> 0, number |-> 0]

\* The low 32 bits, the highest first.
FourBytes(n) == <<(n \div 16777216) % 256, (n \div 65536) % 256, (n \div 256) % 256, n % 256>>

\* Faulty variant of Header: 126 is taken for a size that fits one byte.
HeaderOneByte(size) ==
  IF size <= 126
    THEN <<size>>
    ELSE IF size <= 65535
           THEN <<126, size \div 256, size % 256>>
           ELSE <<127>> \o FourBytes(High(size)) \o FourBytes(size)

\* The bytes between a frame's first one and the message.
Header(size) ==
  IF size <= 125
    THEN <<size>>
    ELSE IF size <= 65535
           THEN <<126, size \div 256, size % 256>>
           ELSE <<127>> \o FourBytes(High(size)) \o FourBytes(size)

\* The frame of the n-th message, without the first byte, in which alone broadcast
\* and broadcast_binary differ.  Its number is history.
Frame(n) == [header |-> Header(MessageSizes[n]), size |-> MessageSizes[n], number |-> n]

Init == /\ server_socket = Invalid
        /\ running = FALSE
        /\ joinable = FALSE
        /\ clients = << >>
        /\ reserved = 0
        /\ owner = "idle"
        /\ acceptor = "none"
        /\ accepting = Invalid
        /\ current = Nobody
        /\ cursor = 1
        /\ last = 0
        /\ dangling = FALSE
        /\ listening = {}
        /\ open = {}
        /\ peers = [p \in Peers |-> "away"]
        /\ request = [p \in Peers |-> "none"]
        /\ inbox = [p \in Peers |-> << >>]
        /\ process = "running"
        /\ sent = 0
        /\ joined = [p \in Peers |-> 0]
        /\ astray = {}
        /\ overlapped = FALSE
        /\ starts = 0

Alive == process = "running"
Idle == owner = "idle" /\ Alive

\* Sockets somebody listens on, a thread that waits on a closed one included.
Listening == listening \cup IF acceptor = "blocked" THEN {accepting} ELSE {}
-------------------------------------------------------------------------------
(* start: socket, bind or listen may fail, and bind does while somebody       *)
(* listens on the port.  A call on a running server forgets its socket.       *)
StartFails ==
  /\ Idle
  /\ server_socket' = Invalid
  /\ overlapped' = (overlapped \/ running)
  /\ UNCHANGED <<threads, listening, open, clients, reserved, iteration, world, inbox,
                 process, sent, joined, astray, starts>>

Start ==
  /\ Idle
  /\ Listening = {}
  /\ starts < MaxStarts
  /\ starts' = starts + 1
  /\ server_socket' = starts + 1
  /\ listening' = {starts + 1}
  /\ running' = TRUE
  /\ joinable' = TRUE
  /\ acceptor' = "test"
  /\ process' = IF joinable THEN "terminated" ELSE process
  /\ UNCHANGED <<owner, accepting, current, open, clients, reserved, iteration, world,
                 inbox, sent, joined, astray, overlapped>>

(* stop and the destructor: clear running_, close the listening socket ...    *)
StopBegin ==
  /\ Idle
  /\ running' = FALSE
  /\ owner' \in {"stopping", "destroying"}
  /\ UNCHANGED <<joinable, acceptor, accepting, current, sockets, clients, reserved,
                 iteration, world, inbox, process, history>>

StopClose ==
  /\ Alive
  /\ owner \in {"stopping", "destroying"}
  /\ owner' = IF owner = "stopping" THEN "joining" ELSE "burying"
  /\ listening' = listening \ {server_socket}
  /\ server_socket' = Invalid
  /\ UNCHANGED <<running, joinable, acceptor, accepting, current, open, clients, reserved,
                 iteration, world, inbox, process, history>>

\* ... wait for the thread, close the connections and forget them.
StopJoin ==
  /\ Alive
  /\ owner \in {"joining", "burying"}
  /\ joinable => acceptor = "exited"
  /\ joinable' = FALSE
  /\ owner' = IF owner = "joining" THEN "idle" ELSE "gone"
  /\ open' = open \ Range(clients)
  /\ clients' = << >>
  /\ joined' = [p \in Peers |-> 0]
  /\ UNCHANGED <<running, acceptor, accepting, current, server_socket, listening, reserved,
                 iteration, world, inbox, process, sent, astray, overlapped, starts>>
-------------------------------------------------------------------------------
(* accept_loop: while (running_) ...                                        *)
\* Faulty variant of TestRunning: for (;;).
TestNothing ==
  /\ Alive
  /\ acceptor = "test"
  /\ acceptor' = "call"
  /\ UNCHANGED <<running, joinable, owner, accepting, current, sockets, clients, reserved,
                 iteration, world, inbox, process, history>>

TestRunning ==
  /\ Alive
  /\ acceptor = "test"
  /\ acceptor' = IF running THEN "call" ELSE "exited"
  /\ UNCHANGED <<running, joinable, owner, accepting, current, sockets, clients, reserved,
                 iteration, world, inbox, process, history>>

\* ... accept on server_socket_ as it is now, which fails at once when it is
\* closed, and may fail for reasons of the system.
CallAccept ==
  /\ Alive
  /\ acceptor = "call"
  /\ \/ /\ server_socket \in listening
        /\ acceptor' = "blocked"
        /\ accepting' = server_socket
     \/ /\ acceptor' = "test"
        /\ UNCHANGED accepting
  /\ UNCHANGED <<running, joinable, owner, current, sockets, clients, reserved, iteration,
                 world, inbox, process, history>>

AcceptReturns(p) ==
  /\ Alive
  /\ acceptor = "blocked"
  /\ peers[p] = "pending"
  /\ peers' = [peers EXCEPT ![p] = "connected"]
  /\ open' = open \cup {p}
  /\ current' = p
  /\ acceptor' = "receive"
  /\ accepting' = Invalid
  /\ UNCHANGED <<running, joinable, owner, server_socket, listening, clients,
                 reserved, iteration, request, inbox, process, history>>

\* What a send does to the peer's inbox and to the process.
Send(p, message) ==
  \/ /\ peers[p] = "connected"
     /\ inbox' = [inbox EXCEPT ![p] = Append(@, message)]
     /\ UNCHANGED process
  \/ /\ peers[p] = "left"
     /\ process' \in {"running", "killed"}
     /\ UNCHANGED inbox

\* Faulty variant of Refuse: the connection is left open.
RefuseOpen ==
  /\ Alive
  /\ acceptor = "receive"
  /\ request[current] = "part" \/ (request[current] = "none" /\ peers[current] = "left")
  /\ acceptor' = "test"
  /\ current' = Nobody
  /\ UNCHANGED <<running, joinable, owner, accepting, sockets, clients, reserved,
                 iteration, world, inbox, process, history>>

\* handle_handshake: one recv, which has to bring the whole request.  Otherwise,
\* or when the peer has left without one, the connection is closed.
Refuse ==
  /\ Alive
  /\ acceptor = "receive"
  /\ request[current] = "part" \/ (request[current] = "none" /\ peers[current] = "left")
  /\ open' = open \ {current}
  /\ acceptor' = "test"
  /\ current' = Nobody
  /\ UNCHANGED <<running, joinable, owner, accepting, server_socket, listening,
                 clients, reserved, iteration, world, inbox, process, history>>

Answer ==
  /\ Alive
  /\ acceptor = "receive"
  /\ request[current] = "whole"
  /\ Send(current, Hello)
  /\ acceptor' = "register"
  /\ UNCHANGED <<running, joinable, owner, accepting, current, sockets, clients, reserved,
                 iteration, world, history>>

\* Who registers before a broadcast has read the end is among those it is for.
Joins(p) == joined' = [joined EXCEPT ![p] = sent - IF owner = "beginning" THEN 1 ELSE 0]

\* clients_.push_back(client), into memory that is there ...
Register ==
  /\ Alive
  /\ acceptor = "register"
  /\ Len(clients) < reserved
  /\ clients' = Append(clients, current)
  /\ acceptor' = "test"
  /\ current' = Nobody
  /\ Joins(current)
  /\ UNCHANGED <<running, joinable, owner, accepting, sockets, reserved, iteration,
                 world, inbox, process, sent, astray, overlapped, starts>>

\* ... or, when that is full, into new: the old is given back, under the feet of a
\* broadcast, ...
MoveClients ==
  /\ Alive
  /\ acceptor = "register"
  /\ Len(clients) = reserved
  /\ reserved' = IF reserved = 0 THEN 1 ELSE 2 * reserved
  /\ dangling' = (dangling \/ owner \in {"beginning", "sending"})
  /\ acceptor' = "moving"
  /\ UNCHANGED <<running, joinable, owner, accepting, current, sockets, clients, cursor, last,
                 world, inbox, process, history>>

\* ... and the new pointers are stored, the beginning ...
StoreBegin ==
  /\ Alive
  /\ acceptor = "moving"
  /\ acceptor' = "moved"
  /\ UNCHANGED <<running, joinable, owner, accepting, current, sockets, clients, reserved,
                 iteration, world, inbox, process, history>>

\* ... and the end.
StoreEnd ==
  /\ Alive
  /\ acceptor = "moved"
  /\ clients' = Append(clients, current)
  /\ acceptor' = "test"
  /\ current' = Nobody
  /\ Joins(current)
  /\ UNCHANGED <<running, joinable, owner, accepting, sockets, reserved, iteration,
                 world, inbox, process, sent, astray, overlapped, starts>>
-------------------------------------------------------------------------------
(* broadcast and broadcast_binary: build the frame, read the begin of         *)
(* clients_, which may be the one from before a move ...                      *)
BroadcastBegin ==
  /\ Idle
  /\ sent < Len(MessageSizes)
  /\ sent' = sent + 1
  /\ owner' = "beginning"
  /\ cursor' = 1
  /\ dangling' = (acceptor = "moving")
  /\ UNCHANGED <<running, joinable, acceptor, accepting, current, sockets, clients, reserved,
                 last, world, inbox, process, joined, astray, overlapped, starts>>

\* Faulty variant of ReadEnd: stops before the last client.
ReadEndShort ==
  /\ Alive
  /\ owner = "beginning"
  /\ owner' = "sending"
  /\ dangling' = (dangling \/ acceptor \in {"moving", "moved"})
  /\ last' \in {Len(clients) - 1} \cup IF dangling' THEN 0 .. MaxAstray ELSE {}
  /\ astray' = astray \cup IF dangling' THEN {sent} ELSE {}
  /\ UNCHANGED <<running, joinable, acceptor, accepting, current, sockets, clients, reserved,
                 cursor, world, inbox, process, sent, joined, overlapped, starts>>

\* ... and the end.  Between pointers into different memory lies any distance.
ReadEnd ==
  /\ Alive
  /\ owner = "beginning"
  /\ owner' = "sending"
  /\ dangling' = (dangling \/ acceptor \in {"moving", "moved"})
  /\ last' \in {Len(clients)} \cup IF dangling' THEN 0 .. MaxAstray ELSE {}
  /\ astray' = astray \cup IF dangling' THEN {sent} ELSE {}
  /\ UNCHANGED <<running, joinable, acceptor, accepting, current, sockets, clients, reserved,
                 cursor, world, inbox, process, sent, joined, overlapped, starts>>

\* The frame is sent to one after the other.
BroadcastSend ==
  /\ Alive
  /\ owner = "sending"
  /\ cursor <= last
  /\ ~ dangling
  /\ Send(clients[cursor], Frame(sent))
  /\ cursor' = cursor + 1
  /\ UNCHANGED <<threads, sockets, clients, reserved, last, dangling, world, history>>

\* Memory given back may still hold the client, another number of a socket, or
\* none: the frame goes there, or nowhere, and nobody looks at what send returns;
\* or the read, or a send to a socket that listens, ends the process.
BroadcastAstray ==
  /\ Alive
  /\ owner = "sending"
  /\ cursor <= last
  /\ dangling
  /\ \/ \E p \in open : Send(p, Frame(sent))
     \/ /\ process' \in {"running", "fault"}
        /\ UNCHANGED inbox
  /\ cursor' = cursor + 1
  /\ astray' = astray \cup {sent}
  /\ UNCHANGED <<threads, sockets, clients, reserved, last, dangling, world, sent, joined,
                 overlapped, starts>>

BroadcastEnd ==
  /\ Alive
  /\ owner = "sending"
  /\ cursor > last
  /\ owner' = "idle"
  /\ cursor' = 1
  /\ last' = 0
  /\ dangling' = FALSE
  /\ UNCHANGED <<running, joinable, acceptor, accepting, current, sockets, clients,
                 reserved, world, inbox, process, history>>
-------------------------------------------------------------------------------
(* The peers.                                                               *)
Connect(p) ==
  /\ Alive
  /\ Listening # {}
  /\ peers[p] = "away"
  /\ peers' = [peers EXCEPT ![p] = "pending"]
  /\ UNCHANGED <<threads, sockets, clients, reserved, iteration, request, inbox, process,
                 history>>

SendRequest(p) ==
  /\ Alive
  /\ peers[p] \in {"pending", "connected"}
  /\ request[p] = "none"
  /\ \E r \in {"whole", "part"} : request' = [request EXCEPT ![p] = r]
  /\ UNCHANGED <<threads, sockets, clients, reserved, iteration, peers, inbox, process,
                 history>>

Leave(p) ==
  /\ Alive
  /\ peers[p] = "connected"
  /\ peers' = [peers EXCEPT ![p] = "left"]
  /\ UNCHANGED <<threads, sockets, clients, reserved, iteration, request, inbox, process,
                 history>>
-------------------------------------------------------------------------------
Owner == \/ StartFails \/ Start \/ StopBegin \/ StopClose \/ StopJoin
         \/ BroadcastBegin \/ ReadEnd \/ BroadcastSend \/ BroadcastAstray \/ BroadcastEnd

Acceptor == \/ TestRunning \/ CallAccept \/ Refuse \/ Answer
            \/ Register \/ MoveClients \/ StoreBegin \/ StoreEnd
            \/ \E p \in Peers : AcceptReturns(p)

Peer == \E p \in Peers : Connect(p) \/ SendRequest(p) \/ Leave(p)

Next == Owner \/ Acceptor \/ Peer

Spec == Init /\ [][Next]_vars

\* Both threads run.  Nothing makes the owner call anything, nor a peer connect,
\* speak or leave.
FairSpec ==
  /\ Spec
  /\ WF_vars(Acceptor)
  /\ WF_vars(StopClose \/ StopJoin)
-------------------------------------------------------------------------------
(* What RFC 6455 makes of a header: opcode and size are told apart by it.     *)
Bytes(header) == FoldLeft(LAMBDA value, byte : 256 * value + byte, 0, header)
Decoded(header) == IF Head(header) < 126 THEN Head(header) ELSE Bytes(Tail(header))

(* Every frame a peer has been sent tells it the size of the message: the     *)
(* limits at 125 and 65535 (lines 304 and 306) are where the forms change.    *)
FramesReadable ==
  \A p \in Peers : \A i \in 1 .. Len(inbox[p]) :
    LET frame == inbox[p][i]
    IN  frame # Hello =>
          /\ Decoded(frame.header) = frame.size
          /\ Len(frame.header) = CASE Head(frame.header) = 126 -> 3
                                   [] Head(frame.header) = 127 -> 9
                                   [] OTHER -> 1

\* The broadcasts that have passed the i-th client.
Passed(i) ==
  IF owner = "beginning" \/ (owner = "sending" /\ cursor <= i) THEN sent - 1 ELSE sent

Numbers(p) == {inbox[p][k].number : k \in DOMAIN inbox[p]}

\* What may come before what: only a frame gone astray twice, or before the answer.
Before(n, m) == n < m \/ (n \in astray /\ m \in {0, n})

(* What a broadcast that met a move of clients_ does to the frames is confined *)
(* to its own: those may reach a peer or not, twice, or before the answer to   *)
(* its handshake.  Otherwise a peer in clients_ has got that answer and the    *)
(* frame of every broadcast which read the end after it registered, no other,  *)
(* and everything in order and once, also when peers register while a          *)
(* broadcast is under way and memory is there for them (lines 242 and 321).    *)
FramesInOrder ==
  Alive =>
    /\ \A p \in Peers : \A k \in DOMAIN inbox[p] :
         /\ inbox[p][k] \in {Hello} \cup {Frame(n) : n \in 1 .. sent}
         /\ \A j \in 1 .. k - 1 : Before(inbox[p][j].number, inbox[p][k].number)
    /\ \A i \in DOMAIN clients :
         LET p == clients[i]
         IN  peers[p] = "connected" =>
               Numbers(p) \ astray = {0} \cup (((joined[p] + 1) .. Passed(i)) \ astray)

(* When stop or the destructor has returned, every socket has been closed:    *)
(* that of a connection which came in during stop, and of a refused one, too. *)
(* Not so when start was called twice, which forgets a listening socket.      *)
NoSocketLost ==
  Alive /\ owner \in {"idle", "gone"} /\ ~ joinable /\ ~ overlapped =>
    /\ open = {}
    /\ listening = {}

(* What a stop can be kept waiting by: nobody connects, or who did is silent. *)
WaitsForPeer ==
  \/ acceptor = "blocked"
  \/ /\ acceptor = "receive"
     /\ request[current] = "none"
     /\ peers[current] = "connected"

(* stop and the destructor return, unless the accept thread waits for a peer  *)
(* for ever: with running_ cleared every other path leaves the loop.          *)
StopReturns ==
  \/ <>[]WaitsForPeer
  \/ owner \in {"stopping", "destroying"} ~> owner \in {"idle", "gone"} \/ ~ Alive
===============================================================================
