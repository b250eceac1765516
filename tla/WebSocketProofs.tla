----------------------------- MODULE WebSocketProofs -----------------------------
(***************************************************************************)
(* Proofs about WebSocketServer: for any set of peers, any messages and    *)
(* any number of starts, every client gets what is broadcast in order and  *)
(* can read it, but for the frames of a broadcast that met a move of the   *)
(* clients, and stop leaves no socket open.                                *)
(***************************************************************************)
EXTENDS WebSocketServer, SequenceTheorems, WellFoundedInduction, TLAPS

Frames == {Hello} \cup {Frame(n) : n \in DOMAIN MessageSizes}

ServerTypeOK ==
  /\ running \in BOOLEAN /\ joinable \in BOOLEAN /\ overlapped \in BOOLEAN
  /\ server_socket \in Nat /\ starts \in Nat
  /\ cursor \in Nat /\ last \in Nat /\ dangling \in BOOLEAN
  /\ owner \in {"idle", "beginning", "sending", "stopping", "destroying", "joining", "burying",
                "gone"}
  /\ acceptor \in {"none", "test", "call", "blocked", "receive", "register", "moving", "moved",
                   "exited"}
  /\ clients \in Seq(Peers) /\ reserved \in Nat
  /\ peers \in [Peers -> {"away", "pending", "connected", "left"}]
  /\ inbox \in [Peers -> Seq(Frames)]
  /\ sent \in 0 .. Len(MessageSizes)
  /\ astray \subseteq 1 .. sent
  /\ joined \in [Peers -> Nat]
  /\ process \in {"running", "terminated", "killed", "fault"}

\* The accept thread has answered a connection that is not in clients_ yet, or has
\* yet to answer it.
Registering == acceptor \in {"register", "moving", "moved"}
Handling == acceptor = "receive" \/ Registering

(* The connections that are open are the clients' and the one at hand, each   *)
(* of a peer of its own; a peer is accepted once.                             *)
Connections ==
  /\ open = Range(clients) \cup IF Handling THEN {current} ELSE {}
  /\ Handling => current \in Peers
                 /\ (\A i \in 1 .. Len(clients) : clients[i] # current)
                 /\ peers[current] \in {"connected", "left"}
  /\ \A i \in 1 .. Len(clients) : peers[clients[i]] \in {"connected", "left"}
  /\ \A i, j \in 1 .. Len(clients) : clients[i] = clients[j] => i = j

(* No thread, no clients; no server that runs, no socket that listens, once   *)
(* stop has closed it.                                                        *)
Threads ==
  /\ running => joinable
  /\ ~ joinable => acceptor \in {"none", "exited"} /\ clients = << >>
  /\ owner \in {"stopping", "destroying", "joining", "burying", "gone"} => ~ running
  /\ ~ overlapped => /\ listening \subseteq {server_socket}
                     /\ running \/ owner \in {"stopping", "destroying"} \/ listening = {}

\* The numbers of the frames in an inbox.
Got(box) == {box[k].number : k \in DOMAIN box}

(* Frames gone astray aside, nobody is sent anything before the answer to its *)
(* handshake, and nothing but that before it is in clients_.                  *)
Greeted ==
  /\ \A p \in Peers : peers[p] \in {"away", "pending"} => inbox[p] = << >>
  /\ acceptor = "receive" => \A n \in Nat \ astray : n \notin Got(inbox[current])
  /\ Registering /\ peers[current] = "connected" =>
       \A n \in Nat \ astray : n \in Got(inbox[current]) <=> n = 0

(* While the iterator is good, who registers behind the end it was given is   *)
(* not among those a broadcast is for, who is before it is, and the iterator  *)
(* is between the two.                                                        *)
Sending ==
  /\ \A i \in 1 .. Len(clients) : joined[clients[i]] <= sent
  /\ owner = "beginning" =>
       /\ 1 <= sent /\ sent \notin astray /\ cursor = 1
       /\ \A i \in 1 .. Len(clients) : joined[clients[i]] < sent
  /\ owner = "sending" =>
       /\ 1 <= sent /\ 1 <= cursor
       /\ ~ dangling => sent \notin astray
       /\ sent \notin astray =>
            /\ cursor <= last + 1 /\ last <= Len(clients)
            /\ \A i \in 1 .. Len(clients) :
                 IF i <= last THEN joined[clients[i]] < sent ELSE joined[clients[i]] = sent

\* What may come before what, given the broadcasts that went astray.
MayPrecede(strays, n, m) == n < m \/ (n \in strays /\ m \in {0, n})

(* The two parts of FramesInOrder: what is in an inbox is in order ...        *)
Delivered ==
  \A p \in Peers : \A k \in 1 .. Len(inbox[p]) :
    /\ inbox[p][k] \in {Hello} \cup {Frame(n) : n \in 1 .. sent}
    /\ \A j \in 1 .. k - 1 : MayPrecede(astray, inbox[p][j].number, inbox[p][k].number)

(* ... and a connected client lacks nothing.                                  *)
Complete ==
  \A i \in 1 .. Len(clients) :
    peers[clients[i]] = "connected" =>
      \A n \in Nat \ astray :
        n \in Got(inbox[clients[i]]) <=> n = 0 \/ (joined[clients[i]] < n /\ n <= Passed(i))

Served == Connections /\ Threads /\ Greeted /\ Sending /\ Delivered /\ Complete

ServerInv == ServerTypeOK /\ (Alive => Served)
-------------------------------------------------------------------------------
(* Sequences and frames.                                                    *)

\* The members of a sequence.
LEMMA Members ==
  ASSUME NEW S, NEW s \in Seq(S), NEW e \in S
  PROVE  /\ Range(s) = {s[i] : i \in 1 .. Len(s)}
         /\ Range(Append(s, e)) = Range(s) \cup {e}
         /\ Range(<< >>) = {}
<1>1. DOMAIN s = 1 .. Len(s) /\ Len(s) \in Nat
  BY LenProperties
<1>2. /\ DOMAIN Append(s, e) = 1 .. Len(s) + 1
      /\ \A i \in 1 .. Len(s) : Append(s, e)[i] = s[i]
      /\ Append(s, e)[Len(s) + 1] = e
  BY AppendProperties, LenProperties
<1>3. 1 .. Len(s) + 1 = (1 .. Len(s)) \cup {Len(s) + 1}
  BY <1>1
<1>4. Range(Append(s, e)) = Range(s) \cup {e}
  BY <1>1, <1>2, <1>3 DEF Range
<1>5. Range(<< >>) = {}
  BY DEF Range
<1> QED
  BY <1>1, <1>4, <1>5 DEF Range

\* A frame tells its number.
LEMMA Numbered ==
  /\ Hello \in Frames /\ Hello.number = 0
  /\ \A n \in DOMAIN MessageSizes : Frame(n) \in Frames /\ Frame(n).number = n
<1>1. Hello.number = 0
  BY DEF Hello
<1>2. \A n \in DOMAIN MessageSizes : Frame(n).number = n
  BY DEF Frame
<1> QED
  BY <1>1, <1>2 DEF Frames

\* The messages there are.
LEMMA MessagesGiven ==
  /\ Len(MessageSizes) \in Nat /\ DOMAIN MessageSizes = 1 .. Len(MessageSizes)
  /\ \A n \in DOMAIN MessageSizes : MessageSizes[n] \in Nat
<1>1. MessageSizes \in Seq(Nat)
  BY ServerAssumption DEF ServerAssumption
<1> QED
  BY <1>1, LenProperties, ElementOfSeq

\* One more number.
LEMMA GotOneMore ==
  ASSUME NEW S, NEW box \in Seq(S), NEW e \in S
  PROVE  Got(Append(box, e)) = Got(box) \cup {e.number}
<1>1. DOMAIN box = 1 .. Len(box) /\ Len(box) \in Nat
  BY LenProperties
<1>2. /\ DOMAIN Append(box, e) = 1 .. Len(box) + 1
      /\ \A i \in 1 .. Len(box) : Append(box, e)[i] = box[i]
      /\ Append(box, e)[Len(box) + 1] = e
  BY AppendProperties, LenProperties
<1>3. 1 .. Len(box) + 1 = (1 .. Len(box)) \cup {Len(box) + 1}
  BY <1>1
<1> QED
  BY <1>1, <1>2, <1>3 DEF Got

LEMMA GotNothing == Got(<< >>) = {}
BY DEF Got

\* What is in an inbox has a number among those that were sent.
LEMMA GotOfSent ==
  ASSUME ServerTypeOK, Delivered, NEW p \in Peers, NEW n \in Got(inbox[p])
  PROVE  n \in 0 .. sent
<1>1. inbox[p] \in Seq(Frames) /\ sent \in 0 .. Len(MessageSizes)
  BY DEF ServerTypeOK
<1>2. DOMAIN inbox[p] = 1 .. Len(inbox[p])
  BY <1>1, LenProperties
<1>3. PICK k \in 1 .. Len(inbox[p]) : n = inbox[p][k].number
  BY <1>2 DEF Got
<1>4. inbox[p][k] \in {Hello} \cup {Frame(m) : m \in 1 .. sent}
  BY DEF Delivered
<1>5. \A m \in 1 .. sent : m \in DOMAIN MessageSizes
  BY <1>1, MessagesGiven
<1>6. CASE inbox[p][k] = Hello
  BY <1>1, <1>3, <1>6, Numbered
<1>7. CASE \E m \in 1 .. sent : inbox[p][k] = Frame(m)
  BY <1>1, <1>3, <1>5, <1>7, Numbered
<1> QED
  BY <1>4, <1>6, <1>7

\* The clients are peers.
LEMMA ClientsArePeers ==
  ASSUME ServerTypeOK
  PROVE  /\ Len(clients) \in Nat /\ DOMAIN clients = 1 .. Len(clients)
         /\ \A i \in 1 .. Len(clients) : clients[i] \in Peers
BY LenProperties, ElementOfSeq DEF ServerTypeOK
-------------------------------------------------------------------------------
(* Steps that leave the clients and what they are sent alone.               *)

LEMMA Quiet ==
  ASSUME Connections, Greeted, Sending, Delivered, Complete,
         UNCHANGED <<clients, open, inbox, sent, joined, astray, cursor, last, dangling, peers>>,
         \/ UNCHANGED <<acceptor, current>>
         \/ ~ Handling /\ ~ Handling',
         \/ owner' = owner
         \/ owner \notin {"beginning", "sending"} /\ owner' \notin {"beginning", "sending"}
  PROVE  Connections' /\ Greeted' /\ Sending' /\ Delivered' /\ Complete'
<1>1. Connections'
  BY DEF Connections, Handling, Registering
<1>2. Greeted'
  BY DEF Greeted, Handling, Registering
<1>3. Sending'
  BY DEF Sending
<1>4. Delivered'
  BY DEF Delivered
<1>5. Complete'
  <2>1. \A i \in 1 .. Len(clients) : Passed(i)' = Passed(i)
    BY DEF Passed
  <2> QED
    BY <2>1 DEF Complete
<1> QED
  BY <1>1, <1>2, <1>3, <1>4, <1>5

\* What a send does to the inboxes.
LEMMA SendDoes ==
  ASSUME ServerTypeOK, Alive, NEW p \in Peers, NEW message \in Frames, Send(p, message)
  PROVE  /\ inbox' \in [Peers -> Seq(Frames)]
         /\ process' \in {"running", "terminated", "killed", "fault"}
         /\ \A q \in Peers : q # p => inbox'[q] = inbox[q]
         /\ peers[p] # "connected" => inbox' = inbox
         /\ peers[p] = "connected" => /\ inbox'[p] = Append(inbox[p], message)
                                      /\ Got(inbox'[p]) = Got(inbox[p]) \cup {message.number}
<1>1. inbox \in [Peers -> Seq(Frames)] /\ inbox[p] \in Seq(Frames)
  BY DEF ServerTypeOK
<1>2. Append(inbox[p], message) \in Seq(Frames)
  BY <1>1, AppendProperties
<1>3. Got(Append(inbox[p], message)) = Got(inbox[p]) \cup {message.number}
  BY <1>1, GotOneMore
<1>4. CASE peers[p] = "connected"
  <2>1. inbox' = [inbox EXCEPT ![p] = Append(inbox[p], message)] /\ process' = process
    BY <1>4 DEF Send
  <2> QED
    BY <1>1, <1>2, <1>3, <1>4, <2>1 DEF Alive
<1>5. CASE peers[p] # "connected"
  <2>1. inbox' = inbox /\ process' \in {"running", "killed"}
    BY <1>5 DEF Send
  <2> QED
    BY <1>1, <1>5, <2>1
<1> QED
  BY <1>4, <1>5

\* A frame that may come after all that is there keeps the order.
LEMMA SendInOrder ==
  ASSUME ServerTypeOK, Alive, Delivered, NEW p \in Peers, NEW message \in Frames,
         Send(p, message), sent' = sent, astray \subseteq astray',
         message \in {Hello} \cup {Frame(n) : n \in 1 .. sent},
         peers[p] = "connected" => \A n \in Got(inbox[p]) : MayPrecede(astray', n, message.number)
  PROVE  Delivered'
<1> SUFFICES ASSUME NEW q \in Peers, NEW k \in 1 .. Len(inbox'[q])
             PROVE  /\ inbox'[q][k] \in {Hello} \cup {Frame(n) : n \in 1 .. sent}
                    /\ \A j \in 1 .. k - 1 : MayPrecede(astray', inbox'[q][j].number, inbox'[q][k].number)
  BY DEF Delivered
<1>1. inbox[q] \in Seq(Frames) /\ Len(inbox[q]) \in Nat /\ DOMAIN inbox[q] = 1 .. Len(inbox[q])
  BY LenProperties DEF ServerTypeOK
<1>2. ASSUME k \in 1 .. Len(inbox[q]), \A j \in 1 .. k : inbox'[q][j] = inbox[q][j]
      PROVE  /\ inbox'[q][k] \in {Hello} \cup {Frame(n) : n \in 1 .. sent}
             /\ \A j \in 1 .. k - 1 : MayPrecede(astray', inbox'[q][j].number, inbox'[q][k].number)
  <2>1. /\ inbox[q][k] \in {Hello} \cup {Frame(n) : n \in 1 .. sent}
        /\ \A j \in 1 .. k - 1 : MayPrecede(astray, inbox[q][j].number, inbox[q][k].number)
    BY <1>2 DEF Delivered
  <2>2. \A j \in 1 .. k - 1 : j \in 1 .. k
    BY <1>1, <1>2
  <2>3. k \in 1 .. k
    BY <1>1, <1>2
  <2> QED
    BY <1>2, <2>1, <2>2, <2>3 DEF MayPrecede
<1>3. CASE inbox'[q] = inbox[q]
  BY <1>2, <1>3
<1>4. CASE q = p /\ peers[p] = "connected"
  <2>1. inbox'[q] = Append(inbox[q], message)
    BY <1>4, SendDoes
  <2>2. /\ Len(inbox'[q]) = Len(inbox[q]) + 1
        /\ \A j \in 1 .. Len(inbox[q]) : inbox'[q][j] = inbox[q][j]
        /\ inbox'[q][Len(inbox[q]) + 1] = message
    BY <1>1, <2>1, AppendProperties
  <2>3. CASE k \in 1 .. Len(inbox[q])
    <3>1. \A j \in 1 .. k : j \in 1 .. Len(inbox[q])
      BY <1>1, <2>3
    <3> QED
      BY <1>2, <2>2, <2>3, <3>1
  <2>4. CASE k = Len(inbox[q]) + 1
    <3>1. \A j \in 1 .. k - 1 : j \in DOMAIN inbox[q] /\ inbox'[q][j] = inbox[q][j]
      BY <1>1, <2>2, <2>4
    <3>2. \A j \in 1 .. k - 1 : inbox'[q][j].number \in Got(inbox[q])
      BY <3>1 DEF Got
    <3> QED
      BY <1>4, <2>2, <2>4, <3>2
  <2> QED
    BY <1>1, <2>2, <2>3, <2>4
<1>5. CASE q # p \/ peers[p] # "connected"
  BY <1>3, <1>5, SendDoes
<1> QED
  BY <1>4, <1>5
-------------------------------------------------------------------------------
(* What the owner does.                                                     *)

LEMMA StartFailsStep == ServerTypeOK /\ Served /\ StartFails => ServerTypeOK' /\ Served'
<1> SUFFICES ASSUME ServerTypeOK, Served, StartFails PROVE ServerTypeOK' /\ Served'
  OBVIOUS
<1>1. /\ owner = "idle" /\ Alive /\ server_socket' = Invalid
      /\ overlapped' = (overlapped \/ running)
      /\ UNCHANGED <<running, joinable, owner, acceptor, current, listening, open, clients,
                     reserved, cursor, last, dangling, peers, inbox, process, sent, joined,
                     astray, starts>>
  BY DEF StartFails, Idle, threads, iteration, world
<1>2. Connections /\ Threads /\ Greeted /\ Sending /\ Delivered /\ Complete
  BY DEF Served
<1>3. ServerTypeOK'
  <2>1. overlapped' \in BOOLEAN
    BY <1>1
  <2> QED
    BY <1>1, <2>1 DEF ServerTypeOK, Invalid
<1>4. Threads'
  <2>1. ~ overlapped' => listening = {}
    BY <1>1, <1>2 DEF Threads
  <2>2. /\ running' => joinable'
        /\ ~ joinable' => acceptor' \in {"none", "exited"} /\ clients' = << >>
        /\ owner' = "idle"
    BY <1>1, <1>2 DEF Threads
  <2> QED
    BY <1>1, <2>1, <2>2 DEF Threads
<1>5. Connections' /\ Greeted' /\ Sending' /\ Delivered' /\ Complete'
  BY <1>1, <1>2, Quiet
<1> QED
  BY <1>3, <1>4, <1>5 DEF Served

LEMMA StartStep == ServerTypeOK /\ Served /\ Start => ServerTypeOK' /\ (Alive' => Served')
<1> SUFFICES ASSUME ServerTypeOK, Served, Start PROVE ServerTypeOK' /\ (Alive' => Served')
  OBVIOUS
<1>1. /\ owner = "idle" /\ Alive /\ server_socket' = starts + 1 /\ starts' = starts + 1
      /\ listening' = {starts + 1} /\ running' = TRUE /\ joinable' = TRUE /\ acceptor' = "test"
      /\ process' = IF joinable THEN "terminated" ELSE process
      /\ UNCHANGED <<owner, current, open, clients, reserved, cursor, last, dangling, peers,
                     inbox, sent, joined, astray, overlapped>>
  BY DEF Start, Idle, iteration, world
<1>2. Connections /\ Threads /\ Greeted /\ Sending /\ Delivered /\ Complete
  BY DEF Served
<1>3. ServerTypeOK'
  <2>1. running' \in BOOLEAN /\ joinable' \in BOOLEAN
    BY <1>1
  <2>2. server_socket' \in Nat /\ starts' \in Nat
    BY <1>1 DEF ServerTypeOK
  <2>3. process' \in {"running", "terminated", "killed", "fault"} /\ acceptor' = "test"
    BY <1>1 DEF ServerTypeOK
  <2> QED
    BY <1>1, <2>1, <2>2, <2>3 DEF ServerTypeOK
<1>4. ASSUME Alive' PROVE Served'
  <2>1. ~ joinable
    BY <1>1, <1>4 DEF Alive
  <2>2. ~ Handling /\ ~ Handling'
    BY <1>1, <1>2, <2>1 DEF Threads, Handling, Registering
  <2>3. Threads'
    BY <1>1 DEF Threads
  <2>4. Connections' /\ Greeted' /\ Sending' /\ Delivered' /\ Complete'
    BY <1>1, <1>2, <2>2, Quiet
  <2> QED
    BY <2>3, <2>4 DEF Served
<1> QED
  BY <1>3, <1>4

LEMMA StopStep ==
  ServerTypeOK /\ Served /\ (StopBegin \/ StopClose) => ServerTypeOK' /\ Served'
<1> SUFFICES ASSUME ServerTypeOK, Served, StopBegin \/ StopClose PROVE ServerTypeOK' /\ Served'
  OBVIOUS
<1>1. /\ Alive
      /\ UNCHANGED <<joinable, acceptor, current, open, clients, reserved, cursor, last, dangling,
                     peers, inbox, process, sent, joined, astray, overlapped, starts>>
      /\ owner \notin {"beginning", "sending"} /\ owner' \notin {"beginning", "sending"}
  BY DEF StopBegin, StopClose, Idle, sockets, iteration, world, history
<1>2. Connections /\ Threads /\ Greeted /\ Sending /\ Delivered /\ Complete
  BY DEF Served
<1>3. \/ /\ owner = "idle" /\ running' = FALSE /\ owner' \in {"stopping", "destroying"}
         /\ UNCHANGED <<server_socket, listening>>
      \/ /\ owner \in {"stopping", "destroying"} /\ owner' \in {"joining", "burying"}
         /\ listening' = listening \ {server_socket} /\ server_socket' = Invalid
         /\ running' = running
  BY DEF StopBegin, StopClose, Idle, sockets
<1>4. ServerTypeOK'
  <2>1. running' \in BOOLEAN
    BY <1>3 DEF ServerTypeOK
  <2>2. server_socket' \in Nat
    BY <1>3 DEF ServerTypeOK, Invalid
  <2>3. owner' \in {"stopping", "destroying", "joining", "burying"}
    BY <1>3
  <2> QED
    BY <1>1, <2>1, <2>2, <2>3 DEF ServerTypeOK
<1>5. Threads'
  BY <1>1, <1>2, <1>3 DEF Threads
<1>6. Connections' /\ Greeted' /\ Sending' /\ Delivered' /\ Complete'
  BY <1>1, <1>2, Quiet
<1> QED
  BY <1>4, <1>5, <1>6 DEF Served

LEMMA StopJoinStep == ServerTypeOK /\ Served /\ StopJoin => ServerTypeOK' /\ Served'
<1> SUFFICES ASSUME ServerTypeOK, Served, StopJoin PROVE ServerTypeOK' /\ Served'
  OBVIOUS
<1>1. /\ Alive /\ owner \in {"joining", "burying"}
      /\ joinable => acceptor = "exited"
      /\ joinable' = FALSE /\ owner' \in {"idle", "gone"}
      /\ open' = open \ Range(clients) /\ clients' = << >>
      /\ joined' = [p \in Peers |-> 0]
      /\ UNCHANGED <<running, acceptor, current, server_socket, listening, reserved, cursor, last,
                     dangling, peers, inbox, process, sent, astray, overlapped, starts>>
  BY DEF StopJoin, iteration, world
<1>2. Connections /\ Threads /\ Greeted /\ Sending /\ Delivered
  BY DEF Served
<1>3. acceptor \in {"none", "exited"}
  BY <1>1, <1>2 DEF Threads
<1>4. Len(clients') = 0 /\ clients' \in Seq(Peers) /\ DOMAIN clients' = {} /\ Range(clients') = {}
  BY <1>1 DEF Range
<1>5. ServerTypeOK'
  <2>1. joinable' \in BOOLEAN /\ joined' \in [Peers -> Nat]
    BY <1>1
  <2> QED
    BY <1>1, <1>4, <2>1 DEF ServerTypeOK
<1>6. Connections'
  <2>1. open' = {} /\ ~ Handling'
    BY <1>1, <1>2, <1>3 DEF Connections, Handling, Registering
  <2> QED
    BY <1>4, <2>1 DEF Connections
<1>7. Threads'
  BY <1>1, <1>2, <1>3 DEF Threads
<1>8. Greeted' /\ Delivered'
  BY <1>1, <1>2, <1>3 DEF Greeted, Registering, Delivered
<1>9. Sending' /\ Complete'
  BY <1>1, <1>4 DEF Sending, Complete
<1> QED
  BY <1>5, <1>6, <1>7, <1>8, <1>9 DEF Served

LEMMA BroadcastBeginStep ==
  ServerTypeOK /\ Served /\ BroadcastBegin => ServerTypeOK' /\ Served'
<1> SUFFICES ASSUME ServerTypeOK, Served, BroadcastBegin PROVE ServerTypeOK' /\ Served'
  OBVIOUS
<1>1. /\ Alive /\ owner = "idle" /\ sent < Len(MessageSizes) /\ sent' = sent + 1
      /\ owner' = "beginning" /\ cursor' = 1 /\ dangling' \in BOOLEAN
      /\ UNCHANGED <<running, joinable, acceptor, current, server_socket, listening, open,
                     clients, reserved, last, peers, inbox, process, joined, astray, overlapped,
                     starts>>
  BY DEF BroadcastBegin, Idle, sockets, world
<1>2. Connections /\ Threads /\ Greeted /\ Sending /\ Delivered /\ Complete
  BY DEF Served
<1>3. /\ sent \in Nat /\ sent' \in 0 .. Len(MessageSizes) /\ 1 .. sent \subseteq 1 .. sent'
      /\ astray \subseteq 1 .. sent /\ sent' \notin astray
  BY <1>1, MessagesGiven DEF ServerTypeOK
<1>4. ServerTypeOK'
  <2>1. astray' \subseteq 1 .. sent'
    BY <1>1, <1>3
  <2> QED
    BY <1>1, <1>3, <2>1 DEF ServerTypeOK
<1>5. Connections' /\ Greeted' /\ Threads'
  BY <1>1, <1>2 DEF Connections, Greeted, Threads, Handling, Registering
<1>6. Sending'
  <2>1. \A i \in 1 .. Len(clients) : joined[clients[i]] \in Nat /\ joined[clients[i]] <= sent
    BY <1>2, ClientsArePeers DEF ServerTypeOK, Sending
  <2> QED
    BY <1>1, <1>3, <2>1 DEF Sending
<1>7. Delivered'
  BY <1>1, <1>2, <1>3 DEF Delivered
<1>8. Complete'
  <2>1. \A i \in 1 .. Len(clients) : Passed(i)' = Passed(i)
    BY <1>1, <1>3 DEF Passed
  <2> QED
    BY <1>1, <1>2, <2>1 DEF Complete
<1> QED
  BY <1>4, <1>5, <1>6, <1>7, <1>8 DEF Served

LEMMA ReadEndStep == ServerTypeOK /\ Served /\ ReadEnd => ServerTypeOK' /\ Served'
<1> SUFFICES ASSUME ServerTypeOK, Served, ReadEnd PROVE ServerTypeOK' /\ Served'
  OBVIOUS
<1>1. /\ Alive /\ owner = "beginning" /\ owner' = "sending"
      /\ dangling' = (dangling \/ acceptor \in {"moving", "moved"})
      /\ last' \in {Len(clients)} \cup IF dangling' THEN 0 .. MaxAstray ELSE {}
      /\ astray' = astray \cup IF dangling' THEN {sent} ELSE {}
      /\ UNCHANGED <<running, joinable, acceptor, current, server_socket, listening, open,
                     clients, reserved, cursor, peers, inbox, process, sent, joined, overlapped,
                     starts>>
  BY DEF ReadEnd, sockets, world
<1>2. Connections /\ Threads /\ Greeted /\ Sending /\ Delivered /\ Complete
  BY DEF Served
<1>3. Len(clients) \in Nat /\ MaxAstray \in Nat
  BY ClientsArePeers, ServerAssumption DEF ServerAssumption
<1>4. /\ 1 <= sent /\ sent \in Nat /\ sent \notin astray /\ cursor = 1
      /\ \A i \in 1 .. Len(clients) : joined[clients[i]] < sent
  BY <1>1, <1>2, MessagesGiven DEF ServerTypeOK, Sending
<1>5. ServerTypeOK'
  <2>1. dangling' \in BOOLEAN /\ last' \in Nat
    BY <1>1, <1>3 DEF ServerTypeOK
  <2>2. astray' \subseteq 1 .. sent
    BY <1>1, <1>4 DEF ServerTypeOK
  <2> QED
    BY <1>1, <2>1, <2>2 DEF ServerTypeOK
<1>6. Connections' /\ Threads'
  BY <1>1, <1>2 DEF Connections, Threads, Handling, Registering
<1>7. Greeted' /\ Delivered'
  BY <1>1, <1>2 DEF Greeted, Delivered, MayPrecede, Registering
<1>8. Sending'
  <2>1. ASSUME ~ dangling'
        PROVE  sent \notin astray' /\ cursor <= last' + 1 /\ last' <= Len(clients)
               /\ \A i \in 1 .. Len(clients) : i <= last'
    BY <1>1, <1>3, <1>4, <2>1
  <2>2. dangling' => sent \in astray'
    BY <1>1
  <2> QED
    BY <1>1, <1>2, <1>4, <2>1, <2>2 DEF Sending
<1>9. Complete'
  <2>1. \A i \in 1 .. Len(clients) : Passed(i)' = Passed(i)
    BY <1>1, <1>4 DEF Passed
  <2> QED
    BY <1>1, <1>2, <2>1 DEF Complete
<1> QED
  BY <1>5, <1>6, <1>7, <1>8, <1>9 DEF Served

\* The frame that is being broadcast.
LEMMA FrameOnItsWay ==
  ASSUME ServerTypeOK, 1 <= sent
  PROVE  /\ sent \in Nat /\ Frame(sent) \in Frames /\ Frame(sent).number = sent
         /\ Frame(sent) \in {Hello} \cup {Frame(n) : n \in 1 .. sent}
<1>1. sent \in DOMAIN MessageSizes /\ sent \in Nat /\ sent \in 1 .. sent
  BY MessagesGiven DEF ServerTypeOK
<1> QED
  BY <1>1, Numbered

\* One frame on its way.
LEMMA BroadcastSendStep ==
  ServerTypeOK /\ Served /\ BroadcastSend => ServerTypeOK' /\ (Alive' => Served')
<1> SUFFICES ASSUME ServerTypeOK, Served, BroadcastSend
             PROVE  ServerTypeOK' /\ (Alive' => Served')
  OBVIOUS
<1> DEFINE c == clients[cursor]
           f == Frame(sent)
<1>1. /\ Alive /\ owner = "sending" /\ cursor <= last /\ cursor' = cursor + 1 /\ ~ dangling
      /\ Send(c, f)
      /\ UNCHANGED <<owner, running, joinable, acceptor, current, server_socket, listening, open,
                     clients, reserved, last, dangling, peers, sent, joined, astray, overlapped,
                     starts>>
  BY DEF BroadcastSend, threads, sockets, world, history
<1>2. Connections /\ Threads /\ Greeted /\ Sending /\ Delivered /\ Complete
  BY DEF Served
<1>3. /\ 1 <= sent /\ sent \notin astray /\ 1 <= cursor /\ last <= Len(clients)
      /\ \A i \in 1 .. Len(clients) :
           IF i <= last THEN joined[clients[i]] < sent ELSE joined[clients[i]] = sent
  BY <1>1, <1>2 DEF Sending
<1>4. /\ sent \in Nat /\ cursor \in Nat /\ last \in Nat /\ Len(clients) \in Nat
      /\ cursor \in 1 .. Len(clients) /\ c \in Peers
      /\ f \in Frames /\ f.number = sent /\ f \in {Hello} \cup {Frame(n) : n \in 1 .. sent}
  <2>1. cursor \in Nat /\ last \in Nat /\ Len(clients) \in Nat
    BY ClientsArePeers DEF ServerTypeOK
  <2>2. cursor \in 1 .. Len(clients)
    BY <1>1, <1>3, <2>1
  <2> QED
    BY <1>3, <2>1, <2>2, ClientsArePeers, FrameOnItsWay
<1> HIDE DEF f
<1>5. /\ inbox' \in [Peers -> Seq(Frames)]
      /\ process' \in {"running", "terminated", "killed", "fault"}
      /\ \A q \in Peers : q # c => inbox'[q] = inbox[q]
      /\ peers[c] # "connected" => inbox' = inbox
      /\ peers[c] = "connected" => Got(inbox'[c]) = Got(inbox[c]) \cup {sent}
  BY <1>1, <1>4, SendDoes
<1>6. ServerTypeOK'
  BY <1>1, <1>4, <1>5 DEF ServerTypeOK
<1>7. Connections' /\ Threads'
  BY <1>1, <1>2 DEF Connections, Threads, Handling, Registering
<1>8. Greeted'
  <2>1. peers[c] \in {"connected", "left"} /\ (Handling => current \in Peers /\ current # c)
    BY <1>2, <1>4 DEF Connections
  <2>2. \A p \in Peers : peers[p] \in {"away", "pending"} => inbox'[p] = inbox[p]
    BY <1>5, <2>1
  <2>3. Handling => inbox'[current] = inbox[current]
    BY <1>5, <2>1
  <2> QED
    BY <1>1, <1>2, <2>2, <2>3 DEF Greeted, Handling, Registering
<1>9. Sending'
  <2>1. 1 <= cursor' /\ cursor' <= last + 1
    BY <1>1, <1>4
  <2> QED
    BY <1>1, <1>2, <2>1 DEF Sending
<1>10. Passed(cursor) = sent - 1 /\ joined[c] < sent /\ joined[c] \in Nat
  BY <1>1, <1>3, <1>4 DEF Passed, ServerTypeOK
<1>11. Delivered'
  <2>1. ASSUME peers[c] = "connected", NEW n \in Got(inbox[c])
        PROVE  MayPrecede(astray, n, sent)
    <3>1. n \in 0 .. sent
      BY <1>2, <1>4, GotOfSent
    <3>2. sent \notin Got(inbox[c])
      BY <1>2, <1>3, <1>4, <1>10, <2>1 DEF Complete
    <3> QED
      BY <1>4, <2>1, <3>1, <3>2 DEF MayPrecede
  <2> QED
    BY <1>1, <1>2, <1>4, <2>1, SendInOrder
<1>12. Complete'
  <2> SUFFICES ASSUME NEW i \in 1 .. Len(clients), peers[clients[i]] = "connected",
                      NEW n \in Nat \ astray
               PROVE  n \in Got(inbox'[clients[i]])
                        <=> n = 0 \/ (joined[clients[i]] < n /\ n <= Passed(i)')
    BY <1>1 DEF Complete
  <2>1. n \in Got(inbox[clients[i]]) <=> n = 0 \/ (joined[clients[i]] < n /\ n <= Passed(i))
    BY <1>2 DEF Complete
  <2>2. CASE i = cursor
    <3>1. Passed(i)' = sent
      BY <1>1, <1>4, <2>2 DEF Passed
    <3>2. Got(inbox'[clients[i]]) = Got(inbox[clients[i]]) \cup {sent}
      BY <1>5, <2>2
    <3> QED
      BY <1>3, <1>4, <1>10, <2>1, <2>2, <3>1, <3>2
  <2>3. CASE i # cursor
    <3>1. cursor <= i <=> cursor + 1 <= i
      BY <1>4, <2>3
    <3>2. Passed(i)' = Passed(i)
      BY <1>1, <3>1 DEF Passed
    <3>3. clients[i] # c /\ clients[i] \in Peers
      BY <1>2, <1>4, <2>3, ClientsArePeers DEF Connections
    <3> QED
      BY <1>5, <2>1, <3>2, <3>3
  <2> QED
    BY <2>2, <2>3
<1> QED
  BY <1>6, <1>7, <1>8, <1>9, <1>11, <1>12 DEF Served

\* A frame that goes where memory given back says.
LEMMA BroadcastAstrayStep ==
  ServerTypeOK /\ Served /\ BroadcastAstray => ServerTypeOK' /\ (Alive' => Served')
<1> SUFFICES ASSUME ServerTypeOK, Served, BroadcastAstray
             PROVE  ServerTypeOK' /\ (Alive' => Served')
  OBVIOUS
<1> DEFINE f == Frame(sent)
<1>1. /\ Alive /\ owner = "sending" /\ cursor' = cursor + 1 /\ dangling
      /\ astray' = astray \cup {sent}
      /\ UNCHANGED <<owner, running, joinable, acceptor, current, server_socket, listening, open,
                     clients, reserved, last, dangling, peers, sent, joined, overlapped, starts>>
  BY DEF BroadcastAstray, threads, sockets, world
<1>2. Connections /\ Threads /\ Greeted /\ Sending /\ Delivered /\ Complete
  BY DEF Served
<1>3. /\ 1 <= sent /\ sent \in Nat /\ cursor \in Nat /\ 1 <= cursor /\ f \in Frames
      /\ f.number = sent /\ f \in {Hello} \cup {Frame(n) : n \in 1 .. sent}
  BY <1>1, <1>2, FrameOnItsWay DEF Sending, ServerTypeOK
<1>4. \/ \E p \in open : Send(p, f)
      \/ process' \in {"running", "fault"} /\ inbox' = inbox
  BY DEF BroadcastAstray
<1> HIDE DEF f
<1>5. \A p \in open : p \in Peers /\ peers[p] \in {"connected", "left"}
  <2>1. Range(clients) = {clients[i] : i \in 1 .. Len(clients)}
    BY ClientsArePeers DEF Range
  <2> QED
    BY <1>2, <2>1, ClientsArePeers DEF Connections
<1>6. /\ inbox' \in [Peers -> Seq(Frames)]
      /\ process' \in {"running", "terminated", "killed", "fault"}
      /\ \A q \in Peers : Got(inbox'[q]) \subseteq Got(inbox[q]) \cup {sent}
      /\ \A q \in Peers : Got(inbox[q]) \subseteq Got(inbox'[q])
      /\ \A q \in Peers : peers[q] \in {"away", "pending"} => inbox'[q] = inbox[q]
      /\ Delivered'
  <2>1. CASE \E p \in open : Send(p, f)
    <3>1. PICK p \in Peers : Send(p, f) /\ peers[p] \in {"connected", "left"}
      BY <1>5, <2>1
    <3>2. /\ inbox' \in [Peers -> Seq(Frames)]
          /\ process' \in {"running", "terminated", "killed", "fault"}
          /\ \A q \in Peers : q # p => inbox'[q] = inbox[q]
          /\ peers[p] # "connected" => inbox' = inbox
          /\ peers[p] = "connected" => Got(inbox'[p]) = Got(inbox[p]) \cup {sent}
      BY <1>1, <1>3, <3>1, SendDoes
    <3>3. \A n \in Got(inbox[p]) : MayPrecede(astray', n, sent)
      <4> SUFFICES ASSUME NEW n \in Got(inbox[p]) PROVE MayPrecede(astray', n, sent)
        OBVIOUS
      <4>1. n \in 0 .. sent
        BY <1>2, GotOfSent
      <4> QED
        BY <1>1, <1>3, <4>1 DEF MayPrecede
    <3>4. Delivered'
      BY <1>1, <1>2, <1>3, <3>1, <3>3, SendInOrder
    <3> QED
      BY <3>1, <3>2, <3>4
  <2>2. CASE process' \in {"running", "fault"} /\ inbox' = inbox
    <3>1. Delivered'
      BY <1>1, <1>2, <2>2 DEF Delivered, MayPrecede
    <3> QED
      BY <2>2, <3>1 DEF ServerTypeOK
  <2> QED
    BY <1>4, <2>1, <2>2
<1>7. ServerTypeOK'
  <2>1. astray' \subseteq 1 .. sent /\ cursor' \in Nat
    BY <1>1, <1>3 DEF ServerTypeOK
  <2> QED
    BY <1>1, <1>6, <2>1 DEF ServerTypeOK
<1>8. Connections' /\ Threads'
  BY <1>1, <1>2 DEF Connections, Threads, Handling, Registering
<1>9. \A n \in Nat \ astray' : n \in Nat \ astray /\ n # sent
  BY <1>1
<1>10. \A n \in Nat \ astray' : \A q \in Peers : n \in Got(inbox'[q]) <=> n \in Got(inbox[q])
  BY <1>6, <1>9
<1>11. Greeted'
  <2>1. Handling => current \in Peers
    BY <1>2 DEF Connections
  <2> QED
    BY <1>1, <1>2, <1>6, <1>9, <1>10, <2>1 DEF Greeted, Handling, Registering
<1>12. Sending'
  <2>1. 1 <= cursor' /\ sent \in astray'
    BY <1>1, <1>3
  <2> QED
    BY <1>1, <1>2, <1>3, <2>1 DEF Sending
<1>13. Complete'
  <2> SUFFICES ASSUME NEW i \in 1 .. Len(clients), peers[clients[i]] = "connected",
                      NEW n \in Nat \ astray'
               PROVE  n \in Got(inbox'[clients[i]])
                        <=> n = 0 \/ (joined[clients[i]] < n /\ n <= Passed(i)')
    BY <1>1 DEF Complete
  <2>1. n \in Got(inbox[clients[i]]) <=> n = 0 \/ (joined[clients[i]] < n /\ n <= Passed(i))
    BY <1>2, <1>9 DEF Complete
  <2>2. n <= Passed(i)' <=> n <= Passed(i)
    <3>1. Passed(i) \in {sent - 1, sent} /\ Passed(i)' \in {sent - 1, sent}
      BY <1>1 DEF Passed
    <3> QED
      BY <1>3, <1>9, <3>1
  <2> QED
    BY <1>10, <2>1, <2>2, ClientsArePeers
<1> QED
  BY <1>6, <1>7, <1>8, <1>11, <1>12, <1>13 DEF Served

\* A broadcast that ends.
LEMMA BroadcastEndStep == ServerTypeOK /\ Served /\ BroadcastEnd => ServerTypeOK' /\ Served'
<1> SUFFICES ASSUME ServerTypeOK, Served, BroadcastEnd PROVE ServerTypeOK' /\ Served'
  OBVIOUS
<1>1. /\ Alive /\ owner = "sending" /\ cursor > last /\ owner' = "idle"
      /\ cursor' = 1 /\ last' = 0 /\ dangling' = FALSE
      /\ UNCHANGED <<running, joinable, acceptor, current, server_socket, listening, open,
                     clients, reserved, peers, inbox, process, sent, joined, astray, overlapped,
                     starts>>
  BY DEF BroadcastEnd, sockets, world, history
<1>2. Connections /\ Threads /\ Greeted /\ Sending /\ Delivered /\ Complete
  BY DEF Served
<1>3. ServerTypeOK'
  <2>1. cursor' \in Nat /\ last' \in Nat /\ dangling' \in BOOLEAN /\ owner' = "idle"
    BY <1>1
  <2> QED
    BY <1>1, <2>1 DEF ServerTypeOK
<1>4. Connections' /\ Threads' /\ Greeted' /\ Delivered'
  BY <1>1, <1>2 DEF Connections, Threads, Greeted, Delivered, Handling, Registering
<1>5. Sending'
  BY <1>1, <1>2 DEF Sending
<1>6. Complete'
  <2> SUFFICES ASSUME NEW i \in 1 .. Len(clients), peers[clients[i]] = "connected",
                      NEW n \in Nat \ astray
               PROVE  n \in Got(inbox[clients[i]])
                        <=> n = 0 \/ (joined[clients[i]] < n /\ n <= Passed(i)')
    BY <1>1 DEF Complete
  <2>1. n \in Got(inbox[clients[i]]) <=> n = 0 \/ (joined[clients[i]] < n /\ n <= Passed(i))
    BY <1>2 DEF Complete
  <2>2. Passed(i)' = sent
    BY <1>1 DEF Passed
  <2>3. sent \in Nat /\ cursor \in Nat /\ last \in Nat /\ joined[clients[i]] \in Nat
    BY MessagesGiven, ClientsArePeers DEF ServerTypeOK
  <2>4. CASE cursor <= i /\ n = sent
    <3>1. ~ i <= last /\ Passed(i) = sent - 1
      BY <1>1, <2>3, <2>4 DEF Passed
    <3>2. joined[clients[i]] = sent
      BY <1>1, <1>2, <2>4, <3>1 DEF Sending
    <3> QED
      BY <2>1, <2>2, <2>3, <2>4, <3>1, <3>2
  <2>5. CASE ~ cursor <= i
    BY <1>1, <2>1, <2>2, <2>5 DEF Passed
  <2>6. CASE n # sent
    <3>1. Passed(i) \in {sent - 1, sent}
      BY DEF Passed
    <3> QED
      BY <2>1, <2>2, <2>3, <2>6, <3>1
  <2> QED
    BY <2>4, <2>5, <2>6
<1> QED
  BY <1>3, <1>4, <1>5, <1>6 DEF Served
-------------------------------------------------------------------------------
(* What the accept thread does.                                             *)

\* Between two connections.
LEMMA WaitStep ==
  ServerTypeOK /\ Served /\ (TestRunning \/ CallAccept) => ServerTypeOK' /\ Served'
<1> SUFFICES ASSUME ServerTypeOK, Served, TestRunning \/ CallAccept
             PROVE  ServerTypeOK' /\ Served'
  OBVIOUS
<1>1. /\ Alive /\ acceptor \in {"test", "call"}
      /\ acceptor' \in {"test", "call", "blocked", "exited"}
      /\ UNCHANGED <<running, joinable, owner, current, server_socket, listening, open, clients,
                     reserved, cursor, last, dangling, peers, inbox, process, sent, joined,
                     astray, overlapped, starts>>
  BY DEF TestRunning, CallAccept, sockets, iteration, world, history
<1>2. Connections /\ Threads /\ Greeted /\ Sending /\ Delivered /\ Complete
  BY DEF Served
<1>3. ServerTypeOK'
  BY <1>1 DEF ServerTypeOK
<1>4. Threads'
  BY <1>1, <1>2 DEF Threads
<1>5. ~ Handling /\ ~ Handling'
  BY <1>1 DEF Handling, Registering
<1>6. Connections' /\ Greeted' /\ Sending' /\ Delivered' /\ Complete'
  BY <1>1, <1>2, <1>5, Quiet
<1> QED
  BY <1>3, <1>4, <1>6 DEF Served

LEMMA AcceptStep ==
  ASSUME ServerTypeOK, Served, NEW p \in Peers, AcceptReturns(p)
  PROVE  ServerTypeOK' /\ Served'
<1>1. /\ Alive /\ acceptor = "blocked" /\ peers[p] = "pending"
      /\ peers' = [peers EXCEPT ![p] = "connected"]
      /\ open' = open \cup {p} /\ current' = p /\ acceptor' = "receive"
      /\ UNCHANGED <<running, joinable, owner, server_socket, listening, clients, reserved, cursor,
                     last, dangling, inbox, process, sent, joined, astray, overlapped, starts>>
  BY DEF AcceptReturns, iteration, history
<1>2. Connections /\ Threads /\ Greeted /\ Sending /\ Delivered /\ Complete
  BY DEF Served
<1>3. \A q \in Peers : peers'[q] = IF q = p THEN "connected" ELSE peers[q]
  BY <1>1 DEF ServerTypeOK
<1>4. \A i \in 1 .. Len(clients) : clients[i] \in Peers /\ clients[i] # p
  BY <1>1, <1>2, ClientsArePeers DEF Connections
<1>5. ServerTypeOK'
  BY <1>1 DEF ServerTypeOK
<1>6. Connections'
  <2>1. open = Range(clients)
    BY <1>1, <1>2 DEF Connections, Handling, Registering
  <2>2. open' = Range(clients') \cup (IF Handling' THEN {current'} ELSE {})
    BY <1>1, <2>1 DEF Handling
  <2> QED
    BY <1>1, <1>2, <1>3, <1>4, <2>2 DEF Connections
<1>7. Threads' /\ Sending' /\ Delivered'
  BY <1>1, <1>2 DEF Threads, Sending, Delivered
<1>8. Greeted'
  <2>1. inbox[p] = << >> /\ Got(inbox[p]) = {}
    BY <1>1, <1>2, GotNothing DEF Greeted
  <2>2. \A q \in Peers : peers'[q] \in {"away", "pending"} => inbox'[q] = << >>
    BY <1>1, <1>2, <1>3 DEF Greeted
  <2> QED
    BY <1>1, <2>1, <2>2 DEF Greeted, Registering
<1>9. Complete'
  <2>1. \A i \in 1 .. Len(clients) : /\ Passed(i)' = Passed(i)
                                     /\ peers'[clients[i]] = peers[clients[i]]
    BY <1>1, <1>3, <1>4 DEF Passed
  <2> QED
    BY <1>1, <1>2, <2>1 DEF Complete
<1> QED
  BY <1>5, <1>6, <1>7, <1>8, <1>9 DEF Served

LEMMA RefuseStep == ServerTypeOK /\ Served /\ Refuse => ServerTypeOK' /\ Served'
<1> SUFFICES ASSUME ServerTypeOK, Served, Refuse PROVE ServerTypeOK' /\ Served'
  OBVIOUS
<1>1. /\ Alive /\ acceptor = "receive" /\ acceptor' = "test" /\ open' = open \ {current}
      /\ UNCHANGED <<running, joinable, owner, server_socket, listening, clients, reserved,
                     cursor, last, dangling, peers, inbox, process, sent, joined, astray,
                     overlapped, starts>>
  BY DEF Refuse, iteration, world, history
<1>2. Connections /\ Threads /\ Greeted /\ Sending /\ Delivered /\ Complete
  BY DEF Served
<1>3. ServerTypeOK'
  BY <1>1 DEF ServerTypeOK
<1>4. Connections'
  <2>1. open = Range(clients) \cup {current} /\ current \notin Range(clients)
    BY <1>1, <1>2, ClientsArePeers DEF Connections, Handling, Range
  <2>2. open' = Range(clients') /\ ~ Handling'
    BY <1>1, <2>1 DEF Handling, Registering
  <2> QED
    BY <1>1, <1>2, <2>2 DEF Connections
<1>5. Threads' /\ Greeted' /\ Sending' /\ Delivered'
  BY <1>1, <1>2 DEF Threads, Greeted, Sending, Delivered, Registering
<1>6. Complete'
  BY <1>1, <1>2 DEF Complete, Passed
<1> QED
  BY <1>3, <1>4, <1>5, <1>6 DEF Served

LEMMA AnswerStep == ServerTypeOK /\ Served /\ Answer => ServerTypeOK' /\ (Alive' => Served')
<1> SUFFICES ASSUME ServerTypeOK, Served, Answer PROVE ServerTypeOK' /\ (Alive' => Served')
  OBVIOUS
<1>1. /\ Alive /\ acceptor = "receive" /\ acceptor' = "register" /\ Send(current, Hello)
      /\ UNCHANGED <<running, joinable, owner, current, server_socket, listening, open, clients,
                     reserved, cursor, last, dangling, peers, sent, joined, astray, overlapped,
                     starts>>
  BY DEF Answer, sockets, iteration, world, history
<1>2. Connections /\ Threads /\ Greeted /\ Sending /\ Delivered /\ Complete
  BY DEF Served
<1>3. /\ current \in Peers /\ peers[current] \in {"connected", "left"}
      /\ \A i \in 1 .. Len(clients) : clients[i] # current
      /\ \A n \in Nat \ astray : n \notin Got(inbox[current])
  BY <1>1, <1>2 DEF Connections, Handling, Greeted
<1>4. Hello \in Frames /\ Hello.number = 0
  BY Numbered
<1>5. /\ inbox' \in [Peers -> Seq(Frames)]
      /\ process' \in {"running", "terminated", "killed", "fault"}
      /\ \A p \in Peers : p # current => inbox'[p] = inbox[p]
      /\ peers[current] # "connected" => inbox' = inbox
      /\ peers[current] = "connected" => Got(inbox'[current]) = Got(inbox[current]) \cup {0}
  BY <1>1, <1>3, <1>4, SendDoes
<1>6. ServerTypeOK'
  BY <1>1, <1>5 DEF ServerTypeOK
<1>7. Connections' /\ Threads' /\ Sending'
  BY <1>1, <1>2 DEF Connections, Threads, Sending, Handling, Registering
<1>8. Greeted'
  <2>1. \A p \in Peers : peers[p] \in {"away", "pending"} => inbox'[p] = inbox[p]
    BY <1>3, <1>5
  <2>2. peers[current] = "connected" =>
          \A n \in Nat \ astray : n \in Got(inbox'[current]) <=> n = 0
    BY <1>3, <1>5
  <2> QED
    BY <1>1, <1>2, <2>1, <2>2 DEF Greeted
<1>9. Delivered'
  <2>1. \A n \in Got(inbox[current]) : MayPrecede(astray, n, 0)
    <3> SUFFICES ASSUME NEW n \in Got(inbox[current]) PROVE MayPrecede(astray, n, 0)
      OBVIOUS
    <3>1. n \in 0 .. sent
      BY <1>2, <1>3, GotOfSent
    <3>2. n \in Nat
      BY <3>1 DEF ServerTypeOK
    <3> QED
      BY <1>3, <3>2 DEF MayPrecede
  <2> QED
    BY <1>1, <1>2, <1>3, <1>4, <2>1, SendInOrder
<1>10. Complete'
  <2>1. \A i \in 1 .. Len(clients) : /\ inbox'[clients[i]] = inbox[clients[i]]
                                     /\ Passed(i)' = Passed(i)
    BY <1>1, <1>3, <1>5, ClientsArePeers DEF Passed
  <2> QED
    BY <1>1, <1>2, <2>1 DEF Complete
<1> QED
  BY <1>6, <1>7, <1>8, <1>9, <1>10 DEF Served

\* While the clients move, a broadcast that is under way loses its iterator.
LEMMA MoveStep ==
  ServerTypeOK /\ Served /\ (MoveClients \/ StoreBegin) => ServerTypeOK' /\ Served'
<1> SUFFICES ASSUME ServerTypeOK, Served, MoveClients \/ StoreBegin
             PROVE  ServerTypeOK' /\ Served'
  OBVIOUS
<1>1. /\ Alive /\ Registering /\ Registering' /\ acceptor' \in {"moving", "moved"}
      /\ reserved' \in {reserved, 1, 2 * reserved}
      /\ dangling' \in BOOLEAN /\ (dangling => dangling')
      /\ UNCHANGED <<running, joinable, owner, current, server_socket, listening, open, clients,
                     cursor, last, peers, inbox, process, sent, joined, astray, overlapped,
                     starts>>
  BY DEF MoveClients, StoreBegin, Registering, sockets, iteration, world, history, ServerTypeOK
<1>2. Connections /\ Threads /\ Greeted /\ Sending /\ Delivered /\ Complete
  BY DEF Served
<1>3. ServerTypeOK'
  <2>1. reserved' \in Nat
    BY <1>1 DEF ServerTypeOK
  <2> QED
    BY <1>1, <2>1 DEF ServerTypeOK
<1>4. acceptor \notin {"none", "receive", "exited"}
  BY <1>1 DEF Registering
<1>5. Connections' /\ Threads'
  BY <1>1, <1>2, <1>4 DEF Connections, Threads, Handling
<1>6. Greeted'
  BY <1>1, <1>2 DEF Greeted
<1>7. Sending' /\ Delivered'
  BY <1>1, <1>2 DEF Sending, Delivered
<1>8. Complete'
  BY <1>1, <1>2 DEF Complete, Passed
<1> QED
  BY <1>3, <1>5, <1>6, <1>7, <1>8 DEF Served

\* Who registers is owed nothing yet but the answer it has.
LEMMA RegisterStep ==
  ServerTypeOK /\ Served /\ (Register \/ StoreEnd) => ServerTypeOK' /\ Served'
<1> SUFFICES ASSUME ServerTypeOK, Served, Register \/ StoreEnd PROVE ServerTypeOK' /\ Served'
  OBVIOUS
<1> DEFINE k == Len(clients)
           m == sent - IF owner = "beginning" THEN 1 ELSE 0
<1>1. /\ Alive /\ Registering /\ acceptor' = "test"
      /\ clients' = Append(clients, current) /\ joined' = [joined EXCEPT ![current] = m]
      /\ UNCHANGED <<running, joinable, owner, server_socket, listening, open, reserved, cursor,
                     last, dangling, peers, inbox, process, sent, astray, overlapped, starts>>
  BY DEF Register, StoreEnd, Joins, Registering, sockets, iteration, world
<1>2. Connections /\ Threads /\ Greeted /\ Sending /\ Delivered /\ Complete
  BY DEF Served
<1>3. /\ current \in Peers /\ peers[current] \in {"connected", "left"}
      /\ \A i \in 1 .. k : clients[i] # current
      /\ peers[current] = "connected" =>
           \A n \in Nat \ astray : n \in Got(inbox[current]) <=> n = 0
  BY <1>1, <1>2 DEF Connections, Handling, Greeted
<1>4. /\ clients \in Seq(Peers) /\ k \in Nat
      /\ clients' \in Seq(Peers) /\ Len(clients') = k + 1
      /\ \A i \in 1 .. k : clients'[i] = clients[i] /\ clients[i] \in Peers
      /\ clients'[k + 1] = current
  <2>1. clients \in Seq(Peers)
    BY DEF ServerTypeOK
  <2>2. /\ clients' \in Seq(Peers) /\ Len(clients') = k + 1
        /\ \A i \in 1 .. k : clients'[i] = clients[i]
        /\ clients'[k + 1] = current
    BY <1>1, <1>3, <2>1, AppendProperties
  <2> QED
    BY <2>1, <2>2, ClientsArePeers
<1>5. sent \in Nat /\ m \in Nat /\ m <= sent /\ (owner = "beginning" => m = sent - 1)
  <2>1. sent \in Nat /\ (owner = "beginning" => 1 <= sent)
    BY <1>2, MessagesGiven DEF ServerTypeOK, Sending
  <2> QED
    BY <2>1
<1>6. /\ joined' \in [Peers -> Nat] /\ joined'[current] = m
      /\ \A i \in 1 .. k : joined'[clients[i]] = joined[clients[i]]
  <2> HIDE DEF m
  <2> QED
    BY <1>1, <1>3, <1>4, <1>5 DEF ServerTypeOK
<1>7. ServerTypeOK'
  BY <1>1, <1>4, <1>6 DEF ServerTypeOK
<1>8. \A i \in 1 .. k + 1 : i \in 1 .. k \/ i = k + 1
  BY <1>4
<1>9. Connections'
  <2>1. open' = Range(clients') /\ ~ Handling'
    <3>1. Range(Append(clients, current)) = Range(clients) \cup {current}
      BY <1>3, <1>4, Members
    <3> QED
      BY <1>1, <1>2, <3>1 DEF Connections, Handling, Registering
  <2>2. \A i \in 1 .. k + 1 : peers[clients'[i]] \in {"connected", "left"}
    BY <1>2, <1>3, <1>4, <1>8 DEF Connections
  <2>3. \A i, j \in 1 .. k + 1 : clients'[i] = clients'[j] => i = j
    <3> SUFFICES ASSUME NEW i \in 1 .. k + 1, NEW j \in 1 .. k + 1, clients'[i] = clients'[j]
                 PROVE  i = j
      OBVIOUS
    <3>1. i \in 1 .. k /\ j \in 1 .. k => i = j
      BY <1>2, <1>4 DEF Connections
    <3>2. ~ (i \in 1 .. k /\ j = k + 1) /\ ~ (j \in 1 .. k /\ i = k + 1)
      BY <1>3, <1>4
    <3> QED
      BY <1>8, <3>1, <3>2
  <2> QED
    BY <1>1, <1>4, <2>1, <2>2, <2>3 DEF Connections
<1>10. Threads'
  <2>1. joinable
    BY <1>1, <1>2 DEF Threads, Registering
  <2> QED
    BY <1>1, <1>2, <2>1 DEF Threads
<1>11. Greeted' /\ Delivered'
  BY <1>1, <1>2 DEF Greeted, Registering, Delivered
<1>12. Sending'
  <2>1. ASSUME NEW i \in 1 .. k + 1 PROVE joined'[clients'[i]] <= sent
    <3>1. CASE i \in 1 .. k
      BY <1>2, <1>4, <1>6, <3>1 DEF Sending
    <3>2. CASE i = k + 1
      BY <1>4, <1>5, <1>6, <3>2
    <3> QED
      BY <1>8, <3>1, <3>2
  <2>2. ASSUME owner = "beginning", NEW i \in 1 .. k + 1 PROVE joined'[clients'[i]] < sent
    <3>1. CASE i \in 1 .. k
      BY <1>2, <1>4, <1>6, <2>2, <3>1 DEF Sending
    <3>2. CASE i = k + 1
      BY <1>4, <1>5, <1>6, <2>2, <3>2
    <3> QED
      BY <1>8, <3>1, <3>2
  <2>3. ASSUME owner = "sending", sent \notin astray
        PROVE  /\ last <= k + 1
               /\ \A i \in 1 .. k + 1 :
                    IF i <= last THEN joined'[clients'[i]] < sent ELSE joined'[clients'[i]] = sent
    <3>1. last <= k /\ last \in Nat
      BY <1>2, <2>3 DEF Sending, ServerTypeOK
    <3>2. last <= k + 1 /\ ~ k + 1 <= last
      BY <1>4, <3>1
    <3>3. ASSUME NEW i \in 1 .. k + 1
          PROVE  IF i <= last THEN joined'[clients'[i]] < sent ELSE joined'[clients'[i]] = sent
      <4>1. CASE i \in 1 .. k
        BY <1>2, <1>4, <1>6, <2>3, <4>1 DEF Sending
      <4>2. CASE i = k + 1
        BY <1>4, <1>5, <1>6, <2>3, <3>2, <4>2
      <4> QED
        BY <1>8, <4>1, <4>2
    <3> QED
      BY <3>2, <3>3
  <2> QED
    BY <1>1, <1>2, <1>4, <2>1, <2>2, <2>3 DEF Sending
<1>13. Complete'
  <2> SUFFICES ASSUME NEW i \in 1 .. k + 1, peers[clients'[i]] = "connected",
                      NEW n \in Nat \ astray
               PROVE  n \in Got(inbox[clients'[i]])
                        <=> n = 0 \/ (joined'[clients'[i]] < n /\ n <= Passed(i)')
    BY <1>1, <1>4 DEF Complete
  <2>1. Passed(i)' = Passed(i)
    BY <1>1 DEF Passed
  <2>2. CASE i \in 1 .. k
    BY <1>2, <1>4, <1>6, <2>1, <2>2 DEF Complete
  <2>3. CASE i = k + 1
    <3>1. n \in Got(inbox[clients'[i]]) <=> n = 0
      BY <1>3, <1>4, <2>3
    <3>2. joined'[clients'[i]] = m
      BY <1>4, <1>6, <2>3
    <3>3. Passed(i) <= m /\ Passed(i) \in Int
      <4>1. CASE owner = "beginning"
        BY <1>5, <4>1 DEF Passed
      <4>2. CASE owner # "beginning"
        <5>1. m = sent
          BY <1>5, <4>2
        <5>2. Passed(i) \in {sent - 1, sent}
          BY DEF Passed
        <5> HIDE DEF m
        <5> QED
          BY <1>5, <5>1, <5>2
      <4> QED
        BY <4>1, <4>2
    <3> HIDE DEF m
    <3>4. ~ (m < n /\ n <= Passed(i))
      BY <1>5, <3>3
    <3> QED
      BY <2>1, <3>1, <3>2, <3>4
  <2> QED
    BY <1>8, <2>2, <2>3
<1> QED
  BY <1>7, <1>9, <1>10, <1>11, <1>12, <1>13 DEF Served
-------------------------------------------------------------------------------
(* What the peers do.                                                       *)

LEMMA PeerStep == ServerTypeOK /\ Served /\ Peer => ServerTypeOK' /\ Served'
<1> SUFFICES ASSUME ServerTypeOK, Served, NEW p \in Peers,
                    Connect(p) \/ SendRequest(p) \/ Leave(p)
             PROVE  ServerTypeOK' /\ Served'
  BY DEF Peer
<1>1. /\ Alive
      /\ UNCHANGED <<running, joinable, owner, acceptor, current, server_socket, listening, open,
                     clients, reserved, cursor, last, dangling, inbox, process, sent, joined,
                     astray, overlapped, starts>>
  BY DEF Connect, SendRequest, Leave, threads, sockets, iteration, history
<1>2. Connections /\ Threads /\ Greeted /\ Sending /\ Delivered /\ Complete
  BY DEF Served
<1>3. /\ peers' \in [Peers -> {"away", "pending", "connected", "left"}]
      /\ \A q \in Peers : \/ peers'[q] = peers[q]
                          \/ peers[q] = "away" /\ peers'[q] = "pending"
                          \/ peers[q] = "connected" /\ peers'[q] = "left"
  <2>1. \/ peers' = peers
        \/ peers[p] = "away" /\ peers' = [peers EXCEPT ![p] = "pending"]
        \/ peers[p] = "connected" /\ peers' = [peers EXCEPT ![p] = "left"]
    BY DEF Connect, SendRequest, Leave
  <2> QED
    BY <2>1 DEF ServerTypeOK
<1>4. ServerTypeOK'
  BY <1>1, <1>3 DEF ServerTypeOK
<1>5. Connections'
  <2>1. \A i \in 1 .. Len(clients) : peers'[clients[i]] \in {"connected", "left"}
    BY <1>2, <1>3, ClientsArePeers DEF Connections
  <2>2. Handling => peers'[current] \in {"connected", "left"}
    BY <1>2, <1>3 DEF Connections
  <2> QED
    BY <1>1, <1>2, <2>1, <2>2 DEF Connections, Handling, Registering
<1>6. Threads' /\ Sending' /\ Delivered'
  BY <1>1, <1>2 DEF Threads, Sending, Delivered
<1>7. Greeted'
  <2>1. Registering => current \in Peers
    BY <1>2 DEF Connections, Handling
  <2>2. \A q \in Peers : peers'[q] \in {"away", "pending"} => peers[q] \in {"away", "pending"}
    BY <1>3
  <2>3. Registering /\ peers'[current] = "connected" => peers[current] = "connected"
    BY <1>3, <2>1
  <2> QED
    BY <1>1, <1>2, <2>2, <2>3 DEF Greeted, Registering
<1>8. Complete'
  <2>1. \A i \in 1 .. Len(clients) :
          /\ Passed(i)' = Passed(i)
          /\ peers'[clients[i]] = "connected" => peers[clients[i]] = "connected"
    BY <1>1, <1>3, ClientsArePeers DEF Passed
  <2> QED
    BY <1>1, <1>2, <2>1 DEF Complete
<1> QED
  BY <1>4, <1>5, <1>6, <1>7, <1>8 DEF Served
-------------------------------------------------------------------------------
(* What the server promises.                                                *)

LEMMA ServerInitInv == Init => ServerInv
<1> SUFFICES ASSUME Init PROVE ServerInv
  OBVIOUS
<1>1. /\ Len(clients) = 0 /\ clients \in Seq(Peers) /\ Range(clients) = {} /\ clients = << >>
  BY DEF Init, Range
<1>2. << >> \in Seq(Frames) /\ Len(<< >>) = 0
  OBVIOUS
<1>3. ServerTypeOK
  <2>1. inbox \in [Peers -> Seq(Frames)]
    BY <1>2 DEF Init
  <2>2. peers \in [Peers -> {"away", "pending", "connected", "left"}] /\ joined \in [Peers -> Nat]
    BY DEF Init
  <2>3. running \in BOOLEAN /\ joinable \in BOOLEAN /\ overlapped \in BOOLEAN /\ dangling \in BOOLEAN
    BY DEF Init
  <2>4. sent \in 0 .. Len(MessageSizes) /\ astray \subseteq 1 .. sent
    BY MessagesGiven DEF Init
  <2> QED
    BY <1>1, <2>1, <2>2, <2>3, <2>4 DEF Init, Invalid, ServerTypeOK
<1>4. Connections
  BY <1>1 DEF Init, Connections, Handling, Registering
<1>5. Threads /\ Greeted
  BY <1>1 DEF Init, Threads, Greeted, Registering
<1>6. Sending /\ Complete
  BY <1>1 DEF Init, Sending, Complete
<1>7. Delivered
  BY <1>2 DEF Init, Delivered
<1> QED
  BY <1>3, <1>4, <1>5, <1>6, <1>7 DEF ServerInv, Served

\* Standing still.
LEMMA ServerStill == ServerInv /\ UNCHANGED vars => ServerInv'
<1> SUFFICES ASSUME ServerInv, UNCHANGED vars PROVE ServerInv'
  OBVIOUS
<1>1. UNCHANGED <<running, joinable, owner, acceptor, current, server_socket, listening, open,
                  clients, reserved, cursor, last, dangling, peers, inbox, process, sent, joined,
                  astray, overlapped, starts>>
  BY DEF vars, threads, sockets, iteration, world, history
<1>2. ServerTypeOK'
  BY <1>1 DEF ServerInv, ServerTypeOK
<1>3. ASSUME Alive' PROVE Served'
  <2>1. Alive /\ Served
    BY <1>1, <1>3 DEF Alive, ServerInv
  <2>2. Connections' /\ Greeted' /\ Sending' /\ Delivered' /\ Complete'
    BY <1>1, <2>1, Quiet DEF Served
  <2>3. Threads'
    BY <1>1, <2>1 DEF Served, Threads
  <2> QED
    BY <2>2, <2>3 DEF Served
<1> QED
  BY <1>2, <1>3 DEF ServerInv

LEMMA ServerStep == ServerInv /\ [Next]_vars => ServerInv'
<1> SUFFICES ASSUME ServerInv, Next PROVE ServerInv'
  BY ServerStill
<1>1. Alive
  BY DEF Next, Owner, Acceptor, Peer, StartFails, Start, StopBegin, StopClose, StopJoin,
         BroadcastBegin, ReadEnd, BroadcastSend, BroadcastAstray, BroadcastEnd, TestRunning,
         CallAccept, Refuse, Answer, Register, MoveClients, StoreBegin, StoreEnd, AcceptReturns,
         Connect, SendRequest, Leave, Idle
<1>2. ServerTypeOK /\ Served
  BY <1>1 DEF ServerInv
<1>3. CASE Owner
  BY <1>2, <1>3, StartFailsStep, StartStep, StopStep, StopJoinStep, BroadcastBeginStep,
     ReadEndStep, BroadcastSendStep, BroadcastAstrayStep, BroadcastEndStep DEF Owner, ServerInv
<1>4. CASE Acceptor
  <2>1. CASE \E p \in Peers : AcceptReturns(p)
    BY <1>2, <2>1, AcceptStep DEF ServerInv
  <2>2. CASE ~ \E p \in Peers : AcceptReturns(p)
    BY <1>2, <1>4, <2>2, WaitStep, RefuseStep, AnswerStep, RegisterStep, MoveStep
       DEF Acceptor, ServerInv
  <2> QED
    BY <2>1, <2>2
<1>5. CASE Peer
  BY <1>2, <1>5, PeerStep DEF ServerInv
<1> QED
  BY <1>3, <1>4, <1>5 DEF Next

LEMMA ServerInvariant == Spec => []ServerInv
BY ServerInitInv, ServerStep, PTL DEF Spec

(* The server's variables keep their types, however it is started, stopped    *)
(* and connected to (websocket_server.cpp:156-362).                           *)
THEOREM ServerTypes == Spec => []ServerTypeOK
<1>1. ServerInv => ServerTypeOK
  BY DEF ServerInv
<1> QED
  BY <1>1, ServerInvariant, PTL

(* For any peers and messages, wherever memory given back leads a broadcast:  *)
(* a client has the answer to its handshake and every frame whose broadcast   *)
(* read the end of the clients after it registered, in order and once, but    *)
(* for the frames of broadcasts that met a move of the clients; and those are *)
(* the only ones that go astray (websocket_server.cpp:239-242, 299-327).      *)
THEOREM ClientsMissNothing == Spec => []FramesInOrder
<1>1. ServerInv => FramesInOrder
  <2> SUFFICES ASSUME ServerInv, Alive PROVE FramesInOrder
    BY DEF FramesInOrder
  <2>1. ServerTypeOK /\ Sending /\ Delivered /\ Complete
    BY DEF ServerInv, Served
  <2>2. \A p \in Peers : DOMAIN inbox[p] = 1 .. Len(inbox[p])
    BY <2>1, LenProperties DEF ServerTypeOK
  <2>3. ASSUME NEW p \in Peers, NEW k \in DOMAIN inbox[p]
        PROVE  /\ inbox[p][k] \in {Hello} \cup {Frame(n) : n \in 1 .. sent}
               /\ \A j \in 1 .. k - 1 : Before(inbox[p][j].number, inbox[p][k].number)
    BY <2>1, <2>2 DEF Delivered, MayPrecede, Before
  <2>4. ASSUME NEW i \in DOMAIN clients, peers[clients[i]] = "connected"
        PROVE  Numbers(clients[i]) \ astray
                 = {0} \cup (((joined[clients[i]] + 1) .. Passed(i)) \ astray)
    <3> DEFINE p == clients[i]
               due == (joined[p] + 1) .. Passed(i)
    <3>1. i \in 1 .. Len(clients) /\ p \in Peers /\ joined[p] \in Nat /\ sent \in Nat
      BY <2>1, ClientsArePeers, MessagesGiven DEF ServerTypeOK
    <3>2. Numbers(p) = Got(inbox[p]) /\ Numbers(p) \subseteq Nat
      <4>1. Got(inbox[p]) \subseteq Nat
        BY <2>1, <3>1, GotOfSent
      <4> QED
        BY <4>1 DEF Numbers, Got
    <3>3. Passed(i) \in Int /\ 0 \notin astray /\ \A n \in due : n \in Nat
      BY <2>1, <3>1 DEF Passed, ServerTypeOK
    <3>4. \A n \in Nat \ astray : n \in Numbers(p) <=> n = 0 \/ n \in due
      BY <2>1, <2>4, <3>1, <3>2, <3>3 DEF Complete
    <3> HIDE DEF due
    <3>5. \A n : n \in Numbers(p) \ astray <=> n \in {0} \cup (due \ astray)
      BY <3>2, <3>3, <3>4
    <3>6. Numbers(p) \ astray = {0} \cup (due \ astray)
      BY <3>5, Zenon
    <3> QED
      BY <3>6 DEF due
  <2> QED
    BY <2>3, <2>4, Zenon DEF FramesInOrder
<1> QED
  BY <1>1, ServerInvariant, PTL

(* Stop has closed every connection, whenever it came in and whether it was   *)
(* refused, and, unless start was called twice, every listening socket        *)
(* (websocket_server.cpp:206-247).                                            *)
THEOREM StopClosesAll == Spec => []NoSocketLost
<1>1. ServerInv => NoSocketLost
  <2> SUFFICES ASSUME ServerInv, Alive, owner \in {"idle", "gone"}, ~ joinable, ~ overlapped
               PROVE  open = {} /\ listening = {}
    BY DEF NoSocketLost
  <2>1. Connections /\ Threads
    BY DEF ServerInv, Served
  <2>2. clients = << >> /\ ~ Handling /\ listening = {}
    BY <2>1 DEF Threads, Handling, Registering
  <2>3. Range(clients) = {}
    BY <2>2 DEF Range
  <2> QED
    BY <2>1, <2>2, <2>3 DEF Connections
<1> QED
  BY <1>1, ServerInvariant, PTL
-------------------------------------------------------------------------------
(* The headers.  Bytes folds over a header from the left, by a recursive      *)
(* function over the sets of its places, of which the greatest is taken.      *)
FoldStep(F, b, s) == IF s = {} THEN 0 ELSE 256 * F[s \ {Max(s)}] + b[Max(s)]
FoldsOver(F, b, n) == F = [s \in SUBSET (1 .. n) |-> FoldStep(F, b, s)]

(* Induction on numbers, for the sets of numbers that are given as sets.      *)
LEMMA UpFromZero ==
  ASSUME NEW G, 0 \in G, \A n \in Nat : n \in G => n + 1 \in G
  PROVE  \A n \in Nat : n \in G
<1> SUFFICES ASSUME NEW k \in Nat, k \notin G PROVE FALSE
  OBVIOUS
<1> DEFINE Below == {ss \in Nat \X Nat : ss[1] < ss[2]}
           bad == Nat \ G
<1>1. OpToRel(<, Nat) = Below
  BY Zenon DEF OpToRel
<1>2. IsWellFoundedOn(Below, Nat)
  BY <1>1, NatLessThanWellFounded
<1>3. bad \in SUBSET Nat /\ bad # {}
  OBVIOUS
<1>4. PICK m \in bad : \A y \in bad : ~ (<<y, m>> \in Below)
  BY <1>2, <1>3, WFMin
<1>5. m \in Nat /\ m # 0 /\ m - 1 \in Nat /\ m - 1 < m /\ (m - 1) + 1 = m
  BY <1>4
<1>6. m - 1 \in G
  BY <1>4, <1>5
<1> QED
  BY <1>4, <1>5, <1>6

LEMMA MaxOfFirst ==
  ASSUME NEW n \in Nat, NEW s \in SUBSET (1 .. n + 1), n + 1 \in s
  PROVE  Max(s) = n + 1 /\ s \ {n + 1} \in SUBSET (1 .. n)
<1>1. \A x \in s : x \in Nat /\ n + 1 >= x
  OBVIOUS
<1>2. Max(s) \in s /\ \A y \in s : Max(s) >= y
  BY <1>1 DEF Max
<1>3. Max(s) \in Nat /\ Max(s) >= n + 1 /\ n + 1 >= Max(s)
  BY <1>1, <1>2
<1>4. s \ {n + 1} \in SUBSET (1 .. n)
  <2> SUFFICES ASSUME NEW x \in s, x # n + 1 PROVE x \in 1 .. n
    OBVIOUS
  <2> QED
    OBVIOUS
<1> QED
  BY <1>3, <1>4

\* There is a function that folds over any part of a header.
LEMMA FoldsExist ==
  ASSUME NEW n \in Nat, NEW b, \A i \in 1 .. n : b[i] \in Nat
  PROVE  \E F : FoldsOver(F, b, n)
<1> DEFINE G == {m \in Nat : m <= n => \E F \in [SUBSET (1 .. m) -> Nat] :
                               \A s \in SUBSET (1 .. m) : F[s] = FoldStep(F, b, s)}
<1>1. 0 \in G
  <2> DEFINE F == [s \in SUBSET (1 .. 0) |-> 0]
  <2>1. F \in [SUBSET (1 .. 0) -> Nat] /\ \A s \in SUBSET (1 .. 0) : s = {} /\ F[s] = 0
    OBVIOUS
  <2> HIDE DEF F
  <2>2. \A s \in SUBSET (1 .. 0) : F[s] = FoldStep(F, b, s)
    BY <2>1 DEF FoldStep
  <2> QED
    BY <2>1, <2>2
<1>2. ASSUME NEW m \in Nat, m \in G PROVE m + 1 \in G
  <2> SUFFICES ASSUME m + 1 <= n
               PROVE  \E E \in [SUBSET (1 .. m + 1) -> Nat] :
                        \A s \in SUBSET (1 .. m + 1) : E[s] = FoldStep(E, b, s)
    OBVIOUS
  <2>1. PICK F \in [SUBSET (1 .. m) -> Nat] :
               \A s \in SUBSET (1 .. m) : F[s] = FoldStep(F, b, s)
    BY <1>2
  <2> DEFINE value(s) == IF m + 1 \in s THEN 256 * F[s \ {m + 1}] + b[m + 1] ELSE F[s]
             E == [s \in SUBSET (1 .. m + 1) |-> value(s)]
  <2>2. \A s \in SUBSET (1 .. m + 1) :
          IF m + 1 \in s THEN Max(s) = m + 1 /\ s \ {m + 1} \in SUBSET (1 .. m)
                         ELSE s \in SUBSET (1 .. m)
    <3> SUFFICES ASSUME NEW s \in SUBSET (1 .. m + 1)
                 PROVE  IF m + 1 \in s THEN Max(s) = m + 1 /\ s \ {m + 1} \in SUBSET (1 .. m)
                                       ELSE s \in SUBSET (1 .. m)
      OBVIOUS
    <3>1. CASE m + 1 \in s
      BY <3>1, MaxOfFirst
    <3>2. CASE m + 1 \notin s
      <4>1. \A x \in s : x \in 1 .. m
        BY <3>2
      <4> QED
        BY <3>2, <4>1
    <3> QED
      BY <3>1, <3>2
  <2>3. b[m + 1] \in Nat
    OBVIOUS
  <2>4. \A s \in SUBSET (1 .. m + 1) : value(s) \in Nat
    BY <2>2, <2>3
  <2>5. E \in [SUBSET (1 .. m + 1) -> Nat]
    BY <2>4
  <2>6. \A s \in SUBSET (1 .. m) : s \in SUBSET (1 .. m + 1) /\ m + 1 \notin s /\ E[s] = F[s]
    <3>1. \A s \in SUBSET (1 .. m) : s \in SUBSET (1 .. m + 1) /\ m + 1 \notin s
      OBVIOUS
    <3> QED
      BY <3>1
  <2>7. ASSUME NEW s \in SUBSET (1 .. m + 1) PROVE E[s] = FoldStep(E, b, s)
    <3>1. CASE m + 1 \in s
      <4>1. /\ Max(s) = m + 1 /\ s \ {m + 1} \in SUBSET (1 .. m) /\ s # {}
            /\ E[s] = 256 * F[s \ {m + 1}] + b[m + 1]
            /\ E[s \ {m + 1}] = F[s \ {m + 1}]
        BY <2>2, <2>6, <3>1
      <4> HIDE DEF E
      <4> QED
        BY <4>1 DEF FoldStep
    <3>2. CASE m + 1 \notin s
      <4>1. s \in SUBSET (1 .. m) /\ E[s] = F[s] /\ F[s] = FoldStep(F, b, s)
        BY <2>1, <2>2, <2>6, <3>2
      <4>2. s \ {Max(s)} \in SUBSET (1 .. m)
        BY <4>1
      <4>3. E[s \ {Max(s)}] = F[s \ {Max(s)}]
        BY <2>6, <4>2
      <4> HIDE DEF E
      <4> QED
        BY <4>1, <4>3 DEF FoldStep
    <3> QED
      BY <3>1, <3>2
  <2> HIDE DEF E
  <2>8. \A s \in SUBSET (1 .. m + 1) : E[s] = FoldStep(E, b, s)
    BY <2>7
  <2> QED
    BY <2>5, <2>8
<1> HIDE DEF G
<1>3. n \in G
  BY <1>1, <1>2, UpFromZero
<1>4. PICK F \in [SUBSET (1 .. n) -> Nat] : \A s \in SUBSET (1 .. n) : F[s] = FoldStep(F, b, s)
  BY <1>3 DEF G
<1>5. F = [s \in SUBSET (1 .. n) |-> F[s]]
  OBVIOUS
<1>6. [s \in SUBSET (1 .. n) |-> F[s]] = [s \in SUBSET (1 .. n) |-> FoldStep(F, b, s)]
  BY <1>4
<1> QED
  BY <1>5, <1>6 DEF FoldsOver

\* So a header is read byte by byte: what has been read of a header after each of its bytes.
Reading(v, b, n) == v[0] = 0 /\ \A k \in 0 .. n - 1 : v[k + 1] = 256 * v[k] + b[k + 1]

LEMMA BytesUnfold ==
  ASSUME NEW n \in Nat, NEW b, DOMAIN b = 1 .. n, \A i \in 1 .. n : b[i] \in Nat
  PROVE  \E v \in [0 .. n -> Int] : Bytes(b) = v[n] /\ Reading(v, b, n)
<1> DEFINE F == CHOOSE F : FoldsOver(F, b, n)
<1>1. FoldsOver(F, b, n)
  BY FoldsExist
<1>2. Bytes(b) = F[1 .. n]
  BY DEF Bytes, FoldLeft, MapThenFoldSet, FoldsOver, FoldStep
<1> HIDE DEF F
<1>3. \A s \in SUBSET (1 .. n) : F[s] = FoldStep(F, b, s)
  BY <1>1, Zenon DEF FoldsOver
<1>4. F[1 .. 0] = 0
  <2>1. 1 .. 0 = {} /\ {} \in SUBSET (1 .. n)
    OBVIOUS
  <2> QED
    BY <1>3, <2>1 DEF FoldStep
<1>5. \A k \in 0 .. n - 1 : F[1 .. k + 1] = 256 * F[1 .. k] + b[k + 1]
  <2> SUFFICES ASSUME NEW k \in 0 .. n - 1
               PROVE  F[1 .. k + 1] = 256 * F[1 .. k] + b[k + 1]
    OBVIOUS
  <2>1. k \in Nat /\ 1 .. k + 1 \in SUBSET (1 .. n) /\ k + 1 \in 1 .. k + 1
    OBVIOUS
  <2>2. Max(1 .. k + 1) = k + 1
    BY <2>1, MaxOfFirst
  <2>3. (1 .. k + 1) \ {k + 1} = 1 .. k /\ 1 .. k + 1 # {}
    <3>1. \A x : x \in 1 .. k + 1 /\ x # k + 1 <=> x \in 1 .. k
      BY <2>1
    <3>2. (1 .. k + 1) \ {k + 1} = 1 .. k
      BY <3>1, Zenon
    <3> QED
      BY <2>1, <3>2
  <2> DEFINE s == 1 .. k + 1
  <2>4. F[s] = FoldStep(F, b, s) /\ s # {} /\ Max(s) = k + 1 /\ s \ {k + 1} = 1 .. k
    BY <1>3, <2>1, <2>2, <2>3
  <2> HIDE DEF s
  <2>5. F[s] = 256 * F[1 .. k] + b[k + 1]
    BY <2>4 DEF FoldStep
  <2> QED
    BY <2>5 DEF s
<1> DEFINE v == [k \in 0 .. n |-> F[1 .. k]]
<1>6. v[0] = 0 /\ v[n] = F[1 .. n] /\ \A k \in 0 .. n - 1 : v[k + 1] = 256 * v[k] + b[k + 1]
  BY <1>4, <1>5
<1>7. \A k \in 0 .. n : v[k] \in Int
  <2> DEFINE G == {k \in Nat : k <= n => v[k] \in Int}
  <2>1. 0 \in G
    BY <1>6
  <2>2. ASSUME NEW k \in Nat, k \in G PROVE k + 1 \in G
    <3> HIDE DEF v
    <3> SUFFICES ASSUME k + 1 <= n PROVE v[k + 1] \in Int
      OBVIOUS
    <3>1. k \in 0 .. n - 1 /\ v[k] \in Int /\ b[k + 1] \in Nat
      BY <2>2
    <3> QED
      BY <1>6, <3>1
  <2> HIDE DEF G
  <2>3. \A k \in Nat : k \in G
    BY <2>1, <2>2, UpFromZero
  <2> HIDE DEF v
  <2> QED
    BY <2>3 DEF G
<1>8. v \in [0 .. n -> Int]
  BY <1>7
<1> HIDE DEF v
<1>9. Bytes(b) = v[n]
  BY <1>2, <1>6, SMT
<1>10. Reading(v, b, n)
  BY <1>6, SMT DEF Reading
<1> QED
  BY <1>8, <1>9, <1>10

\* What is below 2^32 of a number is the remainder.
TwoTo32 == 4294967296

LEMMA Remainder ==
  ASSUME NEW n \in Nat, NEW q \in Nat, NEW r \in Nat, r < TwoTo32, n = TwoTo32 * q + r
  PROVE  n % TwoTo32 = r
<1> DEFINE d == n \div TwoTo32
           m == n % TwoTo32
<1>1. d \in Int /\ m \in Int /\ 0 <= m /\ m < TwoTo32 /\ n = TwoTo32 * d + m
  BY SMT DEF TwoTo32
<1> HIDE DEF d, m
<1>2. m = r
  BY <1>1, SMT DEF TwoTo32
<1> QED
  BY <1>2, SMT DEF m

\* Four bytes hold it.
Byte == 0 .. 255
Number(four) == 256 * (256 * (256 * four[1] + four[2]) + four[3]) + four[4]

LEMMA FourBytesAre ==
  ASSUME NEW n \in Nat
  PROVE  (\A i \in 1 .. 4 : FourBytes(n)[i] \in Byte) /\ Number(FourBytes(n)) = n % TwoTo32
<1> DEFINE q1 == n \div 256
           q2 == n \div 65536
           q3 == n \div 16777216
           q4 == q3 \div 256
           b1 == q3 % 256
           b2 == q2 % 256
           b3 == q1 % 256
           b4 == n % 256
<1>1. /\ FourBytes(n)[1] = b1 /\ FourBytes(n)[2] = b2
      /\ FourBytes(n)[3] = b3 /\ FourBytes(n)[4] = b4
  BY SMT DEF FourBytes
<1>2. q1 \in Nat /\ q2 \in Nat /\ q3 \in Nat
  BY SMT
<1>3. b1 \in 0 .. 255 /\ b2 \in 0 .. 255 /\ b3 \in 0 .. 255 /\ b4 \in 0 .. 255
  BY SMT
<1>4. n = 256 * q1 + b4
  BY SMT
<1>5. q1 = 256 * q2 + b3
  BY SMT
<1>6. q2 = 256 * q3 + b2
  BY SMT
<1>7. q4 \in Nat /\ q3 = 256 * q4 + b1
  BY SMT
<1> HIDE DEF q1, q2, q3, q4, b1, b2, b3, b4
<1> DEFINE r == 256 * (256 * (256 * b1 + b2) + b3) + b4
<1>8. r \in Nat /\ r < TwoTo32 /\ n = TwoTo32 * q4 + r
  BY <1>2, <1>3, <1>4, <1>5, <1>6, <1>7, SMT DEF TwoTo32
<1> HIDE DEF r
<1>9. n % TwoTo32 = r
  BY <1>7, <1>8, Remainder, SMT
<1>10. \A i \in 1 .. 4 : FourBytes(n)[i] \in Byte
  <2>1. \A i \in 1 .. 4 : i = 1 \/ i = 2 \/ i = 3 \/ i = 4
    BY SMT
  <2> QED
    BY <1>1, <1>3, <2>1, SMT DEF Byte
<1>11. Number(FourBytes(n)) = r
  BY <1>1, SMT DEF Number, r
<1> QED
  BY <1>9, <1>10, <1>11, SMT

\* A number by its two halves.
TwoTo16 == 65536

LEMMA Halves ==
  ASSUME NEW n \in Nat
  PROVE  /\ n \div TwoTo16 \in Nat /\ n % TwoTo16 \in Nat /\ n % TwoTo16 < TwoTo16
         /\ n = TwoTo16 * (n \div TwoTo16) + (n % TwoTo16)
<1>1. n \div TwoTo16 \in Nat
  BY SMT DEF TwoTo16
<1>2. n % TwoTo16 \in Nat /\ n % TwoTo16 < TwoTo16
  BY SMT DEF TwoTo16
<1>3. n = TwoTo16 * (n \div TwoTo16) + (n % TwoTo16)
  BY SMT DEF TwoTo16
<1> QED
  BY <1>1, <1>2, <1>3

\* All eight hold a size_t.
Sizes == {MessageSizes[n] : n \in DOMAIN MessageSizes}

LEMMA SizeIs ==
  ASSUME NEW size \in Sizes
  PROVE  /\ size \in Nat /\ High(size) \in Nat
         /\ TwoTo32 * (High(size) % TwoTo32) + (size % TwoTo32) = size
<1> DEFINE q == size \div TwoTo16
           r1 == size % TwoTo16
           high == q \div TwoTo16
           r2 == q % TwoTo16
           s == high \div TwoTo16
           r3 == high % TwoTo16
           t == s \div TwoTo16
           r4 == s % TwoTo16
<1>1. size \in Nat /\ High(size) = high /\ t = 0
  <2>1. size \in Nat /\ (High(size) \div 65536) \div 65536 = 0
    BY ServerAssumption, MessagesGiven DEF ServerAssumption, Sizes
  <2> QED
    BY <2>1, SMT DEF High, TwoTo16
<1>2. q \in Nat /\ r1 \in Nat /\ r1 < TwoTo16 /\ size = TwoTo16 * q + r1
  BY <1>1, Halves
<1> HIDE DEF q, r1
<1>3. high \in Nat /\ r2 \in Nat /\ r2 < TwoTo16 /\ q = TwoTo16 * high + r2
  BY <1>2, Halves
<1> HIDE DEF high, r2
<1>4. s \in Nat /\ r3 \in Nat /\ r3 < TwoTo16 /\ high = TwoTo16 * s + r3
  BY <1>3, Halves
<1> HIDE DEF s, r3
<1>5. t \in Nat /\ r4 \in Nat /\ r4 < TwoTo16 /\ s = TwoTo16 * t + r4
  BY <1>4, Halves
<1> HIDE DEF t, r4
<1> DEFINE low == TwoTo16 * r2 + r1
<1>6. low \in Nat /\ low < TwoTo32 /\ size = TwoTo32 * high + low
  BY <1>2, <1>3, SMT DEF TwoTo16, TwoTo32
<1>7. high < TwoTo32 /\ high = TwoTo32 * 0 + high
  BY <1>1, <1>3, <1>4, <1>5, SMT DEF TwoTo16, TwoTo32
<1> HIDE DEF low
<1>8. size % TwoTo32 = low
  BY <1>1, <1>3, <1>6, Remainder
<1>9. high % TwoTo32 = high
  BY <1>3, <1>7, Remainder
<1> QED
  BY <1>1, <1>3, <1>6, <1>8, <1>9

\* What two and eight bytes are read as.
LEMMA TwoBytes ==
  ASSUME NEW b, DOMAIN b = 1 .. 2, b[1] \in Nat, b[2] \in Nat
  PROVE  Bytes(b) = 256 * b[1] + b[2]
<1>1. PICK n \in Nat : n = 2
  OBVIOUS
<1>2. DOMAIN b = 1 .. n /\ \A i \in 1 .. n : b[i] \in Nat
  <2>1. \A i \in 1 .. n : i = 1 \/ i = 2
    BY <1>1
  <2> QED
    BY <1>1, <2>1
<1>3. PICK v \in [0 .. n -> Int] : Bytes(b) = v[n] /\ Reading(v, b, n)
  BY <1>2, BytesUnfold
<1>4. v[0] = 0 /\ v[1] = 256 * v[0] + b[1] /\ v[2] = 256 * v[1] + b[2]
  BY <1>1, <1>3, SMT DEF Reading
<1> QED
  BY <1>1, <1>3, <1>4, SMT

LEMMA EightBytes ==
  ASSUME NEW b, DOMAIN b = 1 .. 8, \A i \in 1 .. 8 : b[i] \in Nat
  PROVE  \E v \in Int :
           /\ v = Number(b)
           /\ Bytes(b) = 256 * (256 * (256 * (256 * v + b[5]) + b[6]) + b[7]) + b[8]
<1>1. PICK n \in Nat : n = 8
  OBVIOUS
<1>2. DOMAIN b = 1 .. n /\ \A i \in 1 .. n : b[i] \in Nat
  BY <1>1
<1>3. PICK v \in [0 .. n -> Int] : Bytes(b) = v[n] /\ Reading(v, b, n)
  BY <1>2, BytesUnfold
<1>4. /\ v[1] = 256 * v[0] + b[1] /\ v[2] = 256 * v[1] + b[2]
      /\ v[3] = 256 * v[2] + b[3] /\ v[4] = 256 * v[3] + b[4]
  BY <1>1, <1>3, SMT DEF Reading
<1>5. /\ v[5] = 256 * v[4] + b[5] /\ v[6] = 256 * v[5] + b[6]
      /\ v[7] = 256 * v[6] + b[7] /\ v[8] = 256 * v[7] + b[8]
  BY <1>1, <1>3, SMT DEF Reading
<1>6. /\ v[4] \in Int /\ v[0] = 0
      /\ v[4] = Number(b)
      /\ v[8] = 256 * (256 * (256 * (256 * v[4] + b[5]) + b[6]) + b[7]) + b[8]
  BY <1>1, <1>3, <1>4, <1>5, SMT DEF Reading, Number
<1> QED
  BY <1>1, <1>3, <1>6, SMT

\* The three forms of a header.
LEMMA ShortHeader ==
  ASSUME NEW size \in Nat, size <= 125
  PROVE  Header(size) = <<size>>
BY SMT DEF Header

LEMMA MiddleHeader ==
  ASSUME NEW size \in Nat, size > 125, size < TwoTo16
  PROVE  /\ Len(Header(size)) = 3 /\ Head(Header(size)) = 126
         /\ Bytes(Tail(Header(size))) = size
<1> DEFINE b == Tail(Header(size))
<1>1. Header(size) = <<126, size \div 256, size % 256>>
  BY SMT DEF Header, TwoTo16
<1>2. Len(Header(size)) = 3 /\ Head(Header(size)) = 126
      /\ b = <<size \div 256, size % 256>>
  BY <1>1, SMT
<1> HIDE DEF b
<1>3. b[1] = size \div 256 /\ b[2] = size % 256 /\ DOMAIN b = 1 .. 2
  BY <1>2, SMT
<1>4. b[1] \in Nat /\ b[2] \in Nat /\ 256 * b[1] + b[2] = size
  BY <1>3, SMT
<1>5. Bytes(b) = size
  BY <1>3, <1>4, TwoBytes, SMT
<1> QED
  BY <1>2, <1>5, SMT DEF b

LEMMA NineBytes ==
  \A one, high, low \in Seq(Nat) :
    Len(one) = 1 /\ Len(high) = 4 /\ Len(low) = 4 =>
      LET h == (one \o high) \o low
      IN  /\ Len(h) = 9 /\ Head(h) = one[1]
          /\ DOMAIN Tail(h) = 1 .. 8
          /\ \A i \in 1 .. 4 : Tail(h)[i] = high[i] /\ Tail(h)[i + 4] = low[i]
<1> SUFFICES ASSUME NEW one \in Seq(Nat), NEW high \in Seq(Nat), NEW low \in Seq(Nat),
                    Len(one) = 1, Len(high) = 4, Len(low) = 4
             PROVE  LET h == (one \o high) \o low
                    IN  /\ Len(h) = 9 /\ Head(h) = one[1]
                        /\ DOMAIN Tail(h) = 1 .. 8
                        /\ \A i \in 1 .. 4 : Tail(h)[i] = high[i] /\ Tail(h)[i + 4] = low[i]
  OBVIOUS
<1> DEFINE first == one \o high
           h == first \o low
           rest == Tail(h)
<1>1. first \in Seq(Nat)
  BY ConcatProperties
<1>2. Len(first) = Len(one) + Len(high)
  BY ConcatProperties
<1>3. \A i \in 1 .. Len(one) + Len(high) :
        first[i] = IF i <= Len(one) THEN one[i] ELSE high[i - Len(one)]
  BY ConcatProperties
<1> HIDE DEF first
<1>4. h \in Seq(Nat)
  BY <1>1, ConcatProperties
<1>5. Len(h) = Len(first) + Len(low)
  BY <1>1, ConcatProperties
<1>6. \A i \in 1 .. Len(first) + Len(low) :
        h[i] = IF i <= Len(first) THEN first[i] ELSE low[i - Len(first)]
  BY <1>1, ConcatProperties
<1> HIDE DEF h
<1>7. Len(first) = 5 /\ first[1] = one[1] /\ \A i \in 1 .. 4 : first[i + 1] = high[i]
  BY <1>1, <1>2, <1>3
<1>8. Len(h) = 9 /\ h[1] = one[1] /\ \A i \in 1 .. 4 : h[i + 1] = high[i] /\ h[i + 5] = low[i]
  BY <1>5, <1>6, <1>7
<1>9. h # << >> /\ Head(h) = h[1]
  <2>1. Len(<< >>) = 0 /\ Len(h) # 0
    BY <1>8
  <2> QED
    BY <2>1, <1>4
<1>10. rest \in Seq(Nat) /\ Len(rest) = Len(h) - 1
  BY <1>4, <1>9, HeadTailProperties
<1>11. \A i \in 1 .. Len(rest) : rest[i] = h[i + 1]
  BY <1>4, <1>9, HeadTailProperties
<1> HIDE DEF rest
<1>12. DOMAIN rest = 1 .. 8 /\ \A i \in 1 .. 4 : rest[i] = h[i + 1] /\ rest[i + 4] = h[i + 5]
  BY <1>8, <1>10, <1>11
<1>13. \A i \in 1 .. 4 : rest[i] = high[i] /\ rest[i + 4] = low[i]
  BY <1>8, <1>12
<1> QED
  BY <1>8, <1>9, <1>12, <1>13 DEF rest, h, first

LEMMA LongHeader ==
  ASSUME NEW size \in Sizes, size >= TwoTo16
  PROVE  /\ Len(Header(size)) = 9 /\ Head(Header(size)) = 127
         /\ Bytes(Tail(Header(size))) = size
<1> DEFINE high == FourBytes(High(size))
           low == FourBytes(size)
           b == Tail(Header(size))
<1>1. size \in Nat /\ High(size) \in Nat
  BY SizeIs, SMT
<1> DEFINE one == <<127>>
<1>2. Header(size) = (one \o high) \o low /\ one \in Seq(Nat) /\ Len(one) = 1
  BY <1>1, SMT DEF Header, TwoTo16
<1>one. one[1] = 127
  BY SMT
<1> HIDE DEF one
<1>3. ASSUME NEW n \in Nat PROVE FourBytes(n) \in Seq(Nat) /\ Len(FourBytes(n)) = 4
  BY SMT DEF FourBytes
<1>4. high \in Seq(Nat) /\ Len(high) = 4 /\ low \in Seq(Nat) /\ Len(low) = 4
  BY <1>1, <1>3, SMT
<1> HIDE DEF high, low
<1>nine. LET h == (one \o high) \o low
         IN  /\ Len(h) = 9 /\ Head(h) = one[1]
             /\ DOMAIN Tail(h) = 1 .. 8
             /\ \A i \in 1 .. 4 : Tail(h)[i] = high[i] /\ Tail(h)[i + 4] = low[i]
  BY <1>2, <1>4, NineBytes, Zenon
<1>5. Len(Header(size)) = 9 /\ Head(Header(size)) = 127
  BY <1>2, <1>nine, <1>one, SMT
<1>6. DOMAIN b = 1 .. 8 /\ \A i \in 1 .. 4 : b[i] = high[i] /\ b[i + 4] = low[i]
  BY <1>2, <1>nine, Zenon
<1> HIDE DEF b
<1>7. (\A i \in 1 .. 4 : high[i] \in Byte) /\ Number(high) = High(size) % TwoTo32
  BY <1>1, FourBytesAre, SMT DEF high
<1>8. (\A i \in 1 .. 4 : low[i] \in Byte) /\ Number(low) = size % TwoTo32
  BY <1>1, FourBytesAre, SMT DEF low
<1>9. ASSUME NEW i \in 1 .. 8 PROVE b[i] \in Nat
  <2>1. CASE i <= 4
    <3>1. i \in 1 .. 4
      BY <2>1, SMT
    <3> QED
      BY <1>6, <1>7, <3>1, SMT DEF Byte
  <2>2. CASE i > 4
    <3>1. PICK j \in 1 .. 4 : i = j + 4
      <4>1. i - 4 \in 1 .. 4 /\ i = (i - 4) + 4
        BY <2>2, SMT
      <4> QED
        BY <4>1, SMT
    <3> QED
      BY <1>6, <1>8, <3>1, SMT DEF Byte
  <2> QED
    BY <2>1, <2>2, SMT
<1>10. PICK v \in Int : /\ v = Number(b)
                        /\ Bytes(b) = 256 * (256 * (256 * (256 * v + b[5]) + b[6]) + b[7]) + b[8]
  BY <1>6, <1>9, EightBytes, SMT
<1>11. /\ b[1] = high[1] /\ b[2] = high[2] /\ b[3] = high[3] /\ b[4] = high[4]
       /\ b[5] = low[1] /\ b[6] = low[2] /\ b[7] = low[3] /\ b[8] = low[4]
  BY <1>6, SMT
<1>12. v = High(size) % TwoTo32
  BY <1>7, <1>10, <1>11, SMT DEF Number
<1>13. /\ low[1] \in Nat /\ low[2] \in Nat /\ low[3] \in Nat /\ low[4] \in Nat
  BY <1>8, SMT DEF Byte
<1>14. Bytes(b) = TwoTo32 * v + Number(low)
  BY <1>10, <1>11, <1>13, SMT DEF TwoTo32, Number
<1>15. Bytes(b) = size
  BY <1>8, <1>12, <1>14, SizeIs, SMT
<1> QED
  BY <1>5, <1>15, SMT DEF b

\* A header gives the size back, and tells how long it is by its first byte.
LEMMA HeaderReadable ==
  ASSUME NEW size \in Sizes
  PROVE  /\ Decoded(Header(size)) = size
         /\ Len(Header(size)) = IF Head(Header(size)) = 126 THEN 3
                                ELSE IF Head(Header(size)) = 127 THEN 9 ELSE 1
<1>1. size \in Nat
  BY SizeIs, SMT
<1>2. CASE size <= 125
  <2>1. Header(size) = <<size>> /\ Head(<<size>>) = size /\ Len(<<size>>) = 1
    BY <1>1, <1>2, ShortHeader, SMT
  <2> QED
    BY <1>1, <1>2, <2>1, SMT DEF Decoded
<1>3. CASE size > 125 /\ size < TwoTo16
  BY <1>1, <1>3, MiddleHeader, SMT DEF Decoded
<1>4. CASE size >= TwoTo16
  BY <1>4, LongHeader, SMT DEF Decoded
<1> QED
  BY <1>1, <1>2, <1>3, <1>4, SMT DEF TwoTo16

(* Every frame a client is sent can be read: the first byte after its opcode  *)
(* tells how long the header is and the header gives the length of the        *)
(* message that follows, whatever 64 bits size() takes                        *)
(* (websocket_server.cpp:303-315, 333-343).                                   *)
THEOREM EveryFrameReadable == Spec => []FramesReadable
<1>1. ServerTypeOK => FramesReadable
  <2> SUFFICES ASSUME ServerTypeOK, NEW p \in Peers, NEW i \in 1 .. Len(inbox[p]),
                      inbox[p][i] # Hello
               PROVE  /\ Decoded(inbox[p][i].header) = inbox[p][i].size
                      /\ Len(inbox[p][i].header) = CASE Head(inbox[p][i].header) = 126 -> 3
                                                     [] Head(inbox[p][i].header) = 127 -> 9
                                                     [] OTHER -> 1
    BY DEF FramesReadable
  <2>1. inbox[p][i] \in Frames
    <3>1. inbox[p] \in Seq(Frames)
      BY DEF ServerTypeOK
    <3> QED
      BY <3>1, ElementOfSeq
  <2>2. PICK n \in DOMAIN MessageSizes : inbox[p][i] = Frame(n)
    BY <2>1 DEF Frames
  <2> DEFINE size == MessageSizes[n]
  <2>3. size \in Sizes /\ inbox[p][i].header = Header(size) /\ inbox[p][i].size = size
    BY <2>2 DEF Frame, Sizes
  <2> HIDE DEF size
  <2> QED
    BY <2>3, HeaderReadable, SMT
<1> QED
  BY <1>1, ServerTypes, PTL
================================================================================
