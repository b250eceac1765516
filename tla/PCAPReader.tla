------------------------------ MODULE PCAPReader ------------------------------
(***************************************************************************)
(* pcap::PCAPReader (src/src/pcap_reader.cpp) over a file of any content:  *)
(* what stands in a packet's headers is chosen when the reader first looks *)
(* at them, and stays.                                                     *)
(*                                                                         *)
(* is_valid only tells the caller about the magic number; next_packet does *)
(* not look at it.  Left out: times and ports, and packets_read, which is  *)
(* always 0.  Names that MessageParsers has as well are told apart, so that*)
(* one module can extend both.                                             *)
(***************************************************************************)
EXTENDS Integers, Sequences, SequencesExt

CONSTANTS
  FileHeader, PacketHeader, EthernetHeader, IPv4Header, UDPHeader,  \* sizeof
  Word,        \* 4 in the code: what the length in an IPv4 header counts
  MaxIHL,      \* 15 in the code, the largest such length
  Sizes,       \* possible sizes of the file
  MaxLength,   \* bound on incl_len, and ...
  MaxRewinds    \* ... on the calls of reset

VARIABLES
  size_, offset_, valid_,
  packets,     \* the file, as far as it has been read: headers by offset
  packet,      \* the payload last delivered
  first,       \* history: where reading began, and ...
  payloads,    \* ... the packets delivered since, by their offsets
  rewinds

readerVars == <<size_, offset_, valid_, packets, packet, first, payloads, rewinds>>

ASSUME PCAPAssumption ==
  /\ {FileHeader, PacketHeader, EthernetHeader, IPv4Header, UDPHeader, Word} \subseteq Nat \ {0}
  /\ MaxIHL \in Nat
  /\ Sizes \subseteq Nat
  /\ MaxLength \in Nat
  /\ MaxRewinds \in Nat

\* ihl when ethertype or protocol say that it is not UDP over IPv4.
NotUDP == -1
Headers == [len : 0 .. MaxLength, ihl : {NotUDP} \cup 0 .. MaxIHL]

NoPayload == [start |-> 0, size |-> 0]

\* The constructor.  A file that is too short, or has another magic number, is
\* read from its first byte if the caller asks for it all the same.
ReaderInit ==
  /\ size_ \in Sizes
  /\ valid_ \in IF size_ < FileHeader THEN {FALSE} ELSE BOOLEAN
  /\ offset_ = IF valid_ THEN FileHeader ELSE 0
  /\ packets = [o \in {} |-> 0]
  /\ packet = NoPayload
  /\ first = offset_
  /\ payloads = << >>
  /\ rewinds = 0

\* Faulty variant of HasPayload: the packet may end with its headers.
HasPayloadOrNothing(len, ihl) ==
  /\ ihl # NotUDP
  /\ EthernetHeader + IPv4Header <= len
  /\ EthernetHeader + Word * ihl + UDPHeader <= len

\* parse_headers: its early returns, and where the payload begins.
HasPayload(len, ihl) ==
  /\ ihl # NotUDP
  /\ EthernetHeader + IPv4Header <= len
  /\ EthernetHeader + Word * ihl + UDPHeader < len
PayloadStart(ihl) == EthernetHeader + Word * ihl + UDPHeader

\* What may stand at an offset.  Of a packet that is cut short, or too short for
\* an IPv4 header, nobody looks at what it carries.
Readable(o) ==
  {h \in Headers : \/ h.ihl = NotUDP
                   \/ /\ EthernetHeader + IPv4Header <= h.len
                      /\ o + PacketHeader + h.len <= size_}

AtEnd == offset_ + PacketHeader > size_

\* Faulty variant of Behind: a packet that is not UDP is not passed.
BehindHeaders(o, h) ==
  o + PacketHeader + IF o + PacketHeader + h.len <= size_ /\ HasPayload(h.len, h.ihl) THEN h.len ELSE 0

\* Faulty variant of Behind: a packet that is cut short is tried again.
BehindOrRetry(o, h) ==
  IF o + PacketHeader + h.len <= size_ THEN o + PacketHeader + h.len ELSE o

\* Where next_packet leaves the offset: behind the packet, or, when the file
\* ends in it, behind its header.
Behind(o, h) ==
  o + PacketHeader + IF o + PacketHeader + h.len <= size_ THEN h.len ELSE 0

\* next_packet, which has found h at the offset.
NextPacket ==
  /\ ~ AtEnd
  /\ \E h \in IF offset_ \in DOMAIN packets THEN {packets[offset_]} ELSE Readable(offset_) :
       LET data == offset_ + PacketHeader
           found == data + h.len <= size_ /\ HasPayload(h.len, h.ihl)
       IN  /\ packets' = [o \in DOMAIN packets \cup {offset_} |->
                            IF o = offset_ THEN h ELSE packets[o]]
           /\ offset_' = Behind(offset_, h)
           /\ packet' = IF found THEN [start |-> data + PayloadStart(h.ihl),
                                       size |-> h.len - PayloadStart(h.ihl)]
                        ELSE packet
           /\ payloads' = IF found THEN Append(payloads, offset_) ELSE payloads
  /\ UNCHANGED <<size_, valid_, first, rewinds>>

\* next_packet at the end of the file.
NextNothing == AtEnd /\ UNCHANGED readerVars

\* reset() goes behind the file's header, valid or not.
ReaderReset ==
  /\ rewinds < MaxRewinds
  /\ rewinds' = rewinds + 1
  /\ offset_' = FileHeader
  /\ first' = FileHeader
  /\ payloads' = << >>
  /\ UNCHANGED <<size_, valid_, packets, packet>>

ReaderNext == NextPacket \/ NextNothing \/ ReaderReset

ReaderSpec == ReaderInit /\ [][ReaderNext]_readerVars

\* The caller goes on, whatever next_packet returned.
FairReaderSpec == ReaderSpec /\ WF_readerVars(NextPacket)
-------------------------------------------------------------------------------
(* Every variable has its type. *)
ReaderTypeOK ==
  /\ size_ \in Sizes
  /\ offset_ \in Nat
  /\ valid_ \in BOOLEAN
  /\ \A o \in DOMAIN packets : o \in Nat /\ packets[o] \in Headers
  /\ packet \in [start : Nat, size : Nat]
  /\ first \in {0, FileHeader}
  /\ payloads \in Seq(Nat)
  /\ rewinds \in 0 .. MaxRewinds

(* A payload that next_packet delivers has bytes, and all of them are data of *)
(* that packet and of the file, also when the packet claims an IPv4 header    *)
(* shorter than one can be or longer than the packet (lines 83-105).          *)
PayloadInPacket ==
  packet # NoPayload =>
    /\ packet.size > 0
    /\ \E o \in DOMAIN packets :
         LET data == o + PacketHeader IN
           /\ data <= packet.start
           /\ packet.start + packet.size = data + packets[o].len
           /\ packet.start + packet.size <= size_

\* The file as it was written: where the packet behind another begins, if that
\* one is not cut short.
Follower(o) == o + PacketHeader + packets[o].len
IsCut(o) == Follower(o) > size_

\* The packets that begin at starts are all between where reading began and end.
Between(starts, end) ==
  /\ \A o \in starts : Follower(o) \in starts \cup {end}
  /\ starts \cup {end} = {first} \cup {Follower(o) : o \in starts}

(* Of the packets up to the first that is cut short, next_packet delivers     *)
(* every one over UDP that has a payload, once and in the order of the file;  *)
(* that it also returns false for the others, as at the end of the file       *)
(* (line 54), skips none.  Only behind a packet cut short it may read what is *)
(* no packet.                                                                 *)
EachPacketOnce ==
  /\ \A i, j \in DOMAIN payloads : i < j => payloads[i] < payloads[j]
  /\ \E end \in {offset_} \cup DOMAIN packets :
       /\ end = offset_ \/ (end < offset_ /\ IsCut(end))
       /\ end = offset_ => \A o \in Range(payloads) : o < end
       /\ \E starts \in SUBSET {o \in DOMAIN packets : o < end /\ ~ IsCut(o)} :
            /\ Between(starts, end)
            /\ {o \in Range(payloads) : o < end}
                 = {o \in starts : HasPayload(packets[o].len, packets[o].ihl)}

(* A caller that goes on after every false comes to the end of any file:      *)
(* neither a packet that is not UDP nor one that is cut short holds the       *)
(* reader where it is.                                                        *)
ReachesEnd == <>[]AtEnd
===============================================================================
