----------------------------- MODULE MessageParsers -----------------------------
(***************************************************************************)
(* itch::Parser (src/itch_parser.cpp, include/itch_parser.hpp) and         *)
(* iex::Parser (include/iex_parser.hpp): how they cut a buffer into        *)
(* messages.                                                               *)
(*                                                                         *)
(* An ITCH message begins with its length, two bytes, and its type; an IEX *)
(* message with its type, which fixes its length.  A buffer is any sequence*)
(* of bytes.  A byte has Base values, and the structures have the sizes    *)
(* ITCHSize and IEXSize give to the types that are parsed.  What is in the *)
(* fields behind the type is left out.                                     *)
(***************************************************************************)
EXTENDS Integers, Sequences, FiniteSets, SequencesExt

CONSTANTS Base,        \* values of a byte
          MaxSize,     \* bound: bytes in the buffer
          ITCHSize,    \* sizeof the structure, for the types of the switch
          IEXSize,     \* the same for IEX
          IEXHeader,   \* sizeof(iex::MessageHeader)
          MaxResets    \* bound: calls of reset

ASSUME ParserAssumption ==
  /\ Base \in Nat \ {0}
  /\ MaxSize \in Nat
  /\ IEXHeader \in Nat \ {0}
  /\ \A type \in DOMAIN ITCHSize : ITCHSize[type] \in Nat /\ ITCHSize[type] >= 3
  /\ \A type \in DOMAIN IEXSize : IEXSize[type] \in Nat /\ IEXSize[type] > IEXHeader
  /\ MaxResets \in Nat

VARIABLES protocol,   \* which of the two parsers this is
          buffer,     \* buffer_ and size_
          offset,     \* offset_
          delivered,  \* history: where the messages returned began, since reset
          copied,     \* history: the end of the last structure copied
          resets      \* history: calls of reset

vars == <<protocol, buffer, offset, delivered, copied, resets>>
-------------------------------------------------------------------------------
Size == Len(buffer)

Byte(at) == buffer[at + 1]

Init == /\ protocol \in {"ITCH", "IEX"}
        /\ buffer \in UNION {[1 .. n -> 0 .. Base - 1] : n \in 0 .. MaxSize}
        /\ offset = 0
        /\ delivered = << >>
        /\ copied = 0
        /\ resets = 0

HasMore == offset < Size

\* swap_uint16 of the first two bytes, and the byte behind them.
Length(at) == Base * Byte(at) + Byte(at + 1)
ITCHType(at) == Byte(at + 2)

\* Faulty variant of HeaderFits: < for <=.
HeaderFitsStrictly(header) == offset + header < Size

HeaderFits(header) == offset + header <= Size

\* The message at offset is in the buffer, as far as its length and its type say.
ITCHComplete == HeaderFits(3) /\ offset + Length(offset) <= Size
IEXComplete == /\ HeaderFits(IEXHeader)
               /\ Byte(offset) \in DOMAIN IEXSize => offset + IEXSize[Byte(offset)] <= Size

\* Return the message at offset, of the given size, and move by as much as length.
Deliver(size, length) ==
  /\ delivered' = Append(delivered, offset)
  /\ copied' = offset + size
  /\ offset' = offset + length
  /\ UNCHANGED <<protocol, buffer, resets>>

\* Return nothing, and move.
Skip(length) ==
  /\ offset' = offset + length
  /\ UNCHANGED <<protocol, buffer, delivered, copied, resets>>

\* Faulty variant of ParseITCH: does not compare the length with the structure.
ParseITCHAnyLength ==
  /\ protocol = "ITCH"
  /\ ITCHComplete
  /\ IF ITCHType(offset) \in DOMAIN ITCHSize
       THEN Deliver(ITCHSize[ITCHType(offset)], Length(offset))
       ELSE Skip(Length(offset))

\* itch::Parser::parse_next, when it has a whole message before it: one of a type
\* it does not know, or too short for its type, is skipped.
ParseITCH ==
  /\ protocol = "ITCH"
  /\ ITCHComplete
  /\ LET type == ITCHType(offset)
         known == type \in DOMAIN ITCHSize
     IN  IF known /\ Length(offset) >= ITCHSize[type]
           THEN Deliver(ITCHSize[type], Length(offset))
           ELSE Skip(Length(offset))

\* Faulty variant of ParseIEX: of the next message, only the header is passed over.
ParseIEXHeaderOnly ==
  /\ protocol = "IEX"
  /\ IEXComplete
  /\ LET type == Byte(offset)
     IN  IF type \in DOMAIN IEXSize
           THEN Deliver(IEXSize[type], IEXHeader)
           ELSE Skip(IEXHeader)

\* iex::Parser::parse_next, likewise: of a type it does not know it passes the
\* header, and takes what is behind it for the next message.
ParseIEX ==
  /\ protocol = "IEX"
  /\ IEXComplete
  /\ LET type == Byte(offset)
     IN  IF type \in DOMAIN IEXSize
           THEN Deliver(IEXSize[type], IEXSize[type])
           ELSE Skip(IEXHeader)

\* parse_next otherwise returns nothing and stays where it is.
ParseNothing ==
  /\ ~ IF protocol = "ITCH" THEN ITCHComplete ELSE IEXComplete
  /\ UNCHANGED vars

Reset ==
  /\ resets < MaxResets
  /\ resets' = resets + 1
  /\ offset' = 0
  /\ delivered' = << >>
  /\ UNCHANGED <<protocol, buffer, copied>>

ParseNext == ParseITCH \/ ParseIEX \/ ParseNothing

Next == ParseNext \/ Reset

Spec == Init /\ [][Next]_vars

\* The caller's loop, while (parser.has_more()) (src/main.cpp:261).
FairSpec == Spec /\ WF_vars(HasMore /\ ParseNext)
-------------------------------------------------------------------------------
(* Every variable has its type. *)
TypeOK ==
  /\ protocol \in {"ITCH", "IEX"}
  /\ buffer \in Seq(0 .. Base - 1)
  /\ offset \in Nat
  /\ delivered \in Seq(Nat)
  /\ copied \in Nat
  /\ resets \in 0 .. MaxResets

(* What a well-formed stream is, told from its places alone.                *)

\* Where the message that begins at a place ends; before it if there is none.
FrameEnd(at) ==
  IF protocol = "ITCH"
    THEN IF at + 3 <= Size /\ Length(at) >= 3 THEN at + Length(at) ELSE -1
    ELSE IF at < Size /\ Byte(at) \in DOMAIN IEXSize THEN at + IEXSize[Byte(at)] ELSE -1

\* The first bytes of the buffer, up to end, are messages that begin at starts.
Framed(starts, end) ==
  /\ \A at \in starts : FrameEnd(at) \in starts \cup {end}
  /\ starts \cup {end} = {0} \cup {FrameEnd(at) : at \in starts}

\* Those of a type that is parsed, and long enough for it.
Whole(starts) ==
  {at \in starts : protocol = "ITCH" => /\ ITCHType(at) \in DOMAIN ITCHSize
                                        /\ Length(at) >= ITCHSize[ITCHType(at)]}

Framings(end) ==
  {starts \in SUBSET {at \in 0 .. end - 1 : FrameEnd(at) > at} : Framed(starts, end)}

(* No structure is copied from beyond the end of the buffer, whatever is in   *)
(* it: the length has been compared with the buffer, and the structure with   *)
(* the length.                                                                *)
CopiesInBounds == offset <= Size /\ copied <= Size

(* Of the well-formed part at the front of any buffer, every message that can *)
(* be parsed is returned once and in order, whatever follows it: a cut message*)
(* at the end of a packet spoils none before it.                              *)
DeliversStream ==
  \A end \in 0 .. Size : \A starts \in Framings(end) :
    LET passed == {at \in starts : at < offset}
    IN  /\ offset < end => offset \in starts
        /\ {at \in Range(delivered) : at < end} = Whole(passed)
        /\ \A i, j \in DOMAIN delivered : i < j => delivered[i] < delivered[j]

\* How much of the buffer is well-formed.
WellFormed == Max({end \in 0 .. Size : Framings(end) # {}})

(* The caller's loop gets past the well-formed part, and so ends on a stream  *)
(* that is well-formed to its end.  On any other it may stay for ever: a tail *)
(* shorter than a message, or a length of zero, does not move the offset.     *)
PassesStream == []<>(offset >= WellFormed)
=================================================================================
