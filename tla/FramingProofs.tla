------------------------------ MODULE FramingProofs ------------------------------
(***************************************************************************)
(* Proofs about the modules that cut bytes into messages, MessageParsers   *)
(* and PCAPReader.  Both parsers stay in their buffer, whatever it holds,  *)
(* however long it is and whatever sizes the structures have; for every    *)
(* capture file and all sizes of the headers, a payload lies in its packet.*)
(***************************************************************************)
EXTENDS MessageParsers, PCAPReader, SequenceTheorems, WellFoundedInduction, TLAPS
-------------------------------------------------------------------------------
(* The invariant: CopiesInBounds needs the type of the buffer, for the length *)
(* it reads from it, and nothing else.                                        *)
InBounds == TypeOK /\ CopiesInBounds

(* A byte of the buffer is a number (buffer_ is an array of uint8_t).         *)
LEMMA ByteIsNat ==
  ASSUME TypeOK, NEW at \in Nat, at < Size
  PROVE  Byte(at) \in Nat
<1>1. at + 1 \in 1 .. Len(buffer)
  BY DEF Size, TypeOK
<1>2. Byte(at) \in 0 .. Base - 1
  <2> DEFINE bytes == 0 .. Base - 1
  <2>1. buffer \in Seq(bytes)
    BY DEF TypeOK
  <2> HIDE DEF bytes
  <2> QED
    BY <1>1, <2>1, ElementOfSeq DEF Byte, bytes
<1> QED
  BY <1>2, ParserAssumption DEF ParserAssumption

(* When the first three bytes are there, the length they give is a number     *)
(* (swap_uint16 of two bytes of the buffer).                                  *)
LEMMA LengthIsNat ==
  ASSUME TypeOK, HeaderFits(3)
  PROVE  Length(offset) \in Nat
<1>1. /\ Size \in Nat
      /\ offset \in Nat
      /\ offset + 1 \in Nat
      /\ offset < Size
      /\ offset + 1 < Size
  BY DEF HeaderFits, Size, TypeOK
<1>2. Byte(offset) \in Nat /\ Byte(offset + 1) \in Nat
  BY <1>1, ByteIsNat
<1>3. Base \in Nat
  BY ParserAssumption DEF ParserAssumption
<1>4. Base * Byte(offset) \in Nat
  BY <1>2, <1>3
<1> QED
  BY <1>2, <1>4 DEF Length

(* Returning a message that ends in the buffer, and moving no further than    *)
(* its end, keeps the parser in bounds (line 172, and iex_parser.hpp:142).    *)
LEMMA DeliverInBounds ==
  ASSUME InBounds,
         NEW size \in Nat, NEW length \in Nat,
         size <= length, offset + length <= Size,
         Deliver(size, length)
  PROVE  InBounds'
<1>1. offset' \in Nat /\ copied' \in Nat /\ delivered' \in Seq(Nat)
  BY DEF Deliver, InBounds, TypeOK
<1>2. Size \in Nat /\ Size' = Size
  BY DEF Size, Deliver, InBounds, TypeOK
<1>3. offset' <= Size' /\ copied' <= Size'
  BY <1>2 DEF Deliver, InBounds, TypeOK
<1> QED
  BY <1>1, <1>3 DEF Deliver, InBounds, TypeOK, CopiesInBounds

(* So does skipping one (lines 168-173, and iex_parser.hpp:129).              *)
LEMMA SkipInBounds ==
  ASSUME InBounds,
         NEW length \in Nat, offset + length <= Size,
         Skip(length)
  PROVE  InBounds'
<1>1. Size' = Size
  BY DEF Size, Skip
<1>2. offset' \in Nat /\ offset' <= Size' /\ copied' <= Size'
  BY <1>1 DEF Skip, InBounds, TypeOK, CopiesInBounds
<1> QED
  BY <1>2 DEF Skip, InBounds, TypeOK, CopiesInBounds

(* A parser that has just been made is in bounds. *)
LEMMA InitInBounds == Init => InBounds
<1> SUFFICES ASSUME Init PROVE InBounds
  OBVIOUS
<1>1. PICK n \in 0 .. MaxSize : buffer \in [1 .. n -> 0 .. Base - 1]
  BY DEF Init
<1>2. buffer \in Seq(0 .. Base - 1) /\ Len(buffer) = n
  BY <1>1, ParserAssumption DEF ParserAssumption
<1>3. MaxResets \in Nat
  BY ParserAssumption DEF ParserAssumption
<1> QED
  BY <1>2, <1>3 DEF Init, InBounds, TypeOK, CopiesInBounds, Size

(* No call takes it out of bounds. *)
LEMMA StepInBounds == InBounds /\ [Next]_vars => InBounds'
<1> SUFFICES ASSUME InBounds, [Next]_vars PROVE InBounds'
  OBVIOUS
<1>1. TypeOK /\ Size \in Nat /\ offset \in Nat
  BY DEF InBounds, TypeOK, Size
<1>2. CASE ParseITCH
  <2> DEFINE type == ITCHType(offset)
  <2>1. Length(offset) \in Nat /\ offset + Length(offset) <= Size
    BY <1>1, <1>2, LengthIsNat DEF ParseITCH, ITCHComplete
  <2>2. CASE type \in DOMAIN ITCHSize /\ Length(offset) >= ITCHSize[type]
    <3>1. ITCHSize[type] \in Nat
      BY <2>2, ParserAssumption DEF ParserAssumption
    <3>2. Deliver(ITCHSize[type], Length(offset))
      BY <1>2, <2>2 DEF ParseITCH
    <3>3. ITCHSize[type] <= Length(offset)
      BY <2>1, <2>2, <3>1
    <3> HIDE DEF type
    <3> QED
      BY <2>1, <3>1, <3>2, <3>3, DeliverInBounds
  <2>3. CASE ~ (type \in DOMAIN ITCHSize /\ Length(offset) >= ITCHSize[type])
    <3>1. Skip(Length(offset))
      BY <1>2, <2>3 DEF ParseITCH
    <3> QED
      BY <2>1, <3>1, SkipInBounds
  <2> QED
    BY <2>2, <2>3
<1>3. CASE ParseIEX
  <2> DEFINE type == Byte(offset)
  <2>1. CASE type \in DOMAIN IEXSize
    <3>1. IEXSize[type] \in Nat
      BY <2>1, ParserAssumption DEF ParserAssumption
    <3>2. offset + IEXSize[type] <= Size /\ Deliver(IEXSize[type], IEXSize[type])
      BY <1>3, <2>1 DEF ParseIEX, IEXComplete
    <3> HIDE DEF type
    <3> QED
      BY <3>1, <3>2, DeliverInBounds
  <2>2. CASE type \notin DOMAIN IEXSize
    <3>1. IEXHeader \in Nat
      BY ParserAssumption DEF ParserAssumption
    <3>2. offset + IEXHeader <= Size /\ Skip(IEXHeader)
      BY <1>3, <2>2 DEF ParseIEX, IEXComplete, HeaderFits
    <3> QED
      BY <3>1, <3>2, SkipInBounds
  <2> QED
    BY <2>1, <2>2
<1>4. CASE Reset
  <2>1. offset' = 0 /\ Size' = Size /\ resets' \in 0 .. MaxResets
    BY <1>4, ParserAssumption DEF Reset, Size, InBounds, TypeOK, ParserAssumption
  <2> QED
    BY <1>1, <1>4, <2>1 DEF Reset, InBounds, TypeOK, CopiesInBounds
<1>5. CASE ParseNothing \/ UNCHANGED vars
  BY <1>5 DEF ParseNothing, vars, InBounds, TypeOK, CopiesInBounds, Size
<1> QED
  BY <1>2, <1>3, <1>4, <1>5 DEF Next, ParseNext

(* No structure is ever copied from beyond the buffer's end, nor does the     *)
(* offset pass it, for any buffer and any sizes of the structures: the two    *)
(* tests of the length, lines 15 and 23 ff., are enough.                      *)
THEOREM StaysInBounds == Spec => []CopiesInBounds
<1>1. InBounds => CopiesInBounds
  BY DEF InBounds
<1> QED
  BY InitInBounds, StepInBounds, <1>1, PTL DEF Spec

(* Every variable keeps its type. *)
THEOREM ParserTypes == Spec => []TypeOK
<1>1. InBounds => TypeOK
  BY DEF InBounds
<1> QED
  BY InitInBounds, StepInBounds, <1>1, PTL DEF Spec
-------------------------------------------------------------------------------
(* The well-formed part of a buffer is given by the places where its messages *)
(* begin.  These are one chain from 0, though Framed says only that each      *)
(* leads to another and is led to.                                            *)

\* A set of numbers has a least one.
LEMMA LeastOf ==
  ASSUME NEW S \in SUBSET Nat, S # {}
  PROVE  \E x \in S : \A y \in S : x <= y
<1> DEFINE Before == {ss \in Nat \X Nat : ss[1] < ss[2]}
<1>1. OpToRel(<, Nat) = Before
  BY Zenon DEF OpToRel
<1>2. IsWellFoundedOn(Before, Nat)
  BY <1>1, NatLessThanWellFounded
<1>3. PICK x \in S : \A y \in S : ~ (<<y, x>> \in Before)
  BY <1>2, WFMin
<1>4. ASSUME NEW y \in S, ~ (x <= y) PROVE FALSE
  <2>1. <<y, x>> \in Nat \X Nat /\ y < x
    BY <1>4
  <2>2. <<y, x>> \in Before
    BY <2>1
  <2> QED
    BY <1>3, <2>2
<1> QED
  BY <1>4

\* A message leads to the end or to another message, further on, and no message
\* begins within it.
LEMMA OneChain ==
  ASSUME TypeOK, NEW end \in 0 .. Size, NEW starts \in Framings(end), NEW at \in starts
  PROVE  /\ at \in Nat /\ at < end
         /\ FrameEnd(at) \in starts \cup {end}
         /\ FrameEnd(at) \in Nat /\ at < FrameEnd(at)
         /\ \A x \in starts : at < x => FrameEnd(at) <= x
<1>1. Size \in Nat
  BY DEF Size, TypeOK
<1>2. end \in Nat
  BY <1>1
<1>3. \A x \in starts : x \in Nat /\ x < end /\ x < FrameEnd(x)
  BY <1>2 DEF Framings
<1>4. /\ \A x \in starts : FrameEnd(x) \in starts \cup {end}
      /\ \A x \in starts : x = 0 \/ \E y \in starts : x = FrameEnd(y)
  BY DEF Framings, Framed
<1>5. \A x \in starts : FrameEnd(x) \in Nat
  BY <1>2, <1>3, <1>4
<1> DEFINE within == {x \in starts : \E y \in starts : y < x /\ x < FrameEnd(y)}
<1>6. within = {}
  <2> SUFFICES ASSUME within # {} PROVE FALSE
    OBVIOUS
  <2>1. within \in SUBSET Nat
    BY <1>3
  <2>2. PICK x \in within : \A z \in within : x <= z
    BY <2>1, LeastOf
  <2>3. PICK y \in starts : y < x /\ x < FrameEnd(y)
    BY <2>2
  <2>4. x \in starts /\ x \in Nat /\ y \in Nat /\ FrameEnd(y) \in Nat
    BY <1>3, <1>5, <2>2, <2>3
  <2>5. PICK z \in starts : x = FrameEnd(z)
    BY <1>4, <2>3, <2>4
  <2>6. z \in Nat /\ z < x
    BY <1>3, <2>5
  <2>7. CASE z = y
    BY <2>3, <2>4, <2>5, <2>7
  <2>8. CASE y < z
    <3>1. z < FrameEnd(y)
      BY <2>3, <2>4, <2>6
    <3>2. z \in within
      BY <2>3, <2>8, <3>1
    <3> QED
      BY <2>2, <2>4, <2>6, <3>2
  <2>9. CASE z < y
    <3>1. y \in within
      BY <2>3, <2>5, <2>9
    <3> QED
      BY <2>2, <2>3, <2>4, <3>1
  <2> QED
    BY <2>4, <2>6, <2>7, <2>8, <2>9
<1>7. \A x \in starts : at < x => FrameEnd(at) <= x
  BY <1>3, <1>5, <1>6
<1> QED
  BY <1>3, <1>4, <1>5, <1>7

\* What begins a stream begins where the buffer does.
LEMMA ChainBegins ==
  ASSUME NEW end \in 0 .. Size, NEW starts \in Framings(end), 0 # end
  PROVE  0 \in starts
BY DEF Framings, Framed

\* Nothing of what is well-formed depends on how far the parser is.
LEMMA SameFrames ==
  ASSUME UNCHANGED <<protocol, buffer>>
  PROVE  /\ Size' = Size
         /\ \A end : Framings(end)' = Framings(end)
         /\ \A starts : Whole(starts)' = Whole(starts)
<1>1. Size' = Size
  BY DEF Size
<1>2. \A at : FrameEnd(at)' = FrameEnd(at) /\ ITCHType(at)' = ITCHType(at) /\ Length(at)' = Length(at)
  BY <1>1 DEF FrameEnd, ITCHType, Length, Byte
<1>3. \A end : Framings(end)' = Framings(end)
  BY <1>2 DEF Framings, Framed
<1>4. \A starts : Whole(starts)' = Whole(starts)
  BY <1>2 DEF Whole
<1> QED
  BY <1>1, <1>3, <1>4

(* The invariant adds that what was returned lies behind the parser.          *)
StreamInv ==
  /\ InBounds
  /\ DeliversStream
  /\ \A i \in DOMAIN delivered : delivered[i] < offset

\* The parser goes to place e, and returns the message it leaves if w; of a
\* well-formed part it passes one message, and returns it if it is to be parsed.
Moves(e, w) ==
  /\ UNCHANGED <<protocol, buffer>>
  /\ e \in Nat /\ w \in BOOLEAN
  /\ offset' = e /\ offset <= e
  /\ delivered' = IF w THEN Append(delivered, offset) ELSE delivered
  /\ w => offset < e
  /\ \A end \in 0 .. Size : \A starts \in Framings(end) :
       offset \in starts => e = FrameEnd(offset) /\ (w <=> offset \in Whole(starts))

\* A list, with something appended.
LEMMA Appended ==
  ASSUME NEW S, NEW s \in Seq(S), NEW x \in S
  PROVE  /\ DOMAIN Append(s, x) = 1 .. Len(s) + 1
         /\ \A i \in DOMAIN s : i \in Nat /\ i < Len(s) + 1 /\ Append(s, x)[i] = s[i]
         /\ Append(s, x)[Len(s) + 1] = x
         /\ \A i \in DOMAIN Append(s, x) : i \in DOMAIN s \/ i = Len(s) + 1
         /\ Range(Append(s, x)) = Range(s) \cup {x}
<1>1. /\ Len(s) \in Nat /\ DOMAIN s = 1 .. Len(s)
      /\ Append(s, x) \in Seq(S) /\ Len(Append(s, x)) = Len(s) + 1
      /\ \A i \in 1 .. Len(s) : Append(s, x)[i] = s[i]
      /\ Append(s, x)[Len(s) + 1] = x
  BY AppendProperties, LenProperties
<1>2. DOMAIN Append(s, x) = 1 .. Len(s) + 1
  BY <1>1, LenProperties
<1>3. /\ \A i \in DOMAIN s : i \in DOMAIN Append(s, x) /\ Append(s, x)[i] = s[i]
      /\ \A i \in DOMAIN Append(s, x) : i \in DOMAIN s \/ i = Len(s) + 1
      /\ Len(s) + 1 \in DOMAIN Append(s, x)
  BY <1>1, <1>2
<1>4. Range(Append(s, x)) = Range(s) \cup {x}
  BY <1>1, <1>3 DEF Range
<1> QED
  BY <1>1, <1>2, <1>3, <1>4

LEMMA MoveKeepsStream ==
  ASSUME StreamInv, NEW e, NEW w, Moves(e, w)
  PROVE  DeliversStream' /\ \A i \in DOMAIN delivered' : delivered'[i] < offset'
<1>1. TypeOK /\ offset \in Nat /\ e \in Nat /\ offset' = e /\ offset <= e /\ delivered \in Seq(Nat)
  BY DEF StreamInv, InBounds, TypeOK, Moves
<1>2. \A i \in DOMAIN delivered : delivered[i] \in Nat /\ delivered[i] < offset
  <2>1. \A i \in DOMAIN delivered : delivered[i] \in Nat
    BY <1>1, ElementOfSeq, LenProperties
  <2> QED
    BY <2>1 DEF StreamInv
<1>3. /\ \A i \in DOMAIN delivered' : delivered'[i] \in Nat /\ delivered'[i] < offset'
      /\ \A i, j \in DOMAIN delivered' : i < j => delivered'[i] < delivered'[j]
      /\ Range(delivered') = IF w THEN Range(delivered) \cup {offset} ELSE Range(delivered)
  <2>1. \A i, j \in DOMAIN delivered : i < j => delivered[i] < delivered[j]
    <3>1. 0 \in 0 .. Size /\ {} \in Framings(0)
      <4>1. Size \in Nat
        BY <1>1 DEF Size, TypeOK
      <4>2. {} \in Framings(0)
        BY DEF Framings, Framed
      <4> QED
        BY <4>1, <4>2
    <3> QED
      BY <3>1 DEF StreamInv, DeliversStream
  <2>2. CASE w
    <3>1. delivered' = Append(delivered, offset) /\ offset < e
      BY <2>2 DEF Moves
    <3>2. /\ \A i \in DOMAIN delivered : i \in Nat /\ i < Len(delivered) + 1
                                         /\ delivered'[i] = delivered[i]
          /\ delivered'[Len(delivered) + 1] = offset
          /\ \A i \in DOMAIN delivered' : i \in DOMAIN delivered \/ i = Len(delivered) + 1
          /\ Range(delivered') = Range(delivered) \cup {offset}
          /\ Len(delivered) \in Nat
      BY <1>1, <3>1, Appended, LenProperties
    <3>3. \A i \in DOMAIN delivered' : delivered'[i] \in Nat /\ delivered'[i] < offset'
      BY <1>1, <1>2, <3>1, <3>2
    <3>4. ASSUME NEW i \in DOMAIN delivered', NEW j \in DOMAIN delivered', i < j
          PROVE  delivered'[i] < delivered'[j]
      <4>1. i \in DOMAIN delivered
        BY <3>2, <3>4
      <4> QED
        BY <1>2, <2>1, <3>2, <3>4, <4>1
    <3> QED
      BY <2>2, <3>2, <3>3, <3>4
  <2>3. CASE ~ w
    <3>1. delivered' = delivered
      BY <2>3 DEF Moves
    <3> QED
      BY <1>1, <1>2, <2>1, <2>3, <3>1
  <2> QED
    BY <2>2, <2>3
<1>4. ASSUME NEW end \in 0 .. Size, NEW starts \in Framings(end)
      PROVE  /\ offset' < end => offset' \in starts
             /\ {at \in Range(delivered') : at < end} = Whole({at \in starts : at < offset'})
  <2>1. /\ offset < end => offset \in starts
        /\ {at \in Range(delivered) : at < end} = Whole({at \in starts : at < offset})
    BY DEF StreamInv, DeliversStream
  <2>2. end \in Nat
    BY <1>1 DEF Size, TypeOK
  <2>3. \A at \in starts : at \in Nat /\ at < end
    BY <1>1, OneChain
  <2>4. CASE end <= offset
    <3>1. {at \in starts : at < offset'} = {at \in starts : at < offset}
      BY <1>1, <2>2, <2>3, <2>4
    <3>2. {at \in Range(delivered') : at < end} = {at \in Range(delivered) : at < end}
      BY <1>1, <1>3, <2>2, <2>4
    <3> QED
      BY <1>1, <2>1, <2>2, <2>4, <3>1, <3>2
  <2>5. CASE offset < end
    <3>1. offset \in starts /\ e = FrameEnd(offset) /\ (w <=> offset \in Whole(starts))
      BY <2>1, <2>5 DEF Moves
    <3>2. e \in starts \cup {end} /\ offset < e /\ \A x \in starts : offset < x => e <= x
      BY <1>1, <3>1, OneChain
    <3>3. {at \in starts : at < e} = {at \in starts : at < offset} \cup {offset}
      <4>1. \A at \in starts : at < e <=> at < offset \/ at = offset
        BY <1>1, <2>3, <3>2
      <4> QED
        BY <3>1, <4>1
    <3>4. Whole({at \in starts : at < e})
            = Whole({at \in starts : at < offset}) \cup (IF w THEN {offset} ELSE {})
      BY <3>1, <3>3 DEF Whole
    <3>5. {at \in Range(delivered') : at < end}
            = {at \in Range(delivered) : at < end} \cup (IF w THEN {offset} ELSE {})
      BY <1>3, <2>5
    <3>6. e < end => e \in starts
      BY <1>1, <2>2, <3>2
    <3> QED
      BY <1>1, <2>1, <3>4, <3>5, <3>6
  <2> QED
    BY <1>1, <2>2, <2>4, <2>5
<1>5. UNCHANGED <<protocol, buffer>>
  BY DEF Moves
<1>6. DeliversStream'
  BY <1>3, <1>4, <1>5, SameFrames DEF DeliversStream
<1> QED
  BY <1>3, <1>6

\* What parse_next does with the message before it: one of a well-formed part is
\* passed, and returned if its type is known and it is long enough.
LEMMA ITCHMoves ==
  ASSUME StreamInv, ParseITCH
  PROVE  \E e, w : Moves(e, w)
<1> DEFINE length == Length(offset)
           known == ITCHType(offset) \in DOMAIN ITCHSize /\ length >= ITCHSize[ITCHType(offset)]
<1>1. TypeOK /\ Size \in Nat /\ offset \in Nat /\ protocol = "ITCH"
  BY DEF StreamInv, InBounds, TypeOK, Size, ParseITCH
<1>2. length \in Nat /\ offset + length <= Size
  BY <1>1, LengthIsNat DEF ParseITCH, ITCHComplete
<1>3. IF known THEN Deliver(ITCHSize[ITCHType(offset)], length) ELSE Skip(length)
  BY DEF ParseITCH
<1>4. known => length >= 3
  <2>1. ASSUME ITCHType(offset) \in DOMAIN ITCHSize
        PROVE  ITCHSize[ITCHType(offset)] \in Nat /\ ITCHSize[ITCHType(offset)] >= 3
    BY <2>1, ParserAssumption DEF ParserAssumption
  <2> QED
    BY <1>2, <2>1
<1>5. ASSUME NEW end \in 0 .. Size, NEW starts \in Framings(end), offset \in starts
      PROVE  offset + length = FrameEnd(offset) /\ (known <=> offset \in Whole(starts))
  <2>1. FrameEnd(offset) # -1
    BY <1>1, <1>5, OneChain
  <2>2. FrameEnd(offset) = offset + length
    BY <1>1, <2>1 DEF FrameEnd
  <2>3. known <=> offset \in Whole(starts)
    BY <1>1, <1>5 DEF Whole
  <2> QED
    BY <2>2, <2>3
<1> HIDE DEF known, length
<1>6. UNCHANGED <<protocol, buffer>> /\ offset' = offset + length
  BY <1>3 DEF Deliver, Skip
<1>7. delivered' = IF known THEN Append(delivered, offset) ELSE delivered
  BY <1>3 DEF Deliver, Skip
<1>8. offset + length \in Nat /\ offset <= offset + length /\ (known => offset < offset + length)
  BY <1>1, <1>2, <1>4
<1>9. known \in BOOLEAN
  BY DEF known
<1>10. Moves(offset + length, known)
  BY <1>5, <1>6, <1>7, <1>8, <1>9 DEF Moves
<1> QED
  BY <1>10

LEMMA IEXMoves ==
  ASSUME StreamInv, ParseIEX
  PROVE  \E e, w : Moves(e, w)
<1> DEFINE known == Byte(offset) \in DOMAIN IEXSize
           length == IF known THEN IEXSize[Byte(offset)] ELSE IEXHeader
<1>1. TypeOK /\ Size \in Nat /\ offset \in Nat /\ protocol = "IEX"
  BY DEF StreamInv, InBounds, TypeOK, Size, ParseIEX
<1>2. length \in Nat /\ 0 < length
  <2>1. ASSUME known PROVE IEXSize[Byte(offset)] \in Nat /\ IEXSize[Byte(offset)] > 0
    BY <2>1, ParserAssumption DEF ParserAssumption
  <2>2. IEXHeader \in Nat /\ IEXHeader > 0
    BY ParserAssumption DEF ParserAssumption
  <2> HIDE DEF known
  <2> QED
    BY <2>1, <2>2
<1>3. IF known THEN Deliver(length, length) ELSE Skip(length)
  BY DEF ParseIEX
<1>4. ASSUME NEW end \in 0 .. Size, NEW starts \in Framings(end), offset \in starts
      PROVE  offset + length = FrameEnd(offset) /\ (known <=> offset \in Whole(starts))
  <2>1. FrameEnd(offset) # -1
    BY <1>1, <1>4, OneChain
  <2>2. known /\ FrameEnd(offset) = offset + length
    BY <1>1, <2>1 DEF FrameEnd
  <2>3. offset \in Whole(starts)
    BY <1>1, <1>4 DEF Whole
  <2> QED
    BY <2>2, <2>3
<1> HIDE DEF known, length
<1>5. UNCHANGED <<protocol, buffer>> /\ offset' = offset + length
  BY <1>3 DEF Deliver, Skip
<1>6. delivered' = IF known THEN Append(delivered, offset) ELSE delivered
  BY <1>3 DEF Deliver, Skip
<1>7. offset + length \in Nat /\ offset <= offset + length /\ (known => offset < offset + length)
  BY <1>1, <1>2
<1>8. known \in BOOLEAN
  BY DEF known
<1>9. Moves(offset + length, known)
  BY <1>4, <1>5, <1>6, <1>7, <1>8 DEF Moves
<1> QED
  BY <1>9

\* At the front of the buffer nothing has been passed and nothing returned.
LEMMA NothingPassed ==
  ASSUME NEW end \in 0 .. Size, NEW starts \in Framings(end), TypeOK
  PROVE  /\ 0 < end => 0 \in starts
         /\ {at \in Range(<< >>) : at < end} = Whole({at \in starts : at < 0})
<1>1. {at \in starts : at < 0} = {}
  <2>1. \A at \in starts : at \in Nat
    BY OneChain
  <2> QED
    BY <2>1
<1>2. Range(<< >>) = {}
  BY DEF Range
<1>3. 0 < end => 0 # end
  OBVIOUS
<1> QED
  BY <1>1, <1>2, <1>3, ChainBegins DEF Whole

LEMMA InitStreamInv == Init => StreamInv
<1> SUFFICES ASSUME Init PROVE StreamInv
  OBVIOUS
<1>1. InBounds /\ TypeOK
  BY InitInBounds DEF InBounds
<1>2. offset = 0 /\ delivered = << >>
  BY DEF Init
<1> QED
  BY <1>1, <1>2, NothingPassed DEF StreamInv, DeliversStream

LEMMA StepStreamInv == StreamInv /\ [Next]_vars => StreamInv'
<1> SUFFICES ASSUME StreamInv, [Next]_vars PROVE StreamInv'
  OBVIOUS
<1>1. InBounds'
  BY StepInBounds DEF StreamInv
<1>2. CASE ParseITCH \/ ParseIEX
  <2>1. PICK e, w : Moves(e, w)
    BY <1>2, ITCHMoves, IEXMoves
  <2> QED
    BY <1>1, <2>1, MoveKeepsStream DEF StreamInv
<1>3. CASE Reset
  <2>1. TypeOK /\ UNCHANGED <<protocol, buffer>> /\ offset' = 0 /\ delivered' = << >>
    BY <1>3 DEF Reset, StreamInv, InBounds
  <2>2. DeliversStream'
    BY <2>1, SameFrames, NothingPassed DEF DeliversStream
  <2> QED
    BY <1>1, <2>1, <2>2 DEF StreamInv
<1>4. CASE ParseNothing \/ UNCHANGED vars
  <2>1. UNCHANGED <<protocol, buffer>> /\ offset' = offset /\ delivered' = delivered
    BY <1>4 DEF ParseNothing, vars
  <2>2. DeliversStream'
    BY <2>1, SameFrames DEF StreamInv, DeliversStream
  <2> QED
    BY <1>1, <2>1, <2>2 DEF StreamInv
<1> QED
  BY <1>2, <1>3, <1>4 DEF Next, ParseNext

(* Of the well-formed part at the front of any buffer, of any length and      *)
(* sizes, either parser returns each message that it can parse, once and in   *)
(* order, whatever follows (itch_parser.cpp:7-176, iex_parser.hpp:105-145).    *)
THEOREM StreamIsDelivered == Spec => []DeliversStream
<1>1. StreamInv => DeliversStream
  BY DEF StreamInv
<1> QED
  BY InitStreamInv, StepStreamInv, <1>1, PTL DEF Spec
-------------------------------------------------------------------------------
(* PayloadInPacket speaks of a packet that is in the file as read so far; it  *)
(* is inductive once one knows what stands there (ReaderTypeOK), since what   *)
(* has been read at an offset never changes.                                  *)
PInv == ReaderTypeOK /\ PayloadInPacket

\* Where the payload begins is behind the headers, on whatever length the IPv4
\* header gives.
LEMMA StartsBehind ==
  ASSUME NEW ihl \in 0 .. MaxIHL
  PROVE  PayloadStart(ihl) \in Nat
<1>1. Word \in Nat /\ EthernetHeader \in Nat /\ UDPHeader \in Nat /\ ihl \in Nat
  BY PCAPAssumption DEF PCAPAssumption
<1>2. \A m, n \in Nat : m * n \in Nat
  OBVIOUS
<1>3. Word * ihl \in Nat
  BY <1>1, <1>2
<1> QED
  BY <1>1, <1>3 DEF PayloadStart

\* HasPayload leaves at least one byte behind the headers.
LEMMA SomethingLeft ==
  ASSUME NEW h \in Headers, HasPayload(h.len, h.ihl)
  PROVE  /\ PayloadStart(h.ihl) \in Nat
         /\ h.len - PayloadStart(h.ihl) \in Nat \ {0}
<1>1. h.ihl \in 0 .. MaxIHL /\ h.len \in Nat
  BY PCAPAssumption DEF Headers, HasPayload, NotUDP, PCAPAssumption
<1>2. PayloadStart(h.ihl) \in Nat
  BY <1>1, StartsBehind
<1>3. PayloadStart(h.ihl) < h.len
  BY DEF HasPayload, PayloadStart
<1> QED
  BY <1>1, <1>2, <1>3

LEMMA InitPInv == ASSUME ReaderInit PROVE PInv
<1>1. valid_ \in BOOLEAN /\ offset_ = first /\ offset_ \in {0, FileHeader}
  BY DEF ReaderInit
<1>2. FileHeader \in Nat /\ MaxRewinds \in Nat
  BY PCAPAssumption DEF PCAPAssumption
<1>3. ReaderTypeOK
  BY <1>1, <1>2 DEF ReaderInit, ReaderTypeOK, NoPayload
<1> QED
  BY <1>3 DEF ReaderInit, PInv, PayloadInPacket

LEMMA NextPInv == ASSUME PInv, [ReaderNext]_readerVars PROVE PInv'
<1> USE DEF PInv
<1>1. CASE NextPacket
  <2>1. PICK h \in IF offset_ \in DOMAIN packets THEN {packets[offset_]} ELSE Readable(offset_) :
          LET data == offset_ + PacketHeader
              found == data + h.len <= size_ /\ HasPayload(h.len, h.ihl)
          IN  /\ packets' = [o \in DOMAIN packets \cup {offset_} |->
                               IF o = offset_ THEN h ELSE packets[o]]
              /\ offset_' = Behind(offset_, h)
              /\ packet' = IF found THEN [start |-> data + PayloadStart(h.ihl),
                                          size |-> h.len - PayloadStart(h.ihl)]
                           ELSE packet
              /\ payloads' = IF found THEN Append(payloads, offset_) ELSE payloads
    BY <1>1 DEF NextPacket
  <2> DEFINE data == offset_ + PacketHeader
             found == data + h.len <= size_ /\ HasPayload(h.len, h.ihl)
  <2>2. h \in Headers /\ h.len \in Nat
    BY <2>1, PCAPAssumption DEF ReaderTypeOK, Readable, Headers, PCAPAssumption
  <2>3. /\ offset_ \in Nat /\ PacketHeader \in Nat /\ size_ \in Nat /\ data \in Nat
        /\ size_' = size_ /\ valid_' = valid_ /\ first' = first /\ rewinds' = rewinds
    BY <1>1, PCAPAssumption DEF NextPacket, ReaderTypeOK, PCAPAssumption
  <2>4. /\ DOMAIN packets' = DOMAIN packets \cup {offset_}
        /\ packets'[offset_] = h
        /\ \A o \in DOMAIN packets : packets'[o] = packets[o]
    BY <2>1
  <2>5. \A o \in DOMAIN packets' : o \in Nat /\ packets'[o] \in Headers
    BY <2>2, <2>3, <2>4 DEF ReaderTypeOK
  <2>6. offset_' \in Nat
    BY <2>1, <2>2, <2>3 DEF Behind
  <2>7. payloads' \in Seq(Nat)
    BY <2>1, <2>3 DEF ReaderTypeOK
  <2>8. CASE found
    <3>1. packet' = [start |-> data + PayloadStart(h.ihl), size |-> h.len - PayloadStart(h.ihl)]
      BY <2>1, <2>8
    <3>2. PayloadStart(h.ihl) \in Nat /\ h.len - PayloadStart(h.ihl) \in Nat \ {0}
      BY <2>2, <2>8, SomethingLeft
    <3>3. /\ packet' \in [start : Nat, size : Nat]
          /\ packet'.size > 0
          /\ data <= packet'.start
          /\ packet'.start + packet'.size = data + h.len
      BY <2>2, <2>3, <3>1, <3>2
    <3>4. ReaderTypeOK'
      BY <2>3, <2>5, <2>6, <2>7, <3>3 DEF ReaderTypeOK
    <3>5. PayloadInPacket'
      BY <2>3, <2>4, <2>8, <3>3 DEF PayloadInPacket
    <3> QED
      BY <3>4, <3>5
  <2>9. CASE ~ found
    <3>1. packet' = packet
      BY <2>1, <2>9
    <3>2. ReaderTypeOK'
      BY <2>3, <2>5, <2>6, <2>7, <3>1 DEF ReaderTypeOK
    <3>3. PayloadInPacket'
      BY <2>3, <2>4, <3>1 DEF PayloadInPacket
    <3> QED
      BY <3>2, <3>3
  <2> QED
    BY <2>8, <2>9
<1>2. CASE ReaderReset
  <2>1. FileHeader \in Nat /\ rewinds' \in 0 .. MaxRewinds
    BY <1>2, PCAPAssumption DEF ReaderReset, ReaderTypeOK, PCAPAssumption
  <2>2. ReaderTypeOK'
    BY <1>2, <2>1 DEF ReaderReset, ReaderTypeOK
  <2>3. PayloadInPacket'
    BY <1>2 DEF ReaderReset, PayloadInPacket
  <2> QED
    BY <2>2, <2>3
<1>3. CASE UNCHANGED readerVars
  BY <1>3 DEF readerVars, ReaderTypeOK, PayloadInPacket
<1> QED
  BY <1>1, <1>2, <1>3 DEF ReaderNext, NextNothing

(* Every variable of the reader keeps its type.                               *)
THEOREM ReaderTypes == ReaderSpec => []ReaderTypeOK
<1>1. PInv => ReaderTypeOK
  BY DEF PInv
<1> QED
  BY <1>1, InitPInv, NextPInv, PTL DEF ReaderSpec

(* Whatever the file holds, a payload that next_packet delivers has bytes and *)
(* lies in its packet and in the file (pcap_reader.cpp:83-105).               *)
THEOREM PayloadsInside == ReaderSpec => []PayloadInPacket
<1>1. PInv => PayloadInPacket
  BY DEF PInv
<1> QED
  BY <1>1, InitPInv, NextPInv, PTL DEF ReaderSpec
-------------------------------------------------------------------------------
(* EachPacketOnce speaks of the packets before the first that is cut short;   *)
(* those delivered behind it are in order because they are further on.        *)
OnceInv ==
  /\ ReaderTypeOK
  /\ EachPacketOnce
  /\ \A i \in DOMAIN payloads : payloads[i] < offset_

\* The part of EachPacketOnce for an end of the packets that are whole.
Until(end, starts) ==
  /\ end \in {offset_} \cup DOMAIN packets
  /\ end = offset_ \/ (end < offset_ /\ IsCut(end))
  /\ end = offset_ => \A o \in Range(payloads) : o < end
  /\ starts \in SUBSET {o \in DOMAIN packets : o < end /\ ~ IsCut(o)}
  /\ Between(starts, end)
  /\ {o \in Range(payloads) : o < end}
       = {o \in starts : HasPayload(packets[o].len, packets[o].ihl)}

LEMMA OnceIsUntil ==
  EachPacketOnce <=> /\ \A i, j \in DOMAIN payloads : i < j => payloads[i] < payloads[j]
                     /\ \E end, starts : Until(end, starts)
<1>1. EachPacketOnce => \E end, starts : Until(end, starts)
  BY DEF EachPacketOnce, Until
<1>2. (/\ \A i, j \in DOMAIN payloads : i < j => payloads[i] < payloads[j]
       /\ \E end, starts : Until(end, starts)) => EachPacketOnce
  BY DEF EachPacketOnce, Until
<1> QED
  BY <1>1, <1>2 DEF EachPacketOnce

LEMMA InitOnceInv == ReaderInit => OnceInv
<1> SUFFICES ASSUME ReaderInit PROVE OnceInv
  OBVIOUS
<1>1. ReaderTypeOK
  BY InitPInv DEF PInv
<1>2. DOMAIN packets = {} /\ first = offset_ /\ payloads = << >>
  BY DEF ReaderInit
<1>3. Range(payloads) = {}
  BY <1>2 DEF Range
<1>4. Until(offset_, {})
  BY <1>2, <1>3 DEF Until, Between
<1> QED
  BY <1>1, <1>2, <1>4, OnceIsUntil DEF OnceInv

\* next_packet reads h, goes behind it, and delivers it if it is whole and has a
\* payload; what it has read before stays as it was.
Reads(h) ==
  /\ h \in Headers
  /\ UNCHANGED <<size_, first>>
  /\ DOMAIN packets' = DOMAIN packets \cup {offset_}
  /\ packets'[offset_] = h
  /\ \A o \in DOMAIN packets : packets'[o] = packets[o]
  /\ LET data == offset_ + PacketHeader
         whole == data + h.len <= size_
     IN  /\ offset_' = data + IF whole THEN h.len ELSE 0
         /\ payloads' = IF whole /\ HasPayload(h.len, h.ihl) THEN Append(payloads, offset_)
                        ELSE payloads

LEMMA NextReads ==
  ASSUME ReaderTypeOK, NextPacket
  PROVE  \E h : Reads(h)
<1>1. PICK h \in IF offset_ \in DOMAIN packets THEN {packets[offset_]} ELSE Readable(offset_) :
        LET data == offset_ + PacketHeader
            found == data + h.len <= size_ /\ HasPayload(h.len, h.ihl)
        IN  /\ packets' = [o \in DOMAIN packets \cup {offset_} |->
                             IF o = offset_ THEN h ELSE packets[o]]
            /\ offset_' = Behind(offset_, h)
            /\ payloads' = IF found THEN Append(payloads, offset_) ELSE payloads
  BY DEF NextPacket
<1>2. h \in Headers
  BY <1>1 DEF ReaderTypeOK, Readable
<1>3. \A o \in DOMAIN packets : packets'[o] = packets[o]
  BY <1>1
<1>4. UNCHANGED <<size_, first>>
  BY DEF NextPacket
<1>5. Reads(h)
  BY <1>1, <1>2, <1>3, <1>4 DEF Reads, Behind
<1> QED
  BY <1>5

LEMMA ReadKeepsOrder ==
  ASSUME OnceInv, NEW h, Reads(h)
  PROVE  /\ offset_ \in Nat /\ offset_' \in Nat /\ offset_ < offset_'
         /\ \A i \in DOMAIN payloads' : payloads'[i] < offset_'
         /\ \A i, j \in DOMAIN payloads' : i < j => payloads'[i] < payloads'[j]
         /\ Range(payloads') = IF payloads' = payloads THEN Range(payloads)
                               ELSE Range(payloads) \cup {offset_}
<1>1. offset_ \in Nat /\ h.len \in Nat /\ PacketHeader \in Nat /\ PacketHeader > 0
  BY PCAPAssumption DEF OnceInv, ReaderTypeOK, Reads, Headers, PCAPAssumption
<1>2. offset_' \in Nat /\ offset_ < offset_'
  BY <1>1 DEF Reads
<1>3. payloads \in Seq(Nat)
  BY DEF OnceInv, ReaderTypeOK
<1>4. \A i \in DOMAIN payloads : payloads[i] \in Nat /\ payloads[i] < offset_
  <2>1. \A i \in DOMAIN payloads : payloads[i] \in Nat
    BY <1>3, ElementOfSeq, LenProperties
  <2> QED
    BY <2>1 DEF OnceInv
<1>5. \A i, j \in DOMAIN payloads : i < j => payloads[i] < payloads[j]
  BY DEF OnceInv, EachPacketOnce
<1>6. CASE payloads' = payloads
  BY <1>1, <1>2, <1>4, <1>5, <1>6
<1>7. CASE payloads' # payloads
  <2>1. payloads' = Append(payloads, offset_)
    BY <1>7 DEF Reads
  <2>2. /\ \A i \in DOMAIN payloads : i \in Nat /\ i < Len(payloads) + 1
                                      /\ payloads'[i] = payloads[i]
        /\ payloads'[Len(payloads) + 1] = offset_
        /\ \A i \in DOMAIN payloads' : i \in DOMAIN payloads \/ i = Len(payloads) + 1
        /\ Range(payloads') = Range(payloads) \cup {offset_}
        /\ Len(payloads) \in Nat
    BY <1>1, <1>3, <2>1, Appended, LenProperties
  <2>3. \A i \in DOMAIN payloads' : payloads'[i] < offset_'
    BY <1>1, <1>2, <1>4, <2>2
  <2>4. ASSUME NEW i \in DOMAIN payloads', NEW j \in DOMAIN payloads', i < j
        PROVE  payloads'[i] < payloads'[j]
    <3>1. i \in DOMAIN payloads
      BY <2>2, <2>4
    <3> QED
      BY <1>4, <1>5, <2>2, <2>4, <3>1
  <2> QED
    BY <1>1, <1>2, <1>7, <2>2, <2>3, <2>4
<1> QED
  BY <1>6, <1>7

\* A packet read behind one that is cut short changes nothing before that one.
LEMMA ReadBehindCut ==
  ASSUME OnceInv, NEW h, Reads(h), NEW end, NEW starts, Until(end, starts), end # offset_
  PROVE  Until(end, starts)'
<1>1. offset_ \in Nat /\ offset_' \in Nat /\ offset_ < offset_'
  BY ReadKeepsOrder
<1>2. end \in DOMAIN packets /\ end \in Nat /\ end < offset_ /\ IsCut(end)
  BY DEF Until, OnceInv, ReaderTypeOK
<1>3. \A o \in DOMAIN packets : Follower(o)' = Follower(o) /\ IsCut(o)' = IsCut(o)
                                /\ o \in DOMAIN packets'
  BY DEF Reads, Follower, IsCut
<1>4. end # offset_' /\ end < offset_'
  BY <1>1, <1>2
<1>5. starts \in SUBSET {o \in DOMAIN packets' : o < end /\ ~ IsCut(o)'}
  BY <1>3 DEF Until
<1>6. Between(starts, end)'
  BY <1>3 DEF Reads, Until, Between
<1>7. {o \in Range(payloads') : o < end} = {o \in Range(payloads) : o < end}
  BY <1>1, <1>2, ReadKeepsOrder
<1>8. {o \in starts : HasPayload(packets'[o].len, packets'[o].ihl)}
        = {o \in starts : HasPayload(packets[o].len, packets[o].ihl)}
  BY DEF Reads, Until
<1> QED
  BY <1>2, <1>3, <1>4, <1>5, <1>6, <1>7, <1>8 DEF Until

\* A packet read where the whole ones end is another one, or the one that is cut.
LEMMA ReadAtEnd ==
  ASSUME OnceInv, NEW h, Reads(h), NEW starts, Until(offset_, starts)
  PROVE  \E end, more : Until(end, more)'
<1>1. PICK o0 : o0 = offset_
  OBVIOUS
<1> DEFINE follower == o0 + PacketHeader + h.len
<1>2. o0 \in Nat /\ offset_' \in Nat /\ o0 < offset_' /\ h.len \in Nat /\ PacketHeader \in Nat
  BY <1>1, ReadKeepsOrder, PCAPAssumption DEF Reads, Headers, PCAPAssumption
<1>3. \A o \in starts : o \in DOMAIN packets /\ o \in Nat /\ o < o0
  BY <1>1 DEF Until, OnceInv, ReaderTypeOK
<1>4. /\ \A o \in starts : /\ Follower(o)' = Follower(o)
                           /\ ~ IsCut(o)'
                           /\ o \in DOMAIN packets'
                           /\ packets'[o] = packets[o]
      /\ Follower(o0)' = follower
      /\ o0 \in DOMAIN packets'
      /\ IsCut(o0)' <=> follower > size_
  BY <1>3, <1>1 DEF Reads, Follower, IsCut, Until
<1>5. size_ \in Nat
  BY PCAPAssumption DEF OnceInv, ReaderTypeOK, PCAPAssumption
<1>6. \A o \in Range(payloads) : o < o0
  BY <1>1 DEF Until
<1>7. Range(payloads) = {o \in starts : HasPayload(packets[o].len, packets[o].ihl)}
  BY <1>6, <1>1 DEF Until
<1>8. /\ \A o \in starts : Follower(o) \in starts \cup {o0}
      /\ starts \cup {o0} = {first} \cup {Follower(o) : o \in starts}
      /\ first' = first
  BY <1>1 DEF Until, Between, Reads
<1>9. CASE follower > size_
  <2>1. payloads' = payloads
    BY <1>2, <1>5, <1>9, <1>1 DEF Reads
  <2>2. Between(starts, o0)'
    BY <1>4, <1>8 DEF Between
  <2>3. {o \in Range(payloads) : o < o0} = {o \in starts : HasPayload(packets'[o].len, packets'[o].ihl)}
    BY <1>4, <1>6, <1>7
  <2>4. \A o \in starts : o \in DOMAIN packets' /\ o < o0 /\ ~ IsCut(o)'
    BY <1>3, <1>4
  <2>5. o0 \in DOMAIN packets' /\ o0 < offset_' /\ IsCut(o0)' /\ o0 # offset_'
    BY <1>2, <1>4, <1>9
  <2>6. Until(o0, starts)'
    BY <2>1, <2>2, <2>3, <2>4, <2>5 DEF Until
  <2> QED
    BY <2>6
<1>10. CASE ~ (follower > size_)
  <2> DEFINE more == starts \cup {o0}
  <2>1. offset_' = follower
    BY <1>2, <1>5, <1>10, <1>1 DEF Reads
  <2>2. payloads' = IF HasPayload(h.len, h.ihl) THEN Append(payloads, o0) ELSE payloads
    BY <1>2, <1>5, <1>10, <1>1 DEF Reads
  <2>3. Range(payloads') = Range(payloads) \cup (IF HasPayload(h.len, h.ihl) THEN {o0} ELSE {})
    <3>1. payloads \in Seq(Nat)
      BY DEF OnceInv, ReaderTypeOK
    <3> QED
      BY <1>2, <2>2, <3>1, Appended
  <2>4. packets'[o0] = h
    BY <1>1 DEF Reads
  <2>5. {o \in more : HasPayload(packets'[o].len, packets'[o].ihl)}
          = {o \in starts : HasPayload(packets[o].len, packets[o].ihl)}
              \cup (IF HasPayload(h.len, h.ihl) THEN {o0} ELSE {})
    BY <1>3, <1>4, <2>4
  <2>6. \A o \in Range(payloads') : o < follower
    BY <1>2, <1>3, <1>7, <2>1, <2>3
  <2>7. {o \in Range(payloads') : o < follower}
          = {o \in more : HasPayload(packets'[o].len, packets'[o].ihl)}
    BY <1>7, <2>3, <2>5, <2>6
  <2>8. /\ \A o \in more : Follower(o)' \in more \cup {follower}
        /\ more \cup {follower} = {first} \cup {Follower(o)' : o \in more}
    <3>1. {Follower(o)' : o \in more} = {Follower(o) : o \in starts} \cup {follower}
      BY <1>4
    <3> HIDE DEF follower
    <3> QED
      BY <1>4, <1>8, <3>1
  <2>9. \A o \in more : o \in DOMAIN packets' /\ o < follower /\ ~ IsCut(o)'
    BY <1>2, <1>3, <1>4, <1>10, <2>1
  <2>10. PICK end, all : end = follower /\ all = more
    OBVIOUS
  <2> HIDE DEF follower, more
  <2>11. Between(all, end)'
    BY <1>8, <2>8, <2>10 DEF Between
  <2>12. Until(end, all)'
    BY <2>1, <2>6, <2>7, <2>9, <2>10, <2>11 DEF Until
  <2> QED
    BY <2>12
<1> QED
  BY <1>9, <1>10

LEMMA NextOnceInv == OnceInv /\ PInv /\ [ReaderNext]_readerVars => OnceInv'
<1> SUFFICES ASSUME OnceInv, PInv, [ReaderNext]_readerVars PROVE OnceInv'
  OBVIOUS
<1>1. ReaderTypeOK'
  BY NextPInv DEF PInv
<1>2. CASE NextPacket
  <2>1. PICK h : Reads(h)
    BY <1>2, NextReads DEF OnceInv
  <2>2. PICK end, starts : Until(end, starts)
    BY OnceIsUntil DEF OnceInv
  <2>3. \E e, more : Until(e, more)'
    <3>1. CASE end = offset_
      BY <2>1, <2>2, <3>1, ReadAtEnd
    <3>2. CASE end # offset_
      BY <2>1, <2>2, <3>2, ReadBehindCut
    <3> QED
      BY <3>1, <3>2
  <2>4. EachPacketOnce'
    BY <2>1, <2>3, ReadKeepsOrder DEF EachPacketOnce, Until
  <2> QED
    BY <1>1, <2>1, <2>4, ReadKeepsOrder DEF OnceInv
<1>3. CASE ReaderReset
  <2>1. payloads' = << >> /\ first' = FileHeader /\ offset_' = FileHeader
    BY <1>3 DEF ReaderReset
  <2>2. Range(payloads') = {}
    BY <2>1 DEF Range
  <2>3. PICK end, starts : end = FileHeader /\ starts = {}
    OBVIOUS
  <2>4. Until(end, starts)'
    BY <2>1, <2>2, <2>3 DEF Until, Between
  <2>5. EachPacketOnce'
    BY <2>1, <2>4 DEF EachPacketOnce, Until
  <2> QED
    BY <1>1, <2>1, <2>5 DEF OnceInv
<1>4. CASE UNCHANGED readerVars
  BY <1>1, <1>4 DEF readerVars, OnceInv, EachPacketOnce, IsCut, Follower, Between
<1> QED
  BY <1>2, <1>3, <1>4 DEF ReaderNext, NextNothing

(* For every content of the file, next_packet delivers each UDP packet with a *)
(* payload once and in order, up to the first packet that is cut short,       *)
(* however often it is reset (pcap_reader.cpp:38-112).                        *)
THEOREM PacketsOnce == ReaderSpec => []EachPacketOnce
<1>1. OnceInv => EachPacketOnce
  BY DEF OnceInv
<1> QED
  BY <1>1, InitPInv, NextPInv, InitOnceInv, NextOnceInv, PTL DEF ReaderSpec
===============================================================================
