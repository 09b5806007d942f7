---------------------------- MODULE PaddingProofs ----------------------------
(* What the framing costs, what its buffers must hold and what comes out of  *)
(* it, proved for every size of a byte, number of padded frames and content. *)
EXTENDS Padding, TLAPS

LEMMA BaseFacts == Base \in Nat /\ Buffer \in Nat /\ Base + 2 <= Buffer
<1>1. Base \in Nat /\ Base >= 3
  BY PaddingAssumption
<1>2. Base * Base >= 3 * Base
  BY <1>1
<1> QED
  BY <1>1, <1>2 DEF Buffer

LEMMA SliceType ==
  ASSUME NEW s \in Seq(Byte), NEW i \in Nat \ {0}, NEW j \in Nat, j <= Len(s)
  PROVE  SubSeq(s, i, j) \in Seq(Byte) /\ (i <= j + 1 => Len(SubSeq(s, i, j)) = j - i + 1)
  OBVIOUS

LEMMA ConcatType ==
  ASSUME NEW s \in Seq(Byte), NEW t \in Seq(Byte)
  PROVE  s \o t \in Seq(Byte) /\ Len(s \o t) = Len(s) + Len(t)
  OBVIOUS

\* Both bytes of a length below Buffer are bytes, and so is what they say.
LEMMA HeaderType ==
  ASSUME NEW n \in Nat, n < Buffer, NEW pad \in Byte
  PROVE  Header(n, pad) \in Seq(Byte) /\ Len(Header(n, pad)) = 3
<1>1. Base \in Nat /\ Base >= 3
  BY PaddingAssumption
<1>2. n \div Base \in Nat /\ n % Base \in 0 .. Base - 1
  BY <1>1
<1>3. (n \div Base) * Base <= n
  BY <1>1
<1>4. n \div Base < Base
  <2> SUFFICES ASSUME n \div Base >= Base PROVE FALSE
    BY <1>1, <1>2
  <2>1. (n \div Base) * Base >= Base * Base
    BY <1>1, <1>2
  <2> QED
    BY <2>1, <1>1, <1>2, <1>3 DEF Buffer
<1> QED
  BY <1>1, <1>2, <1>4 DEF Header, Byte

LEMMA FrameType ==
  ASSUME NEW p \in Seq(Byte), Len(p) < Buffer, NEW pad \in Byte
  PROVE  Frame(p, pad) \in Seq(Byte) /\ Len(Frame(p, pad)) = 3 + Len(p) + pad
<1> DEFINE z == [i \in 1 .. pad |-> 0]
<1>1. pad \in Nat /\ 0 \in Byte
  BY PaddingAssumption DEF Byte
<1>2. z \in Seq(Byte) /\ Len(z) = pad
  BY <1>1
<1>3. Header(Len(p), pad) \in Seq(Byte) /\ Len(Header(Len(p), pad)) = 3
  BY HeaderType
<1>4. Header(Len(p), pad) \o p \in Seq(Byte) /\ Len(Header(Len(p), pad) \o p) = 3 + Len(p)
  BY <1>3, ConcatType
<1> DEFINE hp == Header(Len(p), pad) \o p
<1>5. Frame(p, pad) = hp \o z
  BY DEF Frame
<1> HIDE DEF hp, z
<1>6. hp \in Seq(Byte) /\ Len(hp) = 3 + Len(p)
  BY <1>4 DEF hp
<1> QED
  BY <1>2, <1>5, <1>6, ConcatType

LEMMA LengthType ==
  ASSUME NEW b \in [1 .. 3 -> Byte]
  PROVE  Length(b) \in 0 .. Buffer - 1
<1>1. Base \in Nat /\ Base >= 3 /\ b[1] \in 0 .. Base - 1 /\ b[2] \in 0 .. Base - 1
  BY PaddingAssumption DEF Byte
<1>2. b[1] * Base <= (Base - 1) * Base
  BY <1>1
<1>3. (Base - 1) * Base = Base * Base - Base /\ b[1] * Base >= 0 /\ b[1] * Base \in Int
  BY <1>1
<1> QED
  BY <1>1, <1>2, <1>3 DEF Length, Buffer

-----------------------------------------------------------------------------

Inv == /\ TypeOK
       /\ pc = "header" => removed < NumFirst
       /\ charged - taken <= padded * (Base + 2)
       /\ widest <= Buffer

LEMMA InitInv == Init => Inv
<1>1. PaddingAssumption /\ 0 \in Byte /\ 0 \in 0 .. Buffer - 1
  BY PaddingAssumption, BaseFacts DEF Byte
<1> SUFFICES ASSUME Init PROVE Inv
  OBVIOUS
<1>2. <<>> \in Seq(Byte) /\ NumFirst \in Nat /\ Content \in Seq(Byte)
  BY PaddingAssumption
<1>3. TypeOK
  <2>1. Len(Content) \in Nat /\ pc \in {"header", "raw"}
    BY <1>2 DEF Init, NextFrame
  <2>2. /\ taken \in 0 .. Len(Content) /\ padded \in 0 .. NumFirst /\ removed \in 0 .. NumFirst
        /\ charged \in Nat /\ widest \in Nat
    BY <1>2, <2>1 DEF Init
  <2>3. wire \in Seq(Byte) /\ held \in Seq(Byte) /\ out \in Seq(Byte)
    BY <1>2 DEF Init
  <2>4. need \in 0 .. Buffer - 1 /\ junk \in Byte
    BY <1>1 DEF Init
  <2>5. closed \in BOOLEAN /\ cut \in BOOLEAN /\ empties \in BOOLEAN
    BY DEF Init
  <2> QED
    BY <2>1, <2>2, <2>3, <2>4, <2>5 DEF TypeOK
<1>4. pc = "header" => removed < NumFirst
  BY <1>2 DEF Init, NextFrame
<1>5. charged - taken <= padded * (Base + 2) /\ widest <= Buffer
  BY BaseFacts DEF Init
<1> QED
  BY <1>3, <1>4, <1>5 DEF Inv

LEMMA WriteInv ==
  ASSUME TypeOK, NEW b \in Seq(Byte), Write(b), Len(b) <= Buffer, widest <= Buffer
  PROVE  /\ wire' \in Seq(Byte) /\ charged' = charged + Len(b) /\ charged' \in Nat
         /\ widest' \in Nat /\ widest' <= Buffer
<1>t. wire \in Seq(Byte) /\ charged \in Nat /\ widest \in Nat
  BY DEF TypeOK
<1>1. wire \o b \in Seq(Byte)
  BY ONLY <1>t, b \in Seq(Byte), ConcatType
<1>2. PICK l \in Nat : l = Len(b)
  OBVIOUS
<1>3. l <= Buffer
  BY ONLY <1>2, Len(b) <= Buffer, Zenon
<1> QED
  BY <1>t, <1>1, <1>2, <1>3 DEF Write

LEMMA NextInv == Inv /\ [Next]_vars => Inv'
<1> SUFFICES ASSUME Inv, [Next]_vars PROVE Inv'
  OBVIOUS
<1>c. Content \in Seq(Byte) /\ NumFirst \in Nat /\ Len(Content) \in Nat
  BY PaddingAssumption
<1>t. TypeOK /\ (pc = "header" => removed < NumFirst) /\ charged - taken <= padded * (Base + 2) /\ widest <= Buffer
  BY DEF Inv
<1>1. ASSUME NEW pad \in Byte, NEW n \in 1 .. Buffer, AddFrame(pad, n) PROVE Inv'
  <2> DEFINE p == SubSeq(Content, taken + 1, taken + n)
  <2>1. n <= Buffer - 6 - pad /\ pad \in 0 .. Base - 1 /\ taken + n <= Len(Content)
    BY <1>1, BaseFacts DEF AddFrame, Room, Byte
  <2>2. taken \in Nat /\ padded \in Nat /\ padded < NumFirst
    BY <1>1, <1>t, <1>c DEF TypeOK, AddFrame
  <2>3. p \in Seq(Byte) /\ Len(p) = n
    BY <1>c, <2>1, <2>2, SliceType
  <2> HIDE DEF p
  <2>4. Frame(p, pad) \in Seq(Byte) /\ Len(Frame(p, pad)) = 3 + n + pad
    BY <2>1, <2>3, BaseFacts, FrameType
  <2> DEFINE b == Frame(p, pad)
  <2>5. Write(b)
    BY <1>1 DEF AddFrame, p
  <2>6. b \in Seq(Byte) /\ Len(b) = 3 + n + pad /\ Len(b) <= Buffer
    BY <2>1, <2>4, BaseFacts
  <2> HIDE DEF b
  <2>7. /\ wire' \in Seq(Byte) /\ charged' = charged + 3 + n + pad /\ charged' \in Nat
        /\ widest' \in Nat /\ widest' <= Buffer
    <3>1. /\ wire' \in Seq(Byte) /\ charged' = charged + Len(b) /\ charged' \in Nat
          /\ widest' \in Nat /\ widest' <= Buffer
      BY <2>5, <2>6, <1>t, WriteInv
    <3>2. charged \in Nat
      BY <1>t DEF TypeOK
    <3> QED
      BY <3>1, <3>2, <2>1, <2>5, <2>6
  <2>8. taken' = taken + n /\ padded' = padded + 1 /\ UNCHANGED <<remover, closed, cut, empties>>
    BY <1>1 DEF AddFrame
  <2>9. (padded + 1) * (Base + 2) = padded * (Base + 2) + Base + 2
    BY <2>2, BaseFacts
  <2>10. TypeOK'
    BY <2>1, <2>2, <2>7, <2>8, <1>t, <1>c DEF TypeOK, remover
  <2>11. (charged - taken <= padded * (Base + 2))'
    <3>1. charged' - taken' = (charged - taken) + 3 + pad
      BY <2>2, <2>7, <2>8, <2>1, <1>t DEF TypeOK
    <3>2. padded * (Base + 2) \in Int /\ pad <= Base - 1 /\ charged - taken \in Int
      BY <2>1, <2>2, <1>t, BaseFacts DEF TypeOK
    <3> QED
      <4>1. PICK x \in Int, y \in Int : x = charged - taken /\ y = padded * (Base + 2)
        BY ONLY <3>2, padded * (Base + 2) \in Int
      <4>2. charged - taken <= padded * (Base + 2) /\ Base \in Nat /\ pad \in Nat
        BY <2>1, <1>t, BaseFacts DEF Inv
      <4>3. x + 3 + pad <= y + Base + 2
        BY ONLY <3>2, <4>1, <4>2, x \in Int, y \in Int
      <4> QED
        BY ONLY <2>8, <2>9, <3>1, <4>1, <4>3
  <2> QED
    BY <2>7, <2>8, <2>10, <2>11, <1>t DEF Inv, remover
<1>2. ASSUME NEW n \in 1 .. Buffer, CopyRaw(n) PROVE Inv'
  <2> DEFINE p == SubSeq(Content, taken + 1, taken + n)
  <2>1. taken + n <= Len(Content) /\ taken \in Nat /\ n \in Nat /\ n <= Buffer
    BY <1>2, <1>t, BaseFacts DEF CopyRaw, TypeOK
  <2>2. p \in Seq(Byte) /\ Len(p) = n
    BY <1>c, <2>1, SliceType
  <2> HIDE DEF p
  <2>3. Write(p)
    BY <1>2 DEF CopyRaw, p
  <2>4. /\ wire' \in Seq(Byte) /\ charged' = charged + n /\ charged' \in Nat
        /\ widest' \in Nat /\ widest' <= Buffer
    BY <2>1, <2>2, <2>3, <1>t, WriteInv
  <2>5. taken' = taken + n /\ UNCHANGED <<padded, remover, closed, cut, empties>>
    BY <1>2 DEF CopyRaw
  <2>6. TypeOK'
    BY <2>1, <2>4, <2>5, <1>t, <1>c DEF TypeOK, remover
  <2>7. charged' - taken' = charged - taken
    BY <2>1, <2>4, <2>5, <1>t DEF TypeOK
  <2> QED
    BY <2>4, <2>5, <2>6, <2>7, <1>t DEF Inv, remover
<1>3. ASSUME Close PROVE Inv'
  BY <1>3 DEF Close, Inv, TypeOK, adder, remover
<1>4. ASSUME NEW pad \in Byte, AddEmptyFrame(pad) PROVE Inv'
  <2>1. pad \in 0 .. Base - 1 /\ pad \in Nat /\ padded \in Nat /\ padded < NumFirst
    BY <1>4, <1>t, BaseFacts DEF Byte, AddEmptyFrame, TypeOK
  <2>2. Frame(<<>>, pad) \in Seq(Byte) /\ Len(Frame(<<>>, pad)) = 3 + pad
    <3>1. <<>> \in Seq(Byte) /\ Len(<<>>) = 0
      OBVIOUS
    <3>2. Len(<<>>) < Buffer
      BY <3>1, BaseFacts
    <3>3. Frame(<<>>, pad) \in Seq(Byte) /\ Len(Frame(<<>>, pad)) = 3 + Len(<<>>) + pad
      BY <3>1, <3>2, FrameType
    <3> QED
      BY <3>1, <3>3, <2>1
  <2> DEFINE b == Frame(<<>>, pad)
  <2>w. Write(b) /\ b \in Seq(Byte) /\ Len(b) = 3 + pad /\ Len(b) <= Buffer
    BY <1>4, <2>1, <2>2, BaseFacts DEF AddEmptyFrame
  <2> HIDE DEF b
  <2>3. /\ wire' \in Seq(Byte) /\ charged' = charged + 3 + pad /\ charged' \in Nat
        /\ widest' \in Nat /\ widest' <= Buffer
    <3>1. /\ wire' \in Seq(Byte) /\ charged' = charged + Len(b) /\ charged' \in Nat
          /\ widest' \in Nat /\ widest' <= Buffer
      BY <2>w, <1>t, WriteInv
    <3>2. charged \in Nat
      BY <1>t DEF TypeOK
    <3> QED
      BY <3>1, <3>2, <2>1, <2>w
  <2>4. padded' = padded + 1 /\ empties' \in BOOLEAN /\ UNCHANGED <<taken, remover, closed, cut>>
    BY <1>4, <1>t DEF AddEmptyFrame, TypeOK
  <2>5. (padded + 1) * (Base + 2) = padded * (Base + 2) + Base + 2
    BY <2>1, BaseFacts
  <2>6. TypeOK'
    BY <2>1, <2>3, <2>4, <1>t, <1>c DEF TypeOK, remover
  <2>7. (charged - taken <= padded * (Base + 2))'
    <3>1. charged' - taken' = (charged - taken) + 3 + pad
      BY <2>1, <2>3, <2>4, <1>t DEF TypeOK
    <3>2. padded * (Base + 2) \in Int /\ pad <= Base - 1 /\ charged - taken \in Int
      BY <2>1, <1>t, BaseFacts DEF TypeOK
    <3> QED
      BY <3>1, <3>2, <2>1, <2>4, <2>5, <1>t, BaseFacts
  <2> QED
    BY <1>4, <2>3, <2>6, <2>7, <1>t DEF Inv, AddEmptyFrame, remover
<1>5. ASSUME NEW k \in 0 .. Len(wire), Cut(k) PROVE Inv'
  <2>1. wire \in Seq(Byte) /\ k \in Nat /\ k <= Len(wire)
    BY <1>t DEF TypeOK
  <2>2. wire' \in Seq(Byte)
    BY <1>5, <2>1, SliceType DEF Cut
  <2> QED
    BY <1>5, <2>2 DEF Cut, Inv, TypeOK, adder, remover
<1>6. ASSUME NEW n \in Nat
      PROVE  Got(n) \in 0 .. Len(wire) /\ Rest(n) \in Seq(Byte) /\ SubSeq(wire, 1, Got(n)) \in Seq(Byte)
  <2>1. wire \in Seq(Byte) /\ Len(wire) \in Nat /\ Got(n) \in Nat /\ Got(n) <= Len(wire)
    BY <1>t DEF TypeOK, Got
  <2> QED
    BY <2>1, SliceType DEF Rest
<1>7. ASSUME ReadHeader PROVE Inv'
  <2>1. wire' \in Seq(Byte)
    BY <1>6, <1>7 DEF ReadHeader
  <2>2. removed' \in 0 .. NumFirst /\ pc' # "header"
    BY <1>7, <1>t, <1>c DEF ReadHeader, Goto, TypeOK
  <2>3. need' \in 0 .. Buffer - 1 /\ junk' \in Byte
    <3>1. CASE UNCHANGED <<need, junk>>
      BY <3>1, <1>t DEF TypeOK
    <3>2. ASSUME NEW stale \in [1 .. 3 -> Byte],
                 LET buf == [i \in 1 .. 3 |-> IF i <= Len(wire) THEN wire[i] ELSE stale[i]] IN
                 need' = Length(buf) /\ junk' = buf[3]
          PROVE  need' \in 0 .. Buffer - 1 /\ junk' \in Byte
      <4> DEFINE buf == [i \in 1 .. 3 |-> IF i <= Len(wire) THEN wire[i] ELSE stale[i]]
      <4>1. buf \in [1 .. 3 -> Byte]
        BY <1>t DEF TypeOK
      <4> HIDE DEF buf
      <4> QED
        BY <4>1, <3>2, LengthType DEF buf
    <3> QED
      BY <1>7, <3>1, <3>2 DEF ReadHeader
  <2> QED
    BY <1>7, <2>1, <2>2, <2>3, <1>t DEF ReadHeader, Goto, Inv, TypeOK, adder
<1>8. ASSUME ReadPayload PROVE Inv'
  <2>1. need \in Nat /\ wire' \in Seq(Byte) /\ held' \in Seq(Byte)
    BY <1>6, <1>8, <1>t, BaseFacts DEF ReadPayload, TypeOK
  <2> QED
    BY <1>8, <2>1, <1>t DEF ReadPayload, Goto, NextFrame, Inv, TypeOK, adder
<1>9. ASSUME ReadJunk PROVE Inv'
  <2>1. junk \in Nat
    BY <1>t, BaseFacts DEF TypeOK, Byte
  <2>2. wire' \in Seq(Byte) /\ out' \in Seq(Byte) /\ held' \in Seq(Byte)
    BY <2>1, <1>6, <1>9, <1>t, ConcatType DEF ReadJunk, TypeOK
  <2> QED
    BY <1>9, <2>2, <1>t DEF ReadJunk, Goto, NextFrame, Inv, TypeOK, adder
<1>10. ASSUME ReadRaw PROVE Inv'
  <2>1. wire' \in Seq(Byte) /\ out' \in Seq(Byte)
    <3>1. ASSUME NEW n \in 1 .. Got(Buffer), out' = out \o SubSeq(wire, 1, n), wire' = Rest(n)
          PROVE  wire' \in Seq(Byte) /\ out' \in Seq(Byte)
      <4>1. wire \in Seq(Byte) /\ out \in Seq(Byte) /\ Len(wire) \in Nat
        BY <1>t DEF TypeOK
      <4>2. Got(Buffer) \in 0 .. Len(wire)
        BY <1>6, BaseFacts
      <4>3. n \in Nat /\ n <= Len(wire)
        BY <4>1, <4>2
      <4>4. SubSeq(wire, 1, n) \in Seq(Byte)
        BY <4>1, <4>3, SliceType
      <4>5. Rest(n) \in Seq(Byte)
        BY <4>3, <1>6
      <4>6. out \o SubSeq(wire, 1, n) \in Seq(Byte)
        BY <4>1, <4>4, ConcatType
      <4> QED
        BY <3>1, <4>5, <4>6
    <3> QED
      BY <1>10, <3>1, <1>t DEF ReadRaw, TypeOK
  <2> QED
    BY <1>10, <2>1, <1>t DEF ReadRaw, Goto, Inv, TypeOK, adder
<1>11. CASE UNCHANGED vars
  BY <1>11 DEF vars, adder, remover, Inv, TypeOK
<1> QED
  BY <1>1, <1>2, <1>3, <1>4, <1>5, <1>7, <1>8, <1>9, <1>10, <1>11
  DEF Next, Sender, Receiver

(* The strengthening behind the theorems below: each padded frame has put at *)
(* most Base + 2 bytes of framing on the wire, and a header is awaited only  *)
(* while the receiving loop has frames left to read.                         *)
THEOREM Invariant == Spec => []Inv
  BY InitInv, NextInv, PTL DEF Spec

(* The counters of both loops of flushingIoCopy stay within NumFirst, and no *)
(* header, whole or read over the old bytes of a pooled buffer, asks for     *)
(* more than that buffer holds.                                              *)
THEOREM TypeCorrect == Spec => []TypeOK
<1>1. Inv => TypeOK
  BY DEF Inv
<1> QED
  BY <1>1, Invariant, PTL

(* A direction's framing costs its user at most NumFirst frames' worth of    *)
(* headers and padding, and every frame AddPadding builds fits its buffer.   *)
THEOREM PaddingCorrect == Spec => []PaddingIsBounded
<1>1. ASSUME Inv PROVE PaddingIsBounded
  <2>1. padded \in Nat /\ padded <= NumFirst /\ NumFirst \in Nat /\ charged - taken \in Int
    BY <1>1, PaddingAssumption DEF Inv, TypeOK
  <2>2. padded * (Base + 2) <= NumFirst * (Base + 2)
    BY <2>1, BaseFacts
  <2>3. NumFirst * (3 + Base - 1) = NumFirst * (Base + 2)
    BY <2>1, BaseFacts
  <2>4. padded * (Base + 2) \in Int /\ NumFirst * (Base + 2) \in Int
    BY <2>1, BaseFacts
  <2>5. charged - taken <= padded * (Base + 2) /\ widest <= Buffer
    BY <1>1 DEF Inv
  <2> QED
    BY <2>1, <2>2, <2>3, <2>4, <2>5 DEF PaddingIsBounded
<1> QED
  BY <1>1, Invariant, PTL

-----------------------------------------------------------------------------
(* What comes out is what was put in.  A history h has all the bytes that   *)
(* were ever sent, where in them the wire begins, and for each padded frame *)
(* where it ends (start[k] is the end of frame k and the start of the next) *)
(* and how much content there is before that, and its padding.  The         *)
(* receiving loop is always at a place of that layout, or past the end of a *)
(* wire that was cut, where it only finds that there is no more.            *)

Histories == [sent : [Nat -> Byte], read : Nat,
              start : [Nat -> Nat], off : [Nat -> Nat], pads : [Nat -> Byte]]

\* Frame k, from the byte before it on.
FrameIn(h, k) ==
  LET at == h.start[k - 1]
      n  == h.off[k] - h.off[k - 1]
  IN  /\ n \in 0 .. Buffer - 1 /\ (n = 0 => h.pads[k] = 0)
      /\ h.start[k] = at + 3 + n + h.pads[k]
      /\ h.sent[at + 1] * Base + h.sent[at + 2] = n /\ h.sent[at + 3] = h.pads[k]
      /\ \A i \in 1 .. n : h.sent[at + 3 + i] = Content[h.off[k - 1] + i]

\* The frames, and what was copied after the last of them.
Layout(h) ==
  /\ h.start[0] = 0 /\ h.off[0] = 0
  /\ \A k \in 1 .. padded : FrameIn(h, k)
  /\ \A k \in 0 .. padded : h.start[k] <= h.start[padded] /\ h.off[k] <= h.off[padded]
  /\ h.off[padded] <= taken /\ (padded < NumFirst => h.off[padded] = taken)
  /\ \A i \in 1 .. taken - h.off[padded] :
       h.sent[h.start[padded] + i] = Content[h.off[padded] + i]

Total(h) == h.start[padded] + (taken - h.off[padded])

WireIn(h) ==
  /\ h.read + Len(wire) <= Total(h)
  /\ cut => closed
  /\ ~cut => h.read + Len(wire) = Total(h)
  /\ \A i \in 1 .. Len(wire) : wire[i] = h.sent[h.read + i]

Aligned(h) ==
  /\ pc = "header" => /\ removed <= padded
                      /\ h.read = h.start[removed] /\ Len(out) = h.off[removed]
  /\ pc \in {"payload", "junk"} =>
       /\ removed \in 1 .. padded
       /\ need = h.off[removed] - h.off[removed - 1] /\ junk = h.pads[removed]
  /\ pc = "payload" => /\ h.read = h.start[removed - 1] + 3
                       /\ Len(out) = h.off[removed - 1]
  /\ pc = "junk" => /\ h.read = h.start[removed - 1] + 3 + need
                    /\ Len(out) + Len(held) = h.off[removed]
  /\ pc = "raw" => /\ padded = NumFirst /\ h.read >= h.start[NumFirst]
                   /\ Len(out) = h.off[NumFirst] + (h.read - h.start[NumFirst])

Dead == closed /\ wire = <<>>

OutIsContent ==
  /\ Len(out) + Len(held) <= Len(Content) /\ (pc # "junk" => Len(held) = 0)
  /\ \A i \in 1 .. Len(out) : out[i] = Content[i]
  /\ \A i \in 1 .. Len(held) : held[i] = Content[Len(out) + i]

Located(h)  == Layout(h) /\ WireIn(h) /\ Aligned(h)
DeliveryInv == ~empties => OutIsContent /\ (Dead \/ \E h \in Histories : Located(h))

LEMMA InitDelivery == Init => DeliveryInv
<1> SUFFICES ASSUME Init PROVE OutIsContent /\ \E h \in Histories : Located(h)
  BY DEF DeliveryInv
<1>0. 0 \in Byte /\ NumFirst \in Nat /\ Len(Content) \in Nat
  BY PaddingAssumption DEF Byte
<1> DEFINE z == [p \in Nat |-> 0]
           g == [sent |-> z, read |-> 0, start |-> z, off |-> z, pads |-> z]
<1>1. z \in [Nat -> Byte] /\ z \in [Nat -> Nat] /\ z[0] = 0
  BY <1>0
<1> HIDE DEF z
<1>2. /\ g \in Histories /\ g.sent = z /\ g.read = 0 /\ g.start = z /\ g.off = z /\ g.pads = z
  BY <1>1 DEF Histories
<1> HIDE DEF g
<1>3. Layout(g)
  BY <1>0, <1>1, <1>2 DEF Init, Layout
<1>4. WireIn(g)
  BY <1>0, <1>1, <1>2 DEF Init, WireIn, Total
<1>5. Aligned(g)
  BY <1>0, <1>1, <1>2 DEF Init, Aligned, NextFrame
<1>6. OutIsContent
  BY <1>0 DEF Init, OutIsContent, NextFrame
<1> QED
  BY <1>2, <1>3, <1>4, <1>5, <1>6 DEF Located

\* Dropping m bytes from the wire.
LEMMA DropType ==
  ASSUME NEW s \in Seq(Byte), NEW m \in 0 .. Len(s)
  PROVE  LET r == SubSeq(s, m + 1, Len(s)) IN
         r \in Seq(Byte) /\ Len(r) = Len(s) - m /\ \A i \in 1 .. Len(s) - m : r[i] = s[m + i]
  OBVIOUS

LEMMA TakeType ==
  ASSUME NEW s \in Seq(Byte), NEW m \in 0 .. Len(s)
  PROVE  LET r == SubSeq(s, 1, m) IN
         r \in Seq(Byte) /\ Len(r) = m /\ \A i \in 1 .. m : r[i] = s[i]
  OBVIOUS

Moved(h, m) == [sent |-> h.sent, read |-> h.read + m,
                start |-> h.start, off |-> h.off, pads |-> h.pads]

\* A loop that takes the first m bytes of the wire moves on in the layout.
LEMMA Reading ==
  ASSUME TypeOK, NEW h \in Histories, Layout(h), WireIn(h), NEW m \in 0 .. Len(wire),
         wire' = SubSeq(wire, m + 1, Len(wire)), UNCHANGED <<closed, cut, adder>>,
         NEW g, g = Moved(h, m)
  PROVE  g \in Histories /\ Layout(g)' /\ WireIn(g)'
<1>1. wire \in Seq(Byte) /\ Len(wire) \in Nat /\ m \in Nat
  BY DEF TypeOK
<1>2. h.read \in Nat /\ g.read = h.read + m /\ g \in Histories
  <2>1. h.read \in Nat
    BY DEF Histories
  <2>2. h.read + m \in Nat
    BY <1>1, <2>1
  <2>3. g.read = h.read + m
    BY DEF Moved
  <2>4. g \in Histories
    BY <2>2 DEF Moved, Histories
  <2> QED
    BY <2>1, <2>3, <2>4
<1>3. g.sent = h.sent /\ g.start = h.start /\ g.off = h.off /\ g.pads = h.pads
  BY DEF Moved
<1>4. Layout(g)'
  BY <1>3 DEF Layout, FrameIn, adder
<1>5. Len(wire') = Len(wire) - m /\ \A i \in 1 .. Len(wire) - m : wire'[i] = wire[m + i]
  BY <1>1, DropType
<1>6. WireIn(g)'
  <2>1. Total(g)' = Total(h)
    BY <1>3 DEF Total, adder
  <2>2. g.read + Len(wire') = h.read + Len(wire)
    BY <1>1, <1>2, <1>5
  <2>3. ASSUME NEW i \in 1 .. Len(wire') PROVE wire'[i] = g.sent[g.read + i]
    <3>1. m + i \in 1 .. Len(wire) /\ wire'[i] = wire[m + i]
      BY <1>1, <1>5
    <3>2. \A j \in 1 .. Len(wire) : wire[j] = h.sent[h.read + j]
      BY DEF WireIn
    <3>3. wire[m + i] = h.sent[h.read + (m + i)]
      BY ONLY <3>1, <3>2
    <3>4. h.read + (m + i) = g.read + i
      BY ONLY <1>1, <1>2
    <3> QED
      BY <1>3, <3>1, <3>3, <3>4
  <2> QED
    BY <2>1, <2>2, <2>3 DEF WireIn
<1> QED
  BY <1>2, <1>4, <1>6

Delivered == OutIsContent' /\ (Dead' \/ \E g \in Histories : Located(g)')

LEMMA HeaderDelivery ==
  ASSUME Inv, OutIsContent, NEW h \in Histories, Located(h), ReadHeader
  PROVE  Delivered
<1>t. /\ TypeOK /\ wire \in Seq(Byte) /\ Len(wire) \in Nat /\ NumFirst \in Nat
      /\ taken \in Nat /\ padded \in Nat /\ removed \in Nat /\ removed < NumFirst
      /\ padded <= NumFirst
  BY PaddingAssumption DEF Inv, TypeOK, ReadHeader
<1>h. /\ Layout(h) /\ WireIn(h) /\ h.read \in Nat /\ h.sent \in [Nat -> Byte]
      /\ h.start \in [Nat -> Nat] /\ h.off \in [Nat -> Nat] /\ h.pads \in [Nat -> Byte]
  BY DEF Located, Histories
<1>1. /\ pc = "header" /\ UNCHANGED <<adder, held, out, closed, cut, empties>>
      /\ removed' = removed + 1 /\ wire' = Rest(3) /\ (Len(wire) >= 3 \/ closed)
      /\ pc' \in {"payload", "done"}
  BY DEF ReadHeader, Ready, Goto
<1>2. removed <= padded /\ h.read = h.start[removed] /\ Len(out) = h.off[removed]
  BY <1>1 DEF Located, Aligned
<1>3. OutIsContent'
  BY <1>1 DEF OutIsContent
<1>4. CASE Len(wire) < 3
  <2>1. Got(3) = Len(wire)
    BY <1>4 DEF Got
  <2>2. wire' = <<>>
    BY <1>t, <1>1, <2>1 DEF Rest
  <2> QED
    BY <1>1, <1>3, <1>4, <1>t, <2>2 DEF Delivered, Dead
<1>5. CASE Len(wire) >= 3
  <2>1. Got(3) = 3 /\ wire # <<>>
    BY <1>5 DEF Got
  <2>2. wire' = SubSeq(wire, 3 + 1, Len(wire))
    BY <1>1, <2>1 DEF Rest
  <2>3. PICK g : g = Moved(h, 3)
    OBVIOUS
  <2>4. g \in Histories /\ Layout(g)' /\ WireIn(g)'
    <3>1. 3 \in 0 .. Len(wire) /\ UNCHANGED <<closed, cut, adder>> /\ TypeOK
      BY <1>t, <1>1, <1>5
    <3> QED
      BY <1>h, <2>2, <2>3, <3>1, Reading
  <2>5. removed < padded
    <3>1. h.read + 3 <= h.start[padded] + (taken - h.off[padded])
      <4>1. PICK l \in Nat : l = Len(wire)
        BY <1>t
      <4>2. h.read + l <= h.start[padded] + (taken - h.off[padded])
        BY ONLY <4>1, <1>h, Zenon DEF WireIn, Total
      <4>3. h.start[padded] \in Nat /\ h.off[padded] \in Nat
        BY <1>t, <1>h
      <4>4. h.read \in Nat /\ l >= 3 /\ taken \in Nat
        BY <1>t, <1>h, <1>5, <4>1
      <4> QED
        BY ONLY <4>2, <4>3, <4>4
    <3>2. padded < NumFirst => h.off[padded] = taken
      BY <1>h DEF Layout
    <3>3. h.start[padded] \in Nat
      BY <1>h, <1>t
    <3>4. /\ removed <= padded /\ h.read = h.start[removed] /\ removed < NumFirst
          /\ removed \in Nat /\ padded \in Nat /\ taken \in Nat
      BY <1>2, <1>t
    <3>5. ASSUME removed = padded PROVE FALSE
      <4>1. h.off[padded] = taken /\ h.read = h.start[padded]
        BY ONLY <3>2, <3>4, <3>5
      <4>2. h.start[padded] + 3 <= h.start[padded] + (taken - taken)
        BY ONLY <3>1, <4>1, Zenon
      <4> QED
        BY ONLY <3>3, <3>4, <4>2
    <3> QED
      BY ONLY <3>4, <3>5
  <2> DEFINE k == removed + 1
  <2>6. k \in 1 .. padded /\ k - 1 = removed
    BY <1>t, <2>5
  <2>7. FrameIn(h, k)
    BY <2>6, <1>h DEF Layout
  <2>8. /\ wire[1] = h.sent[h.read + 1] /\ wire[2] = h.sent[h.read + 2]
        /\ wire[3] = h.sent[h.read + 3]
    <3>1. \A j \in 1 .. Len(wire) : wire[j] = h.sent[h.read + j]
      BY <1>h DEF WireIn
    <3>2. 1 \in 1 .. Len(wire) /\ 2 \in 1 .. Len(wire) /\ 3 \in 1 .. Len(wire)
      BY <1>5, <1>t
    <3> QED
      BY ONLY <3>1, <3>2
  <2>9. need' = h.off[k] - h.off[k - 1] /\ junk' = h.pads[k] /\ pc' = "payload"
    <3>1. need' = wire[1] * Base + wire[2] /\ junk' = wire[3] /\ pc' = "payload"
      BY <2>1, <1>5 DEF ReadHeader, Length, Goto
    <3> QED
      BY <1>2, <2>6, <2>7, <2>8, <3>1 DEF FrameIn
  <2>10. g.read = h.start[removed' - 1] + 3 /\ g.start = h.start /\ g.off = h.off /\ g.pads = h.pads
    <3>1. g.read = h.read + 3 /\ g.start = h.start /\ g.off = h.off /\ g.pads = h.pads
      BY <2>3 DEF Moved
    <3>2. removed' - 1 = removed
      BY <1>1, <1>t
    <3> QED
      BY <3>1, <3>2, <1>2
  <2>11. Aligned(g)'
    <3>1. padded' = padded /\ out' = out /\ removed' = k /\ removed' - 1 = removed
      BY <1>1, <2>6 DEF adder
    <3> QED
      BY <1>2, <2>6, <2>9, <2>10, <3>1 DEF Aligned
  <2> QED
    BY <1>3, <2>4, <2>11 DEF Delivered, Located
<1> QED
  BY <1>t, <1>4, <1>5

\* What io.ReadFull takes: all that was asked for, or what there was.
Takes(n, m) ==
  /\ m = Got(n) /\ m \in 0 .. Len(wire) /\ m <= n
  /\ wire' = SubSeq(wire, m + 1, Len(wire))
  /\ m < n => closed /\ wire' = <<>>

LEMMA GotFacts ==
  ASSUME TypeOK, NEW n \in Nat, Ready(n), wire' = Rest(n)
  PROVE  \E m \in Nat : Takes(n, m)
<1>1. wire \in Seq(Byte) /\ Len(wire) \in Nat
  BY DEF TypeOK
<1>2. CASE Len(wire) >= n
  <2>1. Got(n) = n /\ n \in 0 .. Len(wire)
    BY <1>1, <1>2 DEF Got
  <2>2. wire' = SubSeq(wire, n + 1, Len(wire))
    BY <2>1 DEF Rest
  <2> QED
    BY <2>1, <2>2 DEF Takes
<1>3. CASE ~(Len(wire) >= n)
  <2>1. PICK m \in Nat : m = Len(wire)
    BY <1>1
  <2>2. Got(n) = m /\ m < n /\ m \in 0 .. Len(wire) /\ closed
    BY <1>1, <1>3, <2>1 DEF Got, Ready
  <2>3. wire' = SubSeq(wire, m + 1, Len(wire)) /\ wire' = <<>>
    BY <1>1, <2>1, <2>2 DEF Rest
  <2> QED
    BY <2>2, <2>3 DEF Takes
<1> QED
  BY <1>2, <1>3

\* Where the receiving loop goes after the frame k that it has just read.
LEMMA AfterFrame ==
  ASSUME Inv, NEW g \in Histories, NEW k \in 1 .. padded, removed' = k, padded' = padded,
         g.read = g.start[k], Len(out') = g.off[k], pc' = NextFrame(k)
  PROVE  Aligned(g)'
<1>1. padded \in Nat /\ padded <= NumFirst /\ NumFirst \in Nat
  BY PaddingAssumption DEF Inv, TypeOK
<1>2. CASE k < NumFirst
  <2>1. pc' = "header" /\ k <= padded
    BY <1>1, <1>2 DEF NextFrame
  <2> QED
    BY <2>1 DEF Aligned
<1>3. CASE ~(k < NumFirst)
  <2>1. pc' = "raw" /\ k = NumFirst /\ padded = NumFirst
    BY <1>1, <1>3 DEF NextFrame
  <2>2. g.start[k] \in Nat /\ g.off[k] \in Nat
    <3>1. g.start \in [Nat -> Nat] /\ g.off \in [Nat -> Nat]
      BY DEF Histories
    <3>2. k \in Nat
      BY <1>1
    <3> QED
      BY ONLY <3>1, <3>2
  <2>3. g.read >= g.start[NumFirst] /\ g.off[k] = g.off[NumFirst] + (g.read - g.start[NumFirst])
    BY ONLY <2>1, <2>2, g.read = g.start[k]
  <2> QED
    BY <2>1, <2>3 DEF Aligned
<1> QED
  BY <1>2, <1>3

LEMMA PayloadDelivery ==
  ASSUME Inv, OutIsContent, NEW h \in Histories, Located(h), ReadPayload
  PROVE  Delivered
<1>t. /\ TypeOK /\ wire \in Seq(Byte) /\ Len(wire) \in Nat /\ NumFirst \in Nat
      /\ taken \in Nat /\ padded \in Nat /\ need \in Nat /\ Len(Content) \in Nat
      /\ taken <= Len(Content)
  BY PaddingAssumption, BaseFacts DEF Inv, TypeOK
<1>h. /\ Layout(h) /\ WireIn(h) /\ h.read \in Nat /\ h.sent \in [Nat -> Byte]
      /\ h.start \in [Nat -> Nat] /\ h.off \in [Nat -> Nat] /\ h.pads \in [Nat -> Byte]
  BY DEF Located, Histories
<1>1. /\ pc = "payload" /\ UNCHANGED <<adder, removed, need, junk, out, closed, cut, empties>>
      /\ held' = SubSeq(wire, 1, Got(need)) /\ wire' = Rest(need) /\ Ready(need)
      /\ pc' = IF Got(need) > 0 THEN "junk" ELSE IF need = 0 THEN NextFrame(removed) ELSE "done"
  BY DEF ReadPayload, Goto
<1>2. PICK k \in 1 .. padded : k = removed
  BY <1>1 DEF Located, Aligned
<1>3. /\ need = h.off[k] - h.off[k - 1] /\ junk = h.pads[k]
      /\ h.read = h.start[k - 1] + 3 /\ Len(out) = h.off[k - 1]
  BY <1>1, <1>2 DEF Located, Aligned
<1>4. /\ FrameIn(h, k) /\ h.off[k] <= h.off[padded] /\ h.off[padded] <= taken
      /\ k \in Nat /\ k - 1 \in Nat
  <2>1. k \in Nat /\ k - 1 \in Nat /\ k \in 0 .. padded
    BY <1>t
  <2> QED
    BY <1>h, <2>1 DEF Layout
<1>n. /\ h.off[k] \in Nat /\ h.off[k - 1] \in Nat /\ h.off[padded] \in Nat
      /\ h.start[k] \in Nat /\ h.start[k - 1] \in Nat
  BY <1>t, <1>h, <1>4
<1>p. PICK m \in Nat : Takes(need, m)
  <2>1. TypeOK /\ need \in Nat /\ Ready(need) /\ wire' = Rest(need)
    BY <1>t, <1>1
  <2> QED
    BY ONLY <2>1, GotFacts, Zenon
<1>5. /\ m = Got(need) /\ m \in 0 .. Len(wire) /\ m <= need
      /\ wire' = SubSeq(wire, m + 1, Len(wire))
      /\ m < need => closed /\ wire' = <<>>
  BY <1>p DEF Takes
<1>6. Len(held') = m /\ \A i \in 1 .. m : held'[i] = wire[i]
  BY <1>t, <1>1, <1>5, TakeType
<1>7. ASSUME NEW i \in 1 .. m PROVE held'[i] = Content[Len(out) + i]
  <2>1. \A j \in 1 .. Len(wire) : wire[j] = h.sent[h.read + j]
    BY <1>h DEF WireIn
  <2>2. i \in 1 .. Len(wire) /\ i \in 1 .. need
    BY <1>t, <1>5
  <2>3. wire[i] = h.sent[h.read + i]
    BY ONLY <2>1, <2>2
  <2>4. h.sent[h.start[k - 1] + 3 + i] = Content[h.off[k - 1] + i]
    BY <1>3, <1>4, <2>2 DEF FrameIn
  <2> QED
    BY ONLY <1>3, <1>6, <2>3, <2>4
<1>8. Len(out) + m <= Len(Content)
  <2>1. PICK c \in Nat : c = Len(Content)
    BY <1>t
  <2>2. taken <= c
    BY ONLY <1>t, <2>1, Zenon
  <2>3. h.off[k - 1] + m <= c
    <3>1. m <= need /\ need \in Nat /\ taken \in Nat
      BY ONLY <1>5, <1>t
    <3>2. need = h.off[k] - h.off[k - 1] /\ h.off[k] <= h.off[padded] /\ h.off[padded] <= taken
      BY ONLY <1>3, <1>4
    <3> QED
      BY ONLY <1>n, <2>2, <3>1, <3>2
  <2> QED
    BY ONLY <1>3, <2>1, <2>3, Zenon
<1>9. OutIsContent'
  <2>1. pc' # "junk" => m = 0
    BY <1>1, <1>5
  <2>2. out' = out /\ \A i \in 1 .. Len(out) : out[i] = Content[i]
    BY <1>1 DEF OutIsContent
  <2> QED
    BY <1>6, <1>7, <1>8, <2>1, <2>2 DEF OutIsContent
<1>10. CASE m < need
  BY <1>1, <1>5, <1>9, <1>10 DEF Delivered, Dead
<1>11. CASE m = need
  <2>1. PICK g : g = Moved(h, m)
    OBVIOUS
  <2>2. g \in Histories /\ Layout(g)' /\ WireIn(g)'
    BY <1>t, <1>h, <1>1, <1>5, <2>1, Reading
  <2>3. g.read = h.read + m /\ g.start = h.start /\ g.off = h.off /\ g.pads = h.pads
    BY <2>1 DEF Moved
  <2>u. padded' = padded /\ removed' = k /\ need' = need /\ junk' = junk /\ out' = out
    BY <1>1, <1>2 DEF adder
  <2>4. CASE m > 0
    <3>1. pc' = "junk"
      BY <1>1, <1>5, <2>4
    <3>2. g.read = h.start[k - 1] + 3 + need /\ Len(out) + m = h.off[k]
      <4>1. g.read = (h.start[k - 1] + 3) + need
        BY ONLY <1>3, <1>11, <2>3, Zenon
      <4>2. h.off[k - 1] + (h.off[k] - h.off[k - 1]) = h.off[k]
        BY ONLY <1>n
      <4>3. Len(out) + m = h.off[k - 1] + (h.off[k] - h.off[k - 1])
        BY ONLY <1>3, <1>11, Zenon
      <4> QED
        BY ONLY <4>1, <4>2, <4>3, Zenon
    <3>3. Aligned(g)'
      BY <1>2, <1>3, <1>6, <2>3, <2>u, <3>1, <3>2 DEF Aligned
    <3> QED
      BY <1>9, <2>2, <3>3 DEF Delivered, Located
  <2>5. CASE m = 0
    <3>1. pc' = NextFrame(k)
      BY <1>1, <1>2, <1>5, <1>11, <2>5
    <3>2. h.pads[k] = 0 /\ h.start[k] = h.start[k - 1] + 3 + need + h.pads[k]
      BY <1>3, <1>4, <1>11, <2>5 DEF FrameIn
    <3>3. g.read = g.start[k] /\ Len(out') = g.off[k]
      <4>a. need = 0
        BY ONLY <1>11, <2>5
      <4>b. 0 = h.off[k] - h.off[k - 1] /\ h.start[k] = h.start[k - 1] + 3 + 0 + 0
        BY ONLY <1>3, <3>2, <4>a, Zenon
      <4>1. h.off[k] = h.off[k - 1] /\ h.start[k] = h.start[k - 1] + 3
        BY ONLY <1>n, <4>b
      <4>2. h.read + m = h.start[k - 1] + 3
        BY ONLY <1>3, <1>n, <2>5
      <4> QED
        BY ONLY <1>3, <2>3, <2>u, <4>1, <4>2
    <3>4. Aligned(g)'
      BY <2>2, <2>u, <3>1, <3>3, AfterFrame
    <3> QED
      BY <1>9, <2>2, <3>4 DEF Delivered, Located
  <2> QED
    BY <2>4, <2>5
<1> QED
  BY <1>t, <1>5, <1>10, <1>11

\* t, n bytes long, is what Content holds from byte l + 1 on.
Holds(t, l, n) == t \in Seq(Byte) /\ n = Len(t) /\ \A i \in 1 .. n : t[i] = Content[l + i]

\* s, l bytes long, is what Content begins with.
Begins(s, l) == s \in Seq(Byte) /\ l = Len(s) /\ \A i \in 1 .. l : s[i] = Content[i]

\* Content behind content is content.
LEMMA ContentBehind ==
  ASSUME NEW s, NEW t, NEW a \in Nat, NEW b \in Nat, Begins(s, a), Holds(t, a, b)
  PROVE  Begins(s \o t, a + b)
<1>t. s \in Seq(Byte) /\ t \in Seq(Byte) /\ a = Len(s) /\ b = Len(t)
  BY Zenon DEF Begins, Holds
<1>s. \A i \in 1 .. a : s[i] = Content[i]
  BY Zenon DEF Begins
<1>h. \A i \in 1 .. b : t[i] = Content[a + i]
  BY Zenon DEF Holds
<1>1. Len(s \o t) = a + b /\ s \o t \in Seq(Byte)
  BY <1>t, ConcatType
<1>2. ASSUME NEW i \in 1 .. a + b PROVE (s \o t)[i] = Content[i]
  <2>1. CASE i <= a
    <3>1. i \in 1 .. a
      BY ONLY <2>1, i \in 1 .. a + b, a \in Nat, b \in Nat
    <3>2. (s \o t)[i] = s[i]
      BY ONLY <1>t, <3>1
    <3> QED
      BY ONLY <1>s, <3>1, <3>2, Zenon
  <2>2. CASE ~(i <= a)
    <3>1. PICK j \in 1 .. b : i = a + j
      <4>1. i - a \in 1 .. b /\ i = a + (i - a)
        BY ONLY <2>2, i \in 1 .. a + b, a \in Nat, b \in Nat
      <4> QED
        BY ONLY <4>1
    <3>2. (s \o t)[a + j] = t[j]
      BY ONLY <1>t, j \in 1 .. b
    <3> QED
      BY ONLY <1>h, <3>1, <3>2, j \in 1 .. b, Zenon
  <2> QED
    BY <2>1, <2>2
<1> QED
  BY ONLY <1>1, <1>2, Zenon DEF Begins

\* The chunk goes out behind its padding, to the place it came from.
LEMMA JunkOut ==
  ASSUME TypeOK, OutIsContent, ReadJunk
  PROVE  OutIsContent' /\ Len(out') = Len(out) + Len(held)
<1>1. out \in Seq(Byte) /\ held \in Seq(Byte)
  BY DEF TypeOK
<1>2. PICK a \in Nat, b \in Nat : a = Len(out) /\ b = Len(held)
  BY <1>1
<1>3. /\ \A i \in 1 .. a : out[i] = Content[i]
      /\ \A i \in 1 .. b : held[i] = Content[a + i]
      /\ a + b <= Len(Content)
  BY <1>2, Zenon DEF OutIsContent
<1>4. Len(out \o held) = a + b /\ \A i \in 1 .. a + b : (out \o held)[i] = Content[i]
  <2>1. Begins(out, a) /\ Holds(held, a, b)
    BY ONLY <1>1, <1>2, <1>3, Zenon DEF Begins, Holds
  <2>2. Begins(out \o held, a + b)
    BY ONLY <2>1, a \in Nat, b \in Nat, ContentBehind, Zenon
  <2> QED
    BY ONLY <2>2, Zenon DEF Begins
<1>5. out' = out \o held /\ held' = <<>> /\ Len(<<>>) = 0
  BY DEF ReadJunk
<1>6. Len(out') + Len(held') = a + b
  BY ONLY <1>4, <1>5, a \in Nat, b \in Nat
<1> QED
  BY <1>2, <1>3, <1>4, <1>5, <1>6 DEF OutIsContent

LEMMA JunkDelivery ==
  ASSUME Inv, OutIsContent, NEW h \in Histories, Located(h), ReadJunk
  PROVE  Delivered
<1>t. /\ TypeOK /\ wire \in Seq(Byte) /\ NumFirst \in Nat
      /\ padded \in Nat /\ need \in Nat /\ junk \in Nat
  BY PaddingAssumption, BaseFacts DEF Inv, TypeOK, Byte
<1>h. /\ Layout(h) /\ WireIn(h) /\ h.read \in Nat
      /\ h.start \in [Nat -> Nat] /\ h.off \in [Nat -> Nat] /\ h.pads \in [Nat -> Byte]
  BY DEF Located, Histories
<1>1. /\ pc = "junk" /\ UNCHANGED <<adder, removed, need, junk, closed, cut, empties>>
      /\ wire' = Rest(junk) /\ Ready(junk)
      /\ ~(Got(junk) < junk) => pc' = NextFrame(removed)
  BY DEF ReadJunk, Goto
<1>2. PICK k \in 1 .. padded : k = removed
  BY <1>1 DEF Located, Aligned
<1>3. /\ need = h.off[k] - h.off[k - 1] /\ junk = h.pads[k]
      /\ h.read = h.start[k - 1] + 3 + need /\ Len(out) + Len(held) = h.off[k]
  BY <1>1, <1>2 DEF Located, Aligned
<1>4. h.start[k] = h.start[k - 1] + 3 + need + junk
  <2>1. FrameIn(h, k)
    BY <1>h DEF Layout
  <2> QED
    BY <1>3, <2>1 DEF FrameIn
<1>n. h.start[k] \in Nat /\ h.start[k - 1] \in Nat
  <2>1. k \in Nat /\ k - 1 \in Nat
    BY <1>t
  <2> QED
    BY ONLY <1>h, <2>1
<1>5. OutIsContent' /\ Len(out') = h.off[k]
  BY <1>t, <1>3, JunkOut
<1>p. PICK m \in Nat : Takes(junk, m)
  <2>1. TypeOK /\ junk \in Nat /\ Ready(junk) /\ wire' = Rest(junk)
    BY <1>t, <1>1
  <2> QED
    BY ONLY <2>1, GotFacts, Zenon
<1>6. /\ m = Got(junk) /\ m \in 0 .. Len(wire) /\ m <= junk
      /\ wire' = SubSeq(wire, m + 1, Len(wire))
      /\ m < junk => closed /\ wire' = <<>>
  BY <1>p DEF Takes
<1>7. CASE m < junk
  BY <1>1, <1>5, <1>6, <1>7 DEF Delivered, Dead
<1>8. CASE m = junk
  <2>1. PICK g : g = Moved(h, m)
    OBVIOUS
  <2>2. g \in Histories /\ Layout(g)' /\ WireIn(g)'
    BY <1>t, <1>h, <1>1, <1>6, <2>1, Reading
  <2>3. g.read = h.read + m /\ g.start = h.start /\ g.off = h.off
    BY <2>1 DEF Moved
  <2>4. padded' = padded /\ removed' = k /\ pc' = NextFrame(k)
    BY <1>1, <1>2, <1>6, <1>8, <1>t DEF adder
  <2>5. g.read = g.start[k] /\ Len(out') = g.off[k]
    BY ONLY <1>3, <1>4, <1>5, <1>8, <1>n, <2>3
  <2>6. Aligned(g)'
    BY <2>2, <2>4, <2>5, AfterFrame
  <2> QED
    BY <1>5, <2>2, <2>6 DEF Delivered, Located
<1> QED
  BY <1>t, <1>6, <1>7, <1>8

LEMMA RawDelivery ==
  ASSUME Inv, OutIsContent, NEW h \in Histories, Located(h), ReadRaw
  PROVE  Delivered
<1>t. /\ TypeOK /\ wire \in Seq(Byte) /\ Len(wire) \in Nat /\ NumFirst \in Nat
      /\ taken \in Nat /\ padded \in Nat /\ out \in Seq(Byte) /\ Len(out) \in Nat
      /\ Len(Content) \in Nat /\ taken <= Len(Content) /\ Buffer \in Nat
  BY PaddingAssumption, BaseFacts DEF Inv, TypeOK
<1>h. /\ Layout(h) /\ WireIn(h) /\ h.read \in Nat /\ h.sent \in [Nat -> Byte]
      /\ h.start \in [Nat -> Nat] /\ h.off \in [Nat -> Nat] /\ h.pads \in [Nat -> Byte]
  BY DEF Located, Histories
<1>1. /\ pc = "raw" /\ UNCHANGED <<adder, removed, need, junk, held, closed, cut, empties>>
      /\ Len(held) = 0
  BY DEF ReadRaw, OutIsContent
<1>2. CASE wire = <<>> /\ closed /\ Goto("done") /\ UNCHANGED <<out, wire>>
  BY <1>1, <1>2 DEF Goto, Delivered, Dead, OutIsContent
<1>3. ASSUME NEW n \in 1 .. Got(Buffer), out' = out \o SubSeq(wire, 1, n), wire' = Rest(n),
             UNCHANGED pc
      PROVE  Delivered
  <2>1. n \in Nat /\ n <= Len(wire) /\ Got(n) = n /\ n \in 0 .. Len(wire)
    BY <1>t, <1>3 DEF Got
  <2>2. wire' = SubSeq(wire, n + 1, Len(wire))
    BY <1>3, <2>1 DEF Rest
  <2>3. PICK g : g = Moved(h, n)
    OBVIOUS
  <2>4. g \in Histories /\ Layout(g)' /\ WireIn(g)'
    BY <1>t, <1>h, <1>1, <2>1, <2>2, <2>3, Reading
  <2>5. g.read = h.read + n /\ g.start = h.start /\ g.off = h.off
    BY <2>3 DEF Moved
  <2>6. PICK s \in Nat, o \in Nat, r \in Nat :
           s = h.start[NumFirst] /\ o = h.off[NumFirst] /\ r = h.read
    BY <1>t, <1>h
  <2>l. PICK l \in Nat, w \in Nat, c \in Nat :
           l = Len(out) /\ w = Len(wire) /\ c = Len(Content)
    BY <1>t
  <2>7. padded = NumFirst /\ r >= s /\ l = o + (r - s)
    BY <1>1, <2>6, <2>l DEF Located, Aligned
  <2>8. r + n <= s + (taken - o) /\ taken <= c /\ taken \in Nat
    <3>1. r + w <= s + (taken - o)
      BY ONLY <1>h, <2>6, <2>7, <2>l, Zenon DEF WireIn, Total
    <3>2. n <= w /\ taken \in Nat /\ taken <= c
      BY <1>t, <2>1, <2>l
    <3> QED
      BY ONLY <3>1, <3>2, n \in Nat, w \in Nat, r \in Nat, s \in Nat, o \in Nat
  <2>9. ASSUME NEW i \in 1 .. n PROVE wire[i] = Content[l + i]
    <3>1. /\ (r - s) + i \in 1 .. taken - o
          /\ s + ((r - s) + i) = r + i /\ o + ((r - s) + i) = l + i
      BY ONLY <2>7, <2>8, i \in 1 .. n, n \in Nat, r \in Nat, s \in Nat, o \in Nat, l \in Nat
    <3>2. \A j \in 1 .. taken - o : h.sent[s + j] = Content[o + j]
      BY ONLY <1>h, <2>6, <2>7, Zenon DEF Layout
    <3>3. h.sent[s + ((r - s) + i)] = Content[o + ((r - s) + i)]
      BY ONLY <3>1, <3>2, Zenon
    <3>4. \A j \in 1 .. Len(wire) : wire[j] = h.sent[r + j]
      BY ONLY <1>h, <2>6, Zenon DEF WireIn
    <3>5. i \in 1 .. Len(wire)
      BY <2>1, <1>t
    <3>6. wire[i] = h.sent[r + i]
      BY ONLY <3>4, <3>5, Zenon
    <3> QED
      BY ONLY <3>1, <3>3, <3>6, Zenon
  <2>10. Len(out') = l + n /\ \A i \in 1 .. l + n : out'[i] = Content[i]
    <3> DEFINE b == SubSeq(wire, 1, n)
    <3>1. b \in Seq(Byte) /\ Len(b) = n /\ \A i \in 1 .. n : b[i] = wire[i]
      BY <1>t, <2>1, TakeType
    <3> HIDE DEF b
    <3>2. out' = out \o b
      BY <1>3 DEF b
    <3>3. \A i \in 1 .. n : b[i] = Content[l + i]
      BY ONLY <2>9, <3>1, Zenon
    <3>4. \A i \in 1 .. l : out[i] = Content[i]
      BY <2>l, Zenon DEF OutIsContent
    <3>5. Len(out \o b) = l + n /\ \A i \in 1 .. l + n : (out \o b)[i] = Content[i]
      <4>1. out \in Seq(Byte) /\ b \in Seq(Byte) /\ n \in Nat /\ l = Len(out) /\ n = Len(b)
        BY ONLY <1>t, <2>1, <2>l, <3>1
      <4> QED
        <5>1. Begins(out, l) /\ Holds(b, l, n)
          BY ONLY <3>3, <3>4, <4>1, Zenon DEF Begins, Holds
        <5>2. Begins(out \o b, l + n)
          BY ONLY <4>1, <5>1, l \in Nat, ContentBehind, Zenon
        <5> QED
          BY ONLY <5>2, Zenon DEF Begins
    <3> QED
      BY ONLY <3>2, <3>5, Zenon
  <2>11. OutIsContent'
    <3>1. l + n <= c
      BY ONLY <2>7, <2>8, n \in Nat, r \in Nat, s \in Nat, o \in Nat, l \in Nat, c \in Nat
    <3>2. held' = held /\ pc' = pc /\ Len(held') = 0
      BY <1>1, <1>3
    <3>3. Len(out') + Len(held') = l + n
      BY ONLY <2>10, <3>2, n \in Nat, l \in Nat, <2>1
    <3>4. \A i \in 1 .. Len(held') : held'[i] = Content[Len(out') + i]
      BY ONLY <3>2
    <3> QED
      BY ONLY <2>l, <2>10, <3>1, <3>2, <3>3, <3>4, Zenon DEF OutIsContent
  <2>12. Aligned(g)'
    <3>1. padded' = padded /\ pc' = "raw"
      BY <1>1, <1>3 DEF adder
    <3>2. g.read = r + n /\ r + n >= s /\ l + n = o + ((r + n) - s)
      <4>1. g.read = r + n
        BY ONLY <2>5, <2>6
      <4>2. r + n >= s /\ l + n = o + ((r + n) - s)
        BY ONLY <2>7, n \in Nat, r \in Nat, s \in Nat, o \in Nat, l \in Nat
      <4> QED
        BY ONLY <4>1, <4>2
    <3> QED
      BY <2>5, <2>6, <2>7, <2>10, <3>1, <3>2 DEF Aligned
  <2> QED
    BY <2>4, <2>11, <2>12 DEF Delivered, Located
<1> QED
  BY <1>2, <1>3 DEF ReadRaw

\* Past the end of a wire that was cut the loop finds nothing and adds nothing.
LEMMA DeadDelivery ==
  ASSUME Inv, OutIsContent, Dead, Receiver
  PROVE  Delivered
<1>1. TypeOK /\ wire = <<>> /\ closed /\ need \in Nat /\ junk \in Nat /\ Len(out) \in Nat
  BY BaseFacts DEF Inv, TypeOK, Dead, Byte
<1>2. \A n \in Nat : Got(n) = 0 /\ Rest(n) = <<>> /\ SubSeq(wire, 1, Got(n)) = <<>>
  BY <1>1 DEF Got, Rest
<1>3. ASSUME ReadHeader PROVE OutIsContent' /\ Dead'
  BY <1>1, <1>2, <1>3 DEF ReadHeader, Goto, OutIsContent, Dead
<1>4. ASSUME ReadPayload PROVE OutIsContent' /\ Dead'
  <2>1. held' = <<>> /\ wire' = <<>> /\ UNCHANGED <<out, closed>> /\ pc = "payload"
    BY <1>1, <1>2, <1>4 DEF ReadPayload
  <2>2. Len(out) <= Len(Content)
    BY <2>1, <1>1, PaddingAssumption DEF OutIsContent
  <2> QED
    BY <1>1, <2>1, <2>2 DEF OutIsContent, Dead
<1>5. ASSUME ReadJunk PROVE OutIsContent' /\ Dead'
  <2>1. wire' = <<>> /\ UNCHANGED closed
    BY <1>1, <1>2, <1>5 DEF ReadJunk
  <2> QED
    BY <1>1, <1>5, <2>1, JunkOut DEF Dead
<1>6. ASSUME ReadRaw PROVE OutIsContent' /\ Dead'
  BY <1>1, <1>6 DEF ReadRaw, Goto, OutIsContent, Dead
<1> QED
  BY <1>3, <1>4, <1>5, <1>6 DEF Receiver, Delivered

\* What a write puts behind the first bytes of a history.
Extend(f, at, b) == [p \in Nat |-> IF p \in at + 1 .. at + Len(b) THEN b[p - at] ELSE f[p]]

LEMMA ExtendFacts ==
  ASSUME NEW f \in [Nat -> Byte], NEW at \in Nat, NEW b \in Seq(Byte)
  PROVE  /\ Extend(f, at, b) \in [Nat -> Byte]
         /\ \A p \in 0 .. at : Extend(f, at, b)[p] = f[p]
         /\ \A j \in 1 .. Len(b) : Extend(f, at, b)[at + j] = b[j]
<1>c. PICK c \in Nat : c = Len(b)
  OBVIOUS
<1>e. PICK e : e = Extend(f, at, b)
  OBVIOUS
<1>1. e = [p \in Nat |-> IF p \in at + 1 .. at + c THEN b[p - at] ELSE f[p]]
  BY <1>c, <1>e DEF Extend
<1>2. \A j \in 1 .. c : b[j] \in Byte
  BY <1>c
<1>3. ASSUME NEW p \in Nat PROVE (IF p \in at + 1 .. at + c THEN b[p - at] ELSE f[p]) \in Byte
  <2>1. p \in at + 1 .. at + c => p - at \in 1 .. c
    BY ONLY at \in Nat, c \in Nat, p \in Nat
  <2> QED
    BY ONLY <1>2, <2>1, f \in [Nat -> Byte], p \in Nat
<1>4. e \in [Nat -> Byte]
  BY ONLY <1>1, <1>3
<1>5. ASSUME NEW p \in 0 .. at PROVE e[p] = f[p]
  BY ONLY <1>1, at \in Nat, c \in Nat, p \in 0 .. at
<1>6. ASSUME NEW j \in 1 .. c PROVE e[at + j] = b[j]
  <2>1. at + j \in Nat /\ at + j \in at + 1 .. at + c /\ (at + j) - at = j
    BY ONLY at \in Nat, c \in Nat, j \in 1 .. c
  <2> QED
    BY ONLY <1>1, <2>1
<1>7. (\A p \in 0 .. at : e[p] = f[p]) /\ (\A j \in 1 .. c : e[at + j] = b[j])
  BY ONLY <1>5, <1>6
<1> QED
  BY ONLY <1>c, <1>e, <1>4, <1>7, Zenon

\* A wire that is still open has all that was sent and not yet read.
LEMMA SendWire ==
  ASSUME TypeOK, NEW h \in Histories, WireIn(h), ~closed, UNCHANGED <<closed, cut>>,
         NEW b \in Seq(Byte), wire' = wire \o b, NEW at \in Nat, at = Total(h),
         NEW c \in Nat, c = Len(b),
         NEW g, g.sent = Extend(h.sent, at, b), g.read = h.read, Total(g)' = at + c
  PROVE  WireIn(g)'
<1>1. wire \in Seq(Byte) /\ cut \in BOOLEAN
  BY DEF TypeOK
<1>2. PICK w \in Nat, r \in Nat : w = Len(wire) /\ r = h.read
  BY <1>1 DEF Histories
<1>3. ~cut /\ r + w = at /\ \A i \in 1 .. w : wire[i] = h.sent[r + i]
  BY <1>2, Zenon DEF WireIn
<1>4. h.sent \in [Nat -> Byte]
  BY DEF Histories
<1>5. /\ \A p \in 0 .. at : g.sent[p] = h.sent[p]
      /\ \A j \in 1 .. c : g.sent[at + j] = b[j]
  <2>1. PICK f \in [Nat -> Byte] : f = h.sent
    BY ONLY <1>4, Zenon
  <2>2. g.sent = Extend(f, at, b)
    BY ONLY <2>1, g.sent = Extend(h.sent, at, b), Zenon
  <2>3. /\ \A p \in 0 .. at : Extend(f, at, b)[p] = f[p]
        /\ \A j \in 1 .. Len(b) : Extend(f, at, b)[at + j] = b[j]
    BY ONLY f \in [Nat -> Byte], at \in Nat, b \in Seq(Byte), ExtendFacts, Zenon
  <2> QED
    BY ONLY <2>1, <2>2, <2>3, c = Len(b), Zenon
<1>6. Len(wire') = w + c
  BY ONLY <1>1, <1>2, b \in Seq(Byte), c = Len(b), wire' = wire \o b
<1>7. ASSUME NEW i \in 1 .. w + c PROVE wire'[i] = g.sent[r + i]
  <2>1. CASE i <= w
    <3>1. i \in 1 .. w /\ r + i \in 0 .. at
      BY ONLY <1>3, <2>1, i \in 1 .. w + c, w \in Nat, c \in Nat, r \in Nat, at \in Nat
    <3>2. wire'[i] = wire[i]
      BY ONLY <1>1, <1>2, <3>1, b \in Seq(Byte), wire' = wire \o b
    <3> QED
      BY ONLY <1>3, <1>5, <3>1, <3>2
  <2>2. CASE ~(i <= w)
    <3>1. PICK j \in 1 .. c : i = w + j
      <4>1. i - w \in 1 .. c /\ i = w + (i - w)
        BY ONLY <2>2, i \in 1 .. w + c, w \in Nat, c \in Nat
      <4> QED
        BY ONLY <4>1
    <3>2. wire'[w + j] = b[j]
      BY ONLY <1>1, <1>2, <3>1, b \in Seq(Byte), c = Len(b), wire' = wire \o b
    <3>3. r + i = at + j
      BY ONLY <1>3, <3>1, w \in Nat, c \in Nat, r \in Nat, at \in Nat
    <3> QED
      BY ONLY <1>5, <3>1, <3>2, <3>3
  <2> QED
    BY <2>1, <2>2
<1>8. r + (w + c) = at + c
  BY ONLY <1>3, w \in Nat, c \in Nat, r \in Nat, at \in Nat
<1>9. ~cut' /\ g.read + Len(wire') = Total(g)' /\ g.read + Len(wire') <= Total(g)'
  <2>1. g.read + Len(wire') = at + c
    BY ONLY <1>2, <1>6, <1>8, g.read = h.read
  <2>2. at + c <= at + c
    BY ONLY at \in Nat, c \in Nat
  <2> QED
    BY <1>3, <2>1, <2>2
<1> QED
  BY <1>2, <1>6, <1>7, <1>9 DEF WireIn

\* A frame that was sent stays as it is, whatever follows it.
LEMMA FrameStays ==
  ASSUME NEW h \in Histories, NEW g, NEW k \in Nat \ {0}, FrameIn(h, k),
         NEW at \in Nat, h.start[k] <= at, \A p \in 0 .. at : g.sent[p] = h.sent[p],
         g.start[k] = h.start[k], g.start[k - 1] = h.start[k - 1],
         g.off[k] = h.off[k], g.off[k - 1] = h.off[k - 1], g.pads[k] = h.pads[k]
  PROVE  FrameIn(g, k)
<1>1. h.start \in [Nat -> Nat] /\ h.off \in [Nat -> Nat] /\ h.pads \in [Nat -> Byte]
  BY DEF Histories
<1>2. PICK s \in Nat, o \in Nat, d \in Nat :
         s = h.start[k - 1] /\ o = h.off[k - 1] /\ d = h.pads[k]
  <2>1. k - 1 \in Nat /\ \A x \in Byte : x \in Nat
    BY BaseFacts DEF Byte
  <2> QED
    BY <1>1, <2>1
<1>3. PICK n \in 0 .. Buffer - 1 : n = h.off[k] - h.off[k - 1]
  BY DEF FrameIn
<1>4. /\ n = 0 => d = 0
      /\ h.start[k] = s + 3 + n + d
      /\ h.sent[s + 1] * Base + h.sent[s + 2] = n /\ h.sent[s + 3] = d
      /\ \A i \in 1 .. n : h.sent[s + 3 + i] = Content[o + i]
  BY <1>2, <1>3, Zenon DEF FrameIn
<1>5. n \in Nat
  BY BaseFacts
<1>6. /\ s + 1 \in 0 .. at /\ s + 2 \in 0 .. at /\ s + 3 \in 0 .. at
      /\ \A i \in 1 .. n : s + 3 + i \in 0 .. at
  BY ONLY <1>4, <1>5, h.start[k] <= at, at \in Nat, s \in Nat, d \in Nat
<1>7. /\ g.sent[s + 1] * Base + g.sent[s + 2] = n /\ g.sent[s + 3] = d
      /\ \A i \in 1 .. n : g.sent[s + 3 + i] = Content[o + i]
  BY ONLY <1>4, <1>6, \A p \in 0 .. at : g.sent[p] = h.sent[p]
<1> QED
  BY <1>2, <1>3, <1>4, <1>7, Zenon DEF FrameIn

LEMMA ConcatAt ==
  ASSUME NEW s \in Seq(Byte), NEW t \in Seq(Byte), NEW a \in Nat, NEW b \in Nat,
         a = Len(s), b = Len(t)
  PROVE  (\A i \in 1 .. a : (s \o t)[i] = s[i]) /\ (\A i \in 1 .. b : (s \o t)[a + i] = t[i])
<1>1. ASSUME NEW i \in 1 .. a PROVE (s \o t)[i] = s[i]
  OBVIOUS
<1>2. ASSUME NEW i \in 1 .. b PROVE (s \o t)[a + i] = t[i]
  OBVIOUS
<1> QED
  BY <1>1, <1>2

\* The bytes of a frame.
IsFrame(b, p, n, pad) ==
  /\ b \in Seq(Byte) /\ Len(b) = 3 + n + pad
  /\ b[1] * Base + b[2] = n /\ b[3] = pad
  /\ \A i \in 1 .. n : b[3 + i] = p[i]

LEMMA FrameBytes ==
  ASSUME NEW p \in Seq(Byte), NEW n \in Nat, n = Len(p), n < Buffer, NEW pad \in Byte
  PROVE  IsFrame(Frame(p, pad), p, n, pad)
<1>b. PICK b : b = Frame(p, pad)
  OBVIOUS
<1>1. Base \in Nat /\ Base >= 3 /\ pad \in Nat
  BY PaddingAssumption DEF Byte
<1> DEFINE z  == [i \in 1 .. pad |-> 0]
           hd == Header(n, pad)
           hp == hd \o p
<1>2. z \in Seq(Byte)
  BY <1>1, PaddingAssumption DEF Byte
<1>3. /\ hd \in Seq(Byte) /\ Len(hd) = 3
      /\ hd[1] = n \div Base /\ hd[2] = n % Base /\ hd[3] = pad
  <2>1. hd \in Seq(Byte) /\ Len(hd) = 3
    BY HeaderType
  <2> QED
    BY <2>1 DEF Header
<1>4. b = hp \o z
  BY <1>b DEF Frame
<1>5. b \in Seq(Byte) /\ Len(b) = 3 + n + pad
  BY <1>b, FrameType
<1> HIDE DEF z, hd
<1>6. /\ hp \in Seq(Byte) /\ Len(hp) = 3 + n
      /\ hp[1] = hd[1] /\ hp[2] = hd[2] /\ hp[3] = hd[3]
      /\ \A i \in 1 .. n : hp[3 + i] = p[i]
  <2>1. hp \in Seq(Byte) /\ Len(hp) = 3 + n
    BY <1>3, ConcatType
  <2>2. (\A i \in 1 .. 3 : hp[i] = hd[i]) /\ (\A i \in 1 .. n : hp[3 + i] = p[i])
    <3>1. PICK x \in Nat : x = 3
      OBVIOUS
    <3>2. hd \in Seq(Byte) /\ x = Len(hd)
      BY ONLY <1>3, <3>1
    <3>3. (\A i \in 1 .. x : hp[i] = hd[i]) /\ (\A i \in 1 .. n : hp[x + i] = p[i])
      BY ONLY <3>2, x \in Nat, p \in Seq(Byte), n = Len(p), n \in Nat, ConcatAt
    <3> QED
      BY ONLY <3>1, <3>3, Zenon
  <2>3. 1 \in 1 .. 3 /\ 2 \in 1 .. 3 /\ 3 \in 1 .. 3
    OBVIOUS
  <2> QED
    BY ONLY <2>1, <2>2, <2>3
<1> HIDE DEF hp
<1>7. \A i \in 1 .. 3 + n : b[i] = hp[i]
  BY <1>2, <1>4, <1>6
<1>8. 1 \in 1 .. 3 + n /\ 2 \in 1 .. 3 + n /\ 3 \in 1 .. 3 + n
      /\ \A i \in 1 .. n : 3 + i \in 1 .. 3 + n
  OBVIOUS
<1>9. (n \div Base) * Base + (n % Base) = n
  BY ONLY <1>1, n \in Nat
<1>10. b[1] = n \div Base /\ b[2] = n % Base /\ b[3] = pad
  BY ONLY <1>3, <1>6, <1>7, <1>8
<1>11. \A i \in 1 .. n : b[3 + i] = p[i]
  BY ONLY <1>6, <1>7, <1>8
<1>12. b[1] * Base + b[2] = n
  BY ONLY <1>9, <1>10, Zenon
<1> QED
  BY ONLY <1>b, <1>5, <1>10, <1>11, <1>12, Zenon DEF IsFrame

LEMMA TailNat == \A a \in Nat, n \in Nat, m \in Nat : m <= n => a + (n - m) \in Nat
  OBVIOUS

LEMMA SliceOfContent ==
  ASSUME NEW a \in Nat, NEW n \in Nat, a + n <= Len(Content)
  PROVE  LET b == SubSeq(Content, a + 1, a + n)
         IN  b \in Seq(Byte) /\ Len(b) = n /\ \A i \in 1 .. n : b[i] = Content[a + i]
<1>1. Content \in Seq(Byte) /\ Len(Content) \in Nat
  BY PaddingAssumption
<1> DEFINE b == SubSeq(Content, a + 1, a + n)
<1>2. b \in Seq(Byte)
  BY <1>1, SliceType
<1>3. Len(b) = n
  BY <1>1
<1>4. ASSUME NEW i \in 1 .. n PROVE b[i] = Content[a + i]
  BY <1>1
<1> QED
  BY <1>2, <1>3, <1>4

\* The history of a write of the frame b, of n bytes of content.
Framed(h, n, pad, b) ==
  [sent  |-> Extend(h.sent, Total(h), b), read |-> h.read,
   start |-> [h.start EXCEPT ![padded + 1] = Total(h) + (3 + n + pad)],
   off   |-> [h.off EXCEPT ![padded + 1] = taken + n],
   pads  |-> [h.pads EXCEPT ![padded + 1] = pad]]

LEMMA FrameDelivery ==
  ASSUME Inv, OutIsContent, NEW h \in Histories, Located(h), ~closed, padded < NumFirst,
         NEW n \in Nat, n < Buffer, NEW pad \in Byte, n = 0 => pad = 0,
         NEW p \in Seq(Byte), n = Len(p), \A i \in 1 .. n : p[i] = Content[taken + i],
         wire' = wire \o Frame(p, pad), taken' = taken + n, padded' = padded + 1,
         UNCHANGED <<remover, closed, cut>>
  PROVE  Delivered
<1>t. /\ TypeOK /\ padded \in Nat /\ taken \in Nat /\ NumFirst \in Nat /\ pad \in Nat
      /\ Base \in Nat /\ removed \in Nat
  BY PaddingAssumption DEF Inv, TypeOK, Byte
<1>h. /\ Layout(h) /\ WireIn(h) /\ Aligned(h) /\ h.read \in Nat /\ h.sent \in [Nat -> Byte]
      /\ h.start \in [Nat -> Nat] /\ h.off \in [Nat -> Nat] /\ h.pads \in [Nat -> Byte]
  BY DEF Located, Histories
<1>1. PICK at \in Nat : at = h.start[padded]
  BY <1>t, <1>h
<1>2. h.off[padded] = taken
  BY <1>h DEF Layout
<1>3. at = Total(h)
  BY ONLY <1>t, <1>1, <1>2 DEF Total
<1>4. PICK b : b = Frame(p, pad)
  OBVIOUS
<1>5. PICK c \in Nat : c = 3 + n + pad
  BY <1>t
<1>6. /\ b \in Seq(Byte) /\ c = Len(b) /\ wire' = wire \o b
      /\ b[1] * Base + b[2] = n /\ b[3] = pad
      /\ \A i \in 1 .. n : b[3 + i] = p[i]
  <2>1. /\ b \in Seq(Byte) /\ Len(b) = 3 + n + pad
        /\ b[1] * Base + b[2] = n /\ b[3] = pad
        /\ \A i \in 1 .. n : b[3 + i] = p[i]
    <3>1. IsFrame(Frame(p, pad), p, n, pad)
      BY ONLY p \in Seq(Byte), n \in Nat, n = Len(p), n < Buffer, pad \in Byte, FrameBytes
    <3> QED
      BY ONLY <1>4, <3>1, Zenon DEF IsFrame
  <2>2. wire' = wire \o b
    BY ONLY <1>4, wire' = wire \o Frame(p, pad), Zenon
  <2> QED
    BY ONLY <1>5, <2>1, <2>2, Zenon
<1>7. PICK g : g = Framed(h, n, pad, b)
  OBVIOUS
<1>8. /\ g.sent = Extend(h.sent, at, b) /\ g.read = h.read
      /\ g.start = [h.start EXCEPT ![padded + 1] = at + c]
      /\ g.off = [h.off EXCEPT ![padded + 1] = taken + n]
      /\ g.pads = [h.pads EXCEPT ![padded + 1] = pad]
      /\ g = [sent |-> g.sent, read |-> g.read, start |-> g.start, off |-> g.off, pads |-> g.pads]
  BY ONLY <1>3, <1>5, <1>7 DEF Framed
<1>9. /\ g.sent \in [Nat -> Byte] /\ g.start \in [Nat -> Nat] /\ g.off \in [Nat -> Nat]
      /\ g.pads \in [Nat -> Byte]
  <2>1. Extend(h.sent, at, b) \in [Nat -> Byte]
    BY <1>6, <1>h, ExtendFacts
  <2>2. padded + 1 \in Nat /\ at + c \in Nat /\ taken + n \in Nat
    BY <1>t
  <2>3. PICK d \in Nat, x \in Nat, y \in Nat : d = padded + 1 /\ x = at + c /\ y = taken + n
    BY ONLY <2>2
  <2>4. /\ g.start = [h.start EXCEPT ![d] = x] /\ g.off = [h.off EXCEPT ![d] = y]
        /\ g.pads = [h.pads EXCEPT ![d] = pad]
    BY ONLY <1>8, <2>3, Zenon
  <2>f. PICK u \in [Nat -> Nat], v \in [Nat -> Nat], w \in [Nat -> Byte] :
          u = h.start /\ v = h.off /\ w = h.pads
    BY ONLY <1>h, Zenon
  <2>g. /\ [u EXCEPT ![d] = x] \in [Nat -> Nat]
        /\ [v EXCEPT ![d] = y] \in [Nat -> Nat]
        /\ [w EXCEPT ![d] = pad] \in [Nat -> Byte]
    BY ONLY u \in [Nat -> Nat], v \in [Nat -> Nat], w \in [Nat -> Byte], x \in Nat, y \in Nat, pad \in Byte
  <2>5. g.start \in [Nat -> Nat] /\ g.off \in [Nat -> Nat] /\ g.pads \in [Nat -> Byte]
    BY ONLY <2>4, <2>f, <2>g, Zenon
  <2>8. g.sent \in [Nat -> Byte]
    BY ONLY <1>8, <2>1, Zenon
  <2> QED
    BY ONLY <2>5, <2>8
<1>10. g \in Histories
  BY ONLY <1>8, <1>9, <1>h DEF Histories
<1>11. /\ \A k \in 0 .. padded : g.start[k] = h.start[k] /\ g.off[k] = h.off[k] /\ g.pads[k] = h.pads[k]
       /\ g.start[padded + 1] = at + c /\ g.off[padded + 1] = taken + n /\ g.pads[padded + 1] = pad
  <2>1. padded + 1 \in Nat /\ \A k \in 0 .. padded : k \in Nat /\ k # padded + 1
    BY ONLY <1>t
  <2> QED
    BY ONLY <1>h, <1>8, <2>1
<1>12. /\ \A q \in 0 .. at : g.sent[q] = h.sent[q]
       /\ \A j \in 1 .. c : g.sent[at + j] = b[j]
  <2>1. PICK f \in [Nat -> Byte] : f = h.sent
    BY ONLY <1>h, Zenon
  <2>2. g.sent = Extend(f, at, b)
    BY ONLY <2>1, <1>8, Zenon
  <2>3. /\ \A q \in 0 .. at : Extend(f, at, b)[q] = f[q]
        /\ \A j \in 1 .. Len(b) : Extend(f, at, b)[at + j] = b[j]
    <3>1. PICK e \in Seq(Byte) : e = b
      BY ONLY <1>6, Zenon
    <3>2. /\ \A q \in 0 .. at : Extend(f, at, e)[q] = f[q]
          /\ \A j \in 1 .. Len(e) : Extend(f, at, e)[at + j] = e[j]
      BY ONLY f \in [Nat -> Byte], at \in Nat, e \in Seq(Byte), ExtendFacts
    <3> QED
      BY ONLY <3>1, <3>2, Zenon
  <2> QED
    BY ONLY <2>1, <2>2, <2>3, <1>6, Zenon
<1>13. ASSUME NEW k \in 1 .. padded PROVE FrameIn(g, k)
  <2>1. k \in Nat \ {0} /\ k \in 0 .. padded /\ k - 1 \in 0 .. padded
    BY <1>t
  <2>2. FrameIn(h, k) /\ h.start[k] <= at
    BY <1>h, <1>1, <2>1 DEF Layout
  <2> QED
    BY <1>11, <1>12, <2>1, <2>2, FrameStays
<1>14. FrameIn(g, padded + 1)
  <2>1. (padded + 1) - 1 = padded /\ padded \in 0 .. padded
    BY ONLY <1>t
  <2>2. g.start[padded] = at /\ g.off[padded] = taken
    BY ONLY <1>1, <1>2, <1>11, <2>1, Zenon
  <2>3. (taken + n) - taken = n /\ n \in 0 .. Buffer - 1 /\ at + c = at + 3 + n + pad
    BY <1>t, <1>5 DEF Buffer
  <2>4. /\ g.sent[at + 1] * Base + g.sent[at + 2] = n /\ g.sent[at + 3] = pad
        /\ \A i \in 1 .. n : g.sent[at + 3 + i] = Content[taken + i]
    <3>1. 1 \in 1 .. c /\ 2 \in 1 .. c /\ 3 \in 1 .. c
      BY ONLY <1>5, <1>t, n \in Nat
    <3>2. g.sent[at + 1] = b[1] /\ g.sent[at + 2] = b[2] /\ g.sent[at + 3] = b[3]
      BY ONLY <1>12, <3>1
    <3>3. ASSUME NEW i \in 1 .. n PROVE g.sent[at + 3 + i] = Content[taken + i]
      <4>1. 3 + i \in 1 .. c /\ at + 3 + i = at + (3 + i)
        BY ONLY <1>5, <1>t, n \in Nat, at \in Nat, i \in 1 .. n
      <4>2. g.sent[at + (3 + i)] = b[3 + i]
        BY ONLY <1>12, <4>1
      <4> QED
        BY ONLY <1>6, <4>1, <4>2, i \in 1 .. n, \A j \in 1 .. n : p[j] = Content[taken + j]
    <3>4. g.sent[at + 1] * Base + g.sent[at + 2] = n
      BY ONLY <1>6, <3>2, Zenon
    <3> QED
      BY <1>6, <3>2, <3>3, <3>4
  <2> QED
    BY ONLY <1>11, <2>1, <2>2, <2>3, <2>4, n = 0 => pad = 0 DEF FrameIn
<1>15. Layout(g)'
  <2>1. PICK d : d = padded + 1
    OBVIOUS
  <2>2. d \in Nat /\ padded' = d /\ 0 \in 0 .. padded
    BY <1>t, <2>1
  <2>3. g.start[0] = 0 /\ g.off[0] = 0
    BY <1>h, <1>11, <2>2 DEF Layout
  <2>4. \A k \in 1 .. d : FrameIn(g, k)
    <3>1. \A k \in 1 .. d : k \in 1 .. padded \/ k = padded + 1
      BY ONLY <1>t, <2>1
    <3> QED
      BY ONLY <1>13, <1>14, <3>1, Zenon
  <2>5. \A k \in 0 .. d : g.start[k] <= g.start[d] /\ g.off[k] <= g.off[d]
    <3>1. \A k \in 0 .. d : k \in 0 .. padded \/ k = d
      BY ONLY <1>t, <2>1
    <3>2. ASSUME NEW k \in 0 .. padded PROVE g.start[k] <= at + c /\ g.off[k] <= taken + n
      <4>1. h.start[k] <= at /\ h.off[k] <= taken
        <5>1. \A j \in 0 .. padded : h.start[j] <= h.start[padded] /\ h.off[j] <= h.off[padded]
          BY ONLY <1>h DEF Layout
        <5> QED
          BY ONLY <1>1, <1>2, <5>1, k \in 0 .. padded, Zenon
      <4>2. h.start[k] \in Nat /\ h.off[k] \in Nat
        <5>1. k \in Nat
          BY ONLY <1>t, k \in 0 .. padded
        <5>2. h.start \in [Nat -> Nat] /\ h.off \in [Nat -> Nat]
          BY ONLY <1>h
        <5>3. PICK u \in [Nat -> Nat], v \in [Nat -> Nat] : u = h.start /\ v = h.off
          BY ONLY <5>2, Zenon
        <5>4. u[k] \in Nat /\ v[k] \in Nat
          BY ONLY <5>1, u \in [Nat -> Nat], v \in [Nat -> Nat]
        <5> QED
          BY ONLY <5>3, <5>4, Zenon
      <4>3. h.start[k] <= at + c /\ h.off[k] <= taken + n
        <5>1. PICK u \in Nat, v \in Nat, w \in Nat : u = h.start[k] /\ v = h.off[k] /\ w = taken
          BY ONLY <4>2, <1>t
        <5>2. u <= at + c /\ v <= w + n
          <6>1. u <= at /\ v <= w
            BY ONLY <4>1, <5>1, Zenon
          <6> QED
            BY ONLY <6>1, u \in Nat, v \in Nat, w \in Nat, at \in Nat, c \in Nat, n \in Nat
        <5> QED
          BY ONLY <5>1, <5>2, Zenon
      <4> QED
        BY ONLY <1>11, <4>3, k \in 0 .. padded, Zenon
    <3>3. g.start[d] = at + c /\ g.off[d] = taken + n /\ at + c \in Nat /\ taken + n \in Nat
      BY <1>11, <1>t, <2>1
    <3> QED
      BY ONLY <3>1, <3>2, <3>3
  <2>6. g.off[d] = taken' /\ taken' \in Nat
    BY <1>11, <1>t, <2>1
  <2> QED
    BY <2>2, <2>3, <2>4, <2>5, <2>6 DEF Layout, FrameIn
<1>16. Total(g)' = at + c
  <2>1. padded' = padded + 1 /\ taken' = taken + n /\ taken + n \in Nat
    BY <1>t
  <2> QED
    BY ONLY <1>11, <2>1, at \in Nat, c \in Nat DEF Total
<1>17. WireIn(g)'
  <2>1. TypeOK /\ WireIn(h) /\ ~closed /\ UNCHANGED <<closed, cut>>
    BY <1>t, <1>h
  <2>2. b \in Seq(Byte) /\ wire' = wire \o b /\ c = Len(b)
    BY ONLY <1>6, Zenon
  <2>3. g.sent = Extend(h.sent, at, b) /\ g.read = h.read
    BY ONLY <1>8, Zenon
  <2> QED
    BY ONLY <2>1, <2>2, <2>3, <1>3, <1>16, h \in Histories, at \in Nat, c \in Nat, SendWire, Zenon
<1>18. UNCHANGED <<pc, removed, need, junk, held, out>>
  BY DEF remover
<1>19. Aligned(g)'
  <2>1. g.read = h.read /\ padded' = padded + 1 /\ padded # NumFirst
    BY <1>8, <1>t
  <2>2. removed <= padded => removed <= padded'
    BY <1>t, <2>1
  <2>3. removed \in 1 .. padded => removed \in 1 .. padded' /\ removed - 1 \in 0 .. padded
    BY <1>t, <2>1
  <2>4. removed <= padded => removed \in 0 .. padded
    BY <1>t
  <2>5. ASSUME pc = "header" PROVE Aligned(g)'
    <3>1. removed <= padded /\ h.read = h.start[removed] /\ Len(out) = h.off[removed]
      BY ONLY <1>h, <2>5 DEF Aligned
    <3> QED
      BY ONLY <1>11, <1>18, <2>1, <2>2, <2>4, <2>5, <3>1 DEF Aligned
  <2>6. ASSUME pc \in {"payload", "junk"} PROVE Aligned(g)'
    <3>1. /\ removed \in 1 .. padded /\ removed \in 0 .. padded
          /\ need = h.off[removed] - h.off[removed - 1] /\ junk = h.pads[removed]
          /\ pc = "payload" => h.read = h.start[removed - 1] + 3 /\ Len(out) = h.off[removed - 1]
          /\ pc = "junk" => /\ h.read = h.start[removed - 1] + 3 + need
                            /\ Len(out) + Len(held) = h.off[removed]
      BY <1>h, <1>t, <2>6 DEF Aligned
    <3>2. /\ need = g.off[removed] - g.off[removed - 1] /\ junk = g.pads[removed]
          /\ pc = "payload" => g.read = g.start[removed - 1] + 3 /\ Len(out) = g.off[removed - 1]
          /\ pc = "junk" => /\ g.read = g.start[removed - 1] + 3 + need
                            /\ Len(out) + Len(held) = g.off[removed]
      BY ONLY <1>11, <2>1, <2>3, <3>1
    <3> QED
      BY ONLY <1>18, <2>3, <2>6, <3>1, <3>2 DEF Aligned
  <2>7. pc # "raw"
    BY ONLY <1>h, <2>1 DEF Aligned
  <2>8. ASSUME pc = "done" PROVE Aligned(g)'
    BY ONLY <1>18, <2>8 DEF Aligned
  <2> QED
    BY <1>t, <2>5, <2>6, <2>7, <2>8 DEF TypeOK
<1>20. OutIsContent'
  BY <1>18 DEF OutIsContent
<1> QED
  BY <1>10, <1>15, <1>17, <1>19, <1>20 DEF Delivered, Located

\* What is copied behind the last frame is content in its place.
LEMMA CopyDelivery ==
  ASSUME Inv, OutIsContent, NEW h \in Histories, Located(h), NEW n \in Nat, CopyRaw(n)
  PROVE  Delivered
<1>t. /\ TypeOK /\ padded \in Nat /\ taken \in Nat /\ NumFirst \in Nat /\ Content \in Seq(Byte)
      /\ Len(Content) \in Nat
  BY PaddingAssumption DEF Inv, TypeOK
<1>h. /\ Layout(h) /\ WireIn(h) /\ Aligned(h) /\ h.read \in Nat /\ h.sent \in [Nat -> Byte]
      /\ h.start \in [Nat -> Nat] /\ h.off \in [Nat -> Nat] /\ h.pads \in [Nat -> Byte]
  BY DEF Located, Histories
<1>1. /\ ~closed /\ padded = NumFirst /\ taken + n <= Len(Content) /\ taken' = taken + n
      /\ UNCHANGED <<padded, closed, cut, pc, removed, need, junk, held, out>>
  BY DEF CopyRaw, remover
<1>2. PICK b : b = SubSeq(Content, taken + 1, taken + n)
  OBVIOUS
<1>3. b \in Seq(Byte) /\ n = Len(b) /\ wire' = wire \o b
  <2>1. b \in Seq(Byte) /\ n = Len(b)
    BY ONLY <1>t, <1>1, <1>2, n \in Nat, TakeType, SliceOfContent
  <2> QED
    BY <1>2, <2>1 DEF CopyRaw, Write
<1>4. \A i \in 1 .. n : b[i] = Content[taken + i]
  BY ONLY <1>t, <1>1, <1>2, n \in Nat, SliceOfContent
<1>5. PICK at \in Nat, s \in Nat, o \in Nat :
         at = Total(h) /\ s = h.start[padded] /\ o = h.off[padded] /\ o <= taken /\ at = s + (taken - o)
  <2>1. h.start[padded] \in Nat /\ h.off[padded] \in Nat /\ h.off[padded] <= taken
    BY <1>t, <1>h DEF Layout
  <2>2. h.start[padded] + (taken - h.off[padded]) \in Nat
    BY ONLY <1>t, <2>1, TailNat, Zenon
  <2> QED
    BY ONLY <2>1, <2>2 DEF Total
<1>a. o <= taken /\ at = s + (taken - o) /\ taken \in Nat
  BY ONLY <1>t, <1>5, Zenon
<1>6. PICK g : g = [sent |-> Extend(h.sent, at, b), read |-> h.read, start |-> h.start,
                    off |-> h.off, pads |-> h.pads]
  OBVIOUS
<1>7. /\ g.sent = Extend(h.sent, at, b) /\ g.read = h.read /\ g.start = h.start
      /\ g.off = h.off /\ g.pads = h.pads
  BY ONLY <1>6
<1>8. g \in Histories
  <2>1. Extend(h.sent, at, b) \in [Nat -> Byte]
    BY <1>3, <1>h, ExtendFacts
  <2> QED
    BY ONLY <1>6, <1>h, <2>1 DEF Histories
<1>9. /\ \A q \in 0 .. at : g.sent[q] = h.sent[q]
      /\ \A j \in 1 .. n : g.sent[at + j] = b[j]
  <2>1. PICK f \in [Nat -> Byte] : f = h.sent
    BY ONLY <1>h, Zenon
  <2>2. g.sent = Extend(f, at, b)
    BY ONLY <2>1, <1>7, Zenon
  <2>3. /\ \A q \in 0 .. at : Extend(f, at, b)[q] = f[q]
        /\ \A j \in 1 .. Len(b) : Extend(f, at, b)[at + j] = b[j]
    BY ONLY f \in [Nat -> Byte], at \in Nat, <1>3, ExtendFacts, Zenon
  <2> QED
    BY ONLY <2>1, <2>2, <2>3, <1>3, Zenon
<1>10. Layout(g)'
  <2>1. ASSUME NEW k \in 1 .. padded PROVE FrameIn(g, k)
    <3>1. k \in Nat \ {0} /\ k \in 0 .. padded
      BY ONLY <1>t, k \in 1 .. padded
    <3>2. \A j \in 0 .. padded : h.start[j] <= h.start[padded]
      BY ONLY <1>h DEF Layout
    <3>3. h.start[k] <= s
      BY ONLY <1>5, <3>1, <3>2
    <3>4. k \in Nat
      BY ONLY <3>1
    <3>5. h.start[k] \in Nat
      BY ONLY <1>h, <3>4
    <3>6. h.start[k] <= at
      BY ONLY <1>a, <3>3, <3>5, s \in Nat, o \in Nat, at \in Nat
    <3>7. FrameIn(h, k)
      BY ONLY <1>h, k \in 1 .. padded DEF Layout
    <3> QED
      BY <1>7, <1>9, <3>1, <3>6, <3>7, FrameStays
  <2>2. ASSUME NEW i \in 1 .. (taken + n) - o PROVE g.sent[s + i] = Content[o + i]
    <3>1. CASE i <= taken - o
      <4>1. i \in 1 .. taken - o /\ s + i \in 0 .. at
        BY ONLY <1>a, <3>1, i \in 1 .. (taken + n) - o, n \in Nat, s \in Nat, o \in Nat
      <4>2. \A j \in 1 .. taken - h.off[padded] :
              h.sent[h.start[padded] + j] = Content[h.off[padded] + j]
        BY ONLY <1>h DEF Layout
      <4>3. h.sent[s + i] = Content[o + i]
        BY ONLY <1>5, <4>1, <4>2
      <4> QED
        BY ONLY <1>9, <4>1, <4>3
    <3>2. CASE ~(i <= taken - o)
      <4>1. PICK j \in 1 .. n : s + i = at + j /\ o + i = taken + j
        <5>1. i - (taken - o) \in 1 .. n /\ s + i = at + (i - (taken - o))
              /\ o + i = taken + (i - (taken - o))
          BY ONLY <1>a, <3>2, i \in 1 .. (taken + n) - o, n \in Nat, s \in Nat, o \in Nat
        <5> QED
          BY ONLY <5>1
      <4> QED
        BY ONLY <1>4, <1>9, <4>1
    <3> QED
      BY <3>1, <3>2
  <2>3. o <= taken + n
    BY ONLY <1>t, <1>5, n \in Nat, o \in Nat
  <2>4. padded' = padded /\ taken' = taken + n /\ g.start[padded] = s /\ g.off[padded] = o
    BY ONLY <1>1, <1>5, <1>7
  <2>5. /\ g.start[0] = 0 /\ g.off[0] = 0
        /\ \A k \in 0 .. padded : g.start[k] <= g.start[padded] /\ g.off[k] <= g.off[padded]
    BY ONLY <1>h, <1>7 DEF Layout
  <2>6. ~(padded < NumFirst)
    BY ONLY <1>t, <1>1
  <2> QED
    BY ONLY <2>1, <2>2, <2>3, <2>4, <2>5, <2>6 DEF Layout, FrameIn
<1>11. Total(g)' = at + n
  <2>1. padded' = padded /\ taken' = taken + n /\ g.start[padded] = s /\ g.off[padded] = o
    BY ONLY <1>1, <1>5, <1>7
  <2>2. s + ((taken + n) - o) = at + n
    BY ONLY <1>a, n \in Nat, s \in Nat, o \in Nat, at \in Nat
  <2> QED
    BY ONLY <2>1, <2>2 DEF Total
<1>12. WireIn(g)'
  <2>1. TypeOK /\ WireIn(h) /\ ~closed /\ UNCHANGED <<closed, cut>>
    BY <1>t, <1>h, <1>1
  <2> QED
    BY ONLY <2>1, <1>3, <1>5, <1>7, <1>11, h \in Histories, at \in Nat, n \in Nat, SendWire, Zenon
<1>13. Aligned(g)'
  BY ONLY <1>1, <1>7, <1>h DEF Aligned
<1>14. OutIsContent'
  BY <1>1 DEF OutIsContent
<1> QED
  BY <1>8, <1>10, <1>12, <1>13, <1>14 DEF Delivered, Located

\* The end of the stream, and a cut, leave of the wire what it began with.
LEMMA EndDelivery ==
  ASSUME Inv, OutIsContent, NEW h \in Histories, Located(h), NEW k \in 0 .. Len(wire),
         wire' = SubSeq(wire, 1, k), closed', cut' \in BOOLEAN, ~cut' => ~cut /\ k = Len(wire),
         UNCHANGED <<adder, remover>>
  PROVE  Delivered
<1>a. TypeOK /\ wire \in Seq(Byte) /\ Len(wire) \in Nat /\ taken \in Nat /\ padded \in Nat
  BY PaddingAssumption DEF Inv, TypeOK
<1>b. h.read \in Nat /\ h.off \in [Nat -> Nat] /\ h.start \in [Nat -> Nat]
  BY DEF Histories
<1>c. Layout(h) /\ WireIn(h) /\ Aligned(h)
  BY DEF Located
<1>t. /\ TypeOK /\ wire \in Seq(Byte) /\ h.off \in [Nat -> Nat] /\ h.start \in [Nat -> Nat]
      /\ taken \in Nat /\ padded \in Nat /\ Layout(h) /\ WireIn(h) /\ Aligned(h)
  BY ONLY <1>a, <1>b, <1>c
<1>1. PICK w \in Nat, r \in Nat : w = Len(wire) /\ r = h.read
  BY ONLY <1>a, <1>b
<1>2. k \in Nat /\ k <= w
  BY ONLY <1>1, k \in 0 .. Len(wire)
<1>3. Len(wire') = k /\ \A i \in 1 .. k : wire'[i] = wire[i]
  <2>1. wire' = SubSeq(wire, 1, k) /\ k <= Len(wire)
    BY <1>1, <1>2
  <2> QED
    BY ONLY <1>t, <1>2, <2>1
<1>4. PICK g : g = h
  OBVIOUS
<1>5. UNCHANGED <<taken, padded, pc, removed, need, junk, held, out>>
  BY DEF adder, remover
<1>6. Layout(g)' /\ Aligned(g)' /\ Total(g)' = Total(h)
  <2>1. Layout(g)' <=> Layout(g)
    BY ONLY <1>5 DEF Layout, FrameIn
  <2>2. Aligned(g)' <=> Aligned(g)
    BY ONLY <1>5 DEF Aligned
  <2>3. Total(g)' = Total(g)
    BY ONLY <1>5 DEF Total
  <2> QED
    BY <1>t, <1>4, <2>1, <2>2, <2>3
<1>7. WireIn(g)'
  <2>1. PICK y \in Nat : y = Total(h)
    <3>1. h.start[padded] \in Nat /\ h.off[padded] \in Nat /\ h.off[padded] <= taken
      <4>1. h.off[padded] <= taken
        BY ONLY <1>c DEF Layout
      <4> QED
        BY ONLY <1>a, <1>b, <4>1
    <3>2. h.start[padded] + (taken - h.off[padded]) \in Nat
      BY ONLY <1>a, <3>1, TailNat, Zenon
    <3> QED
      BY ONLY <3>2 DEF Total
  <2>2. /\ r + w <= y /\ (~cut => r + w = y)
        /\ \A i \in 1 .. w : wire[i] = h.sent[r + i]
    BY ONLY <1>t, <1>1, <2>1, Zenon DEF WireIn
  <2>3. r + k <= y /\ (~cut' => r + k = y)
    <3>1. ~cut' => ~cut /\ k = w
      BY ONLY <1>1, ~cut' => ~cut /\ k = Len(wire), Zenon
    <3>2. r + k <= y
      BY ONLY <1>2, <2>2, r \in Nat, w \in Nat, y \in Nat
    <3> QED
      BY ONLY <2>2, <3>1, <3>2, Zenon
  <2>4. ASSUME NEW i \in 1 .. k PROVE wire'[i] = g.sent[r + i]
    <3>1. i \in 1 .. w
      BY ONLY <1>2, w \in Nat, i \in 1 .. k
    <3> QED
      BY ONLY <1>3, <1>4, <2>2, <3>1, i \in 1 .. k
  <2>5. g.read + Len(wire') = r + k /\ Total(g)' = y
    BY ONLY <1>1, <1>3, <1>4, <1>6, <2>1, Zenon
  <2>6. /\ g.read + Len(wire') <= Total(g)' /\ (~cut' => g.read + Len(wire') = Total(g)')
    BY ONLY <2>3, <2>5, Zenon
  <2>7. \A i \in 1 .. Len(wire') : wire'[i] = g.sent[g.read + i]
    BY ONLY <1>1, <1>3, <1>4, <2>4, Zenon
  <2> QED
    BY <2>6, <2>7 DEF WireIn
<1>8. OutIsContent'
  BY ONLY <1>5, OutIsContent DEF OutIsContent
<1>9. g \in Histories
  BY <1>4
<1> QED
  BY ONLY <1>6, <1>7, <1>8, <1>9 DEF Delivered, Located

LEMMA NextDelivery == Inv /\ DeliveryInv /\ [Next]_vars => DeliveryInv'
<1> SUFFICES ASSUME Inv, DeliveryInv, [Next]_vars, ~empties' PROVE Delivered
  BY DEF DeliveryInv, Delivered
<1>t. /\ TypeOK /\ wire \in Seq(Byte) /\ Len(wire) \in Nat /\ taken \in Nat /\ padded \in Nat
      /\ empties \in BOOLEAN /\ cut \in BOOLEAN
      /\ Base \in Nat /\ Buffer \in Nat /\ Len(Content) \in Nat /\ \A pad \in Byte : pad \in Nat
  BY PaddingAssumption, BaseFacts DEF Inv, TypeOK, Byte
<1>e. ~empties
  BY <1>t DEF Next, Sender, Receiver, AddFrame, CopyRaw, Close, AddEmptyFrame, Cut,
              ReadHeader, ReadPayload, ReadJunk, ReadRaw, vars
<1>i. OutIsContent /\ (Dead \/ \E h \in Histories : Located(h))
  BY <1>e DEF DeliveryInv
<1>1. ASSUME NEW h \in Histories, Located(h), Next PROVE Delivered
  <2>1. CASE ReadHeader
    BY <1>i, <1>1, <2>1, HeaderDelivery
  <2>2. CASE ReadPayload
    BY <1>i, <1>1, <2>2, PayloadDelivery
  <2>3. CASE ReadJunk
    BY <1>i, <1>1, <2>3, JunkDelivery
  <2>4. CASE ReadRaw
    BY <1>i, <1>1, <2>4, RawDelivery
  <2>5. ASSUME NEW n \in 1 .. Buffer, CopyRaw(n) PROVE Delivered
    <3>1. n \in Nat
      BY ONLY <1>t, n \in 1 .. Buffer
    <3> QED
      BY <1>i, <1>1, <2>5, <3>1, CopyDelivery
  <2>6. ASSUME NEW n \in 1 .. Buffer, NEW pad \in Byte, AddFrame(pad, n) PROVE Delivered
    <3>1. n \in Nat /\ n # 0 /\ pad \in Nat
      BY ONLY <1>t, n \in 1 .. Buffer, pad \in Byte
    <3>2. n <= Room(pad) /\ taken + n <= Len(Content)
      BY <2>6 DEF AddFrame
    <3>3. n < Buffer
      BY ONLY <1>t, <3>1, <3>2 DEF Room
    <3>4. PICK p : p = SubSeq(Content, taken + 1, taken + n)
      OBVIOUS
    <3>5. p \in Seq(Byte) /\ n = Len(p) /\ \A i \in 1 .. n : p[i] = Content[taken + i]
      BY <1>t, <3>1, <3>2, <3>4, SliceOfContent
    <3>6. /\ ~closed /\ padded < NumFirst /\ wire' = wire \o Frame(p, pad) /\ taken' = taken + n
          /\ padded' = padded + 1 /\ UNCHANGED <<remover, closed, cut>>
      BY <2>6, <3>4 DEF AddFrame, Write
    <3> QED
      BY <1>i, <1>1, <3>1, <3>3, <3>5, <3>6, FrameDelivery
  <2>7. ASSUME NEW pad \in Byte, AddEmptyFrame(pad) PROVE Delivered
    <3>a. pad \in Nat
      BY ONLY <1>t, pad \in Byte
    <3>b. ~(pad > 0)
      <4>1. empties' = (empties \/ pad > 0)
        BY ONLY <2>7 DEF AddEmptyFrame
      <4> QED
        BY ONLY <4>1, ~empties', Zenon
    <3>1. pad = 0 /\ pad \in Nat
      BY ONLY <3>a, <3>b
    <3>2. PICK p : p = <<>>
      OBVIOUS
    <3>3. p \in Seq(Byte) /\ 0 = Len(p) /\ \A i \in 1 .. 0 : p[i] = Content[taken + i]
      BY <3>2
    <3>4. 0 < Buffer
      BY PaddingAssumption DEF Buffer
    <3>5. /\ ~closed /\ padded < NumFirst /\ wire' = wire \o Frame(p, pad) /\ taken' = taken + 0
          /\ padded' = padded + 1 /\ UNCHANGED <<remover, closed, cut>>
      BY <1>t, <2>7, <3>2 DEF AddEmptyFrame, Write
    <3> QED
      BY <1>i, <1>1, <3>1, <3>3, <3>4, <3>5, FrameDelivery
  <2>8. CASE Close
    <3>1. PICK k \in 0 .. Len(wire) : k = Len(wire)
      BY <1>t
    <3>2. wire' = SubSeq(wire, 1, k) /\ closed' /\ cut' = cut /\ UNCHANGED <<adder, remover>>
      BY <1>t, <2>8, <3>1 DEF Close
    <3>3. cut' \in BOOLEAN /\ (~cut' => ~cut /\ k = Len(wire))
      BY <1>t, <3>1, <3>2
    <3> QED
      BY <1>i, <1>1, <3>2, <3>3, EndDelivery
  <2>9. ASSUME NEW k \in 0 .. Len(wire), Cut(k) PROVE Delivered
    <3>1. /\ wire' = SubSeq(wire, 1, k) /\ closed' /\ UNCHANGED <<adder, remover>>
          /\ cut' \in BOOLEAN /\ (~cut' => ~cut /\ k = Len(wire))
      BY <2>9 DEF Cut
    <3> QED
      BY <1>i, <1>1, <3>1, EndDelivery
  <2> QED
    BY <1>1, <2>1, <2>2, <2>3, <2>4, <2>5, <2>6, <2>7, <2>8, <2>9 DEF Next, Sender, Receiver
<1>2. ASSUME Dead, Next PROVE Delivered
  <2>1. CASE Receiver
    BY <1>i, <1>2, <2>1, DeadDelivery
  <2>2. ASSUME NEW k \in 0 .. Len(wire), Cut(k) PROVE Delivered
    <3>1. wire = <<>> /\ k \in Nat /\ k <= 0
      BY <1>2, <1>t DEF Dead
    <3>2. wire' = <<>> /\ closed' /\ UNCHANGED <<pc, held, out>>
      BY <2>2, <3>1 DEF Cut, remover
    <3> QED
      BY <1>i, <3>2 DEF Delivered, Dead, OutIsContent
  <2>3. /\ ~Close /\ \A pad \in Byte : ~AddEmptyFrame(pad)
        /\ \A n \in 1 .. Buffer : ~CopyRaw(n) /\ \A pad \in Byte : ~AddFrame(pad, n)
    BY <1>2 DEF Dead, Close, AddEmptyFrame, CopyRaw, AddFrame
  <2> QED
    BY <1>2, <2>1, <2>2, <2>3 DEF Next, Sender
<1>3. ASSUME UNCHANGED vars PROVE Delivered
  <2>1. OutIsContent'
    BY <1>i, <1>3 DEF OutIsContent, vars, remover
  <2>2. Dead => Dead'
    BY <1>3 DEF Dead, vars
  <2>3. ASSUME NEW h \in Histories, Located(h) PROVE Located(h)'
    BY <1>3, <2>3 DEF Located, Layout, FrameIn, WireIn, Total, Aligned, vars, adder, remover
  <2> QED
    BY <1>i, <2>1, <2>2, <2>3 DEF Delivered
<1>4. CASE Next
  BY <1>i, <1>1, <1>2, <1>4
<1> QED
  BY <1>3, <1>4

(* Whatever the lengths of the chunks, the paddings chosen and the place of  *)
(* a cut, what RemovePadding has written is the beginning of what was given  *)
(* to AddPadding, for as long as no frame without content was padded: the    *)
(* two loops of flushingIoCopy agree where every frame begins and ends.      *)
THEOREM DeliveryCorrect == Spec => []DeliveredIsSent
<1>1. ASSUME Inv, DeliveryInv PROVE DeliveredIsSent
  <2> SUFFICES ASSUME ~empties PROVE IsPrefix(out, Content)
    BY DEF DeliveredIsSent
  <2>1. /\ OutIsContent /\ out \in Seq(Byte) /\ held \in Seq(Byte) /\ Content \in Seq(Byte)
    BY <1>1, PaddingAssumption DEF DeliveryInv, Inv, TypeOK
  <2>2. PICK l \in Nat, x \in Nat, c \in Nat : l = Len(out) /\ x = Len(held) /\ c = Len(Content)
    BY <2>1
  <2>3. l + x <= c /\ \A i \in 1 .. l : out[i] = Content[i]
    BY ONLY <2>1, <2>2, Zenon DEF OutIsContent
  <2>4. l <= c
    BY ONLY <2>3, l \in Nat, x \in Nat, c \in Nat
  <2>5. out = SubSeq(Content, 1, l)
    BY ONLY <2>1, <2>2, <2>3, <2>4
  <2> QED
    BY ONLY <2>2, <2>4, <2>5, Zenon DEF IsPrefix
<1>2. Init => DeliveryInv
  BY InitDelivery
<1>3. Inv /\ DeliveryInv /\ [Next]_vars => DeliveryInv'
  BY NextDelivery
<1> QED
  BY <1>1, <1>2, <1>3, Invariant, PTL DEF Spec
=============================================================================
