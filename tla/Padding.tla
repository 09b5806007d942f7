------------------------------- MODULE Padding -------------------------------
(***************************************************************************)
(* The padded framing of flushingIoCopy in forwardproxy/forwardproxy.go:   *)
(* the first frames of a direction carry a header of three bytes and as    *)
(* many zeros as a random number says.  An AddPadding loop writes to a     *)
(* wire that a RemovePadding loop reads: the proxy runs the former for a   *)
(* download and the latter for an upload, its client the other ends.       *)
(*                                                                         *)
(* Bytes are 0 .. Base - 1 and the buffers hold Base^2 of them, as with    *)
(* 256 and 64 KiB.  The wire may be cut anywhere, and then loses what it   *)
(* still carried.                                                          *)
(***************************************************************************)
EXTENDS Integers, Sequences

CONSTANTS
  Base,        \* values of a byte
  NumFirst,    \* NumFirstPaddings
  Content,     \* the bytes that the source has to send
  EmptyFrames  \* does the sender also pad frames that carry nothing?

Byte   == 0 .. Base - 1
Buffer == Base * Base

ASSUME PaddingAssumption == /\ Base \in Nat /\ Base >= 3 /\ NumFirst \in Nat
                            /\ Content \in Seq(Byte) /\ EmptyFrames \in BOOLEAN

VARIABLES
  (* the AddPadding loop *)
  taken,      \* bytes read from the source
  padded,     \* its numPadding
  charged,    \* bytes it wrote, passed to onWrite
  widest,     \* how much of its buffer it ever filled
  (* the wire *)
  wire, closed,
  (* the RemovePadding loop *)
  pc,         \* "header", "payload", "junk", "raw", "done"
  removed,    \* its numPadding
  need, junk, \* sizes of the payload and the padding it is reading
  held,       \* payload read and not yet written
  out,        \* bytes it wrote
  (* history *)
  cut, empties  \* was the wire cut? was a padded frame empty?

adder   == <<taken, padded, charged, widest>>
remover == <<pc, removed, need, junk, held, out>>
vars    == <<adder, remover, wire, closed, cut, empties>>

\* The loop leaves the frames behind after NumFirst of them.
\* Faulty: it does so one frame late.
NextFrameLate(n) == IF n <= NumFirst THEN "header" ELSE "raw"
NextFrame(n)     == IF n < NumFirst THEN "header" ELSE "raw"

Init ==
  /\ taken = 0 /\ padded = 0 /\ charged = 0 /\ widest = 0
  /\ wire = <<>> /\ closed = FALSE /\ cut = FALSE /\ empties = FALSE
  /\ pc = NextFrame(0) /\ removed = 0 /\ need = 0 /\ junk = 0 /\ held = <<>> /\ out = <<>>

-----------------------------------------------------------------------------
(* AddPadding.                                                             *)

\* What src.Read may return into buf[3:maxRead].
\* Faulty: room is left for the header only.
RoomForHeader(pad) == Buffer - 3
Room(pad)          == Buffer - 3 - pad - 3

\* Faulty: one byte of length.
HeaderOfLow(n, pad) == <<0, n % Base, pad>>
Header(n, pad)      == <<n \div Base, n % Base, pad>>

Frame(payload, pad) == Header(Len(payload), pad) \o payload \o [i \in 1 .. pad |-> 0]

Write(bytes) ==
  /\ wire' = wire \o bytes
  /\ charged' = charged + Len(bytes)
  /\ widest' = IF Len(bytes) > widest THEN Len(bytes) ELSE widest

AddFrame(pad, n) ==
  /\ ~closed /\ padded < NumFirst /\ taken < Len(Content)
  /\ n <= Room(pad) /\ taken + n <= Len(Content)
  /\ Write(Frame(SubSeq(Content, taken + 1, taken + n), pad))
  /\ taken' = taken + n /\ padded' = padded + 1
  /\ UNCHANGED <<remover, closed, cut, empties>>

CopyRaw(n) ==
  /\ ~closed /\ padded = NumFirst
  /\ n <= Buffer /\ taken + n <= Len(Content)
  /\ Write(SubSeq(Content, taken + 1, taken + n))
  /\ taken' = taken + n
  /\ UNCHANGED <<padded, remover, closed, cut, empties>>

\* The source has ended: the loop breaks and half-closes the wire.
Close ==
  /\ ~closed /\ taken = Len(Content)
  /\ closed' = TRUE
  /\ UNCHANGED <<adder, remover, wire, cut, empties>>

\* flushingIoCopy writes nothing when it read nothing; another sender may.
AddEmptyFrame(pad) ==
  /\ EmptyFrames /\ ~closed /\ padded < NumFirst
  /\ Write(Frame(<<>>, pad))
  /\ padded' = padded + 1 /\ empties' = (empties \/ pad > 0)
  /\ UNCHANGED <<taken, remover, closed, cut>>

\* The connection or the sender is lost.
Cut(k) ==
  /\ ~cut
  /\ wire' = SubSeq(wire, 1, k)
  /\ closed' = TRUE /\ cut' = TRUE
  /\ UNCHANGED <<adder, remover, empties>>

-----------------------------------------------------------------------------
(* RemovePadding.                                                          *)

\* io.ReadFull of n bytes returns once they are there or the wire has ended.
Ready(n) == Len(wire) >= n \/ closed
Got(n)   == IF Len(wire) >= n THEN n ELSE Len(wire)
Rest(n)  == SubSeq(wire, Got(n) + 1, Len(wire))

Goto(place) == pc' = place

\* Faulty: a byte too wide.
LengthWide(buf) == buf[1] * (Base + 1) + buf[2]
Length(buf)     == buf[1] * Base + buf[2]

\* A header that ends early leaves old bytes of the pooled buffer in its place.
ReadHeader ==
  /\ pc = "header" /\ Ready(3)
  /\ removed' = removed + 1
  /\ wire' = Rest(3)
  /\ IF wire = <<>> THEN Goto("done") /\ UNCHANGED <<need, junk>>
     ELSE /\ Goto("payload")
          /\ \E stale \in [1 .. 3 -> Byte] :
               LET buf == [i \in 1 .. 3 |-> IF i <= Len(wire) THEN wire[i] ELSE stale[i]] IN
               need' = Length(buf) /\ junk' = buf[3]
  /\ UNCHANGED <<adder, held, out, closed, cut, empties>>

\* With nothing to read, or nothing read, the padding is not looked for.
ReadPayload ==
  /\ pc = "payload" /\ Ready(need)
  /\ held' = SubSeq(wire, 1, Got(need))
  /\ wire' = Rest(need)
  /\ IF Got(need) > 0 THEN Goto("junk")
     ELSE Goto(IF need = 0 THEN NextFrame(removed) ELSE "done")
  /\ UNCHANGED <<adder, removed, need, junk, out, closed, cut, empties>>

\* The chunk is written only when its padding is there; a padding that is cut
\* off ends the loop, unless none of it was due.
ReadJunk ==
  /\ pc = "junk" /\ Ready(junk)
  /\ wire' = Rest(junk)
  /\ out' = out \o held
  /\ held' = <<>>
  /\ Goto(IF Got(junk) < junk THEN "done" ELSE NextFrame(removed))
  /\ UNCHANGED <<adder, removed, need, junk, closed, cut, empties>>

ReadRaw ==
  /\ pc = "raw"
  /\ \/ /\ wire # <<>>
        /\ \E n \in 1 .. Got(Buffer) : out' = out \o SubSeq(wire, 1, n) /\ wire' = Rest(n)
        /\ UNCHANGED pc
     \/ /\ wire = <<>> /\ closed
        /\ Goto("done") /\ UNCHANGED <<out, wire>>
  /\ UNCHANGED <<adder, removed, need, junk, held, closed, cut, empties>>

Sender   == \/ \E n \in 1 .. Buffer : CopyRaw(n) \/ \E pad \in Byte : AddFrame(pad, n)
            \/ Close
Receiver == ReadHeader \/ ReadPayload \/ ReadJunk \/ ReadRaw

Next == \/ Sender \/ Receiver
        \/ \E pad \in Byte : AddEmptyFrame(pad)
        \/ \E k \in 0 .. Len(wire) : Cut(k)

Spec == Init /\ [][Next]_vars
FairSpec == Spec /\ WF_vars(Sender) /\ WF_vars(Receiver)

-----------------------------------------------------------------------------
(* Properties.                                                             *)

TypeOK ==
  /\ taken \in 0 .. Len(Content) /\ padded \in 0 .. NumFirst /\ removed \in 0 .. NumFirst
  /\ charged \in Nat /\ widest \in Nat /\ wire \in Seq(Byte) /\ held \in Seq(Byte) /\ out \in Seq(Byte)
  /\ closed \in BOOLEAN /\ cut \in BOOLEAN /\ empties \in BOOLEAN
  /\ pc \in {"header", "payload", "junk", "raw", "done"}
  /\ need \in 0 .. Buffer - 1 /\ junk \in Byte

IsPrefix(s, t) == Len(s) <= Len(t) /\ s = SubSeq(t, 1, Len(s))

(* What comes out of the frames is what was put into them, from the first   *)
(* byte on: wherever the wire is cut, in a header, a payload or a padding,  *)
(* no byte of the framing reaches the target.                               *)
DeliveredIsSent == ~empties => IsPrefix(out, Content)

(* A user pays for the padding of his downloads, and for no more of it than *)
(* the first frames can carry; the frames fit the buffer they are built in. *)
PaddingIsBounded ==
  /\ charged - taken <= NumFirst * (3 + Base - 1)
  /\ widest <= Buffer

(* What was sent over a wire that is not cut comes out, though a chunk      *)
(* waits in the loop for the padding that follows it.                       *)
AllComesOut == <>(cut \/ empties \/ out = Content)
=============================================================================
