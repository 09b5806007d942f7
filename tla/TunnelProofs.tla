----------------------------- MODULE TunnelProofs -----------------------------
(***************************************************************************)
(* Proofs about Tunnel for any number of bytes in either direction.        *)
(***************************************************************************)
EXTENDS Tunnel, TLAPS

Handlers == {"start", "streaming", "closing", "clientclosed", "returned"}
Loops    == {"idle", "read", "write", "count", "end", "done"}

Types ==
  /\ proto \in {1, 2} /\ handler \in Handlers
  /\ loop \in [Dirs -> Loops] /\ last \subseteq Dirs
  /\ buf \in [Dirs -> Nat] /\ sent \in [Dirs -> Nat] /\ taken \in [Dirs -> Nat]
  /\ delivered \in [Dirs -> Nat] /\ pending \in [Dirs -> Nat] /\ counted \in [Dirs -> Nat]
  /\ early \in Nat /\ passed \in 0 .. early
  /\ ended \subseteq Dirs /\ gone \subseteq Peers /\ open \subseteq Peers /\ wopen \subseteq Peers

\* What a loop has read is delivered, in its buffer, or was lost by a write
\* that failed.
Accounts(d) ==
  /\ taken[d] <= sent[d]
  /\ delivered[d] = counted[d] + pending[d]
  /\ loop[d] # "count" => pending[d] = 0
  /\ loop[d] # "write" => delivered[d] <= taken[d]
  /\ loop[d] = "write" => delivered[d] + buf[d] <= taken[d]
  /\ loop[d] \in {"idle", "read"} => d \notin last

\* Both peers are there and the handler has not cut this direction.
Sound(d) == gone = {} /\ (d = "up" => handler \notin {"clientclosed", "returned"})

\* Then nothing was lost, and the loop breaks at the end of the stream only.
Lossless(d) == Sound(d) =>
  /\ loop[d] # "done" => Src(d) \in open /\ Dst(d) \in open /\ Dst(d) \in wopen
  /\ loop[d] = "write" => delivered[d] + buf[d] = taken[d]
  /\ loop[d] # "write" => delivered[d] = taken[d]
  /\ (loop[d] \in {"write", "count"} /\ d \in last) \/ loop[d] \in {"end", "done"} =>
       d \in ended /\ taken[d] = sent[d]

\* The handler closes after the download, or when the client left at the start.
Closing ==
  /\ handler \in {"closing", "clientclosed", "returned"} =>
       loop["down"] = "done" \/ (loop["down"] = "idle" /\ "client" \in gone)
  /\ handler = "start" => loop = [d \in Dirs |-> "idle"]
  /\ handler \in {"start", "streaming", "closing"} => open = Peers

TunnelInv == Types /\ Closing /\ \A d \in Dirs : Accounts(d) /\ Lossless(d)

\* The initial states satisfy the invariant.
LEMMA TunnelInit == Init => TunnelInv
  BY BoundsAssumption, SMTT(60)
  DEF Init, TunnelInv, Types, Closing, Accounts, Lossless, Sound, Dirs, Peers, Src, Dst,
      None, Handlers, Loops

\* Every step keeps the types.
LEMMA TypesStep == Types /\ [Next]_vars => Types'
<1> SUFFICES ASSUME Types, [Next]_vars PROVE Types'
  OBVIOUS
<1> USE DEF Types, Handlers, Loops, Goto, loops, peers
<1>1. CASE Start
  BY <1>1 DEF Start
<1>2. CASE StartFails
  BY <1>2 DEF StartFails
<1>3. CASE CloseClient
  BY <1>3 DEF CloseClient, AfterBodyClose
<1>4. CASE CloseTarget
  BY <1>4 DEF CloseTarget
<1>5. ASSUME NEW d \in Dirs, ReadChunk(d) PROVE Types'
  BY <1>5 DEF ReadChunk, Unread
<1>6. ASSUME NEW d \in Dirs, ReadEnds(d) PROVE Types'
  BY <1>6 DEF ReadEnds
<1>7. ASSUME NEW d \in Dirs, WriteChunk(d) PROVE Types'
  BY <1>7 DEF WriteChunk
<1>8. ASSUME NEW d \in Dirs, CountChunk(d) PROVE Types'
  BY <1>8 DEF CountChunk, WrittenBytes
<1>9. ASSUME NEW d \in Dirs, EndLoop(d) PROVE Types'
  BY <1>9 DEF EndLoop, StaysOpen
<1>10. ASSUME NEW d \in Dirs, Send(d) PROVE Types'
  BY <1>10 DEF Send
<1>11. ASSUME NEW d \in Dirs, End(d) PROVE Types'
  BY <1>11 DEF End
<1>12. ASSUME NEW p \in Peers, Break(p) PROVE Types'
  BY <1>12 DEF Break
<1>13. CASE UNCHANGED vars
  BY <1>13 DEF vars
<1> QED
  BY <1>1, <1>2, <1>3, <1>4, <1>5, <1>6, <1>7, <1>8, <1>9, <1>10, <1>11, <1>12, <1>13
  DEF Next, Handler, Copy

\* Every step keeps the accounts of both directions.
LEMMA AccountsStep ==
  ASSUME Types, Types', Closing, \A d \in Dirs : Accounts(d), [Next]_vars, NEW e \in Dirs
  PROVE  Accounts(e)'
<1> USE DEF Types, Closing, Accounts, At, Goto, loops, peers
<1>1. CASE Start
  BY <1>1 DEF Start
<1>2. CASE StartFails
  BY <1>2 DEF StartFails
<1>3. CASE CloseClient
  BY <1>3 DEF CloseClient, AfterBodyClose
<1>4. CASE CloseTarget
  BY <1>4 DEF CloseTarget
<1>5. ASSUME NEW d \in Dirs, ReadChunk(d) PROVE Accounts(e)'
  BY <1>5 DEF ReadChunk, Unread
<1>6. ASSUME NEW d \in Dirs, ReadEnds(d) PROVE Accounts(e)'
  BY <1>6 DEF ReadEnds
<1>7. ASSUME NEW d \in Dirs, WriteChunk(d) PROVE Accounts(e)'
  BY <1>7 DEF WriteChunk
<1>8. ASSUME NEW d \in Dirs, CountChunk(d) PROVE Accounts(e)'
  BY <1>8 DEF CountChunk, WrittenBytes
<1>9. ASSUME NEW d \in Dirs, EndLoop(d) PROVE Accounts(e)'
  BY <1>9 DEF EndLoop, StaysOpen
<1>10. ASSUME NEW d \in Dirs, Send(d) PROVE Accounts(e)'
  BY <1>10 DEF Send
<1>11. ASSUME NEW d \in Dirs, End(d) PROVE Accounts(e)'
  BY <1>11 DEF End
<1>12. ASSUME NEW p \in Peers, Break(p) PROVE Accounts(e)'
  BY <1>12 DEF Break
<1>13. CASE UNCHANGED vars
  BY <1>13 DEF vars
<1> QED
  BY <1>1, <1>2, <1>3, <1>4, <1>5, <1>6, <1>7, <1>8, <1>9, <1>10, <1>11, <1>12, <1>13
  DEF Next, Handler, Copy

\* Every step keeps the reason for which the handler closes.
LEMMA ClosingStep == ASSUME Types, Closing, [Next]_vars PROVE Closing'
<1>0. "down" \in Dirs
  BY DEF Dirs
<1> USE <1>0 DEF Types, Handlers, Closing, At, Goto, loops, peers
<1>1. CASE Start
  BY <1>1 DEF Start
<1>2. CASE StartFails
  BY <1>2 DEF StartFails
<1>3. CASE CloseClient
  BY <1>3 DEF CloseClient, AfterBodyClose
<1>4. CASE CloseTarget
  BY <1>4 DEF CloseTarget
<1>5. ASSUME NEW d \in Dirs, ReadChunk(d) PROVE Closing'
  BY <1>5 DEF ReadChunk, Unread
<1>6. ASSUME NEW d \in Dirs, ReadEnds(d) PROVE Closing'
  BY <1>6 DEF ReadEnds
<1>7. ASSUME NEW d \in Dirs, WriteChunk(d) PROVE Closing'
  BY <1>7 DEF WriteChunk
<1>8. ASSUME NEW d \in Dirs, CountChunk(d) PROVE Closing'
  BY <1>8 DEF CountChunk, WrittenBytes
<1>9. ASSUME NEW d \in Dirs, EndLoop(d) PROVE Closing'
  <2>1. handler # "start" /\ open' = open
    BY <1>9 DEF EndLoop, StaysOpen
  <2>2. CASE d = "down"
    BY <1>9, <2>1, <2>2 DEF EndLoop
  <2>3. CASE d # "down"
    BY <1>9, <2>1, <2>3 DEF EndLoop
  <2> QED BY <2>2, <2>3
<1>10. ASSUME NEW d \in Dirs, Send(d) PROVE Closing'
  BY <1>10 DEF Send
<1>11. ASSUME NEW d \in Dirs, End(d) PROVE Closing'
  BY <1>11 DEF End
<1>12. ASSUME NEW p \in Peers, Break(p) PROVE Closing'
  BY <1>12 DEF Break
<1>13. CASE UNCHANGED vars
  BY <1>13 DEF vars
<1> QED
  BY <1>1, <1>2, <1>3, <1>4, <1>5, <1>6, <1>7, <1>8, <1>9, <1>10, <1>11, <1>12, <1>13
  DEF Next, Handler, Copy

\* Every step keeps both directions lossless.
LEMMA LosslessStep ==
  ASSUME Types, Types', Closing, \A d \in Dirs : Accounts(d) /\ Lossless(d), [Next]_vars,
         NEW e \in Dirs
  PROVE  Lossless(e)'
<1> USE DEF Types, Closing, Accounts, Lossless, Sound, Dirs, Src, Dst, At, Goto, Reachable, loops, peers
<1>1. CASE Start
  BY <1>1 DEF Start
<1>2. CASE StartFails
  BY <1>2 DEF StartFails
<1>3. CASE CloseClient
  BY <1>3 DEF CloseClient, AfterBodyClose
<1>4. CASE CloseTarget
  BY <1>4 DEF CloseTarget
<1>5. ASSUME NEW d \in Dirs, ReadChunk(d) PROVE Lossless(e)'
  <2>1. PICK n \in 1 .. Unread(d) :
          /\ buf' = [buf EXCEPT ![d] = n] /\ taken' = [taken EXCEPT ![d] = @ + n]
          /\ \/ last' = last
             \/ /\ Src(d) \in gone \/ (d \in ended /\ n = Unread(d))
                /\ last' = last \cup {d}
    BY <1>5 DEF ReadChunk
  <2>2. CASE e # d
    BY <1>5, <2>1, <2>2 DEF ReadChunk
  <2>3. CASE e = d
    BY <1>5, <2>1, <2>3, SMTT(60) DEF ReadChunk, Unread
  <2> QED BY <2>2, <2>3
<1>6. ASSUME NEW d \in Dirs, ReadEnds(d) PROVE Lossless(e)'
  <2>1. CASE e # d
    BY <1>6, <2>1 DEF ReadEnds
  <2>2. CASE e = d
    <3>1. Sound(e)' => Src(d) \in open /\ gone = {} /\ d \in ended /\ sent[d] - taken[d] = 0
      BY <1>6, <2>2 DEF ReadEnds, Unread
    <3>2. sent[d] - taken[d] = 0 => taken[d] = sent[d]
      BY <1>6
    <3> QED BY <1>6, <2>2, <3>1, <3>2 DEF ReadEnds
  <2> QED BY <2>1, <2>2
<1>7. ASSUME NEW d \in Dirs, WriteChunk(d) PROVE Lossless(e)'
  BY <1>7 DEF WriteChunk
<1>8. ASSUME NEW d \in Dirs, CountChunk(d) PROVE Lossless(e)'
  BY <1>8 DEF CountChunk, WrittenBytes
<1>9. ASSUME NEW d \in Dirs, EndLoop(d) PROVE Lossless(e)'
  BY <1>9 DEF EndLoop, StaysOpen
<1>10. ASSUME NEW d \in Dirs, Send(d) PROVE Lossless(e)'
  BY <1>10 DEF Send
<1>11. ASSUME NEW d \in Dirs, End(d) PROVE Lossless(e)'
  BY <1>11 DEF End
<1>12. ASSUME NEW p \in Peers, Break(p) PROVE Lossless(e)'
  BY <1>12 DEF Break
<1>13. CASE UNCHANGED vars
  BY <1>13 DEF vars
<1> QED
  BY <1>1, <1>2, <1>3, <1>4, <1>5, <1>6, <1>7, <1>8, <1>9, <1>10, <1>11, <1>12, <1>13
  DEF Next, Handler, Copy

LEMMA TunnelStep == TunnelInv /\ [Next]_vars => TunnelInv'
  BY TypesStep, AccountsStep, ClosingStep, LosslessStep DEF TunnelInv

\* The invariant implies the checked properties.
LEMMA TunnelMeans == TunnelInv => TypeOK /\ CountsWhatIsDelivered /\ WholeUnlessBroken
<1> SUFFICES ASSUME TunnelInv PROVE TypeOK /\ CountsWhatIsDelivered /\ WholeUnlessBroken
  OBVIOUS
<1> USE DEF TunnelInv, Types, Handlers, Loops
<1>1. TypeOK
  <2>1. \A v \in {buf, sent, taken, delivered, pending, counted} : v \in [Dirs -> Nat]
    BY Zenon
  <2>2. ASSUME NEW d \in Dirs PROVE counted[d] + pending[d] <= taken[d] /\ taken[d] <= sent[d]
    <3>1. /\ counted[d] \in Nat /\ pending[d] \in Nat /\ delivered[d] \in Nat
          /\ buf[d] \in Nat /\ taken[d] \in Nat /\ sent[d] \in Nat
      BY <2>2
    <3>2. Accounts(d)
      BY <2>2
    <3>3. CASE loop[d] = "write"
      BY <3>1, <3>2, <3>3 DEF Accounts
    <3>4. CASE loop[d] # "write"
      BY <3>1, <3>2, <3>4 DEF Accounts
    <3> QED BY <3>3, <3>4
  <2> QED BY <2>1, <2>2, Zenon DEF TypeOK
<1>2. CountsWhatIsDelivered
  BY DEF CountsWhatIsDelivered, Accounts
<1>3. WholeUnlessBroken
  BY DEF WholeUnlessBroken, Lossless, Sound
<1> QED BY <1>1, <1>2, <1>3

LEMMA TunnelAlways == Spec => []TunnelInv
  BY TunnelInit, TunnelStep, PTL DEF Spec

\* The variables of a tunnel keep their types, and a loop neither counts more
\* than it read nor reads more than was sent.
THEOREM TunnelTypeCorrect == Spec => []TypeOK
  BY TunnelAlways, TunnelMeans, PTL

\* A user is charged exactly for the bytes the copy loops got across.
THEOREM CountCorrect == Spec => []CountsWhatIsDelivered
  BY TunnelAlways, TunnelMeans, PTL

\* While both peers are there a direction ends with all its bytes delivered,
\* but for an upload that the returning handler cuts.
THEOREM WholeCorrect == Spec => []WholeUnlessBroken
  BY TunnelAlways, TunnelMeans, PTL
=============================================================================
