-------------------------------- MODULE Tunnel --------------------------------
(***************************************************************************)
(* One CONNECT tunnel of forwardproxy/forwardproxy.go once its target is   *)
(* connected: serveHijack or the HTTP/2 path of ServeHTTP, dualStream with *)
(* its goroutine, the copy loop of each direction and the deferred closes. *)
(*                                                                         *)
(* Bytes are counted, not told apart: a direction delivers in the order it *)
(* reads.  A well-formed padded frame is a chunk like any other, a broken  *)
(* one the end of its stream.  The connections and the two peers are       *)
(* external: they send, end their stream and go away when they like, and a *)
(* peer that stays reads what is written to it.                            *)
(***************************************************************************)
EXTENDS Integers

CONSTANTS
  Bytes,    \* bound: bytes each peer sends in its direction
  MaxEarly  \* bound: bytes the client sent ahead, in the hijacked buffer

Dirs  == {"up", "down"}
Peers == {"client", "target"}
Src(d) == IF d = "up" THEN "client" ELSE "target"
Dst(d) == IF d = "up" THEN "target" ELSE "client"

ASSUME BoundsAssumption == Bytes \in [Dirs -> Nat] /\ MaxEarly \in Nat

VARIABLES
  proto,     \* r.ProtoMajor: 1 is hijacked; 3 is served as 2
  handler,   \* "start", "streaming", "closing", "clientclosed" (the target's
             \* close is left) or "returned"
  loop,      \* per direction: "idle", "read", "write", "count", "end" or "done"
  buf,       \* per direction: bytes read and not yet written
  last,      \* directions whose loop breaks after this chunk
  sent,      \* per direction: bytes its source has sent
  taken,     \* per direction: bytes read from the source
  early,     \* bytes in the hijacked reader's buffer
  passed,    \* of these, the bytes the target took
  delivered, \* per direction: bytes its destination took from the loop
  pending,   \* per direction: of these, not yet passed to addTrafficForUser
  counted,   \* per direction: bytes passed to addTrafficForUser
  ended,     \* directions whose source has finished
  gone,      \* peers whose connection broke
  open,      \* peers whose connection is open on this side
  wopen      \* peers towards whom this side has not half-closed

loops == <<loop, buf, last, taken, delivered, pending, counted>>
peers == <<sent, ended, gone>>
vars  == <<proto, handler, loops, early, passed, peers, open, wopen>>

None == [d \in Dirs |-> 0]

Init ==
  /\ proto \in {1, 2}
  /\ early \in IF proto = 1 THEN 0 .. MaxEarly ELSE {0}
  /\ handler = "start" /\ passed = 0
  /\ loop = [d \in Dirs |-> "idle"] /\ last = {}
  /\ buf = None /\ sent = None /\ taken = None
  /\ delivered = None /\ pending = None /\ counted = None
  /\ ended = {} /\ gone = {} /\ open = Peers /\ wopen = Peers

Reachable(p) == p \in open /\ p \in wopen /\ p \notin gone
Unread(d) == sent[d] - taken[d]
At(d, place) == loop[d] = place
Goto(d, place) == loop' = [loop EXCEPT ![d] = place]

-----------------------------------------------------------------------------
(* The handler's goroutine.                                                *)

\* serveHijack writes what the client sent ahead, ignoring errors, and flushes;
\* dualStream then starts both loops.
Start ==
  /\ handler = "start"
  /\ IF Reachable("target") THEN passed' = early ELSE passed' \in 0 .. early
  /\ handler' = "streaming"
  /\ loop' = [d \in Dirs |-> "read"]
  /\ UNCHANGED <<proto, buf, last, taken, delivered, pending, counted, early, peers, open, wopen>>

\* A hijack that fails leaves only the target's close deferred; a flush that
\* fails comes after the early bytes and the client's deferred close.
StartFails ==
  /\ handler = "start" /\ proto = 1 /\ "client" \in gone
  /\ \/ handler' = "clientclosed" /\ passed' = passed
     \/ /\ IF Reachable("target") THEN passed' = early ELSE passed' \in 0 .. early
        /\ handler' = "closing"
  /\ UNCHANGED <<proto, loops, early, peers, open, wopen>>

\* The deferred closes, the client's side first.
\* Faulty: the request body stays open.
BodyLeftOpen == open
AfterBodyClose == open \ {"client"}
CloseClient ==
  /\ handler = "closing"
  /\ open' = AfterBodyClose
  /\ handler' = "clientclosed"
  /\ UNCHANGED <<proto, loops, early, passed, peers, wopen>>

CloseTarget ==
  /\ handler = "clientclosed"
  /\ open' = open \ {"target"}
  /\ handler' = "returned"
  /\ UNCHANGED <<proto, loops, early, passed, peers, wopen>>

-----------------------------------------------------------------------------
(* flushingIoCopy, for each direction in a goroutine of its own.           *)

\* A read may bring the end of the stream along with its last bytes.
ReadChunk(d) ==
  /\ At(d, "read") /\ Src(d) \in open
  /\ \E n \in 1 .. Unread(d) :
       /\ buf' = [buf EXCEPT ![d] = n]
       /\ taken' = [taken EXCEPT ![d] = @ + n]
       /\ \/ last' = last
          \/ /\ Src(d) \in gone \/ (d \in ended /\ n = Unread(d))
             /\ last' = last \cup {d}
  /\ Goto(d, "write")
  /\ UNCHANGED <<proto, handler, delivered, pending, counted, early, passed, peers, open, wopen>>

ReadEnds(d) ==
  /\ At(d, "read")
  /\ Src(d) \notin open \/ Src(d) \in gone \/ (d \in ended /\ Unread(d) = 0)
  /\ Goto(d, "end")
  /\ UNCHANGED <<proto, handler, buf, last, taken, delivered, pending, counted, early, passed, peers, open, wopen>>

\* A write that fails may have passed part of the chunk on.
WriteChunk(d) ==
  /\ At(d, "write")
  /\ \E n \in 0 .. buf[d] :
       /\ n = buf[d] \/ ~Reachable(Dst(d))
       /\ delivered' = [delivered EXCEPT ![d] = @ + n]
       /\ pending' = [pending EXCEPT ![d] = n]
       /\ last' = IF n < buf[d] THEN last \cup {d} ELSE last
  /\ Goto(d, "count")
  /\ UNCHANGED <<proto, handler, buf, taken, counted, early, passed, peers, open, wopen>>

\* Faulty: what was read is counted, written or not; both ends count.
ReadBytes(d) == buf[d]
CountedTwice(d) == 2 * pending[d]
WrittenBytes(d) == pending[d]

\* onWrite, then the flush.
CountChunk(d) ==
  /\ At(d, "count")
  /\ counted' = [counted EXCEPT ![d] = @ + WrittenBytes(d)]
  /\ pending' = [pending EXCEPT ![d] = 0] /\ buf' = [buf EXCEPT ![d] = 0]
  /\ \/ d \notin last /\ Goto(d, "read")
     \/ (d \in last \/ ~Reachable(Dst(d))) /\ Goto(d, "end")
  /\ UNCHANGED <<proto, handler, last, taken, delivered, early, passed, peers, open, wopen>>

\* Faulty: the half-close of the target shuts the whole connection.
ShutsWholeTarget(d) == IF d = "up" THEN open \ {"target"} ELSE open
StaysOpen(d) == open

\* CloseWrite where the writer has it: not the response writer of HTTP/2.
\* The download runs in the handler's goroutine, which then returns.
EndLoop(d) ==
  /\ At(d, "end")
  /\ wopen' = IF d = "down" /\ proto # 1 THEN wopen ELSE wopen \ {Dst(d)}
  /\ open' = StaysOpen(d)
  /\ Goto(d, "done")
  /\ handler' = IF d = "down" THEN "closing" ELSE handler
  /\ UNCHANGED <<proto, buf, last, taken, delivered, pending, counted, early, passed, peers>>

-----------------------------------------------------------------------------
(* The peers.                                                              *)

Send(d) ==
  /\ Src(d) \in open \ gone /\ d \notin ended /\ sent[d] < Bytes[d]
  /\ sent' = [sent EXCEPT ![d] = @ + 1]
  /\ UNCHANGED <<proto, handler, loops, early, passed, ended, gone, open, wopen>>

End(d) ==
  /\ Src(d) \notin gone /\ d \notin ended
  /\ ended' = ended \cup {d}
  /\ UNCHANGED <<proto, handler, loops, early, passed, sent, gone, open, wopen>>

Break(p) ==
  /\ p \notin gone
  /\ gone' = gone \cup {p}
  /\ UNCHANGED <<proto, handler, loops, early, passed, sent, ended, open, wopen>>

Copy(d) == ReadChunk(d) \/ ReadEnds(d) \/ WriteChunk(d) \/ CountChunk(d) \/ EndLoop(d)
Handler == Start \/ StartFails \/ CloseClient \/ CloseTarget

Next ==
  \/ Handler
  \/ \E d \in Dirs : Copy(d) \/ Send(d) \/ End(d)
  \/ \E p \in Peers : Break(p)

Spec == Init /\ [][Next]_vars

(* The scheduler runs every goroutine; a peer reads what is written to it   *)
(* or goes away, so no write blocks for ever.  Nothing makes a peer speak.  *)
FairSpec == Spec /\ WF_vars(Handler) /\ \A d \in Dirs : WF_vars(Copy(d))

-----------------------------------------------------------------------------
(* Properties.                                                             *)

TypeOK ==
  /\ proto \in {1, 2}
  /\ handler \in {"start", "streaming", "closing", "clientclosed", "returned"}
  /\ loop \in [Dirs -> {"idle", "read", "write", "count", "end", "done"}]
  /\ last \subseteq Dirs
  /\ \A v \in {buf, sent, taken, delivered, pending, counted} : v \in [Dirs -> Nat]
  /\ \A d \in Dirs : counted[d] + pending[d] <= taken[d] /\ taken[d] <= sent[d]
  /\ passed \in 0 .. early
  /\ ended \subseteq Dirs /\ gone \subseteq Peers /\ open \subseteq Peers /\ wopen \subseteq Peers

(* A user is charged for the bytes a loop got across, and for no other:     *)
(* through short and failed writes, and when the upload outlives the        *)
(* handler.  Bytes the client sent ahead of the hijack are not counted.     *)
CountsWhatIsDelivered ==
  \A d \in Dirs : delivered[d] = counted[d] + pending[d]

(* While both peers are there, a download ends with every byte of the       *)
(* target delivered, whatever became of the upload; and an upload ends so   *)
(* unless the handler has returned and closed the client's side.            *)
WholeUnlessBroken ==
  \A d \in Dirs : loop[d] = "done" /\ gone = {} =>
    \/ d \in ended /\ delivered[d] = taken[d] /\ taken[d] = sent[d]
    \/ d = "up" /\ handler \in {"clientclosed", "returned"}

(* Once the target has finished or is gone, the handler returns and the     *)
(* upload's goroutine ends too, though the client never stops: a tunnel     *)
(* leaks neither its goroutines nor its connections.                        *)
TunnelEnds ==
  ("down" \in ended \/ "target" \in gone) ~>
    (handler = "returned" /\ loop["up"] \in {"idle", "done"})
=============================================================================
