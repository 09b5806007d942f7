--------------------------- MODULE UpstreamDialer ---------------------------
(***************************************************************************)
(* HTTPConnectDialer.DialContext of forwardproxy/httpclient/httpclient.go: *)
(* concurrent calls that open a tunnel through the upstream proxy, over a  *)
(* cached HTTP/2 connection when there is one and a fresh connection       *)
(* otherwise.                                                              *)
(*                                                                         *)
(* The connections and the HTTP/2 client are libraries, modelled by what   *)
(* the calls rely on: Close succeeds once, a round trip may fail at any    *)
(* time and succeeds only on an open connection, and CanTakeNewRequest may *)
(* turn a request away, which it does for good some time after the         *)
(* connection is gone.                                                     *)
(***************************************************************************)
EXTENDS Naturals

CONSTANTS
  Callers,  \* goroutines that dial
  Conns,    \* connections to the upstream, each opened once; bounds the dials
  NoConn

ASSUME NoConnAssumption == NoConn \notin Conns

VARIABLES
  raw,     \* per connection: "unused", "open" or "closed" on this side
  link,    \* per connection: is the peer reachable?
  h2,      \* per connection: "none", "usable" or "dead" as its HTTP/2 client
           \* sees it
  cache,   \* cachedH2RawConn with its cachedH2ClientConn
  pc,      \* per caller: where its call is
  mine,    \* per caller: the connection it works on
  result,  \* per caller: what it got: "conn", "nil" for (nil, nil), "error"
  nils,    \* history: per connection, the calls that returned (nil, nil) on it
  left     \* history: connections that the code lets go of without closing them

conns == <<raw, link, h2>>
calls == <<pc, mine, result>>
vars  == <<raw, link, h2, cache, pc, mine, result, nils, left>>

Init ==
  /\ raw  = [c \in Conns |-> "unused"]
  /\ link = [c \in Conns |-> TRUE]
  /\ h2   = [c \in Conns |-> "none"]
  /\ cache = NoConn
  /\ pc     = [p \in Callers |-> "idle"]
  /\ mine   = [p \in Callers |-> NoConn]
  /\ result = [p \in Callers |-> "none"]
  /\ nils   = [c \in Conns |-> 0]
  /\ left   = {}

-----------------------------------------------------------------------------
(* rawConn.Close: fails when the connection is closed already, and may fail *)
(* to say goodbye to a peer that is gone.                                   *)

CloseOutcomes(c) ==
  IF raw[c] = "closed" THEN {FALSE} ELSE IF link[c] THEN {TRUE} ELSE BOOLEAN

CloseRaw(c) == raw' = [raw EXCEPT ![c] = "closed"]

At(p, place) == pc[p] = place
Goto(p, place) == pc' = [pc EXCEPT ![p] = place]
Return(p, r) == Goto(p, "done") /\ result' = [result EXCEPT ![p] = r]

\* Return (nil, nil): a Close that succeeded replaced the error.
ReturnNil(p) ==
  /\ Return(p, "nil")
  /\ nils' = [nils EXCEPT ![mine[p]] = @ + 1]

\* A round trip can succeed: 200, or another status.
Answers(c) == raw[c] = "open" /\ link[c]

\* Faulty: a cached connection is taken without CanTakeNewRequest.
CacheIsSet == cache # NoConn
CacheIsUsable == cache # NoConn /\ h2[cache] = "usable"

\* Look at the cache under its lock; a usable connection may have no stream
\* left for one more request.
Begin(p) ==
  /\ At(p, "idle")
  /\ \/ CacheIsUsable /\ Goto(p, "cached") /\ mine' = [mine EXCEPT ![p] = cache]
     \/ Goto(p, "dial") /\ UNCHANGED mine
  /\ UNCHANGED <<conns, cache, result, nils, left>>

-----------------------------------------------------------------------------
(* connectHttp2 on the cached connection.                                  *)

CachedOk(p) ==
  /\ At(p, "cached") /\ Answers(mine[p])
  /\ Return(p, "conn")
  /\ UNCHANGED <<conns, cache, mine, nils, left>>

\* A status other than 200 closes the shared connection and the call goes on.
CachedRefused(p) ==
  /\ At(p, "cached") /\ Answers(mine[p])
  /\ CloseRaw(mine[p])
  /\ Goto(p, "dial") /\ mine' = [mine EXCEPT ![p] = NoConn]
  /\ UNCHANGED <<link, h2, cache, result, nils, left>>

\* Faulty: the error of Close is dropped as well.
CachedFailedSilently(p) ==
  /\ At(p, "cached")
  /\ CloseRaw(mine[p]) /\ ReturnNil(p)
  /\ UNCHANGED <<link, h2, cache, mine, left>>

\* A failed round trip returns the error of Close instead of its own.
CachedFailed(p) ==
  /\ At(p, "cached")
  /\ CloseRaw(mine[p])
  /\ \/ TRUE \in CloseOutcomes(mine[p]) /\ ReturnNil(p) /\ UNCHANGED mine
     \/ /\ FALSE \in CloseOutcomes(mine[p])
        /\ Goto(p, "dial") /\ mine' = [mine EXCEPT ![p] = NoConn]
        /\ UNCHANGED <<result, nils>>
  /\ UNCHANGED <<link, h2, cache, left>>

-----------------------------------------------------------------------------
(* A fresh connection.                                                     *)

\* No connection, or one that negotiated an unknown protocol and is closed.
DialFailed(p) ==
  /\ At(p, "dial")
  /\ Return(p, "error")
  /\ UNCHANGED <<conns, cache, mine, nils, left>>

DialOk(p, c) ==
  /\ At(p, "dial") /\ raw[c] = "unused"
  /\ raw' = [raw EXCEPT ![c] = "open"]
  /\ mine' = [mine EXCEPT ![p] = c]
  /\ Goto(p, "http1") \/ Goto(p, "newclient")
  /\ UNCHANGED <<link, h2, cache, result, nils, left>>

NewClientConn(p) ==
  /\ At(p, "newclient")
  /\ h2' = [h2 EXCEPT ![mine[p]] = "usable"]
  /\ Goto(p, "http2")
  /\ UNCHANGED <<raw, link, cache, mine, result, nils, left>>

\* Faulty: a connection is stored whatever protocol it speaks.
StoreAnyway == "store"
AfterHttp1 == "done"
Http1Ok(p) ==
  /\ At(p, "http1") /\ Answers(mine[p])
  /\ Goto(p, AfterHttp1) /\ result' = [result EXCEPT ![p] = "conn"]
  /\ UNCHANGED <<conns, cache, mine, nils, left>>

\* Status other than 200.  Over HTTP/2 the error returned is that of a second
\* Close, which cannot succeed.
FreshRefused(p) ==
  /\ At(p, "http1") \/ At(p, "http2")
  /\ Answers(mine[p])
  /\ CloseRaw(mine[p])
  /\ Return(p, "error")
  /\ UNCHANGED <<link, h2, cache, mine, nils, left>>

\* Faulty: a connection whose preface failed is not closed.
FreshForgotten(p) ==
  /\ At(p, "http1") \/ At(p, "newclient")
  /\ Return(p, "error")
  /\ IF At(p, "http1") THEN CloseRaw(mine[p]) ELSE UNCHANGED raw
  /\ UNCHANGED <<link, h2, cache, mine, nils, left>>

\* The request, its response or the HTTP/2 preface failed.
FreshFailed(p) ==
  /\ At(p, "http1") \/ At(p, "newclient")
  /\ CloseRaw(mine[p])
  /\ \/ TRUE \in CloseOutcomes(mine[p]) /\ ReturnNil(p)
     \/ FALSE \in CloseOutcomes(mine[p]) /\ Return(p, "error") /\ UNCHANGED nils
  /\ UNCHANGED <<link, h2, cache, mine, left>>

Http2Ok(p) ==
  /\ At(p, "http2") /\ Answers(mine[p])
  /\ Goto(p, "store") /\ result' = [result EXCEPT ![p] = "conn"]
  /\ UNCHANGED <<conns, cache, mine, nils, left>>

\* After a failed round trip whose Close succeeded err is nil, so the closed
\* connection goes into the cache and the call returns (nil, nil).
Http2Failed(p) ==
  /\ At(p, "http2")
  /\ CloseRaw(mine[p])
  /\ \/ /\ TRUE \in CloseOutcomes(mine[p])
        /\ Goto(p, "store") /\ result' = [result EXCEPT ![p] = "nil"]
        /\ nils' = [nils EXCEPT ![mine[p]] = @ + 1]
     \/ FALSE \in CloseOutcomes(mine[p]) /\ Return(p, "error") /\ UNCHANGED nils
  /\ UNCHANGED <<link, h2, cache, mine, left>>

\* Replace the cached pair under the lock, closing nothing.
Store(p) ==
  /\ At(p, "store")
  /\ cache' = mine[p]
  /\ left' = left \cup ({cache} \ {NoConn})
  /\ Goto(p, "done")
  /\ UNCHANGED <<conns, mine, result, nils>>

-----------------------------------------------------------------------------
OwnsConn(p) == At(p, "done") /\ result[p] = "conn" /\ h2[mine[p]] = "none"

Forget(p) ==
  /\ Goto(p, "idle")
  /\ mine' = [mine EXCEPT ![p] = NoConn] /\ result' = [result EXCEPT ![p] = "none"]

(* After the call.  A CONNECT closes what it got: http2Conn.Close ends the  *)
(* stream and leaves the shared connection open, over HTTP/1.1 the          *)
(* connection goes too.                                                     *)
EndTunnel(p) ==
  /\ At(p, "done")
  /\ IF OwnsConn(p) THEN CloseRaw(mine[p]) ELSE UNCHANGED raw
  /\ Forget(p)
  /\ UNCHANGED <<link, h2, cache, nils, left>>

\* A request other than CONNECT writes itself to what it got, which panics
\* when that is nil, reads one response and closes nothing.
EndPlain(p) ==
  /\ At(p, "done")
  /\ left' = left \cup {c \in Conns : OwnsConn(p) /\ c = mine[p]}
  /\ Forget(p)
  /\ UNCHANGED <<raw, link, h2, cache, nils>>

\* The collector finalizes a connection that nothing refers to; an HTTP/2
\* client's reader refers to its own.
Collect(c) ==
  /\ c \in left /\ raw[c] = "open" /\ h2[c] = "none"
  /\ CloseRaw(c)
  /\ UNCHANGED <<link, h2, cache, calls, nils, left>>

\* The peer goes away.
LoseLink(c) ==
  /\ raw[c] = "open" /\ link[c]
  /\ link' = [link EXCEPT ![c] = FALSE]
  /\ UNCHANGED <<raw, h2, cache, calls, nils, left>>

\* The HTTP/2 client's reader finds the connection gone and closes it.
NoticeDead(c) ==
  /\ h2[c] = "usable"
  /\ raw[c] = "closed" \/ ~link[c]
  /\ h2' = [h2 EXCEPT ![c] = "dead"]
  /\ CloseRaw(c)
  /\ UNCHANGED <<link, cache, calls, nils, left>>

Call(p) ==
  \/ CachedOk(p) \/ CachedRefused(p) \/ CachedFailed(p)
  \/ DialFailed(p) \/ \E c \in Conns : DialOk(p, c)
  \/ NewClientConn(p) \/ Http1Ok(p) \/ FreshRefused(p) \/ FreshFailed(p)
  \/ Http2Ok(p) \/ Http2Failed(p) \/ Store(p)

Next ==
  \/ \E p \in Callers : Begin(p) \/ Call(p) \/ EndTunnel(p) \/ EndPlain(p)
  \/ \E c \in Conns : LoseLink(c) \/ NoticeDead(c) \/ Collect(c)

Spec == Init /\ [][Next]_vars

(* The context of a call or a timeout of the network ends every step of a   *)
(* call, and the reader of a connection that is gone comes to know.         *)
Fairness ==
  /\ \A p \in Callers : WF_vars(Call(p))
  /\ \A c \in Conns : WF_vars(NoticeDead(c))

FairSpec == Spec /\ Fairness

-----------------------------------------------------------------------------
(* Properties.                                                             *)

\* Only a connection with an HTTP/2 client is ever cached.
TypeOK ==
  /\ raw \in [Conns -> {"unused", "open", "closed"}]
  /\ link \in [Conns -> BOOLEAN]
  /\ h2 \in [Conns -> {"none", "usable", "dead"}]
  /\ cache \in {NoConn} \cup {c \in Conns : h2[c] # "none"}
  /\ pc \in [Callers -> {"idle", "cached", "dial", "newclient", "http1", "http2", "store", "done"}]
  /\ mine \in [Callers -> Conns \cup {NoConn}]
  /\ result \in [Callers -> {"none", "conn", "nil", "error"}]
  /\ nils \in [Conns -> Nat] /\ left \subseteq Conns

(* A connection makes at most one call return (nil, nil), however many      *)
(* share it and fail on it together: the Close that succeeds is the first,  *)
(* and every other caller sees an error and dials again.  So a connection   *)
(* costs at most one plain request a panic, or one CONNECT a wrong 403.     *)
OneNilPerConn == \A c \in Conns : nils[c] <= 1

(* A connection that carries an HTTP/1.1 tunnel, and bytes that are not     *)
(* HTTP/2 frames, serves no other call: nobody else works on it, it is not  *)
(* in the cache, and no failing call closes it under the tunnel.            *)
Http1TunnelPrivate ==
  \A p \in Callers : OwnsConn(p) =>
    /\ raw[mine[p]] = "open" /\ cache # mine[p]
    /\ \A q \in Callers \ {p} : mine[q] # mine[p]

(* Every way out of a call but two closes what the call opened: a fresh     *)
(* connection that nobody works on is the cached one, or one that a later   *)
(* Store displaced, or that of a plain request over HTTP/1.1.               *)
Uses(p, c) == mine[p] = c /\ (pc[p] = "done" => result[p] = "conn")
LeftOpenOnPurpose ==
  \A c \in Conns : raw[c] = "open" => c = cache \/ c \in left \/ \E p \in Callers : Uses(p, c)

(* Once a shared connection is gone, because a failing call closed it or    *)
(* the peer left, calls stop trying it: a dead cache entry cannot make      *)
(* every later dial fail first.                                             *)
Gone(c) == h2[c] # "none" /\ (raw[c] = "closed" \/ ~link[c])
AbandonsDeadConn ==
  \A c \in Conns : Gone(c) ~> [](\A p \in Callers : At(p, "cached") => mine[p] # c)

(* httpclient.go:183 says of a cached connection that failed: "carry on and *)
(* try again", so a call leaves it with a tunnel or goes on to dial.        *)
CachedFailureRetries ==
  [][\A p \in Callers : At(p, "cached") /\ pc'[p] = "done" => result'[p] = "conn"]_vars
=============================================================================
