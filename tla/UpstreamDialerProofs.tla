----------------------- MODULE UpstreamDialerProofs -----------------------
(***************************************************************************)
(* Proofs about UpstreamDialer for any number of callers and connections.  *)
(***************************************************************************)
EXTENDS UpstreamDialer, TLAPS

Types ==
  /\ raw \in [Conns -> {"unused", "open", "closed"}]
  /\ link \in [Conns -> BOOLEAN]
  /\ h2 \in [Conns -> {"none", "usable", "dead"}]
  /\ cache \in Conns \cup {NoConn}
  /\ pc \in [Callers -> {"idle", "cached", "dial", "newclient", "http1", "http2", "store", "done"}]
  /\ mine \in [Callers -> Conns \cup {NoConn}]
  /\ result \in [Callers -> {"none", "conn", "nil", "error"}]
  /\ nils \in [Conns -> Nat]

\* A connection that nobody opened is in nobody's hands.
UnusedIsFree ==
  /\ \A c \in Conns : raw[c] = "unused" => h2[c] = "none"
  /\ \A p \in Callers : mine[p] \in Conns => raw[mine[p]] # "unused"

\* The cache, and the callers beyond NewClientConn, hold HTTP/2 connections.
SharedIsHttp2 ==
  /\ cache \in Conns => h2[cache] # "none"
  /\ \A p \in Callers : pc[p] \in {"cached", "http2", "store"} =>
       mine[p] \in Conns /\ h2[mine[p]] # "none"

\* Before that, and for the whole of an HTTP/1.1 tunnel, a connection is open
\* and in one caller's hands.
Private(p) == pc[p] \in {"newclient", "http1"} \/ OwnsConn(p)
PrivateIsPrivate ==
  \A p \in Callers : Private(p) =>
    /\ mine[p] \in Conns /\ h2[mine[p]] = "none" /\ raw[mine[p]] = "open"
    /\ \A q \in Callers \ {p} : mine[q] # mine[p]

\* A successful Close has been counted and cannot happen again.
NilMeansClosed ==
  \A c \in Conns : nils[c] <= 1 /\ (nils[c] = 1 => raw[c] = "closed")

\* A call that got a connection has one.
ResultHasConn ==
  \A p \in Callers : pc[p] = "done" /\ result[p] = "conn" => mine[p] \in Conns

\* A connection that was let go is an HTTP/2 connection, or in nobody's hands.
LeftIsFree ==
  /\ left \subseteq Conns
  /\ \A c \in left : raw[c] # "unused" /\ (h2[c] = "none" => \A p \in Callers : mine[p] # c)

\* Who is about to dial has nothing in hand.
IdleHasNone == \A p \in Callers : pc[p] \in {"idle", "dial"} => mine[p] = NoConn

\* A call that opened a connection works on it until it is closed, stored or
\* let go.
Keeps(p, c) == mine[p] = c /\ (pc[p] \in {"http2", "store"} \/ Private(p))
OpenIsKept ==
  \A c \in Conns : raw[c] = "open" => c = cache \/ c \in left \/ \E p \in Callers : Keeps(p, c)

DialerInv ==
  Types /\ UnusedIsFree /\ SharedIsHttp2 /\ PrivateIsPrivate /\ NilMeansClosed /\ ResultHasConn

\* The initial states satisfy the invariant.
LEMMA DialerInit == Init => DialerInv
  BY NoConnAssumption
  DEF Init, DialerInv, Types, UnusedIsFree, SharedIsHttp2, PrivateIsPrivate, Private,
      OwnsConn, At, NilMeansClosed, ResultHasConn

\* Close cannot succeed on a closed connection.
LEMMA ClosesOnce == ASSUME NEW c, TRUE \in CloseOutcomes(c) PROVE raw[c] # "closed"
<1> SUFFICES ASSUME raw[c] = "closed" PROVE FALSE
  OBVIOUS
<1>1. CloseOutcomes(c) = {FALSE}
  BY Zenon DEF CloseOutcomes
<1>2. TRUE # FALSE
  OBVIOUS
<1> QED BY <1>1, <1>2, Zenon

\* Every step of a call, of the peer or of the HTTP/2 reader preserves it.
LEMMA DialerStep == DialerInv /\ LeftIsFree /\ [Next]_vars => DialerInv'
<1> SUFFICES ASSUME DialerInv, LeftIsFree, [Next]_vars PROVE DialerInv'
  OBVIOUS
<1> USE NoConnAssumption
    DEF DialerInv, Types, UnusedIsFree, SharedIsHttp2, PrivateIsPrivate, Private,
        OwnsConn, At, NilMeansClosed, ResultHasConn, conns, calls, Goto, Return
<1>1. ASSUME NEW p \in Callers, Begin(p) PROVE DialerInv'
  BY <1>1, SMTT(60) DEF Begin, CacheIsUsable
<1>2. ASSUME NEW p \in Callers, CachedOk(p) PROVE DialerInv'
  BY <1>2, SMTT(60) DEF CachedOk
<1>3. ASSUME NEW p \in Callers, CachedRefused(p) PROVE DialerInv'
  BY <1>3, SMTT(60) DEF CachedRefused, CloseRaw
<1>4. ASSUME NEW p \in Callers, CachedFailed(p) PROVE DialerInv'
  <2>1. /\ pc[p] = "cached" /\ mine[p] \in Conns /\ h2[mine[p]] # "none"
        /\ raw' = [raw EXCEPT ![mine[p]] = "closed"]
        /\ link' = link /\ h2' = h2 /\ cache' = cache
    BY <1>4 DEF CachedFailed, CloseRaw
  <2>2. CASE TRUE \in CloseOutcomes(mine[p]) /\ ReturnNil(p) /\ UNCHANGED mine
    <3>0. raw[mine[p]] # "closed"
      BY <2>2, ClosesOnce
    <3>1. raw[mine[p]] # "closed" /\ nils[mine[p]] = 0
      BY <2>1, <3>0
    <3> QED BY <2>1, <2>2, <3>1, SMTT(60) DEF ReturnNil
  <2>3. CASE /\ Goto(p, "dial") /\ mine' = [mine EXCEPT ![p] = NoConn]
             /\ UNCHANGED <<result, nils>>
    BY <2>1, <2>3, SMTT(60)
  <2> QED BY <1>4, <2>2, <2>3 DEF CachedFailed
<1>5. ASSUME NEW p \in Callers, DialFailed(p) PROVE DialerInv'
  BY <1>5, SMTT(60) DEF DialFailed
<1>6. ASSUME NEW p \in Callers, NEW c \in Conns, DialOk(p, c) PROVE DialerInv'
  BY <1>6, SMTT(60) DEF DialOk
<1>7. ASSUME NEW p \in Callers, NewClientConn(p) PROVE DialerInv'
  BY <1>7, SMTT(60) DEF NewClientConn
<1>8. ASSUME NEW p \in Callers, Http1Ok(p) PROVE DialerInv'
  BY <1>8, SMTT(60) DEF Http1Ok, AfterHttp1
<1>9. ASSUME NEW p \in Callers, FreshRefused(p) PROVE DialerInv'
  BY <1>9, SMTT(60) DEF FreshRefused, CloseRaw
<1>10. ASSUME NEW p \in Callers, FreshFailed(p) PROVE DialerInv'
  <2>1. CASE ReturnNil(p) /\ TRUE \in CloseOutcomes(mine[p])
    BY <1>10, <2>1, SMTT(60) DEF FreshFailed, CloseRaw, CloseOutcomes, ReturnNil
  <2>2. CASE Return(p, "error") /\ UNCHANGED nils
    BY <1>10, <2>2, SMTT(60) DEF FreshFailed, CloseRaw
  <2> QED BY <1>10, <2>1, <2>2 DEF FreshFailed
<1>11. ASSUME NEW p \in Callers, Http2Ok(p) PROVE DialerInv'
  BY <1>11, SMTT(60) DEF Http2Ok
<1>12. ASSUME NEW p \in Callers, Http2Failed(p) PROVE DialerInv'
  <2>1. /\ pc[p] = "http2" /\ mine[p] \in Conns /\ h2[mine[p]] # "none"
        /\ raw' = [raw EXCEPT ![mine[p]] = "closed"]
        /\ link' = link /\ h2' = h2 /\ cache' = cache /\ mine' = mine
    BY <1>12 DEF Http2Failed, CloseRaw
  <2>2. CASE /\ TRUE \in CloseOutcomes(mine[p]) /\ Goto(p, "store")
             /\ result' = [result EXCEPT ![p] = "nil"]
             /\ nils' = [nils EXCEPT ![mine[p]] = @ + 1]
    <3>0. raw[mine[p]] # "closed"
      BY <2>2, ClosesOnce
    <3>1. raw[mine[p]] # "closed" /\ nils[mine[p]] = 0
      BY <2>1, <3>0
    <3> QED BY <2>1, <2>2, <3>1, SMTT(60)
  <2>3. CASE Return(p, "error") /\ UNCHANGED nils
    BY <2>1, <2>3, SMTT(60)
  <2> QED BY <1>12, <2>2, <2>3 DEF Http2Failed
<1>13. ASSUME NEW p \in Callers, Store(p) PROVE DialerInv'
  BY <1>13, SMTT(60) DEF Store
<1>14. ASSUME NEW p \in Callers, EndTunnel(p) PROVE DialerInv'
  <2>1. CASE OwnsConn(p) /\ CloseRaw(mine[p])
    BY <1>14, <2>1, SMTT(60) DEF EndTunnel, Forget, CloseRaw
  <2>2. CASE ~OwnsConn(p) /\ UNCHANGED raw
    BY <1>14, <2>2, SMTT(60) DEF EndTunnel, Forget
  <2> QED BY <1>14, <2>1, <2>2 DEF EndTunnel
<1>15. ASSUME NEW p \in Callers, EndPlain(p) PROVE DialerInv'
  BY <1>15, SMTT(60) DEF EndPlain, Forget
<1>16. ASSUME NEW c \in Conns, LoseLink(c) PROVE DialerInv'
  BY <1>16, SMTT(60) DEF LoseLink
<1>17. ASSUME NEW c \in Conns, NoticeDead(c) PROVE DialerInv'
  BY <1>17, SMTT(60) DEF NoticeDead, CloseRaw
<1>18. ASSUME NEW c \in Conns, Collect(c) PROVE DialerInv'
  BY <1>18, SMTT(60) DEF Collect, CloseRaw, LeftIsFree
<1>19. CASE UNCHANGED vars
  BY <1>19 DEF vars
<1> QED
  BY <1>1, <1>2, <1>3, <1>4, <1>5, <1>6, <1>7, <1>8, <1>9, <1>10, <1>11, <1>12, <1>13,
     <1>14, <1>15, <1>16, <1>17, <1>18, <1>19 DEF Next, Call

\* Only Store and a plain request let connections go.
LEMMA LeftStep == DialerInv /\ LeftIsFree /\ [Next]_vars => LeftIsFree'
<1> SUFFICES ASSUME DialerInv, LeftIsFree, [Next]_vars PROVE LeftIsFree'
  OBVIOUS
<1> USE NoConnAssumption DEF LeftIsFree
<1>t. Types /\ UnusedIsFree /\ SharedIsHttp2 /\ PrivateIsPrivate
  BY DEF DialerInv
<1>1. CASE \E p \in Callers : Begin(p)
  BY <1>1, <1>t, SMTT(60) DEF Begin, CacheIsUsable, At, conns, Types, SharedIsHttp2
<1>2. CASE \E p \in Callers : \E c \in Conns : DialOk(p, c)
  BY <1>2, <1>t, SMTT(60) DEF DialOk, At, Types
<1>3. CASE \E p \in Callers : NewClientConn(p)
  BY <1>3, <1>t, SMTT(60) DEF NewClientConn, At, Types, PrivateIsPrivate, Private
<1>4. CASE \E p \in Callers : Store(p)
  BY <1>4, <1>t, SMTT(60) DEF Store, At, conns, Types, SharedIsHttp2, UnusedIsFree
<1>5. CASE \E p \in Callers : EndPlain(p)
  BY <1>5, <1>t, SMTT(60) DEF EndPlain, Forget, At, Types, PrivateIsPrivate, Private, UnusedIsFree, OwnsConn
<1>6. CASE \E p \in Callers : EndTunnel(p)
  BY <1>6, <1>t, SMTT(60) DEF EndTunnel, Forget, CloseRaw, Types
<1>7. CASE /\ UNCHANGED <<h2, left>>
           /\ \E c : raw' = raw \/ raw' = [raw EXCEPT ![c] = "closed"]
           /\ mine' = mine \/ \E p : mine' = [mine EXCEPT ![p] = NoConn]
  BY <1>7, <1>t, SMTT(60) DEF Types
<1>8. CASE \E c \in Conns : NoticeDead(c)
  BY <1>8, <1>t, SMTT(60) DEF NoticeDead, CloseRaw, calls, Types
<1>9. ASSUME NEW p \in Callers,
             \/ CachedOk(p) \/ CachedRefused(p) \/ CachedFailed(p) \/ DialFailed(p)
             \/ Http1Ok(p) \/ FreshRefused(p) \/ FreshFailed(p) \/ Http2Ok(p) \/ Http2Failed(p)
      PROVE LeftIsFree'
  BY <1>7, <1>9
  DEF CachedOk, CachedRefused, CachedFailed, DialFailed, Http1Ok, FreshRefused, FreshFailed,
      Http2Ok, Http2Failed, CloseRaw, conns, ReturnNil
<1>10. CASE \E c \in Conns : LoseLink(c) \/ Collect(c)
  BY <1>7, <1>10 DEF LoseLink, Collect, CloseRaw, calls
<1>11. CASE UNCHANGED vars
  BY <1>7, <1>11 DEF vars
<1> QED
  BY <1>1, <1>2, <1>3, <1>4, <1>5, <1>6, <1>8, <1>9, <1>10, <1>11 DEF Next, Call

\* What a failing call does, however its Close turned out.
LEMMA CachedFailedDoes ==
  ASSUME NEW p \in Callers, CachedFailed(p)
  PROVE  /\ pc[p] = "cached" /\ CloseRaw(mine[p]) /\ UNCHANGED <<h2, cache, left>>
         /\ \/ pc' = [pc EXCEPT ![p] = "done"] /\ mine' = mine
               /\ result' = [result EXCEPT ![p] = "nil"]
            \/ pc' = [pc EXCEPT ![p] = "dial"] /\ mine' = [mine EXCEPT ![p] = NoConn]
               /\ result' = result
  BY Zenon DEF CachedFailed, ReturnNil, Return, Goto, At

LEMMA FreshFailedDoes ==
  ASSUME NEW p \in Callers, FreshFailed(p)
  PROVE  /\ pc[p] = "http1" \/ pc[p] = "newclient"
         /\ CloseRaw(mine[p]) /\ UNCHANGED <<h2, cache, left, mine>>
         /\ pc' = [pc EXCEPT ![p] = "done"]
         /\ \/ result' = [result EXCEPT ![p] = "nil"]
            \/ result' = [result EXCEPT ![p] = "error"]
  BY Zenon DEF FreshFailed, ReturnNil, Return, Goto, At

LEMMA Http2FailedDoes ==
  ASSUME NEW p \in Callers, Http2Failed(p)
  PROVE  /\ pc[p] = "http2"
         /\ CloseRaw(mine[p]) /\ UNCHANGED <<h2, cache, left, mine>>
         /\ \/ pc' = [pc EXCEPT ![p] = "store"] /\ result' = [result EXCEPT ![p] = "nil"]
            \/ pc' = [pc EXCEPT ![p] = "done"] /\ result' = [result EXCEPT ![p] = "error"]
  BY Zenon DEF Http2Failed, ReturnNil, Return, Goto, At

\* Callers take connections in hand only to work on them.
LEMMA IdleStep == DialerInv /\ IdleHasNone /\ [Next]_vars => IdleHasNone'
<1> SUFFICES ASSUME Types, IdleHasNone, [Next]_vars PROVE IdleHasNone'
  BY DEF DialerInv
<1> USE DEF Types, IdleHasNone, Goto, Return, At, conns, calls
<1>1. ASSUME NEW p \in Callers, Begin(p) PROVE IdleHasNone'
  BY <1>1, SMTT(60) DEF Begin
<1>2. ASSUME NEW p \in Callers, Call(p) PROVE IdleHasNone'
  <2>1. CASE CachedRefused(p) \/ CachedFailed(p)
    BY <2>1, CachedFailedDoes, SMTT(60) DEF CachedRefused
  <2>2. CASE \E c \in Conns : DialOk(p, c)
    BY <2>2, SMTT(60) DEF DialOk
  <2>3. CASE CachedOk(p) \/ DialFailed(p) \/ Http1Ok(p) \/ FreshRefused(p)
    BY <2>3, SMTT(60) DEF CachedOk, DialFailed, Http1Ok, AfterHttp1, FreshRefused
  <2>4. CASE NewClientConn(p) \/ Http2Ok(p) \/ Store(p)
    BY <2>4, SMTT(60) DEF NewClientConn, Http2Ok, Store
  <2>5. CASE FreshFailed(p)
    BY <2>5, FreshFailedDoes, SMTT(60)
  <2>6. CASE Http2Failed(p)
    BY <2>6, Http2FailedDoes, SMTT(60)
  <2> QED
    BY <1>2, <2>1, <2>2, <2>3, <2>4, <2>5, <2>6 DEF Call
<1>3. ASSUME NEW p \in Callers, EndTunnel(p) \/ EndPlain(p) PROVE IdleHasNone'
  BY <1>3, SMTT(60) DEF EndTunnel, EndPlain, Forget
<1>4. ASSUME NEW c \in Conns, LoseLink(c) \/ NoticeDead(c) \/ Collect(c) PROVE IdleHasNone'
  BY <1>4 DEF LoseLink, NoticeDead, Collect
<1>5. CASE UNCHANGED vars
  BY <1>5 DEF vars
<1> QED
  BY <1>1, <1>2, <1>3, <1>4, <1>5 DEF Next

\* Each step that takes an open connection out of the cache or out of a caller's
\* hands closes it or lets it go.
LEMMA KeptStep == DialerInv /\ IdleHasNone /\ OpenIsKept /\ [Next]_vars => OpenIsKept'
<1> SUFFICES ASSUME DialerInv, IdleHasNone, OpenIsKept, [Next]_vars,
                    NEW k \in Conns, raw'[k] = "open"
             PROVE  k = cache' \/ k \in left' \/ \E q \in Callers : Keeps(q, k)'
  BY DEF OpenIsKept
<1> DEFINE Goal == k = cache' \/ k \in left' \/ \E q \in Callers : Keeps(q, k)'
<1>t. Types /\ SharedIsHttp2 /\ PrivateIsPrivate
  BY DEF DialerInv
<1>k. raw[k] = "open" => k = cache \/ k \in left \/ \E q \in Callers : Keeps(q, k)
  BY DEF OpenIsKept
<1> USE NoConnAssumption DEF Types, Goto, Return, At, conns, calls, Keeps, Private, OwnsConn
<1>1. ASSUME NEW p \in Callers, Begin(p) PROVE Goal
  BY <1>1, <1>t, <1>k, SMTT(60) DEF Begin, IdleHasNone
<1>2. ASSUME NEW p \in Callers, CachedOk(p) \/ CachedRefused(p) PROVE Goal
  BY <1>2, <1>t, <1>k, SMTT(60) DEF CachedOk, CachedRefused, CloseRaw
<1>3. ASSUME NEW p \in Callers, CachedFailed(p) PROVE Goal
  BY <1>3, CachedFailedDoes, <1>t, <1>k, SMTT(60) DEF CloseRaw
<1>4. ASSUME NEW p \in Callers, DialFailed(p) PROVE Goal
  BY <1>4, <1>t, <1>k, SMTT(60) DEF DialFailed
<1>5. ASSUME NEW p \in Callers, NEW c \in Conns, DialOk(p, c) PROVE Goal
  BY <1>5, <1>t, <1>k, SMTT(60) DEF DialOk, IdleHasNone
<1>6. ASSUME NEW p \in Callers, NewClientConn(p) PROVE Goal
  BY <1>6, <1>t, <1>k, SMTT(60) DEF NewClientConn, PrivateIsPrivate
<1>7. ASSUME NEW p \in Callers, Http1Ok(p) PROVE Goal
  BY <1>7, <1>t, <1>k, SMTT(60) DEF Http1Ok, AfterHttp1, PrivateIsPrivate
<1>8. ASSUME NEW p \in Callers, FreshRefused(p) PROVE Goal
  BY <1>8, <1>t, <1>k, SMTT(60) DEF FreshRefused, CloseRaw, PrivateIsPrivate, SharedIsHttp2
<1>9. ASSUME NEW p \in Callers, FreshFailed(p) PROVE Goal
  BY <1>9, FreshFailedDoes, <1>t, <1>k, SMTT(60) DEF CloseRaw, PrivateIsPrivate
<1>10. ASSUME NEW p \in Callers, Http2Ok(p) PROVE Goal
  BY <1>10, <1>t, <1>k, SMTT(60) DEF Http2Ok
<1>11. ASSUME NEW p \in Callers, Http2Failed(p) PROVE Goal
  BY <1>11, Http2FailedDoes, <1>t, <1>k, SMTT(60) DEF CloseRaw, SharedIsHttp2
<1>12. ASSUME NEW p \in Callers, Store(p) PROVE Goal
  BY <1>12, <1>t, <1>k, SMTT(60) DEF Store, SharedIsHttp2
<1>13. ASSUME NEW p \in Callers, EndTunnel(p) PROVE Goal
  BY <1>13, <1>t, <1>k, SMTT(60) DEF EndTunnel, Forget, CloseRaw, PrivateIsPrivate
<1>14. ASSUME NEW p \in Callers, EndPlain(p) PROVE Goal
  BY <1>14, <1>t, <1>k, SMTT(60) DEF EndPlain, Forget
<1>15. ASSUME NEW c \in Conns, LoseLink(c) PROVE Goal
  BY <1>15, <1>t, <1>k DEF LoseLink
<1>16. ASSUME NEW c \in Conns, NoticeDead(c) PROVE Goal
  BY <1>16, <1>t, <1>k, SMTT(60) DEF NoticeDead, CloseRaw
<1>17. ASSUME NEW c \in Conns, Collect(c) PROVE Goal
  BY <1>17, <1>t, <1>k, SMTT(60) DEF Collect, CloseRaw
<1>18. CASE UNCHANGED vars
  BY <1>18, <1>k DEF vars
<1> QED
  BY <1>1, <1>2, <1>3, <1>4, <1>5, <1>6, <1>7, <1>8, <1>9, <1>10, <1>11, <1>12, <1>13,
     <1>14, <1>15, <1>16, <1>17, <1>18 DEF Next, Call

\* The invariant implies the checked properties.
LEMMA DialerMeans == DialerInv /\ LeftIsFree => TypeOK /\ OneNilPerConn /\ Http1TunnelPrivate
<1> SUFFICES ASSUME DialerInv, LeftIsFree PROVE TypeOK /\ OneNilPerConn /\ Http1TunnelPrivate
  OBVIOUS
<1>1. TypeOK
  BY DEF DialerInv, Types, SharedIsHttp2, LeftIsFree, TypeOK
<1>2. OneNilPerConn
  BY DEF DialerInv, NilMeansClosed, OneNilPerConn
<1>3. Http1TunnelPrivate
  BY NoConnAssumption
  DEF DialerInv, SharedIsHttp2, PrivateIsPrivate, Private, OwnsConn, Http1TunnelPrivate
<1> QED BY <1>1, <1>2, <1>3

LEMMA DialerAlways == Spec => [](DialerInv /\ LeftIsFree)
<1>1. Init => LeftIsFree
  BY DEF Init, LeftIsFree
<1> QED
  BY <1>1, DialerInit, DialerStep, LeftStep, PTL DEF Spec

\* The dialer's variables keep their types, and the cache holds nothing but
\* HTTP/2 connections.
THEOREM DialerTypeCorrect == Spec => []TypeOK
  BY DialerAlways, DialerMeans, PTL

\* However many calls share a connection, at most one of them returns
\* (nil, nil) because of it: httpclient.go overwrites the error by that of
\* Close, which succeeds once.
THEOREM OneNilCorrect == Spec => []OneNilPerConn
  BY DialerAlways, DialerMeans, PTL

\* The connection of an HTTP/1.1 tunnel is never cached, shared or closed by
\* another call.
THEOREM Http1Correct == Spec => []Http1TunnelPrivate
  BY DialerAlways, DialerMeans, PTL

\* Whatever fails, and wherever, a call closes what it opened: the connections
\* that stay open unused are those Store displaced and those of plain requests
\* over HTTP/1.1, which serveHTTP never closes.
THEOREM LeftOpenCorrect == Spec => []LeftOpenOnPurpose
<1>1. Init => IdleHasNone /\ OpenIsKept
  BY DEF Init, IdleHasNone, OpenIsKept
<1>2. [](IdleHasNone /\ OpenIsKept => LeftOpenOnPurpose)
  <2>1. IdleHasNone /\ OpenIsKept => LeftOpenOnPurpose
    BY DEF OpenIsKept, LeftOpenOnPurpose, Keeps, Private, OwnsConn, At, Uses
  <2> QED BY <2>1, PTL
<1> QED
  BY <1>1, <1>2, DialerAlways, IdleStep, KeptStep, PTL DEF Spec
=============================================================================
