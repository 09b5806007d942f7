------------------------------ MODULE Admission ------------------------------
(***************************************************************************)
(* ServeHTTP and checkCredentials of forwardproxy/forwardproxy.go: which   *)
(* requests reach the network, and what the others are told.  Requests run *)
(* side by side; tunnels that are open, and the monthly reset, move the    *)
(* counters that the quota check reads.                                    *)
(*                                                                         *)
(* A request is known by its shape (method, what it names, its form) and   *)
(* by the credentials it carries.                                          *)
(***************************************************************************)
EXTENDS Integers

CONSTANTS
  Requests,   \* goroutines serving requests
  Users,      \* users of basic_auth
  Quota,      \* traffic_quota: bytes per user, 0 for no limit
  MaxUsed     \* bound: bytes a counter may hold

NoUser == {"none", "wrong"}     \* no credentials in order; credentials of nobody

ASSUME UsersAssumption == Users \cap NoUser = {}
ASSUME QuotaAssumption == Quota \in [Users -> Nat] /\ MaxUsed \in Nat

\* target: the secret domain, a host of the site, the PAC path there, another host.
\* form: acceptable, an HTTP major version not served, an HTTP/2 CONNECT with a path.
Shapes ==
  [method : {"CONNECT"}, target : {"secret", "own", "other"}, form : {"good", "version", "path"}]
    \cup [method : {"GET"}, target : {"secret", "own", "pac", "other"}, form : {"good", "version"}]

NoReset == -1
NoShape == [method |-> "none", target |-> "none", form |-> "none"]

Replies == {"none", "next", "pac", "hidden", "hidden407", "407", "505", "400",
            "200", "500", "403", "502", "origin", "panic"}

VARIABLES
  auth,       \* is AuthCredentials set?
  probe,      \* ProbeResistance: "off", "on", or "domain" when it has a secret domain
  upstream,   \* is an upstream proxy configured?
  phase,      \* per request: "idle", "new", "route", "dial", "plain", "tunnel", "done"
  shape, cred,
  authErr,    \* per request, the outcome of checkCredentials
  reply,      \* per request, the status or page the client has seen
  used,       \* trafficStats
  taken,      \* per user, the snapshot of a reset under way, or NoReset
  late        \* history: the request arrived over quota, and no reset touched the counter since

config  == <<auth, probe, upstream>>
request == <<shape, cred, authErr>>
bytes   == <<used, taken>>
vars    == <<config, request, bytes, phase, reply, late>>

\* Faulty: a user is over quota only once past it.
PastQuota(u) == Quota[u] > 0 /\ used[u] > Quota[u]
OverQuota(u) == Quota[u] > 0 /\ used[u] >= Quota[u]

Init ==
  /\ auth \in BOOLEAN /\ upstream \in BOOLEAN
  /\ probe \in (IF auth THEN {"off", "on", "domain"} ELSE {"off"})
  /\ phase = [r \in Requests |-> "idle"] /\ reply = [r \in Requests |-> "none"]
  /\ shape = [r \in Requests |-> NoShape] /\ cred = [r \in Requests |-> "none"]
  /\ authErr = [r \in Requests |-> "nil"]
  /\ used = [u \in Users |-> 0] /\ taken = [u \in Users |-> NoReset]
  /\ late = [r \in Requests |-> FALSE]

\* The limit is written out for the history, apart from the code's own test.
Arrive(r, s, c) ==
  /\ phase[r] = "idle"
  /\ phase' = [phase EXCEPT ![r] = "new"]
  /\ shape' = [shape EXCEPT ![r] = s] /\ cred' = [cred EXCEPT ![r] = c]
  /\ late' = [late EXCEPT ![r] = c \in Users /\ Quota[c] > 0 /\ used[c] >= Quota[c]]
  /\ UNCHANGED <<config, bytes, authErr, reply>>

\* The one read of the counter, well before any tunnel opens.
CredentialError(c) ==
  CASE ~auth                           -> "nil"
    [] auth /\ c \notin Users          -> "credentials"
    [] auth /\ c \in Users /\ OverQuota(c)  -> "quota"
    [] auth /\ c \in Users /\ ~OverQuota(c) -> "nil"

CheckCredentials(r) ==
  /\ phase[r] = "new"
  /\ authErr' = [authErr EXCEPT ![r] = CredentialError(cred[r])]
  /\ phase' = [phase EXCEPT ![r] = "route"]
  /\ UNCHANGED <<config, bytes, shape, cred, reply, late>>

Refused(r) == authErr[r] # "nil"

\* Faulty: a user over quota is told so.
RefusalTellsQuota(r) ==
  IF authErr[r] = "quota" THEN "403" ELSE IF probe = "off" THEN "407" ELSE "next"
RefusalReply(r) == IF probe = "off" THEN "407" ELSE "next"

NamesSecret(r) == probe = "domain" /\ shape[r].target = "secret"

\* A request for the site itself; a CONNECT counts as one only when refused.
NamesSite(r) == /\ shape[r].target \in {"own", "pac"}
                /\ shape[r].method # "CONNECT" \/ Refused(r)

Respond(r, what) == /\ phase' = [phase EXCEPT ![r] = "done"]
                    /\ reply' = [reply EXCEPT ![r] = what]
                    /\ UNCHANGED <<config, request, bytes, late>>

ServeHiddenPage(r) ==
  /\ phase[r] = "route" /\ NamesSecret(r)
  /\ Respond(r, IF Refused(r) THEN "hidden407" ELSE "hidden")

ServeSite(r) ==
  /\ phase[r] = "route" /\ ~NamesSecret(r) /\ NamesSite(r)
  /\ Respond(r, IF shape[r].target = "pac" THEN "pac" ELSE "next")

\* Probe resistance: act as if this handler did not exist.
RefuseCredentials(r) ==
  /\ phase[r] = "route" /\ ~NamesSecret(r) /\ ~NamesSite(r) /\ Refused(r)
  /\ Respond(r, RefusalReply(r))

Admitted(r) == phase[r] = "route" /\ ~NamesSecret(r) /\ ~NamesSite(r) /\ ~Refused(r)

RejectForm(r) ==
  /\ Admitted(r)
  /\ \/ shape[r].form = "version" /\ Respond(r, "505")
     \/ shape[r].form = "path" /\ Respond(r, "400")

\* Fast open: 200 is flushed before the target is dialled.
AcceptConnect(r) ==
  /\ Admitted(r) /\ shape[r].method = "CONNECT" /\ shape[r].form = "good"
  /\ \/ /\ phase' = [phase EXCEPT ![r] = "dial"] /\ reply' = [reply EXCEPT ![r] = "200"]
        /\ UNCHANGED <<config, request, bytes, late>>
     \/ Respond(r, "500")

\* dialContextCheckACL; after the 200 a refusal only ends the stream.
Dial(r) ==
  /\ phase[r] = "dial"
  /\ \E p \in {"tunnel", "done"} : phase' = [phase EXCEPT ![r] = p]
  /\ UNCHANGED <<config, request, bytes, reply, late>>

AcceptPlain(r) ==
  /\ Admitted(r) /\ shape[r].method = "GET" /\ shape[r].form = "good"
  /\ phase' = [phase EXCEPT ![r] = "plain"]
  /\ UNCHANGED <<config, request, bytes, reply, late>>

\* Without an upstream the body is read first and the ACL checked by the
\* transport's dial; with one, a connection that is nil without an error is
\* written to all the same.
PlainReplies == IF upstream THEN {"origin", "502", "panic"}
                ELSE {"origin", "400", "403", "502"}

ForwardPlain(r) ==
  /\ phase[r] = "plain"
  /\ \E what \in PlainReplies : Respond(r, what)

CountBytes(r) ==
  /\ phase[r] = "tunnel" /\ auth
  /\ used[cred[r]] < MaxUsed
  /\ used' = [used EXCEPT ![cred[r]] = @ + 1]
  /\ UNCHANGED <<config, request, taken, phase, reply, late>>

EndTunnel(r) ==
  /\ phase[r] = "tunnel"
  /\ phase' = [phase EXCEPT ![r] = "done"]
  /\ UNCHANGED <<config, request, bytes, reply, late>>

Finish(r) ==
  /\ phase[r] = "done"
  /\ phase' = [phase EXCEPT ![r] = "idle"] /\ reply' = [reply EXCEPT ![r] = "none"]
  /\ shape' = [shape EXCEPT ![r] = NoShape] /\ cred' = [cred EXCEPT ![r] = "none"]
  /\ authErr' = [authErr EXCEPT ![r] = "nil"] /\ late' = [late EXCEPT ![r] = FALSE]
  /\ UNCHANGED <<config, bytes>>

\* The reset stores 0, whatever was added since its snapshot...
ZeroCounter(u) ==
  /\ taken[u] = NoReset
  /\ \E n \in 0 .. used[u] : taken' = [taken EXCEPT ![u] = n]
  /\ used' = [used EXCEPT ![u] = 0]
  /\ late' = [r \in Requests |-> late[r] /\ cred[r] # u]
  /\ UNCHANGED <<config, request, phase, reply>>

\* ...and the zeroed totals reach the stats file...
KeepZero(u) ==
  /\ taken[u] # NoReset
  /\ taken' = [taken EXCEPT ![u] = NoReset]
  /\ UNCHANGED <<config, request, used, phase, reply, late>>

\* ...or the snapshot is stored back over what was added meanwhile.
\* Faulty: it is put back twice.
RestoredTwice(u) == taken[u] + taken[u]
Restored(u)      == taken[u]

RollBack(u) ==
  /\ taken[u] # NoReset
  /\ used' = [used EXCEPT ![u] = Restored(u)]
  /\ taken' = [taken EXCEPT ![u] = NoReset]
  /\ late' = [r \in Requests |-> late[r] /\ cred[r] # u]
  /\ UNCHANGED <<config, request, phase, reply>>

Serve(r) == \/ CheckCredentials(r) \/ ServeHiddenPage(r) \/ ServeSite(r)
            \/ RefuseCredentials(r) \/ RejectForm(r) \/ AcceptConnect(r)
            \/ Dial(r) \/ AcceptPlain(r) \/ ForwardPlain(r)
            \/ CountBytes(r) \/ EndTunnel(r) \/ Finish(r)

Next == \/ \E r \in Requests : Serve(r)
        \/ \E r \in Requests, s \in Shapes, c \in Users \cup NoUser : Arrive(r, s, c)
        \/ \E u \in Users : ZeroCounter(u) \/ KeepZero(u) \/ RollBack(u)

Spec == Init /\ [][Next]_vars

-----------------------------------------------------------------------------
(* Properties.                                                             *)

(* Types; a reset, completed or undone, keeps a counter within what was     *)
(* counted.                                                                 *)
TypeOK ==
  /\ auth \in BOOLEAN /\ upstream \in BOOLEAN /\ probe \in {"off", "on", "domain"}
  /\ phase \in [Requests -> {"idle", "new", "route", "dial", "plain", "tunnel", "done"}]
  /\ shape \in [Requests -> Shapes \cup {NoShape}]
  /\ cred \in [Requests -> Users \cup NoUser]
  /\ authErr \in [Requests -> {"nil", "credentials", "quota"}]
  /\ reply \in [Requests -> Replies]
  /\ used \in [Users -> 0 .. MaxUsed]
  /\ taken \in [Users -> (0 .. MaxUsed) \cup {NoReset}]
  /\ late \in [Requests -> BOOLEAN]

(* Whoever has no credentials, and whoever came over quota with no reset    *)
(* touching the counter since, reaches no target: neither other requests    *)
(* nor the time between arrival, check and dial open a way                  *)
(* (checkCredentials, ServeHTTP).                                           *)
OnlyAdmittedReachNetwork ==
  \A r \in Requests :
    auth /\ phase[r] \in {"dial", "plain", "tunnel"} => cred[r] \in Users /\ ~late[r]

(* README.md, Per-User Traffic Quotas: a user over quota is answered like an *)
(* invalid password.  Under probe resistance two refused requests of one    *)
(* shape look the same whatever the reasons, and like the bare site, but    *)
(* for the secret domain and the PAC path.                                  *)
SameFace ==
  probe # "off" =>
    \A r, q \in Requests :
      /\ phase[r] = "done" /\ Refused(r) => reply[r] \in {"next", "pac", "hidden407"}
      /\ /\ phase[r] = "done" /\ Refused(r) /\ phase[q] = "done" /\ Refused(q)
         /\ shape[r] = shape[q]
         => reply[r] = reply[q]
=============================================================================
