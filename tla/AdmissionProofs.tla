--------------------------- MODULE AdmissionProofs ---------------------------
(* Theorems about Admission, for any users, quotas and number of requests.  *)
(* TypeOK is inductive as it stands; the other two properties follow from   *)
(* what each place of a request implies about its credentials and reply.    *)
EXTENDS Admission, TLAPS

LEMMA InitTypes == Init => TypeOK
  BY QuotaAssumption DEF Init, TypeOK, NoUser, Shapes, NoShape, NoReset, Replies

LEMMA NextTypes == TypeOK /\ [Next]_vars => TypeOK'
<1> SUFFICES ASSUME TypeOK, [Next]_vars PROVE TypeOK'
  OBVIOUS
<1> USE DEF TypeOK
<1>1. ASSUME NEW r \in Requests, NEW s \in Shapes, NEW c \in Users \cup NoUser, Arrive(r, s, c)
      PROVE  TypeOK'
  BY <1>1, QuotaAssumption DEF Arrive, config, bytes
<1>2. ASSUME NEW r \in Requests, Serve(r) PROVE TypeOK'
  <2>1. CASE CheckCredentials(r)
    <3>1. CredentialError(cred[r]) \in {"nil", "credentials", "quota"}
      BY DEF CredentialError, OverQuota
    <3> QED BY <2>1, <3>1 DEF CheckCredentials, config, bytes
  <2>2. ASSUME NEW what \in Replies, Respond(r, what) PROVE TypeOK'
    BY <2>2 DEF Respond, config, request, bytes
  <2>3. CASE ServeHiddenPage(r)
    BY <2>2, <2>3 DEF ServeHiddenPage, Replies
  <2>4. CASE ServeSite(r)
    BY <2>2, <2>4 DEF ServeSite, Replies
  <2>5. CASE RefuseCredentials(r)
    BY <2>2, <2>5 DEF RefuseCredentials, RefusalReply, Replies
  <2>6. CASE RejectForm(r)
    BY <2>2, <2>6 DEF RejectForm, Replies
  <2>7. CASE AcceptConnect(r)
    BY <2>2, <2>7 DEF AcceptConnect, Replies, config, request, bytes
  <2>8. CASE Dial(r)
    BY <2>8 DEF Dial, config, request, bytes
  <2>9. CASE AcceptPlain(r)
    BY <2>9 DEF AcceptPlain, config, request, bytes
  <2>10. CASE ForwardPlain(r)
    BY <2>2, <2>10 DEF ForwardPlain, PlainReplies, Replies
  <2>11. CASE CountBytes(r)
    <3>1. CASE cred[r] \in Users
      BY <2>11, <3>1, QuotaAssumption DEF CountBytes, config, request
    <3>2. CASE cred[r] \notin Users
      BY <2>11, <3>2, QuotaAssumption DEF CountBytes, config, request
    <3> QED BY <3>1, <3>2
  <2>12. CASE EndTunnel(r)
    BY <2>12 DEF EndTunnel, config, request, bytes
  <2>13. CASE Finish(r)
    BY <2>13 DEF Finish, config, bytes, NoUser, Replies
  <2> QED BY <1>2, <2>1, <2>3, <2>4, <2>5, <2>6, <2>7, <2>8, <2>9, <2>10,
             <2>11, <2>12, <2>13 DEF Serve
<1>3. ASSUME NEW u \in Users, ZeroCounter(u) PROVE TypeOK'
  BY <1>3, QuotaAssumption DEF ZeroCounter, NoReset, config, request
<1>4. ASSUME NEW u \in Users, KeepZero(u) PROVE TypeOK'
  BY <1>4, QuotaAssumption DEF KeepZero, NoReset, config, request
<1>5. ASSUME NEW u \in Users, RollBack(u) PROVE TypeOK'
  BY <1>5, QuotaAssumption DEF RollBack, Restored, NoReset, config, request
<1>6. CASE UNCHANGED vars
  BY <1>6 DEF vars, config, request, bytes
<1> QED BY <1>1, <1>2, <1>3, <1>4, <1>5, <1>6 DEF Next

(* Every variable keeps its type and no counter exceeds what was moved.     *)
THEOREM AdmissionTypeCorrect == Spec => []TypeOK
  BY InitTypes, NextTypes, PTL DEF Spec

-----------------------------------------------------------------------------
(* A request that came over quota is over quota as long as no reset touches *)
(* the counter, so the check that precedes the network refuses it.          *)
Overdue == \A r \in Requests : late[r] => cred[r] \in Users /\ OverQuota(cred[r])
Credited == \A r \in Requests :
              /\ phase[r] \in {"dial", "plain", "tunnel"} => ~Refused(r)
              /\ auth /\ ~Refused(r) /\ phase[r] \in {"route", "dial", "plain", "tunnel"}
                   => cred[r] \in Users /\ ~late[r]

(* What a refused request has been told depends on its shape alone.         *)
Told == \A r \in Requests :
          probe # "off" /\ phase[r] = "done" /\ Refused(r) =>
            reply[r] = IF NamesSecret(r) THEN "hidden407"
                       ELSE IF shape[r].target = "pac" THEN "pac" ELSE "next"

AdmissionInv == TypeOK /\ Overdue /\ Credited /\ Told

LEMMA InitAdmission == Init => AdmissionInv
  BY InitTypes DEF Init, AdmissionInv, Overdue, Credited, Told, Refused

LEMMA NextAdmission == AdmissionInv /\ [Next]_vars => AdmissionInv'
<1> SUFFICES ASSUME AdmissionInv, [Next]_vars PROVE AdmissionInv'
  OBVIOUS
<1>0. TypeOK'
  BY NextTypes DEF AdmissionInv
<1> USE DEF AdmissionInv, TypeOK, Overdue, Credited, Told, Refused, NamesSecret, OverQuota
<1>1. ASSUME NEW r \in Requests, NEW s \in Shapes, NEW c \in Users \cup NoUser, Arrive(r, s, c)
      PROVE  AdmissionInv'
  <2>1. /\ phase' = [phase EXCEPT ![r] = "new"] /\ cred' = [cred EXCEPT ![r] = c]
        /\ late' = [late EXCEPT ![r] = c \in Users /\ Quota[c] > 0 /\ used[c] >= Quota[c]]
        /\ UNCHANGED <<auth, probe, authErr, reply, used>>
        /\ \A q \in Requests \ {r} : shape'[q] = shape[q]
    BY <1>1 DEF Arrive, config, bytes
  <2>2. Overdue'
    BY <2>1
  <2>3. Credited'
    BY <2>1
  <2>4. Told'
    BY <2>1
  <2> QED BY <1>0, <2>2, <2>3, <2>4
<1>2. ASSUME NEW r \in Requests, Serve(r) PROVE AdmissionInv'
  <2>1. CASE CheckCredentials(r)
    BY <1>0, <2>1 DEF CheckCredentials, CredentialError, config, bytes
  <2>2. ASSUME NEW what \in Replies, Respond(r, what),
               probe # "off" /\ Refused(r) =>
                 what = IF NamesSecret(r) THEN "hidden407"
                        ELSE IF shape[r].target = "pac" THEN "pac" ELSE "next"
        PROVE  AdmissionInv'
    BY <1>0, <2>2 DEF Respond, config, request, bytes
  <2>3. CASE ServeHiddenPage(r)
    BY <2>2, <2>3 DEF ServeHiddenPage, Replies
  <2>4. CASE ServeSite(r)
    BY <2>2, <2>4 DEF ServeSite, Replies
  <2>5. CASE RefuseCredentials(r)
    BY <2>2, <2>5 DEF RefuseCredentials, RefusalReply, NamesSite, Replies
  <2>6. CASE RejectForm(r)
    BY <2>2, <2>6 DEF RejectForm, Admitted, Replies
  <2>7. CASE AcceptConnect(r)
    <3>1. CASE Respond(r, "500")
      BY <2>2, <2>7, <3>1 DEF AcceptConnect, Admitted, Replies
    <3>2. CASE ~Respond(r, "500")
      BY <1>0, <2>7, <3>2 DEF AcceptConnect, Admitted, config, request, bytes
    <3> QED BY <3>1, <3>2
  <2>8. CASE Dial(r)
    BY <1>0, <2>8 DEF Dial, config, request, bytes
  <2>9. CASE AcceptPlain(r)
    BY <1>0, <2>9 DEF AcceptPlain, Admitted, config, request, bytes
  <2>10. CASE ForwardPlain(r)
    BY <2>2, <2>10 DEF ForwardPlain, PlainReplies, Replies
  <2>11. CASE CountBytes(r)
    <3>1. cred[r] \in Users
      <4>1. auth /\ ~Refused(r) /\ phase[r] = "tunnel"
        BY <2>11 DEF CountBytes
      <4> QED BY <4>1
    <3>2. used' = [used EXCEPT ![cred[r]] = used[cred[r]] + 1]
      BY <2>11 DEF CountBytes
    <3>3. UNCHANGED <<auth, probe, phase, shape, cred, authErr, reply, late>>
      BY <2>11 DEF CountBytes, config, request
    <3>4. \A u \in Users : used[u] \in Nat /\ used'[u] \in Nat /\ used'[u] >= used[u]
      BY <3>1, <3>2
    <3>5. Overdue'
      BY <3>3, <3>4, QuotaAssumption
    <3>6. Credited' /\ Told'
      BY <3>3
    <3> QED BY <1>0, <3>5, <3>6
  <2>12. CASE EndTunnel(r)
    BY <1>0, <2>12 DEF EndTunnel, config, request, bytes
  <2>13. CASE Finish(r)
    BY <1>0, <2>13 DEF Finish, config, bytes
  <2> QED BY <1>2, <2>1, <2>3, <2>4, <2>5, <2>6, <2>7, <2>8, <2>9, <2>10,
             <2>11, <2>12, <2>13 DEF Serve
<1>3. ASSUME NEW u \in Users, ZeroCounter(u) PROVE AdmissionInv'
  BY <1>0, <1>3 DEF ZeroCounter, NoReset, config, request
<1>4. ASSUME NEW u \in Users, KeepZero(u) PROVE AdmissionInv'
  BY <1>0, <1>4 DEF KeepZero, NoReset, config, request
<1>5. ASSUME NEW u \in Users, RollBack(u) PROVE AdmissionInv'
  BY <1>0, <1>5 DEF RollBack, config, request
<1>6. CASE UNCHANGED vars
  BY <1>0, <1>6 DEF vars, config, request, bytes
<1> QED BY <1>1, <1>2, <1>3, <1>4, <1>5, <1>6 DEF Next

LEMMA AdmissionHolds == Spec => []AdmissionInv
  BY InitAdmission, NextAdmission, PTL DEF Spec

(* No request reaches the network without credentials, nor one that came    *)
(* over quota, however many run side by side.                               *)
THEOREM AdmittedCorrect == Spec => []OnlyAdmittedReachNetwork
<1>1. AdmissionInv => OnlyAdmittedReachNetwork
  BY DEF AdmissionInv, Credited, OnlyAdmittedReachNetwork
<1> QED BY <1>1, AdmissionHolds, PTL

(* Under probe resistance a refused request learns nothing of the reason.   *)
THEOREM SameFaceCorrect == Spec => []SameFace
<1>1. AdmissionInv => SameFace
  BY DEF AdmissionInv, Told, SameFace, NamesSecret
<1> QED BY <1>1, AdmissionHolds, PTL
=============================================================================
