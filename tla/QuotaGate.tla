------------------------------ MODULE QuotaGate ------------------------------
(***************************************************************************)
(* The traffic quota of checkCredentials in forwardproxy/forwardproxy.go   *)
(* on top of the counters it reads: a tunnel is admitted by the total of   *)
(* its user at that moment, and its copy loops then add to that total,     *)
(* whatever it becomes, while the writer saves and resets it and the       *)
(* process may be lost and read the totals back.                           *)
(***************************************************************************)
EXTENDS TrafficStats

CONSTANTS
  Quota,   \* per username its traffic_quota, 0 for none
  Pairs,   \* the tunnels, each as the set of its copy loops
  Closed   \* the username of a copy loop that does not run

ASSUME QuotaAssumption ==
  Quota \in [Users -> Nat] /\ Pairs \subseteq SUBSET Streams /\ Closed \notin Users

VARIABLE open  \* per copy loop, the username it adds for

gateVars == <<vars, open>>

GateInit == Init /\ open = [s \in Streams |-> Closed]

\* Faulty: the last byte of the quota does not count.
ExceededBeyond(name) == Quota[name] > 0 /\ name \in DOMAIN counters /\ counters[name] > Quota[name]
Exceeded(name)       == Quota[name] > 0 /\ name \in DOMAIN counters /\ counters[name] >= Quota[name]

\* The quota is looked at once, before the tunnel is dialled.
Admit(pair, name) ==
  /\ wpc # "down" /\ \A s \in pair : open[s] = Closed
  /\ ~Exceeded(name)
  /\ open' = [s \in Streams |-> IF s \in pair THEN name ELSE open[s]]
  /\ UNCHANGED vars

Count(s) ==
  /\ open[s] # Closed
  /\ \E n \in 1 .. MaxChunk : FindCounter(s, open[s], n)
  /\ UNCHANGED open

\* A copy loop ends by itself, its counts added.
End(s) ==
  /\ open[s] # Closed /\ pend[s].n = 0
  /\ open' = [open EXCEPT ![s] = Closed]
  /\ UNCHANGED vars

Die == Crash /\ open' = [s \in Streams |-> Closed]

GateNext ==
  \/ \E pair \in Pairs, name \in Users : Admit(pair, name)
  \/ \E s \in Streams : Count(s) \/ End(s) \/ (AddBytes(s) /\ UNCHANGED open)
  \/ Die
  \/ (Boot \/ NextDay \/ Writer) /\ UNCHANGED open

GateSpec == GateInit /\ [][GateNext]_gateVars

-----------------------------------------------------------------------------
(* Properties.                                                             *)

\* From the zeroing of the counters to the rename that settles the reset, or
\* to the end of its rollback, the counters lag behind the stats file.
TotalsAreOut == \/ wpc \in {"zero", "rollback"}
                \/ inReset /\ wpc \in {"collect", "write", "rename"}

(* Nobody is admitted whose saved total has reached the quota, though the   *)
(* gate reads the counters and not the file, and whatever tunnels, ticks,   *)
(* crashes and restarts came between the two: except in the middle of a     *)
(* reset, and in a process that could not read the file when it started.    *)
NoAdmissionAtQuota ==
  [][\A s \in Streams :
       open[s] = Closed /\ open'[s] # Closed /\ ~TotalsAreOut /\ ~blind =>
         (Quota[open'[s]] = 0 \/ Saved(open'[s]) < Quota[open'[s]])]_gateVars
=============================================================================
