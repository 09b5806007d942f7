---------------------------- MODULE MonitorScript ----------------------------
(***************************************************************************)
(* proxy_monitor.sh --archive beside the running proxy: the operator's     *)
(* reset by hand.  The script copies the stats file to an archive of the   *)
(* month, asks, kills the proxy, sleeps two seconds, removes the stats     *)
(* file and starts the proxy again.  Nothing keeps the proxy's own         *)
(* scheduled reset, its ticks or its restarts out of the time in between.  *)
(***************************************************************************)
EXTENDS QuotaGate

CONSTANT MaxRuns  \* bound: times the script is run

ASSUME RunsAssumption == MaxRuns \in Nat

VARIABLES
  spc,     \* where the script is: "idle", "ask", "rm"
  copy,    \* the archive of the month it has just written
  runs,
  manual,  \* history: bytes billed by completed resets by hand
  overlap  \* history: did the daemon write between a copy and its removal?

script     == <<spc, copy, runs>>
byHand     == <<manual, overlap>>
scriptVars == <<gateVars, script, byHand>>

ScriptInit ==
  /\ GateInit
  /\ spc = "idle" /\ copy = Empty /\ runs = 0
  /\ manual = [a \in Accounts |-> 0] /\ overlap = FALSE

\* With no stats file there is nothing to archive; cp reads one version of it,
\* which the daemon replaces but never rewrites.
CopyFile ==
  /\ spc = "idle" /\ runs < MaxRuns
  /\ statsFile.state # "missing"
  /\ copy' = statsFile.totals
  /\ spc' = "ask" /\ runs' = runs + 1
  /\ UNCHANGED <<gateVars, byHand>>

\* The operator keeps the counters: the copy is a snapshot and no bill.
Decline ==
  /\ spc = "ask"
  /\ spc' = "idle"
  /\ UNCHANGED <<gateVars, copy, runs, byHand>>

\* pkill -f 'caddy run': the proxy is down already, dies, or takes longer than
\* the script sleeps.
Kill ==
  /\ spc = "ask"
  /\ spc' = "rm"
  /\ Die \/ UNCHANGED gateVars
  /\ UNCHANGED <<copy, runs, byHand>>

\* Faulty: the proxy is restarted on the file as it was.
FileKept    == statsFile
FileRemoved == NoFile

\* rm -f of the stats file; the guard file beside it stays.
Remove ==
  /\ spc = "rm"
  /\ spc' = "idle"
  /\ statsFile' = FileRemoved
  /\ manual' = [a \in Accounts |-> manual[a] + At(copy, a)]
  /\ overlap' = (overlap \/ wpc # "down")
  /\ UNCHANGED <<memory, writer, archive, guardFile, today, history, open, copy, runs>>

\* The proxy goes on beside the script, and a Boot is also the last step of it.
ProxyStep ==
  /\ GateNext
  /\ overlap' = (overlap \/ (spc # "idle" /\ billed' # billed))
  /\ UNCHANGED <<script, manual>>

ScriptNext == CopyFile \/ Decline \/ Kill \/ Remove \/ ProxyStep

ScriptSpec == ScriptInit /\ [][ScriptNext]_scriptVars

-----------------------------------------------------------------------------
(* Properties.                                                             *)

(* Resets by hand and by schedule bill no byte twice between them, as long  *)
(* as the proxy dies within the sleep and no scheduled reset lands while    *)
(* the operator is being asked: the scheduled archives, those by hand and   *)
(* what is yet to be archived add up to no more than was counted.  Declined *)
(* runs do no harm, nor does the guard file, which a start without a stats  *)
(* file ignores.  A crash does only through the archive of the reset it cut *)
(* short, which Archived leaves out: the script bills its bytes again.      *)
BilledOnceByHand ==
  ~overlap => \A a \in Accounts :
    /\ Archived(a) + manual[a] + Saved(a) <= counted[a]
    /\ ~Resetting => Archived(a) + manual[a] + At(counters, a) <= counted[a]
=============================================================================
