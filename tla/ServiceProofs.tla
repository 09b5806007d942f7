---------------------------- MODULE ServiceProofs ----------------------------
(***************************************************************************)
(* The gate runs on the accounting as it is: every step of it is a step of *)
(* TrafficStats or leaves that alone.  What was proved of the counters     *)
(* therefore holds behind the gate, for any users, quotas and tunnels.     *)
(* The monitor script is no step of the accounting: it takes the stats     *)
(* file away.  What survives that is proved again, from the same lemmas.   *)
(***************************************************************************)
EXTENDS MonitorScript, TrafficStatsProofs

OpenType == open \in [Streams -> Users \cup {Closed}]

\* A copy loop runs for a username or not at all.
LEMMA OpenTyped == OpenType /\ [GateNext]_gateVars => OpenType'
<1> SUFFICES ASSUME OpenType, [GateNext]_gateVars PROVE OpenType'
  OBVIOUS
<1>1. ASSUME NEW pair \in Pairs, NEW name \in Users, Admit(pair, name) PROVE OpenType'
  BY <1>1 DEF Admit, OpenType
<1>2. ASSUME NEW s \in Streams, End(s) PROVE OpenType'
  BY <1>2 DEF End, OpenType
<1>3. CASE Die
  BY <1>3 DEF Die, OpenType
<1>4. CASE UNCHANGED open
  BY <1>4 DEF OpenType
<1> QED
  BY <1>1, <1>2, <1>3, <1>4 DEF GateNext, gateVars, Count

\* A copy loop adds only as a tunnel of the accounting may add.
LEMMA GateStep == OpenType /\ [GateNext]_gateVars => [Next]_vars
<1> SUFFICES ASSUME OpenType, [GateNext]_gateVars PROVE [Next]_vars
  OBVIOUS
<1>1. ASSUME NEW s \in Streams, Count(s) PROVE Next
  <2>1. open[s] \in Users
    BY <1>1 DEF Count, OpenType
  <2>2. PICK n \in 1 .. MaxChunk : FindCounter(s, open[s], n)
    BY <1>1 DEF Count
  <2> QED
    BY <2>1, <2>2 DEF Next, Tunnels
<1>2. ASSUME NEW s \in Streams, AddBytes(s) PROVE Next
  BY <1>2 DEF Next, Tunnels
<1>3. CASE Die \/ Boot \/ NextDay \/ Writer
  BY <1>3 DEF Die, Next
<1>4. CASE UNCHANGED vars
  BY <1>4
<1> QED
  BY <1>1, <1>2, <1>3, <1>4 DEF GateNext, gateVars, Admit, End

(* The gate leaves the accounting to itself: every behaviour of the two     *)
(* together, seen through the counters and the files, is one of             *)
(* TrafficStats, so that quotas cost no byte and no bill.                   *)
THEOREM GateRefinesStats == GateSpec => Spec
<1>1. GateInit => Init /\ OpenType
  BY DEF GateInit, OpenType
<1> QED
  BY <1>1, OpenTyped, GateStep, PTL DEF GateSpec, Spec

\* A user the gate lets in has saved less than his quota, if the counters hold
\* what the file holds.
LEMMA AdmitsBelow ==
  ASSUME TypeInv, KeepsInv, ~blind, ~TotalsAreOut, NEW pair, NEW name \in Users, Admit(pair, name)
  PROVE  Quota[name] = 0 \/ Saved(name) < Quota[name]
<1>1. Quota[name] \in Nat /\ wpc # "down" /\ ~Exceeded(name)
  BY QuotaAssumption DEF Admit
<1>2. IsTotals(counters) /\ IsTotals(statsFile.totals)
  BY DEF TypeInv, TypeOK, IsFile
<1>3. CASE name \in Accounts
  <2>1. Saved(name) <= At(counters, name)
    BY <1>1, <1>3 DEF KeepsInv, Kept, KeepsAt, TotalsAreOut, InWrite
  <2>2. At(counters, name) \in Nat /\ Saved(name) \in Nat
    BY <1>2, AtNat DEF Saved
  <2>3. Quota[name] > 0 => At(counters, name) < Quota[name]
    <3>1. CASE name \in DOMAIN counters
      BY <1>1, <2>2, <3>1, AtKey DEF Exceeded
    <3>2. CASE name \notin DOMAIN counters
      BY <3>2, AtNoKey
    <3> QED
      BY <3>1, <3>2
  <2> QED
    BY <1>1, <2>1, <2>2, <2>3
<1>4. CASE name \notin Accounts
  BY <1>1, <1>2, <1>4 DEF Saved, At, IsTotals
<1> QED
  BY <1>3, <1>4

\* What one step of the gate may do to a copy loop.
QuotaStep ==
  \A s \in Streams :
    open[s] = Closed /\ open'[s] # Closed /\ ~TotalsAreOut /\ ~blind =>
      (Quota[open'[s]] = 0 \/ Saved(open'[s]) < Quota[open'[s]])

LEMMA GateQuota == OpenType /\ TypeInv /\ KeepsInv /\ [GateNext]_gateVars => QuotaStep
<1> SUFFICES ASSUME OpenType, TypeInv, KeepsInv, [GateNext]_gateVars,
                    NEW s \in Streams, open[s] = Closed, open'[s] # Closed, ~TotalsAreOut, ~blind
             PROVE  Quota[open'[s]] = 0 \/ Saved(open'[s]) < Quota[open'[s]]
  BY DEF QuotaStep
<1>1. ASSUME NEW pair \in Pairs, NEW name \in Users, Admit(pair, name)
      PROVE  Quota[open'[s]] = 0 \/ Saved(open'[s]) < Quota[open'[s]]
  <2>1. open'[s] = name
    BY <1>1 DEF Admit
  <2> QED
    BY <1>1, <2>1, AdmitsBelow
<1>2. \A t \in Streams : End(t) => open'[s] = Closed
  BY DEF End, OpenType
<1>3. Die => open'[s] = Closed
  BY DEF Die
<1>4. open' # open
  OBVIOUS
<1> QED
  BY <1>1, <1>2, <1>3, <1>4 DEF GateNext, gateVars, Count

(* The quota holds against the durable total, though checkCredentials reads *)
(* only the counters: a restart, a crash or a tick between the bytes and    *)
(* the next CONNECT lets nobody in whose saved total has reached the quota. *)
THEOREM QuotaCorrect == GateSpec => NoAdmissionAtQuota
<1>1. GateInit => OpenType
  BY DEF GateInit, OpenType
<1>2. GateSpec => [](OpenType /\ TypeInv /\ KeepsInv)
  BY <1>1, OpenTyped, GateRefinesStats, TypeInvariant, KeepsInvariant, PTL DEF GateSpec
<1>3. GateSpec => [][QuotaStep]_gateVars
  BY <1>2, GateQuota, PTL DEF GateSpec
<1> QED
  BY <1>3 DEF NoAdmissionAtQuota, QuotaStep

-----------------------------------------------------------------------------
(* The service with the script beside it.                                  *)

\* The script leaves the proxy alone but for one step, which takes the file.
LEMMA ScriptStep ==
  [ScriptNext]_scriptVars => [GateNext]_gateVars \/ Remove
  BY DEF ScriptNext, scriptVars, CopyFile, Decline, Kill, GateNext, ProxyStep

\* No file holds nothing, so that its removal keeps the accounting's own
\* invariants but one: that a month once settled has a file.
ServiceInv == OpenType /\ TypeInv /\ FileSound /\ KeepsInv

LEMMA RemoveService == ServiceInv /\ Remove => ServiceInv'
<1> SUFFICES ASSUME ServiceInv, Remove PROVE ServiceInv'
  OBVIOUS
<1> USE DEF ServiceInv
<1>1. statsFile' = NoFile /\ UNCHANGED <<memory, writer, archive, guardFile, today, history, open>>
  BY DEF Remove, FileRemoved
<1>2. TypeInv'
  BY <1>1, FileKinds
  DEF TypeInv, TypeOK, ResetLocals, HasDate, Resetting, memory, writer, history
<1>3. OpenType' /\ FileSound'
  BY <1>1 DEF OpenType, FileSound
<1>4. KeepsInv'
  <2>1. \A a \in Accounts : Saved(a)' = 0
    BY <1>1, EmptyTotals DEF Saved, NoFile
  <2>2. \A a \in Accounts : /\ At(counters, a) \in Nat /\ At(snap, a) \in Nat
                            /\ At(image, a) \in Nat
    BY AtNat DEF TypeInv, TypeOK
  <2>3. ImageBehind'
    BY <1>1 DEF KeepsInv, ImageBehind, InWrite, memory, writer
  <2>4. Kept'
    BY <1>1, <2>1, <2>2 DEF Kept, KeepsAt, HasSnap, InWrite, memory, writer
  <2> QED
    BY <2>3, <2>4 DEF KeepsInv
<1> QED
  BY <1>2, <1>3, <1>4

LEMMA ServiceInvariant == ScriptSpec => []ServiceInv
<1>1. ScriptInit => ServiceInv
  <2> SUFFICES ASSUME ScriptInit PROVE ServiceInv
    OBVIOUS
  <2>1. Init /\ OpenType
    BY DEF ScriptInit, GateInit, OpenType
  <2>2. FileSound
    BY <2>1 DEF Init, FileSound
  <2> QED
    BY <2>1, <2>2, InitType, InitKeeps DEF ServiceInv
<1>2. ServiceInv /\ [GateNext]_gateVars => ServiceInv'
  BY OpenTyped, GateStep, NextType, NextSound, NextKeeps DEF ServiceInv
<1> QED
  BY <1>1, <1>2, ScriptStep, RemoveService, PTL DEF ScriptSpec

(* A reset by hand lets nobody in either whose saved total has reached his  *)
(* quota, wherever the script is when the proxy starts, ticks or is killed. *)
THEOREM QuotaWithScript == ScriptSpec => NoAdmissionAtQuota
<1>1. Remove => UNCHANGED open
  BY DEF Remove
<1>2. UNCHANGED open => QuotaStep
  BY DEF QuotaStep
<1>3. ServiceInv /\ [ScriptNext]_scriptVars => QuotaStep
  BY <1>1, <1>2, ScriptStep, GateQuota DEF ServiceInv
<1>4. ScriptSpec => [][QuotaStep]_gateVars
  BY <1>3, ServiceInvariant, PTL DEF ScriptSpec
<1> QED
  BY <1>4 DEF NoAdmissionAtQuota, QuotaStep

-----------------------------------------------------------------------------
(* Resets by hand.  What the copy holds is bounded like a snapshot: while   *)
(* the operator is being asked nothing else is billed, and the counts only  *)
(* grow.  When the file goes the process is gone too, and all its counters. *)

DownEmpty == wpc = "down" => counters = Empty

HandInv ==
  /\ manual \in [Accounts -> Nat] /\ IsTotals(copy) /\ overlap \in BOOLEAN
  /\ ~overlap => BillingInv(manual)
  /\ ~overlap /\ spc # "idle" => \A a \in Accounts : Within(manual, a, At(copy, a))

LEMMA NextDownEmpty == DownEmpty /\ [Next]_vars => DownEmpty'
  BY DEF DownEmpty, Next, Tunnels, FindCounter, AddBytes, Boot, Crash, NextDay, Writer, Tick,
         InitGuard, SkipReset, BeginReset, ResetStep, SnapshotKey, ZeroKey, RollbackKey,
         EndSnapshot, OpenArchive, FillArchive, AbortReset, EndZero, EndRollback,
         SaveGuard, WriteStep, CollectKey, EndCollect, WriteTmp, EnterWrite, LeaveWrite,
         RenameOfPeriodicWrite, RenameOfReset, FailPeriodicWrite, FailResetWrite, WriteFailed,
         writer, memory, vars, outside

\* A count is never taken back.
LEMMA CountedGrows ==
  ASSUME TypeInv, [Next]_vars, NEW a \in Accounts
  PROVE  counted[a] \in Nat /\ counted'[a] \in Nat /\ counted[a] <= counted'[a]
<1>1. counted \in [Accounts -> Nat] /\ pend \in [Streams -> [acct : Accounts, n : Nat]]
  BY DEF TypeInv, TypeOK
<1>2. ASSUME NEW s \in Streams, AddBytes(s) PROVE counted[a] <= counted'[a] /\ counted'[a] \in Nat
  BY <1>1, <1>2 DEF AddBytes
<1>3. CASE UNCHANGED counted
  BY <1>1, <1>3
<1>4. (\E s \in Streams : AddBytes(s)) \/ UNCHANGED counted
  BY DEF Next, Tunnels, FindCounter, Boot, Crash, NextDay, Writer, Tick,
         InitGuard, SkipReset, BeginReset, ResetStep, SnapshotKey, ZeroKey, RollbackKey,
         EndSnapshot, OpenArchive, FillArchive, AbortReset, EndZero, EndRollback,
         SaveGuard, WriteStep, CollectKey, EndCollect, WriteTmp,
         RenameOfPeriodicWrite, RenameOfReset, FailPeriodicWrite, FailResetWrite,
         vars, outside, history
<1> QED
  BY <1>1, <1>2, <1>3, <1>4

\* The proxy beside the script; m is what resets by hand have billed.
LEMMA ProxyHand ==
  ASSUME NEW m \in [Accounts -> Nat], manual = m, manual' = m, UNCHANGED copy,
         TypeInv, TypeInv', HandInv, [Next]_vars, overlap' \in BOOLEAN,
         ~overlap' => ~overlap /\ (spc' # "idle" => spc # "idle" /\ billed' = billed)
  PROVE  HandInv'
<1>1. ~overlap' => BillingInv(m)'
  BY NextBilling DEF HandInv
<1>2. ASSUME ~overlap', spc' # "idle", NEW a \in Accounts PROVE Within(m, a, At(copy, a))'
  <2>1. m[a] + billed[a] + At(copy, a) <= counted[a]
    BY <1>2 DEF HandInv, Within
  <2>2. counted[a] \in Nat /\ counted'[a] \in Nat /\ counted[a] <= counted'[a]
    BY CountedGrows
  <2>3. At(copy, a) \in Nat /\ billed[a] \in Nat /\ m[a] \in Nat
    BY AtNat DEF HandInv, TypeInv, TypeOK
  <2>4. billed' = billed
    BY <1>2
  <2> QED
    BY <2>1, <2>2, <2>3, <2>4 DEF Within
<1> QED
  BY <1>1, <1>2 DEF HandInv

LEMMA RemoveHand == TypeInv /\ DownEmpty /\ HandInv /\ Remove => HandInv'
<1> SUFFICES ASSUME TypeInv, DownEmpty, HandInv, Remove PROVE HandInv'
  OBVIOUS
<1>1. /\ spc # "idle" /\ spc' = "idle" /\ statsFile' = NoFile
      /\ manual' = [a \in Accounts |-> manual[a] + At(copy, a)]
      /\ overlap' = (overlap \/ wpc # "down")
      /\ UNCHANGED <<memory, writer, history, copy>>
  BY DEF Remove, FileRemoved
<1>2. manual' \in [Accounts -> Nat] /\ IsTotals(copy') /\ overlap' \in BOOLEAN
  BY <1>1, AtNat DEF HandInv
<1>3. ASSUME ~overlap' PROVE BillingInv(manual)'
  <2>1. wpc = "down" /\ ~overlap
    BY <1>1, <1>3
  <2>2. ASSUME NEW a \in Accounts PROVE BillingAt(manual, a)'
    <3>1. manual'[a] + billed'[a] + 0 <= counted'[a]
      <4>1. manual[a] + billed[a] + At(copy, a) <= counted[a]
        BY <1>1, <2>1 DEF HandInv, Within
      <4>2. manual[a] \in Nat /\ billed[a] \in Nat /\ At(copy, a) \in Nat /\ counted[a] \in Nat
        BY AtNat DEF HandInv, TypeInv, TypeOK
      <4> QED
        BY <1>1, <4>1, <4>2 DEF history
    <3>2. Saved(a)' = 0 /\ At(counters', a) = 0
      BY <1>1, <2>1, EmptyTotals DEF Saved, NoFile, DownEmpty, memory
    <3> QED
      BY <1>1, <2>1, <3>1, <3>2 DEF BillingAt, Within, HasSnap, InWrite, writer
  <2> QED
    BY <1>1, <2>1, <2>2 DEF BillingInv, HasArchive, InWrite, writer
<1> QED
  BY <1>1, <1>2, <1>3 DEF HandInv

LEMMA NextHand ==
  /\ OpenType /\ TypeInv /\ TypeInv' /\ DownEmpty /\ HandInv
  /\ [ScriptNext]_scriptVars
  => HandInv'
<1> SUFFICES ASSUME OpenType, TypeInv, TypeInv', DownEmpty, HandInv,
                    [ScriptNext]_scriptVars
             PROVE  HandInv'
  OBVIOUS
<1>m. PICK m \in [Accounts -> Nat] : manual = m
  BY DEF HandInv
<1>1. CASE Remove
  BY <1>1, RemoveHand
<1>2. CASE CopyFile
  <2>1. /\ copy' = statsFile.totals /\ IsTotals(copy')
        /\ UNCHANGED <<vars, manual, overlap>>
    BY <1>2 DEF CopyFile, gateVars, byHand, TypeInv, TypeOK, IsFile
  <2>2. ASSUME ~overlap PROVE BillingInv(manual)'
    <3>1. BillingInv(m)
      BY <1>m, <2>2 DEF HandInv
    <3>2. BillingInv(m)'
      BY <2>1, <3>1, NextBilling
    <3> QED
      BY <1>m, <2>1, <3>2
  <2>3. ASSUME ~overlap, NEW a \in Accounts PROVE Within(manual, a, At(copy, a))'
    BY <2>1, <2>3 DEF HandInv, BillingInv, BillingAt, Within, Saved, vars, history
  <2> QED
    BY <2>1, <2>2, <2>3 DEF HandInv
<1>3. CASE Decline \/ Kill \/ ProxyStep \/ UNCHANGED scriptVars
  <2>1. [Next]_vars
    BY <1>3, GateStep DEF Decline, Kill, ProxyStep, scriptVars, GateNext
  <2>2. /\ manual' = m /\ UNCHANGED copy /\ overlap' \in BOOLEAN
        /\ ~overlap' => ~overlap /\ (spc' # "idle" => spc # "idle" /\ billed' = billed)
    <3>1. CASE Decline \/ Kill \/ UNCHANGED scriptVars
      <4>1. manual' = m /\ UNCHANGED <<copy, overlap, billed>> /\ (spc' # "idle" => spc # "idle")
        BY <3>1, <1>m
        DEF Decline, Kill, Die, Crash, scriptVars, gateVars, vars, history, script, byHand
      <4> QED
        BY <4>1 DEF HandInv
    <3>2. CASE ProxyStep
      <4>1. /\ manual' = m /\ UNCHANGED <<copy, spc>>
            /\ overlap' = (overlap \/ (spc # "idle" /\ billed' # billed))
        BY <3>2, <1>m DEF ProxyStep, script
      <4> QED
        BY <4>1 DEF HandInv
    <3> QED
      BY <1>3, <3>1, <3>2
  <2> QED
    BY <1>m, <2>1, <2>2, ProxyHand
<1> QED
  BY <1>1, <1>2, <1>3 DEF ScriptNext

(* Between the archives of finished resets by schedule and those by hand no *)
(* byte is there twice, for any number of runs of the script, declined or   *)
(* not, killed proxies, restarts and file errors, as long as the daemon     *)
(* settles nothing meanwhile and is gone when the file is removed.          *)
THEOREM HandBillingCorrect == ScriptSpec => []BilledOnceByHand
<1>1. ScriptInit => DownEmpty /\ HandInv /\ ArchiveInv
  <2> SUFFICES ASSUME ScriptInit PROVE DownEmpty /\ HandInv /\ ArchiveInv
    OBVIOUS
  <2>1. Init /\ manual = Nothing /\ copy = Empty /\ spc = "idle" /\ overlap = FALSE
    BY DEF ScriptInit, GateInit, Nothing
  <2>2. Nothing \in [Accounts -> Nat] /\ IsTotals(Empty)
    BY EmptyTotals DEF Nothing
  <2>3. BillingInv(Nothing) /\ DownEmpty
    BY <2>1, InitBilling DEF Init, DownEmpty
  <2>4. ArchiveInv
    BY <2>1, InitArchive
  <2> QED
    BY <2>1, <2>2, <2>3, <2>4 DEF HandInv
<1>2. ServiceInv /\ ServiceInv' /\ DownEmpty /\ HandInv /\ ArchiveInv
        /\ [ScriptNext]_scriptVars
      => DownEmpty' /\ HandInv' /\ ArchiveInv'
  <2> SUFFICES ASSUME ServiceInv, ServiceInv', DownEmpty, HandInv, ArchiveInv,
                      [ScriptNext]_scriptVars
               PROVE  DownEmpty' /\ HandInv' /\ ArchiveInv'
    OBVIOUS
  <2>1. HandInv'
    BY NextHand DEF ServiceInv
  <2>2. DownEmpty'
    <3>1. CASE Remove
      BY <3>1 DEF Remove, DownEmpty, memory, writer
    <3>2. CASE [GateNext]_gateVars
      BY <3>2, GateStep, NextDownEmpty DEF ServiceInv
    <3> QED
      BY <3>1, <3>2, ScriptStep
  <2>3. ArchiveInv'
    <3>1. CASE Remove
      <4>1. UNCHANGED <<archive, ahead, billed>>
        BY <3>1 DEF Remove, history
      <4> QED
        BY <4>1 DEF ArchiveInv, Archived, InArchives
    <3>2. CASE [GateNext]_gateVars
      <4>1. [Next]_vars
        BY <3>2, GateStep DEF ServiceInv
      <4> QED
        BY <4>1, NextArchive DEF ServiceInv
    <3> QED
      BY <3>1, <3>2, ScriptStep
  <2> QED
    BY <2>1, <2>2, <2>3
<1>3. ServiceInv /\ HandInv /\ ArchiveInv => BilledOnceByHand
  <2> SUFFICES ASSUME ServiceInv, HandInv, ArchiveInv, ~overlap, NEW a \in Accounts
               PROVE  /\ Archived(a) + manual[a] + Saved(a) <= counted[a]
                      /\ ~Resetting => Archived(a) + manual[a] + At(counters, a) <= counted[a]
    BY DEF BilledOnceByHand
  <2>1. /\ manual[a] + billed[a] + Saved(a) <= counted[a]
        /\ ~Resetting => manual[a] + billed[a] + At(counters, a) <= counted[a]
    BY DEF HandInv, BillingInv, BillingAt, Within, Resetting
  <2>2. /\ manual[a] \in Nat /\ billed[a] \in Nat /\ counted[a] \in Nat
        /\ Saved(a) \in Nat /\ At(counters, a) \in Nat
    BY AtNat DEF HandInv, ServiceInv, TypeInv, TypeOK, IsFile, Saved
  <2>3. Archived(a) \in Nat /\ Archived(a) <= billed[a]
    BY InArchivesType, SumNat DEF ArchivesTyped, Archived, ArchiveInv, ServiceInv
  <2> QED
    BY ONLY <2>1, <2>2, <2>3
<1> QED
  BY <1>1, <1>2, <1>3, ServiceInvariant, PTL DEF ScriptSpec
=============================================================================
