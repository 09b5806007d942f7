---------------------------- MODULE TrafficStats ----------------------------
(***************************************************************************)
(* The per-user traffic accounting of forwardproxy/traffic_stats.go: the   *)
(* counters every tunnel adds to (a sync.Map of atomics), the background   *)
(* goroutine that writes them to the stats file on each tick, and the      *)
(* monthly reset that archives and zeroes them under a date guard.         *)
(*                                                                         *)
(* One process life runs from Boot to Crash; files outlive it.  A step is  *)
(* one atomic access to shared memory or one file operation.  A crash is   *)
(* the loss of the process: what reached a file stays there.               *)
(***************************************************************************)
EXTENDS Integers

CONSTANTS
  Users,        \* usernames a tunnel may carry, NoName among them
  NoName,       \* the empty username
  Unknown,      \* the account that NoName is counted under
  Streams,      \* copy loops, each of which adds to the counters
  MaxChunk,     \* bound: bytes one add may count
  MaxBytes,     \* bound: bytes ever counted for each account
  MaxDay,       \* bound: length of the calendar
  DayOfMonth,   \* the calendar: day of the month of each date
  ResetDay,     \* traffic_reset_day, 0 for no scheduled reset
  Fails,        \* the file operations that may fail
  MayCrash      \* may the process be lost?

Accounts == (Users \ {NoName}) \cup {Unknown}
Dates    == 1 .. MaxDay
NoDate   == 0                                   \* the guard value ""
FileOps  == {"read", "archive", "write", "rename", "guard"}

ASSUME BoundsAssumption  == /\ MaxChunk \in Nat /\ MaxDay \in Nat \ {0}
                            /\ MaxBytes \in [Accounts -> Nat]
ASSUME CalendarAssumption == DayOfMonth \in [Dates -> 1 .. 31] /\ ResetDay \in 0 .. 28
ASSUME FaultAssumption   == Fails \subseteq FileOps /\ MayCrash \in BOOLEAN

-----------------------------------------------------------------------------
(* Totals: what a map[string]int64 or the counters hold, a number of bytes  *)
(* for each account that is a key.                                          *)

IsTotals(t) == DOMAIN t \subseteq Accounts /\ t \in [DOMAIN t -> Nat]
Empty       == [a \in {} |-> 0]
At(t, a)    == IF a \in DOMAIN t THEN t[a] ELSE 0
Put(t, a, n) == [b \in DOMAIN t \cup {a} |-> IF b = a THEN n ELSE t[b]]

IsFile(f) == /\ f = [state |-> f.state, totals |-> f.totals]
             /\ f.state \in {"missing", "torn", "whole"} /\ IsTotals(f.totals)
NoFile   == [state |-> "missing", totals |-> Empty]
TornFile == [state |-> "torn", totals |-> Empty]
Whole(t) == [state |-> "whole", totals |-> t]

AccountOf(name) == IF name = NoName THEN Unknown ELSE name

VARIABLES
  (* memory of the process *)
  counters,   \* trafficStats: account -> bytes
  lastReset,  \* lastResetDate
  pend,       \* per stream, the add that has its counter but has not added yet
  (* local state of the writer goroutine *)
  wpc,        \* where it is; "down" when no process runs
  now,        \* the date sampled by checkAndPerformScheduledReset
  inReset,    \* is the current writeTrafficStats the one of a reset?
  snap,       \* snapshot of the reset
  image,      \* snapshot of writeTrafficStats
  todo,       \* keys the current Range still owes a visit
  (* files *)
  statsFile, archive, guardFile,
  (* the clock *)
  today,
  (* history, read by properties only *)
  counted,    \* bytes ever added for each account
  billed,     \* bytes moved out of the stats file by completed resets
  settled,    \* dates whose reset reached the stats file
  ahead,      \* dates whose archive was filled by a reset that did not get there
  inits,      \* dates the first-run rule recorded as the guard
  atRisk,     \* bytes added while a reset was under way
  blind       \* has this process not seen the stats file it is to replace?

memory  == <<counters, lastReset, pend>>
writer  == <<wpc, now, inReset, snap, image, todo>>
disk    == <<statsFile, archive, guardFile>>
history == <<counted, billed, settled, ahead, inits, atRisk, blind>>
vars    == <<memory, writer, disk, today, history>>
outside == <<memory, disk, today, history>>   \* all but the writer's own state

IdleAdd == [acct |-> Unknown, n |-> 0]
Places  == {"down", "wait", "snapshot", "archive", "archiving", "zero",
            "collect", "write", "rename", "rollback", "saveGuard"}

Saved(a) == At(statsFile.totals, a)

\* The reset owns the counters between its snapshot and its last access.
Resetting == \/ wpc \in {"snapshot", "archive", "archiving", "zero", "rollback"}
             \/ inReset /\ wpc \in {"collect", "write", "rename"}

(* Values that steps store, one operator each; the faulty variant in front  *)
(* of some is what a bug there would store.                                *)

\* Faulty: Store, not LoadOrStore, replaces a counter that exists.
CountersByStore(a) == Put(counters, a, 0)
CountersWith(a)    == IF a \in DOMAIN counters THEN counters ELSE Put(counters, a, 0)

\* Faulty: a callback that returns false ends the Range early.
NoKeys      == {}
KeysToVisit == DOMAIN counters

\* Faulty: the counter keeps its total.
ZeroForgotten(a) == counters[a]
ZeroValue(a)     == 0

\* Faulty: nothing put back; the snapshot subtracted.
RollbackForgotten(a) == counters[a]
RollbackSubtracts(a) == 0 - snap[a]
RollbackValue(a)     == snap[a]

\* Faulty: an aborted reset counts as done; a completed one is not recorded.
GuardAdvanced   == now
GuardAfterAbort == lastReset
GuardForgotten  == lastReset
GuardAfterReset == now

\* Faulty: the stats file itself is opened for writing.
WrittenInPlace       == TornFile
StatsFileDuringWrite == statsFile

-----------------------------------------------------------------------------
Init ==
  /\ counters = Empty /\ lastReset = NoDate /\ pend = [s \in Streams |-> IdleAdd]
  /\ wpc = "down" /\ now = NoDate /\ inReset = FALSE
  /\ snap = Empty /\ image = Empty /\ todo = {}
  /\ statsFile = NoFile /\ guardFile = NoDate
  /\ archive = [d \in Dates |-> NoFile]
  /\ today = 1
  /\ counted = [a \in Accounts |-> 0] /\ billed = [a \in Accounts |-> 0]
  /\ atRisk = [a \in Accounts |-> 0]
  /\ settled = {} /\ ahead = {} /\ inits = {} /\ blind = FALSE

-----------------------------------------------------------------------------
(* Tunnels: addTrafficForUser.                                             *)

\* LoadOrStore: find the counter of the account, creating it at zero.
FindCounter(s, name, n) ==
  LET a == AccountOf(name) IN
  /\ wpc # "down"
  /\ pend[s].n = 0
  /\ counted[a] + n <= MaxBytes[a]
  /\ counters' = CountersWith(a)
  /\ pend' = [pend EXCEPT ![s] = [acct |-> a, n |-> n]]
  /\ UNCHANGED <<lastReset, writer, disk, today, history>>

\* AddInt64 on the counter found.
AddBytes(s) ==
  LET a == pend[s].acct
      n == pend[s].n IN
  /\ wpc # "down" /\ n > 0
  /\ counted[a] + n <= MaxBytes[a]
  /\ counters' = Put(counters, a, At(counters, a) + n)
  /\ counted' = [counted EXCEPT ![a] = @ + n]
  /\ atRisk' = IF Resetting THEN [atRisk EXCEPT ![a] = @ + n] ELSE atRisk
  /\ pend' = [pend EXCEPT ![s] = IdleAdd]
  /\ UNCHANGED <<lastReset, writer, disk, today, billed, settled, ahead, inits, blind>>

-----------------------------------------------------------------------------
(* The process and the clock.                                              *)

\* loadTrafficStats, then the writer is started.  The guard is restored only
\* when the stats file was; a file that cannot be read counts as none.
Boot ==
  /\ wpc = "down"
  /\ wpc' = "wait"
  /\ \/ /\ statsFile.state = "whole"
        /\ counters' = statsFile.totals
        /\ \/ lastReset' = guardFile
           \/ "read" \in Fails /\ lastReset' = NoDate
        /\ blind' = FALSE
     \/ /\ statsFile.state # "whole" \/ "read" \in Fails
        /\ counters' = Empty
        /\ lastReset' = NoDate
        /\ blind' = (statsFile.state # "missing")
  /\ UNCHANGED <<pend, now, inReset, snap, image, todo, disk, today,
                 counted, billed, settled, ahead, inits, atRisk>>

Crash ==
  /\ MayCrash
  /\ wpc # "down"
  /\ wpc' = "down"
  /\ counters' = Empty /\ lastReset' = NoDate /\ pend' = [s \in Streams |-> IdleAdd]
  /\ now' = NoDate /\ inReset' = FALSE /\ snap' = Empty /\ image' = Empty /\ todo' = {}
  /\ UNCHANGED <<disk, today, history>>

NextDay ==
  /\ today < MaxDay
  /\ today' = today + 1
  /\ UNCHANGED <<memory, writer, disk, history>>

-----------------------------------------------------------------------------
(* The writer goroutine: one tick.                                         *)

\* Enter writeTrafficStats: a Range over the counters collects the image.
EnterWrite(reset) ==
  /\ wpc' = "collect"
  /\ inReset' = reset
  /\ image' = Empty
  /\ todo' = KeysToVisit

\* Return from writeTrafficStats to the ticker loop.
LeaveWrite ==
  /\ wpc' = "wait"
  /\ now' = NoDate /\ inReset' = FALSE /\ snap' = Empty /\ image' = Empty /\ todo' = {}

IsResetDay(d) == DayOfMonth[d] = ResetDay

\* checkAndPerformScheduledReset with no guard: record today, reset nothing.
InitGuard ==
  /\ wpc = "wait" /\ ResetDay > 0
  /\ lastReset = NoDate
  /\ lastReset' = today
  /\ inits' = inits \cup {today}
  /\ guardFile' = today \/ ("guard" \in Fails /\ guardFile' = guardFile)
  /\ EnterWrite(FALSE)
  /\ UNCHANGED <<counters, pend, now, snap, statsFile, archive, today,
                 counted, billed, settled, ahead, atRisk, blind>>

\* No scheduled reset, not the reset day, or already reset today.
SkipReset ==
  /\ wpc = "wait"
  /\ \/ ResetDay = 0
     \/ lastReset # NoDate /\ (~IsResetDay(today) \/ lastReset = today)
  /\ EnterWrite(FALSE)
  /\ UNCHANGED <<outside, now, snap>>

BeginReset ==
  /\ wpc = "wait" /\ ResetDay > 0
  /\ lastReset # NoDate /\ IsResetDay(today) /\ lastReset # today
  /\ wpc' = "snapshot"
  /\ now' = today
  /\ snap' = Empty
  /\ todo' = KeysToVisit
  /\ UNCHANGED <<outside, inReset, image>>

\* Range visits every key present when it starts, and may visit a newer one.
SnapshotKey(a) ==
  /\ wpc = "snapshot"
  /\ a \in DOMAIN counters \ DOMAIN snap
  /\ snap' = Put(snap, a, counters[a])
  /\ todo' = todo \ {a}
  /\ UNCHANGED <<outside, wpc, now, inReset, image>>

EndSnapshot ==
  /\ wpc = "snapshot" /\ todo = {}
  /\ wpc' = "archive"
  /\ UNCHANGED <<outside, now, inReset, snap, image, todo>>

\* os.WriteFile truncates the archive of the date, then fills it.
OpenArchive ==
  /\ wpc = "archive"
  /\ wpc' = "archiving"
  /\ archive' = [archive EXCEPT ![now] = TornFile]
  /\ UNCHANGED <<memory, now, inReset, snap, image, todo, statsFile, guardFile, today, history>>

FillArchive ==
  /\ wpc = "archiving"
  /\ wpc' = "zero"
  /\ archive' = [archive EXCEPT ![now] = Whole(snap)]
  /\ todo' = DOMAIN snap
  /\ ahead' = ahead \cup {now}
  /\ UNCHANGED <<memory, now, inReset, snap, image, statsFile, guardFile, today,
                 counted, billed, settled, inits, atRisk, blind>>

\* MkdirAll, the open or the write failed: nothing is zeroed.
AbortReset ==
  /\ wpc \in {"archive", "archiving"}
  /\ "archive" \in Fails
  /\ lastReset' = GuardAfterAbort
  /\ snap' = Empty /\ now' = NoDate
  /\ EnterWrite(FALSE)
  /\ UNCHANGED <<counters, pend, disk, today, history>>

ZeroKey(a) ==
  /\ wpc = "zero" /\ a \in todo
  /\ counters' = Put(counters, a, ZeroValue(a))
  /\ todo' = todo \ {a}
  /\ UNCHANGED <<lastReset, pend, wpc, now, inReset, snap, image, disk, today, history>>

EndZero ==
  /\ wpc = "zero" /\ todo = {}
  /\ EnterWrite(TRUE)
  /\ UNCHANGED <<outside, now, snap>>

CollectKey(a) ==
  /\ wpc = "collect"
  /\ a \in DOMAIN counters \ DOMAIN image
  /\ image' = Put(image, a, counters[a])
  /\ todo' = todo \ {a}
  /\ UNCHANGED <<outside, wpc, now, inReset, snap>>

EndCollect ==
  /\ wpc = "collect" /\ todo = {}
  /\ wpc' = "write"
  /\ UNCHANGED <<outside, now, inReset, snap, image, todo>>

\* os.WriteFile on the temporary file.  No one but the next rename reads that
\* file, so its content is the image while wpc is "rename" and not a variable.
WriteTmp ==
  /\ wpc = "write"
  /\ wpc' = "rename"
  /\ statsFile' = StatsFileDuringWrite
  /\ UNCHANGED <<memory, now, inReset, snap, image, todo, archive, guardFile, today, history>>

\* The rename is the moment a total becomes durable, and in a reset the
\* moment the month leaves the stats file for the archive.
RenameOfPeriodicWrite ==
  /\ wpc = "rename" /\ ~inReset
  /\ statsFile' = Whole(image)
  /\ blind' = FALSE
  /\ LeaveWrite
  /\ UNCHANGED <<memory, archive, guardFile, today, counted, billed, settled, ahead, inits, atRisk>>

RenameOfReset ==
  /\ wpc = "rename" /\ inReset
  /\ statsFile' = Whole(image)
  /\ wpc' = "saveGuard"
  /\ billed' = [a \in Accounts |-> billed[a] + At(archive[now].totals, a)]
  /\ settled' = settled \cup {now} /\ ahead' = ahead \ {now}
  /\ blind' = FALSE
  /\ UNCHANGED <<memory, now, inReset, snap, image, todo, archive, guardFile,
                 today, counted, inits, atRisk>>

WriteFailed ==
  \/ wpc = "write" /\ "write" \in Fails
  \/ wpc = "rename" /\ "rename" \in Fails

\* The ticker loop logs the error and waits for the next tick.
FailPeriodicWrite ==
  /\ WriteFailed /\ ~inReset
  /\ LeaveWrite
  /\ UNCHANGED outside

\* The reset puts back the totals it zeroed.
FailResetWrite ==
  /\ WriteFailed /\ inReset
  /\ wpc' = "rollback"
  /\ image' = Empty
  /\ todo' = DOMAIN snap
  /\ UNCHANGED <<outside, now, inReset, snap>>

RollbackKey(a) ==
  /\ wpc = "rollback" /\ a \in todo
  /\ counters' = Put(counters, a, RollbackValue(a))
  /\ todo' = todo \ {a}
  /\ UNCHANGED <<lastReset, pend, wpc, now, inReset, snap, image, disk, today, history>>

EndRollback ==
  /\ wpc = "rollback" /\ todo = {}
  /\ snap' = Empty /\ now' = NoDate
  /\ EnterWrite(FALSE)
  /\ UNCHANGED outside

\* saveLastResetDate, whose failure is ignored, then the guard in memory.
SaveGuard ==
  /\ wpc = "saveGuard"
  /\ guardFile' = now \/ ("guard" \in Fails /\ guardFile' = guardFile)
  /\ lastReset' = GuardAfterReset
  /\ snap' = Empty /\ now' = NoDate
  /\ EnterWrite(FALSE)
  /\ UNCHANGED <<counters, pend, statsFile, archive, today, history>>

-----------------------------------------------------------------------------
Tunnels ==
  \E s \in Streams :
    \/ \E name \in Users, n \in 1 .. MaxChunk : FindCounter(s, name, n)
    \/ AddBytes(s)

Tick == InitGuard \/ SkipReset \/ BeginReset

ResetStep ==
  \/ \E a \in Accounts : SnapshotKey(a) \/ ZeroKey(a) \/ RollbackKey(a)
  \/ EndSnapshot \/ OpenArchive \/ FillArchive \/ AbortReset
  \/ EndZero \/ EndRollback \/ SaveGuard

WriteStep ==
  \/ \E a \in Accounts : CollectKey(a)
  \/ EndCollect \/ WriteTmp
  \/ RenameOfPeriodicWrite \/ RenameOfReset \/ FailPeriodicWrite \/ FailResetWrite

Writer == Tick \/ ResetStep \/ WriteStep

Next == Tunnels \/ Boot \/ Crash \/ NextDay \/ Writer

Spec == Init /\ [][Next]_vars

(* The ticker keeps firing, a Range over finitely many keys ends because    *)
(* each is visited once, and the disk does not fail for ever.  A write that *)
(* fails with nothing new to write is no different from one that succeeds.  *)
Failure  == \/ AbortReset \/ FailResetWrite
            \/ FailPeriodicWrite /\ statsFile # Whole(image)
Fairness == WF_vars(Boot) /\ WF_vars(Writer) /\ <>[][~Failure]_vars

FairSpec == Spec /\ Fairness

-----------------------------------------------------------------------------
(* Properties.                                                             *)

TypeOK ==
  /\ IsTotals(counters) /\ lastReset \in Dates \cup {NoDate}
  /\ pend \in [Streams -> [acct : Accounts, n : Nat]]
  /\ wpc \in Places /\ now \in Dates \cup {NoDate} /\ inReset \in BOOLEAN
  /\ IsTotals(snap) /\ IsTotals(image) /\ todo \subseteq Accounts
  /\ IsFile(statsFile) /\ guardFile \in Dates \cup {NoDate}
  /\ archive = [d \in Dates |-> archive[d]] /\ \A d \in Dates : IsFile(archive[d])
  /\ today \in Dates
  /\ counted \in [Accounts -> Nat] /\ billed \in [Accounts -> Nat]
  /\ atRisk \in [Accounts -> Nat] /\ blind \in BOOLEAN
  /\ settled \subseteq Dates /\ ahead \subseteq Dates /\ inits \subseteq Dates

(* Readers of the stats file (the dashboard, the next boot) never see a     *)
(* half-written one, and once written it never disappears: a date is        *)
(* settled or a guard earned only with a whole file in place.               *)
StatsFileWhole ==
  /\ statsFile.state # "torn"
  /\ settled # {} => statsFile.state = "whole"

\* f[1] + ... + f[MaxDay].
Sum(f) ==
  LET upTo[d \in 0 .. MaxDay] == IF d = 0 THEN 0 ELSE upTo[d - 1] + f[d]
  IN  upTo[MaxDay]

\* Bytes of a that the archive files hold, those ahead of the stats file left out.
InArchives(a) == [d \in Dates |-> IF d \in ahead THEN 0 ELSE At(archive[d].totals, a)]
Archived(a)   == Sum(InArchives(a))

(* No byte is billed twice: all the archive files in the directory and what *)
(* the stats file still holds add up to no more than was counted, and so do *)
(* the archives and the counters whenever no reset is under way.  Only the  *)
(* archive of a reset that a crash or a failed write cut short between the  *)
(* archive and the stats file is left out of the sum: its bytes are still   *)
(* in the stats file, a retry the same day replaces it, and after that day  *)
(* nothing does, so that a later archive bills them again.                  *)
NoDoubleBilling ==
  \A a \in Accounts :
    /\ Archived(a) + Saved(a) <= counted[a]
    /\ ~Resetting => Archived(a) + At(counters, a) <= counted[a]

(* A guard date suppresses the reset of that date, so it may be recorded,   *)
(* on disk or in memory, only for a date whose reset reached the stats file *)
(* or for the date of a first run.                                          *)
GuardIsEarned ==
  /\ guardFile \in settled \cup inits \cup {NoDate}
  /\ lastReset \in settled \cup inits \cup {NoDate}

(* Totals leave the stats file only for the archive of a completed reset    *)
(* that covers them, or with the first write of a process that could not    *)
(* read them when it started: the accounting implements the ledger.         *)
Ledger == INSTANCE StatsLedger WITH saved <- [a \in Accounts |-> Saved(a)]
ImplementsLedger == Ledger!Spec

(* A date is reset at most once: a second reset would overwrite the archive *)
(* of the first.                                                            *)
OneResetPerDate == [][RenameOfReset => now \notin settled]_vars

(* With no crash, a byte that is neither billed nor in the counters was     *)
(* added while a reset was under way.                                       *)
LossOnlyDuringReset ==
  wpc # "down" /\ ~Resetting =>
    \A a \in Accounts : counted[a] <= billed[a] + At(counters, a) + atRisk[a]

(* A reset that is due on a running process happens, however often its file *)
(* operations fail, unless the day ends first.                              *)
ResetCatchesUp ==
  \A d \in Dates :
    (wpc = "wait" /\ today = d /\ IsResetDay(d) /\ lastReset \notin {NoDate, d})
      ~> (d \in settled \/ today # d \/ wpc = "down")

(* What the counters hold between two ticks reaches the stats file or a     *)
(* bill, unless the process dies first.                                     *)
CountedReachesDisk ==
  \A a \in Accounts : \A k \in 1 .. MaxBytes[a] :
    (wpc = "wait" /\ At(counters, a) >= k)
      ~> (Saved(a) >= k \/ billed[a] >= k \/ wpc = "down")

(* What the comment above the archiving step promises ("losing the data is  *)
(* not" acceptable): with no crash every byte counted is in the counters or *)
(* was billed.                                                              *)
NoByteLost ==
  wpc = "wait" => \A a \in Accounts : counted[a] = billed[a] + At(counters, a)
=============================================================================
