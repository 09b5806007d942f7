------------------------- MODULE TrafficStatsProofs -------------------------
(***************************************************************************)
(* Proofs about TrafficStats for every set of users and streams, every     *)
(* calendar, every set of failing file operations, with and without        *)
(* crashes.                                                                *)
(***************************************************************************)
EXTENDS TrafficStats, WellFoundedInduction, TLAPS

-----------------------------------------------------------------------------
(* The helpers on totals.                                                  *)

\* The empty totals are totals and hold nothing.
LEMMA EmptyTotals == IsTotals(Empty) /\ \A a : At(Empty, a) = 0
  BY DEF IsTotals, Empty, At

\* Looking up an account gives a number of bytes.
LEMMA AtNat == ASSUME NEW t, IsTotals(t), NEW a PROVE At(t, a) \in Nat
  BY DEF IsTotals, At

\* A key's value is what At gives.
LEMMA AtKey == ASSUME NEW t, NEW a \in DOMAIN t PROVE At(t, a) = t[a]
  BY DEF At

\* An account that is not a key has no bytes.
LEMMA AtNoKey == ASSUME NEW t, NEW a, a \notin DOMAIN t PROVE At(t, a) = 0
  BY DEF At

\* Storing bytes under an account gives totals with one key more at most.
LEMMA PutTotals ==
  ASSUME NEW t, IsTotals(t), NEW a \in Accounts, NEW n \in Nat
  PROVE  IsTotals(Put(t, a, n)) /\ DOMAIN Put(t, a, n) = DOMAIN t \cup {a}
  BY DEF IsTotals, Put

\* Storing changes the bytes of that account and of no other.
LEMMA AtPut ==
  ASSUME NEW t, NEW a, NEW n, NEW b
  PROVE  At(Put(t, a, n), b) = IF b = a THEN n ELSE At(t, b)
  BY DEF At, Put

\* LoadOrStore changes no account's bytes.
LEMMA CountersWithSame ==
  ASSUME IsTotals(counters), NEW a \in Accounts
  PROVE  IsTotals(CountersWith(a)) /\ \A b : At(CountersWith(a), b) = At(counters, b)
<1>1. CASE a \in DOMAIN counters
  BY <1>1 DEF CountersWith
<1>2. CASE a \notin DOMAIN counters
  <2>1. CountersWith(a) = Put(counters, a, 0)
    BY <1>2 DEF CountersWith
  <2>2. IsTotals(Put(counters, a, 0))
    BY PutTotals
  <2>3. ASSUME NEW b PROVE At(Put(counters, a, 0), b) = At(counters, b)
    BY AtPut, AtNoKey, <1>2
  <2> QED
    BY <2>1, <2>2, <2>3
<1> QED
  BY <1>1, <1>2

LEMMA FileKinds ==
  /\ IsFile(NoFile) /\ IsFile(TornFile)
  /\ \A t : IsTotals(t) => IsFile(Whole(t))
  BY EmptyTotals DEF IsFile, NoFile, TornFile, Whole

-----------------------------------------------------------------------------
(* Sums over the dates.  Induction on the days goes by sets of naturals:     *)
(* one that holds 0 and the successor of each of its members is Nat.         *)

LEMMA Least ==
  ASSUME NEW T \in SUBSET Nat, T # {}
  PROVE  \E x \in T : \A y \in T : x <= y
<1>1. PICK x \in T : \A y \in T : <<y, x>> \notin OpToRel(<, Nat)
  BY WFMin, NatLessThanWellFounded, Zenon
<1>2. \A y \in T : ~ (y < x)
  BY <1>1 DEF OpToRel
<1> QED
  BY <1>2

LEMMA Induction ==
  ASSUME NEW T \in SUBSET Nat, 0 \in T, \A n \in T : n + 1 \in T
  PROVE  T = Nat
<1> SUFFICES ASSUME Nat \ T # {} PROVE FALSE
  BY Zenon
<1>1. PICK x \in Nat \ T : \A y \in Nat \ T : x <= y
  BY Least
<1>2. x - 1 \in T /\ x = (x - 1) + 1
  BY <1>1
<1> QED
  BY <1>2

\* s adds up f day by day.
Adds(s, f, n) == /\ s \in [0 .. n -> Nat] /\ s[0] = 0
                 /\ \A d \in 1 .. n : s[d] = s[d - 1] + f[d]

LEMMA AddsOneMore ==
  ASSUME NEW f \in [Dates -> Nat], NEW n \in Nat, n + 1 <= MaxDay, NEW s, Adds(s, f, n)
  PROVE  \E t : Adds(t, f, n + 1)
<1>1. n + 1 \in Dates /\ f[n + 1] \in Nat /\ s \in [0 .. n -> Nat] /\ n \in 0 .. n
  BY BoundsAssumption DEF Dates, Adds
<1> DEFINE t == [d \in 0 .. n + 1 |-> IF d = n + 1 THEN s[n] + f[n + 1] ELSE s[d]]
<1>2. t \in [0 .. n + 1 -> Nat] /\ t[0] = 0
  BY <1>1 DEF Adds
<1>3. ASSUME NEW d \in 1 .. n + 1 PROVE t[d] = t[d - 1] + f[d]
  <2>1. CASE d = n + 1
    BY <1>1, <2>1
  <2>2. CASE d # n + 1
    <3>1. d \in 1 .. n /\ d \in 0 .. n + 1 /\ d - 1 \in 0 .. n + 1 /\ d - 1 # n + 1
      BY <2>2
    <3>2. s[d] = s[d - 1] + f[d]
      BY <3>1 DEF Adds
    <3>3. t[d] = s[d] /\ t[d - 1] = s[d - 1]
      BY <2>2, <3>1
    <3> QED
      BY ONLY <3>2, <3>3
  <2> QED
    BY <2>1, <2>2
<1> QED
  BY <1>2, <1>3 DEF Adds

LEMMA AddsExists == ASSUME NEW f \in [Dates -> Nat] PROVE \E s : Adds(s, f, MaxDay)
<1> DEFINE T == {n \in Nat : n <= MaxDay => \E s : Adds(s, f, n)}
<1>1. 0 \in T
  <2>1. Adds([d \in 0 .. 0 |-> 0], f, 0)
    BY DEF Adds
  <2> QED
    BY <2>1
<1>2. ASSUME NEW n \in T PROVE n + 1 \in T
  <2>1. n \in Nat /\ (n + 1 <= MaxDay => n <= MaxDay) /\ n + 1 \in Nat
    BY BoundsAssumption
  <2>2. ASSUME n + 1 <= MaxDay PROVE \E t : Adds(t, f, n + 1)
    <3>1. PICK s : Adds(s, f, n)
      BY <2>1, <2>2
    <3> QED
      BY <2>1, <2>2, <3>1, AddsOneMore
  <2> QED
    BY <2>1, <2>2
<1>3. T = Nat
  <2> HIDE DEF T
  <2>1. T \in SUBSET Nat
    BY DEF T
  <2> QED
    BY <1>1, <1>2, <2>1, Induction
<1> QED
  BY <1>3, BoundsAssumption

\* The sum is the last entry of the function that adds up the days.
LEMMA SumAdds ==
  ASSUME NEW f \in [Dates -> Nat]
  PROVE  \E s : Adds(s, f, MaxDay) /\ Sum(f) = s[MaxDay]
<1> DEFINE Step(u) == [d \in 0 .. MaxDay |-> IF d = 0 THEN 0 ELSE u[d - 1] + f[d]]
           c       == CHOOSE u : u = Step(u)
<1>m. MaxDay \in Nat \ {0}
  BY BoundsAssumption
<1>1. \E u : u = Step(u)
  <2>1. PICK s : Adds(s, f, MaxDay)
    BY AddsExists
  <2>2. s = Step(s)
    <3>1. s \in [0 .. MaxDay -> Nat] /\ s[0] = 0 /\ \A d \in 1 .. MaxDay : s[d] = s[d - 1] + f[d]
      BY <2>1 DEF Adds
    <3>2. \A d \in 0 .. MaxDay : d # 0 => d \in 1 .. MaxDay
      BY <1>m
    <3>3. \A d \in 0 .. MaxDay : s[d] = IF d = 0 THEN 0 ELSE s[d - 1] + f[d]
      BY <3>1, <3>2
    <3> QED
      BY <3>1, <3>3
  <2> QED
    BY ONLY <2>2
<1>2. c = Step(c)
  BY ONLY <1>1
<1>3. Sum(f) = c[MaxDay]
  BY DEF Sum
<1> HIDE DEF c
<1>4. c[0] = 0 /\ \A d \in 1 .. MaxDay : c[d] = c[d - 1] + f[d]
  BY <1>2, <1>m
<1>5. \A d \in 0 .. MaxDay : c[d] \in Nat
  <2> DEFINE T == {n \in Nat : n <= MaxDay => c[n] \in Nat}
  <2>1. 0 \in T
    BY <1>4
  <2>2. ASSUME NEW n \in T PROVE n + 1 \in T
    <3>1. n + 1 <= MaxDay => n + 1 \in 1 .. MaxDay /\ n <= MaxDay /\ n + 1 - 1 = n
      BY <1>m
    <3>2. n + 1 \in 1 .. MaxDay => c[n + 1] = c[n + 1 - 1] + f[n + 1]
      BY ONLY <1>4
    <3>3. n + 1 \in 1 .. MaxDay => f[n + 1] \in Nat
      BY DEF Dates
    <3> QED
      BY <3>1, <3>2, <3>3
  <2>3. T = Nat
    <3> HIDE DEF T
    <3>1. T \in SUBSET Nat
      BY DEF T
    <3> QED
      BY <2>1, <2>2, <3>1, Induction
  <2> QED
    BY <2>3, <1>m
<1>6. c = [d \in 0 .. MaxDay |-> c[d]]
  BY <1>2, <1>m
<1>7. Adds(c, f, MaxDay)
  BY <1>4, <1>5, <1>6 DEF Adds
<1> QED
  BY <1>3, <1>7

LEMMA SumNat == ASSUME NEW f \in [Dates -> Nat] PROVE Sum(f) \in Nat
<1>1. PICK s : Adds(s, f, MaxDay) /\ Sum(f) = s[MaxDay]
  BY SumAdds
<1> QED
  BY <1>1, BoundsAssumption DEF Adds

\* Another value on one date changes the sum by as much.
LEMMA SumPut ==
  ASSUME NEW f \in [Dates -> Nat], NEW g \in [Dates -> Nat], NEW e \in Dates,
         \A d \in Dates : d # e => g[d] = f[d]
  PROVE  Sum(g) + f[e] = Sum(f) + g[e]
<1>1. PICK s : Adds(s, f, MaxDay) /\ Sum(f) = s[MaxDay]
  BY SumAdds
<1>2. PICK t : Adds(t, g, MaxDay) /\ Sum(g) = t[MaxDay]
  BY SumAdds
<1>m. MaxDay \in Nat \ {0} /\ e \in 1 .. MaxDay /\ f[e] \in Nat /\ g[e] \in Nat
  BY BoundsAssumption DEF Dates
<1> DEFINE T == {n \in Nat : n <= MaxDay => /\ n < e => t[n] = s[n]
                                            /\ e <= n => t[n] + f[e] = s[n] + g[e]}
<1>3. 0 \in T
  BY <1>1, <1>2, <1>m DEF Adds
<1>4. ASSUME NEW n \in T PROVE n + 1 \in T
  <2>1. SUFFICES ASSUME n + 1 <= MaxDay
                 PROVE  /\ n + 1 < e => t[n + 1] = s[n + 1]
                        /\ e <= n + 1 => t[n + 1] + f[e] = s[n + 1] + g[e]
    OBVIOUS
  <2>2. n \in Nat /\ n + 1 \in 1 .. MaxDay /\ n \in 0 .. MaxDay /\ n + 1 - 1 = n
    BY <2>1, <1>m
  <2>3. /\ t[n + 1] = t[n] + g[n + 1] /\ s[n + 1] = s[n] + f[n + 1]
        /\ t[n] \in Nat /\ s[n] \in Nat
    BY <1>1, <1>2, <2>2 DEF Adds
  <2>4. f[n + 1] \in Nat /\ g[n + 1] \in Nat /\ (n + 1 # e => g[n + 1] = f[n + 1])
    BY <2>2 DEF Dates
  <2>5. (n < e => t[n] = s[n]) /\ (e <= n => t[n] + f[e] = s[n] + g[e])
    BY <2>1, <2>2, <1>m
  <2>6. CASE n + 1 < e
    BY <2>2, <2>3, <2>4, <2>5, <2>6, <1>m
  <2>7. CASE n + 1 = e
    <3>1. t[n] = s[n] /\ t[n + 1] = s[n] + g[e] /\ s[n + 1] = s[n] + f[e]
      BY <2>2, <2>3, <2>5, <2>7, <1>m
    <3> QED
      BY <2>3, <2>7, <3>1, <1>m
  <2>8. CASE e < n + 1
    <3>1. e <= n /\ n + 1 # e
      BY <2>2, <2>8, <1>m
    <3>2. t[n] + f[e] = s[n] + g[e] /\ g[n + 1] = f[n + 1]
      BY <2>4, <2>5, <3>1
    <3> QED
      BY <2>3, <2>4, <2>8, <3>2, <1>m
  <2> QED
    BY <2>2, <2>6, <2>7, <2>8, <1>m
<1>5. T = Nat
  <2> HIDE DEF T
  <2>1. T \in SUBSET Nat
    BY DEF T
  <2> QED
    BY <1>3, <1>4, <2>1, Induction
<1> QED
  BY <1>1, <1>2, <1>5, <1>m

LEMMA SumZero == ASSUME NEW f \in [Dates -> Nat], \A d \in Dates : f[d] = 0 PROVE Sum(f) = 0
<1>1. PICK s : Adds(s, f, MaxDay) /\ Sum(f) = s[MaxDay]
  BY SumAdds
<1>m. MaxDay \in Nat
  BY BoundsAssumption
<1> DEFINE T == {n \in Nat : n <= MaxDay => s[n] = 0}
<1>2. 0 \in T
  BY <1>1 DEF Adds
<1>3. ASSUME NEW n \in T PROVE n + 1 \in T
  <2>1. n + 1 <= MaxDay => n <= MaxDay /\ n + 1 \in Dates /\ n + 1 - 1 = n
    BY <1>m DEF Dates
  <2>2. n + 1 <= MaxDay => s[n + 1] = s[n] + f[n + 1]
    BY <1>1, <2>1 DEF Adds, Dates
  <2> QED
    BY <2>1, <2>2
<1>4. T = Nat
  <2> HIDE DEF T
  <2>1. T \in SUBSET Nat
    BY DEF T
  <2> QED
    BY <1>2, <1>3, <2>1, Induction
<1> QED
  BY <1>1, <1>4, <1>m

-----------------------------------------------------------------------------
(* Types, with what the steps of a reset need: a date and a snapshot whose *)
(* keys are those still to be zeroed or put back.                          *)

HasDate == \/ Resetting
           \/ wpc = "saveGuard"

ResetLocals ==
  /\ HasDate => now \in Dates
  /\ wpc \in {"zero", "rollback"} => todo \subseteq DOMAIN snap

TypeInv == TypeOK /\ ResetLocals

LEMMA InitType == Init => TypeInv
<1> SUFFICES ASSUME Init PROVE TypeInv
  OBVIOUS
<1>1. pend \in [Streams -> [acct : Accounts, n : Nat]]
  BY DEF Init, IdleAdd, Accounts
<1>2. today \in Dates
  BY BoundsAssumption DEF Init, Dates
<1>3. IsTotals(counters) /\ IsTotals(snap) /\ IsTotals(image) /\ IsFile(statsFile)
  BY EmptyTotals, FileKinds DEF Init
<1>4. archive = [d \in Dates |-> archive[d]] /\ \A d \in Dates : IsFile(archive[d])
  BY FileKinds DEF Init
<1> QED
  BY <1>1, <1>2, <1>3, <1>4
  DEF Init, TypeInv, TypeOK, ResetLocals, HasDate, Resetting, Places, NoDate

LEMMA NextType == TypeInv /\ [Next]_vars => TypeInv'
<1> SUFFICES ASSUME TypeInv, [Next]_vars PROVE TypeInv'
  OBVIOUS
<1> USE DEF TypeInv, TypeOK, ResetLocals, HasDate, Resetting, Places, Dates, NoDate
<1>1. ASSUME NEW s \in Streams, NEW name \in Users, NEW n \in 1 .. MaxChunk,
             FindCounter(s, name, n)
      PROVE  TypeInv'
  <2>1. AccountOf(name) \in Accounts
    BY DEF AccountOf, Accounts
  <2>2. IsTotals(counters')
    BY <1>1, <2>1, CountersWithSame DEF FindCounter
  <2>3. pend' \in [Streams -> [acct : Accounts, n : Nat]]
    <3>1. n \in Nat /\ pend \in [Streams -> [acct : Accounts, n : Nat]]
      BY BoundsAssumption
    <3>2. pend' = [pend EXCEPT ![s] = [acct |-> AccountOf(name), n |-> n]]
      BY <1>1, Zenon DEF FindCounter
    <3> QED
      BY ONLY <2>1, <3>1, <3>2
  <2>4. UNCHANGED <<lastReset, writer, disk, today, history>>
    BY <1>1, Zenon DEF FindCounter
  <2> QED
    BY <2>2, <2>3, <2>4 DEF writer, disk, history
<1>2. ASSUME NEW s \in Streams, AddBytes(s) PROVE TypeInv'
  <2> DEFINE a == pend[s].acct
             n == pend[s].n
  <2>1. a \in Accounts /\ n \in Nat
    OBVIOUS
  <2>2. IsTotals(counters')
    <3>1. At(counters, a) + n \in Nat
      BY <2>1, AtNat
    <3>2. counters' = Put(counters, a, At(counters, a) + n)
      BY <1>2 DEF AddBytes
    <3> QED
      BY <2>1, <3>1, <3>2, PutTotals
  <2>3. pend' \in [Streams -> [acct : Accounts, n : Nat]]
    BY <1>2 DEF AddBytes, IdleAdd, Accounts
  <2>4. counted' \in [Accounts -> Nat] /\ atRisk' \in [Accounts -> Nat]
    BY <1>2, <2>1 DEF AddBytes
  <2> QED
    BY <1>2, <2>2, <2>3, <2>4 DEF AddBytes, writer, disk
<1>3. ASSUME Boot PROVE TypeInv'
  BY <1>3, EmptyTotals DEF Boot, disk, history, IsFile
<1>4. ASSUME Crash PROVE TypeInv'
  BY <1>4, EmptyTotals DEF Crash, disk, history, IdleAdd, Accounts
<1>5. ASSUME NextDay PROVE TypeInv'
  BY <1>5, BoundsAssumption DEF NextDay, memory, writer, disk, history
<1>6. ASSUME InitGuard PROVE TypeInv'
  BY <1>6, EmptyTotals DEF InitGuard, EnterWrite, KeysToVisit, IsTotals
<1>7. ASSUME SkipReset PROVE TypeInv'
  BY <1>7, EmptyTotals DEF SkipReset, EnterWrite, KeysToVisit, IsTotals,
                           outside, memory, disk, history
<1>8. ASSUME BeginReset PROVE TypeInv'
  BY <1>8, EmptyTotals DEF BeginReset, KeysToVisit, IsTotals, outside, memory, disk, history
<1>9. ASSUME NEW a \in Accounts, SnapshotKey(a) PROVE TypeInv'
  <2>1. IsTotals(snap')
    BY <1>9, PutTotals DEF SnapshotKey, IsTotals
  <2> QED
    BY <1>9, <2>1 DEF SnapshotKey, outside, memory, disk, history
<1>10. ASSUME EndSnapshot PROVE TypeInv'
  BY <1>10 DEF EndSnapshot, outside, memory, disk, history
<1>11. ASSUME OpenArchive PROVE TypeInv'
  BY <1>11, FileKinds DEF OpenArchive, memory, history
<1>12. ASSUME FillArchive PROVE TypeInv'
  <2>1. IsFile(Whole(snap)) /\ DOMAIN snap \subseteq Accounts
    BY FileKinds DEF IsTotals
  <2> QED
    BY <1>12, <2>1 DEF FillArchive, memory, history
<1>13. ASSUME AbortReset PROVE TypeInv'
  BY <1>13, EmptyTotals DEF AbortReset, EnterWrite, KeysToVisit, IsTotals, GuardAfterAbort,
                            disk, history
<1>14. ASSUME NEW a \in Accounts, ZeroKey(a) PROVE TypeInv'
  <2>1. IsTotals(counters')
    BY <1>14, PutTotals DEF ZeroKey, ZeroValue
  <2> QED
    BY <1>14, <2>1 DEF ZeroKey, disk, history
<1>15. ASSUME EndZero PROVE TypeInv'
  BY <1>15, EmptyTotals DEF EndZero, EnterWrite, KeysToVisit, IsTotals,
                            outside, memory, disk, history
<1>16. ASSUME NEW a \in Accounts, CollectKey(a) PROVE TypeInv'
  <2>1. IsTotals(image')
    BY <1>16, PutTotals DEF CollectKey, IsTotals
  <2> QED
    BY <1>16, <2>1 DEF CollectKey, outside, memory, disk, history
<1>17. ASSUME EndCollect PROVE TypeInv'
  BY <1>17 DEF EndCollect, outside, memory, disk, history
<1>18. ASSUME WriteTmp PROVE TypeInv'
  BY <1>18 DEF WriteTmp, StatsFileDuringWrite, memory, history
<1>19. ASSUME RenameOfPeriodicWrite PROVE TypeInv'
  BY <1>19, EmptyTotals, FileKinds DEF RenameOfPeriodicWrite, LeaveWrite, memory, history
<1>20. ASSUME RenameOfReset PROVE TypeInv'
  <2>1. billed' \in [Accounts -> Nat]
    BY <1>20, AtNat DEF RenameOfReset, IsFile
  <2> QED
    BY <1>20, <2>1, FileKinds DEF RenameOfReset, memory
<1>21. ASSUME FailPeriodicWrite PROVE TypeInv'
  BY <1>21, EmptyTotals DEF FailPeriodicWrite, LeaveWrite, outside, memory, disk, history
<1>22. ASSUME FailResetWrite PROVE TypeInv'
  BY <1>22, EmptyTotals DEF FailResetWrite, WriteFailed, IsTotals, outside, memory, disk, history
<1>23. ASSUME NEW a \in Accounts, RollbackKey(a) PROVE TypeInv'
  <2>1. snap[a] \in Nat
    BY <1>23 DEF RollbackKey, IsTotals
  <2>2. IsTotals(counters')
    BY <1>23, <2>1, PutTotals DEF RollbackKey, RollbackValue
  <2> QED
    BY <1>23, <2>2 DEF RollbackKey, disk, history
<1>24. ASSUME EndRollback PROVE TypeInv'
  BY <1>24, EmptyTotals DEF EndRollback, EnterWrite, KeysToVisit, IsTotals,
                            outside, memory, disk, history
<1>25. ASSUME SaveGuard PROVE TypeInv'
  BY <1>25, EmptyTotals DEF SaveGuard, EnterWrite, KeysToVisit, IsTotals, GuardAfterReset, history
<1>26. CASE UNCHANGED vars
  BY <1>26 DEF vars, memory, writer, disk, history
<1> QED
  BY <1>1, <1>2, <1>3, <1>4, <1>5, <1>6, <1>7, <1>8, <1>9, <1>10, <1>11, <1>12, <1>13,
     <1>14, <1>15, <1>16, <1>17, <1>18, <1>19, <1>20, <1>21, <1>22, <1>23, <1>24, <1>25,
     <1>26
  DEF Next, Tunnels, Writer, Tick, ResetStep, WriteStep

LEMMA TypeInvariant == Spec => []TypeInv
  BY InitType, NextType, PTL DEF Spec

(* Every variable keeps its type, counts and dates included, in every run. *)
THEOREM TypeCorrect == Spec => []TypeOK
<1>1. TypeInv => TypeOK
  BY DEF TypeInv
<1> QED
  BY <1>1, TypeInvariant, PTL

-----------------------------------------------------------------------------
(* No byte is billed twice.  The invariant follows one reset: the snapshot  *)
(* alone is bounded by what is still unbilled; once an account is zeroed    *)
(* its snapshot and its new bytes are bounded together, because the rename  *)
(* will bill the first and the stats file will keep the second.             *)

InWrite    == wpc \in {"collect", "write", "rename"}
HasSnap    == wpc \in {"snapshot", "archive", "archiving", "zero", "rollback"} \/ (inReset /\ InWrite)
HasArchive == wpc = "zero" \/ (inReset /\ InWrite)

\* What is not billed yet, by resets or otherwise (m): the bound of every
\* total that may be billed.
Within(m, a, n) == m[a] + billed[a] + n <= counted[a]

BillingAt(m, a) ==
  /\ Within(m, a, Saved(a))
  /\ wpc # "zero" => Within(m, a, At(counters, a))
  /\ HasSnap => Within(m, a, At(snap, a))
  /\ wpc = "zero" /\ a \notin todo => Within(m, a, At(snap, a) + At(counters, a))
  /\ InWrite /\ ~inReset => Within(m, a, At(image, a))
  /\ InWrite /\ inReset => /\ Within(m, a, At(snap, a) + At(counters, a))
                           /\ Within(m, a, At(snap, a) + At(image, a))

BillingInv(m) ==
  /\ \A a \in Accounts : BillingAt(m, a)
  /\ HasArchive => archive[now] = Whole(snap)

Nothing == [a \in Accounts |-> 0]

LEMMA InitBilling == Init => BillingInv(Nothing)
  BY EmptyTotals
  DEF Init, BillingInv, BillingAt, Within, Saved, HasSnap, InWrite, HasArchive, NoFile, Nothing

\* No step of the accounting loses the bound, whatever was billed otherwise.
LEMMA NextBilling ==
  ASSUME NEW m \in [Accounts -> Nat], TypeInv, BillingInv(m), [Next]_vars
  PROVE  BillingInv(m)'
<1> USE DEF BillingInv, HasSnap, InWrite, HasArchive, Saved
<1>t. /\ IsTotals(counters) /\ IsTotals(snap) /\ IsTotals(image)
      /\ IsTotals(statsFile.totals)
      /\ counted \in [Accounts -> Nat] /\ billed \in [Accounts -> Nat]
      /\ pend \in [Streams -> [acct : Accounts, n : Nat]]
      /\ inReset \in BOOLEAN /\ wpc \in Places
  BY DEF TypeInv, TypeOK, IsFile
<1>n. ASSUME NEW a \in Accounts
      PROVE  /\ At(counters, a) \in Nat /\ At(snap, a) \in Nat /\ At(image, a) \in Nat
             /\ At(statsFile.totals, a) \in Nat
             /\ counted[a] \in Nat /\ billed[a] \in Nat /\ m[a] \in Nat
  BY <1>t, AtNat
<1>1. ASSUME NEW s \in Streams, NEW name \in Users, NEW n \in 1 .. MaxChunk,
             FindCounter(s, name, n)
      PROVE  BillingInv(m)'
  <2>1. \A b : At(counters', b) = At(counters, b)
    BY <1>1, <1>t, CountersWithSame DEF FindCounter, AccountOf, Accounts
  <2> QED
    BY <1>1, <2>1 DEF FindCounter, BillingAt, Within, writer, disk, history
<1>2. ASSUME NEW s \in Streams, AddBytes(s) PROVE BillingInv(m)'
  <2> DEFINE c == pend[s].acct
             n == pend[s].n
  <2>1. c \in Accounts /\ n \in Nat
    BY <1>t
  <2>2. /\ \A b : At(counters', b) = IF b = c THEN At(counters, c) + n ELSE At(counters, b)
        /\ counted' = [counted EXCEPT ![c] = counted[c] + n]
        /\ UNCHANGED <<writer, disk, billed>>
    BY <1>2, AtPut DEF AddBytes
  <2>3. ASSUME NEW a \in Accounts PROVE BillingAt(m, a)'
    <3>1. CASE a = c
      <4>1. At(counters', a) = At(counters, a) + n /\ counted'[a] = counted[a] + n
        BY <2>1, <2>2, <3>1, <1>t
      <4> QED
        BY <4>1, <2>1, <2>2, <1>n DEF BillingAt, Within, writer, disk
    <3>2. CASE a # c
      <4>1. At(counters', a) = At(counters, a) /\ counted'[a] = counted[a]
        BY <2>1, <2>2, <3>2, <1>t
      <4> QED
        BY <4>1, <2>2 DEF BillingAt, Within, writer, disk
    <3> QED
      BY <3>1, <3>2
  <2> QED
    BY <2>2, <2>3 DEF writer, disk
<1>3. ASSUME Boot PROVE BillingInv(m)'
  BY <1>3, <1>n, EmptyTotals DEF Boot, BillingAt, Within, disk, history
<1>4. ASSUME Crash PROVE BillingInv(m)'
  BY <1>4, <1>n, EmptyTotals DEF Crash, BillingAt, Within, disk, history
<1>5. ASSUME NextDay PROVE BillingInv(m)'
  BY <1>5 DEF NextDay, BillingAt, Within, memory, writer, disk, history
<1>6. ASSUME InitGuard PROVE BillingInv(m)'
  BY <1>6, <1>n, EmptyTotals DEF InitGuard, EnterWrite, BillingAt, Within
<1>7. ASSUME SkipReset PROVE BillingInv(m)'
  BY <1>7, <1>n, EmptyTotals
  DEF SkipReset, EnterWrite, BillingAt, Within, outside, memory, disk, history
<1>8. ASSUME BeginReset PROVE BillingInv(m)'
  BY <1>8, <1>n, EmptyTotals DEF BeginReset, BillingAt, Within, outside, memory, disk, history
<1>9. ASSUME NEW k \in Accounts, SnapshotKey(k) PROVE BillingInv(m)'
  <2>1. \A b : At(snap', b) = IF b = k THEN At(counters, k) ELSE At(snap, b)
    BY <1>9, AtPut, AtKey DEF SnapshotKey
  <2> QED
    BY <1>9, <2>1 DEF SnapshotKey, BillingAt, Within, outside, memory, disk, history
<1>10. ASSUME EndSnapshot PROVE BillingInv(m)'
  BY <1>10 DEF EndSnapshot, BillingAt, Within, outside, memory, disk, history
<1>11. ASSUME OpenArchive PROVE BillingInv(m)'
  BY <1>11 DEF OpenArchive, BillingAt, Within, memory, history
<1>12. ASSUME FillArchive PROVE BillingInv(m)'
  <2>1. archive'[now'] = Whole(snap')
    BY <1>12 DEF FillArchive, TypeInv, TypeOK, ResetLocals, HasDate, Resetting
  <2>2. ASSUME NEW a \in Accounts PROVE BillingAt(m, a)'
    <3>1. a \notin todo' => At(snap, a) = 0
      BY <1>12, AtNoKey DEF FillArchive
    <3> QED
      BY <1>12, <3>1, <1>n DEF FillArchive, BillingAt, Within, memory, history
  <2> QED
    BY <2>1, <2>2
<1>13. ASSUME AbortReset PROVE BillingInv(m)'
  BY <1>13, <1>n, EmptyTotals
  DEF AbortReset, EnterWrite, GuardAfterAbort, BillingAt, Within, disk, history
<1>14. ASSUME NEW k \in Accounts, ZeroKey(k) PROVE BillingInv(m)'
  <2>1. \A b : At(counters', b) = IF b = k THEN 0 ELSE At(counters, b)
    BY <1>14, AtPut DEF ZeroKey, ZeroValue
  <2>2. ASSUME NEW a \in Accounts PROVE BillingAt(m, a)'
    BY <1>14, <2>1, <1>n DEF ZeroKey, BillingAt, Within, disk, history
  <2> QED
    BY <1>14, <2>2 DEF ZeroKey, disk
<1>15. ASSUME EndZero PROVE BillingInv(m)'
  <2>1. ASSUME NEW a \in Accounts PROVE BillingAt(m, a)'
    BY <1>15, <1>n, EmptyTotals
    DEF EndZero, EnterWrite, BillingAt, Within, outside, memory, disk, history
  <2> QED
    BY <1>15, <2>1 DEF EndZero, EnterWrite, outside, disk
<1>16. ASSUME NEW k \in Accounts, CollectKey(k) PROVE BillingInv(m)'
  <2>1. \A b : At(image', b) = IF b = k THEN At(counters, k) ELSE At(image, b)
    BY <1>16, AtPut, AtKey DEF CollectKey
  <2>2. ASSUME NEW a \in Accounts PROVE BillingAt(m, a)'
    BY <1>16, <2>1 DEF CollectKey, BillingAt, Within, outside, memory, disk, history
  <2> QED
    BY <1>16, <2>2 DEF CollectKey, outside, disk
<1>17. ASSUME EndCollect PROVE BillingInv(m)'
  BY <1>17 DEF EndCollect, BillingAt, Within, outside, memory, disk, history
<1>18. ASSUME WriteTmp PROVE BillingInv(m)'
  BY <1>18 DEF WriteTmp, StatsFileDuringWrite, BillingAt, Within, memory, history
<1>19. ASSUME RenameOfPeriodicWrite PROVE BillingInv(m)'
  BY <1>19, <1>n, EmptyTotals
  DEF RenameOfPeriodicWrite, LeaveWrite, BillingAt, Within, memory, history, Whole
<1>20. ASSUME RenameOfReset PROVE BillingInv(m)'
  <2>1. ASSUME NEW a \in Accounts PROVE BillingAt(m, a)'
    <3>1. billed'[a] = billed[a] + At(snap, a)
      BY <1>20 DEF RenameOfReset, Whole
    <3>2. Saved(a)' = At(image, a)
      BY <1>20 DEF RenameOfReset, Whole
    <3> QED
      BY <1>20, <3>1, <3>2, <1>n DEF RenameOfReset, BillingAt, Within, memory
  <2> QED
    BY <1>20, <2>1 DEF RenameOfReset
<1>21. ASSUME FailPeriodicWrite PROVE BillingInv(m)'
  BY <1>21 DEF FailPeriodicWrite, WriteFailed, LeaveWrite, BillingAt, Within, outside, memory, disk, history
<1>22. ASSUME FailResetWrite PROVE BillingInv(m)'
  <2>1. ASSUME NEW a \in Accounts PROVE BillingAt(m, a)'
    BY <1>22, <1>n
    DEF FailResetWrite, WriteFailed, BillingAt, Within, outside, memory, disk, history
  <2> QED
    BY <1>22, <2>1 DEF FailResetWrite, WriteFailed
<1>23. ASSUME NEW k \in Accounts, RollbackKey(k) PROVE BillingInv(m)'
  <2>1. \A b : At(counters', b) = IF b = k THEN At(snap, k) ELSE At(counters, b)
    BY <1>23, AtPut, AtKey DEF RollbackKey, RollbackValue, TypeInv, ResetLocals
  <2>2. ASSUME NEW a \in Accounts PROVE BillingAt(m, a)'
    BY <1>23, <2>1 DEF RollbackKey, BillingAt, Within, disk, history
  <2> QED
    BY <1>23, <2>2 DEF RollbackKey
<1>24. ASSUME EndRollback PROVE BillingInv(m)'
  BY <1>24, <1>n, EmptyTotals
  DEF EndRollback, EnterWrite, BillingAt, Within, outside, memory, disk, history
<1>25. ASSUME SaveGuard PROVE BillingInv(m)'
  BY <1>25, <1>n, EmptyTotals
  DEF SaveGuard, EnterWrite, BillingAt, Within, history
<1>26. CASE UNCHANGED vars
  BY <1>26 DEF vars, memory, writer, disk, history, BillingAt, Within
<1> QED
  BY <1>1, <1>2, <1>3, <1>4, <1>5, <1>6, <1>7, <1>8, <1>9, <1>10, <1>11, <1>12, <1>13,
     <1>14, <1>15, <1>16, <1>17, <1>18, <1>19, <1>20, <1>21, <1>22, <1>23, <1>24, <1>25,
     <1>26
  DEF Next, Tunnels, Writer, Tick, ResetStep, WriteStep

LEMMA BillingInvariant == Spec => []BillingInv(Nothing)
<1>1. TypeInv /\ BillingInv(Nothing) /\ [Next]_vars => BillingInv(Nothing)'
  BY NextBilling DEF Nothing
<1> QED
  BY <1>1, InitBilling, TypeInvariant, PTL DEF Spec

(* What the archive files hold of finished resets is what resets billed, or  *)
(* less when a second reset of a date replaced the archive of the first.     *)
ArchiveInv == \A a \in Accounts : Archived(a) <= billed[a]

ArchivesTyped == \A a : InArchives(a) \in [Dates -> Nat]

LEMMA InArchivesType == TypeInv => ArchivesTyped
<1> SUFFICES ASSUME TypeInv, NEW a PROVE InArchives(a) \in [Dates -> Nat]
  BY DEF ArchivesTyped
<1>1. \A d \in Dates : At(archive[d].totals, a) \in Nat
  BY AtNat DEF TypeInv, TypeOK, IsFile
<1> QED
  BY <1>1 DEF InArchives

\* A step that touches the archive of one date and bills n bytes with it.
LEMMA OneArchive ==
  ASSUME TypeInv, TypeInv', ArchiveInv, NEW a \in Accounts, NEW e \in Dates, NEW n \in Nat,
         \A d \in Dates : d # e => InArchives(a)'[d] = InArchives(a)[d],
         InArchives(a)'[e] <= InArchives(a)[e] + n, billed'[a] = billed[a] + n
  PROVE  Archived(a)' <= billed'[a]
<1>1. InArchives(a) \in [Dates -> Nat]
  BY InArchivesType DEF ArchivesTyped
<1>2. InArchives(a)' \in [Dates -> Nat]
  <2>1. TypeInv' => ArchivesTyped'
    BY InArchivesType, PTL
  <2> QED
    BY <2>1 DEF ArchivesTyped
<1> DEFINE f == InArchives(a)
           g == InArchives(a)'
<1> HIDE DEF f, g
<1>3. /\ f \in [Dates -> Nat] /\ g \in [Dates -> Nat] /\ \A d \in Dates : d # e => g[d] = f[d]
      /\ g[e] <= f[e] + n
  BY <1>1, <1>2 DEF f, g
<1>4. Sum(g) + f[e] = Sum(f) + g[e]
  BY <1>3, SumPut
<1>5. Sum(f) \in Nat /\ Sum(g) \in Nat /\ f[e] \in Nat /\ g[e] \in Nat
  BY <1>3, SumNat
<1>6. Sum(g) <= Sum(f) + n
  BY ONLY <1>3, <1>4, <1>5, n \in Nat
<1>7. Sum(f) <= billed[a] /\ billed[a] \in Nat
  BY DEF f, ArchiveInv, Archived, TypeInv, TypeOK
<1>8. Sum(g) <= billed'[a]
  BY ONLY <1>5, <1>6, <1>7, n \in Nat, billed'[a] = billed[a] + n
<1> QED
  BY <1>8 DEF g, Archived

LEMMA NextArchive == TypeInv /\ TypeInv' /\ ArchiveInv /\ [Next]_vars => ArchiveInv'
<1> SUFFICES ASSUME TypeInv, TypeInv', ArchiveInv, [Next]_vars, NEW a \in Accounts
             PROVE  Archived(a)' <= billed'[a]
  BY DEF ArchiveInv
<1>t. archive = [d \in Dates |-> archive[d]] /\ billed[a] \in Nat
  BY DEF TypeInv, TypeOK
<1>1. CASE OpenArchive
  <2>1. now \in Dates /\ UNCHANGED <<ahead, billed>> /\ archive' = [archive EXCEPT ![now] = TornFile]
    BY <1>1 DEF OpenArchive, TypeInv, ResetLocals, HasDate, Resetting, history
  <2>2. \A d \in Dates : d # now => InArchives(a)'[d] = InArchives(a)[d]
    BY <2>1, <1>t DEF InArchives
  <2>3. InArchives(a)'[now] = 0
    <3>1. archive'[now] = TornFile
      BY <2>1, <1>t
    <3>2. At(TornFile.totals, a) = 0
      BY EmptyTotals DEF TornFile
    <3> QED
      BY <2>1, <3>1, <3>2 DEF InArchives
  <2>4. InArchives(a)[now] \in Nat
    BY <2>1, InArchivesType DEF ArchivesTyped
  <2> QED
    BY <2>1, <2>2, <2>3, <2>4, <1>t, OneArchive
<1>2. CASE FillArchive
  <2>1. /\ now \in Dates /\ UNCHANGED billed /\ ahead' = ahead \cup {now}
        /\ archive' = [archive EXCEPT ![now] = Whole(snap)]
    BY <1>2 DEF FillArchive, TypeInv, ResetLocals, HasDate, Resetting
  <2>2. \A d \in Dates : d # now => InArchives(a)'[d] = InArchives(a)[d]
    BY <2>1, <1>t DEF InArchives
  <2>3. InArchives(a)'[now] = 0
    BY <2>1 DEF InArchives
  <2>4. InArchives(a)[now] \in Nat
    BY <2>1, InArchivesType DEF ArchivesTyped
  <2> QED
    BY <2>1, <2>2, <2>3, <2>4, <1>t, OneArchive
<1>3. CASE RenameOfReset
  <2> DEFINE n == At(archive[now].totals, a)
  <2>1. /\ now \in Dates /\ UNCHANGED archive /\ ahead' = ahead \ {now}
        /\ billed'[a] = billed[a] + n
    BY <1>3 DEF RenameOfReset, TypeInv, ResetLocals, HasDate, Resetting
  <2>2. n \in Nat
    BY <2>1, AtNat DEF TypeInv, TypeOK, IsFile
  <2>3. \A d \in Dates : d # now => InArchives(a)'[d] = InArchives(a)[d]
    BY <2>1 DEF InArchives
  <2>4. InArchives(a)'[now] = n
    BY <2>1 DEF InArchives
  <2>5. InArchives(a)[now] \in Nat
    BY <2>1, InArchivesType DEF ArchivesTyped
  <2>6. InArchives(a)'[now] <= InArchives(a)[now] + n
    BY ONLY <2>2, <2>4, <2>5
  <2> HIDE DEF n
  <2> QED
    BY <2>1, <2>2, <2>3, <2>6, OneArchive
<1>4. CASE UNCHANGED <<archive, ahead, billed>>
  <2>1. Archived(a)' = Archived(a)
    BY <1>4 DEF Archived, InArchives
  <2> QED
    BY <1>4, <2>1 DEF ArchiveInv
<1>5. OpenArchive \/ FillArchive \/ RenameOfReset \/ UNCHANGED <<archive, ahead, billed>>
  BY DEF Next, Tunnels, FindCounter, AddBytes, Boot, Crash, NextDay, Writer, Tick,
         InitGuard, SkipReset, BeginReset, ResetStep, SnapshotKey, ZeroKey, RollbackKey,
         EndSnapshot, AbortReset, EndZero, EndRollback, SaveGuard, WriteStep, CollectKey,
         EndCollect, WriteTmp, RenameOfPeriodicWrite, FailPeriodicWrite, FailResetWrite,
         vars, outside, disk, history
<1> QED
  BY <1>1, <1>2, <1>3, <1>4, <1>5

LEMMA InitArchive == Init => ArchiveInv
<1> SUFFICES ASSUME Init, NEW a \in Accounts PROVE Archived(a) <= billed[a]
  BY DEF ArchiveInv
<1>1. \A d \in Dates : InArchives(a)[d] = 0
  BY EmptyTotals DEF Init, InArchives, NoFile
<1>2. InArchives(a) \in [Dates -> Nat]
  BY InitType, InArchivesType DEF ArchivesTyped
<1>3. Archived(a) = 0
  BY ONLY <1>1, <1>2, SumZero DEF Archived
<1> QED
  BY <1>3 DEF Init

LEMMA ArchiveInvariant == Spec => []ArchiveInv
  BY InitArchive, NextArchive, TypeInvariant, PTL DEF Spec

(* No byte is in the archives of two finished resets, or in one and still   *)
(* in the stats file, in whatever order adds, ticks, file errors, crashes   *)
(* and midnights come.                                                      *)
THEOREM BillingCorrect == Spec => []NoDoubleBilling
<1>1. TypeInv /\ BillingInv(Nothing) /\ ArchiveInv => NoDoubleBilling
  <2> SUFFICES ASSUME TypeInv, BillingInv(Nothing), ArchiveInv, NEW a \in Accounts
               PROVE  /\ Archived(a) + Saved(a) <= counted[a]
                      /\ ~Resetting => Archived(a) + At(counters, a) <= counted[a]
    BY DEF NoDoubleBilling
  <2>1. Archived(a) \in Nat /\ Archived(a) <= billed[a]
    BY InArchivesType, SumNat DEF ArchivesTyped, Archived, ArchiveInv
  <2>2. billed[a] \in Nat /\ counted[a] \in Nat /\ Saved(a) \in Nat /\ At(counters, a) \in Nat
    BY AtNat DEF TypeInv, TypeOK, IsFile, Saved
  <2>3. billed[a] + Saved(a) <= counted[a] /\ (~Resetting => billed[a] + At(counters, a) <= counted[a])
    BY <2>2 DEF BillingInv, BillingAt, Within, Resetting, Nothing
  <2> QED
    BY ONLY <2>1, <2>2, <2>3
<1> QED
  BY <1>1, TypeInvariant, BillingInvariant, ArchiveInvariant, PTL

-----------------------------------------------------------------------------
(* The guard and the stats file.                                           *)

GuardInv ==
  /\ GuardIsEarned
  /\ wpc = "saveGuard" => now \in settled

LEMMA GuardInvariant == Spec => []GuardInv
<1>1. Init => GuardInv
  BY DEF Init, GuardInv, GuardIsEarned
<1>2. GuardInv /\ [Next]_vars => GuardInv'
  <2> SUFFICES ASSUME GuardInv, [Next]_vars PROVE GuardInv'
    OBVIOUS
  <2> USE DEF GuardInv, GuardIsEarned
  <2>1. ASSUME Boot PROVE GuardInv'
    BY <2>1 DEF Boot, disk, history
  <2>2. ASSUME Crash PROVE GuardInv'
    BY <2>2 DEF Crash, disk, history
  <2>3. ASSUME Tunnels PROVE GuardInv'
    BY <2>3 DEF Tunnels, FindCounter, AddBytes, writer, disk, history
  <2>4. ASSUME NextDay PROVE GuardInv'
    BY <2>4 DEF NextDay, memory, writer, disk, history
  <2>5. ASSUME Tick PROVE GuardInv'
    BY <2>5 DEF Tick, InitGuard, SkipReset, BeginReset, EnterWrite, outside, memory, disk, history
  <2>6. ASSUME ResetStep PROVE GuardInv'
    BY <2>6
    DEF ResetStep, SnapshotKey, ZeroKey, RollbackKey, EndSnapshot, OpenArchive, FillArchive,
        AbortReset, EndZero, EndRollback, SaveGuard, EnterWrite, GuardAfterAbort,
        GuardAfterReset, outside, memory, disk, history
  <2>7. ASSUME WriteStep PROVE GuardInv'
    BY <2>7
    DEF WriteStep, CollectKey, EndCollect, WriteTmp, RenameOfPeriodicWrite, RenameOfReset,
        FailPeriodicWrite, FailResetWrite, LeaveWrite, outside, memory, disk, history
  <2>8. CASE UNCHANGED vars
    BY <2>8 DEF vars, memory, writer, disk, history
  <2> QED
    BY <2>1, <2>2, <2>3, <2>4, <2>5, <2>6, <2>7, <2>8 DEF Next, Writer
<1> QED
  BY <1>1, <1>2, PTL DEF Spec

(* A guard date, which suppresses the reset of that date, is recorded on    *)
(* disk or in memory only after the reset reached the stats file, or by the *)
(* first-run rule.                                                          *)
THEOREM GuardCorrect == Spec => []GuardIsEarned
<1>1. GuardInv => GuardIsEarned
  BY DEF GuardInv
<1> QED
  BY <1>1, GuardInvariant, PTL

\* A stats file that is not whole does not exist, and holds nothing.
FileSound    == statsFile.state # "whole" => statsFile = NoFile
StatsFileInv == FileSound /\ (settled # {} => statsFile.state = "whole")

LEMMA NextStatsFile ==
  [Next]_vars =>
    \/ statsFile'.state = "whole"
    \/ UNCHANGED <<statsFile, settled>>
<1> SUFFICES ASSUME [Next]_vars
             PROVE  statsFile'.state = "whole" \/ UNCHANGED <<statsFile, settled>>
  OBVIOUS
<1>1. CASE RenameOfPeriodicWrite \/ RenameOfReset
  BY <1>1 DEF RenameOfPeriodicWrite, RenameOfReset, Whole
<1>2. RenameOfPeriodicWrite \/ RenameOfReset \/ UNCHANGED <<statsFile, settled>>
  BY DEF Next, Tunnels, FindCounter, AddBytes, Boot, Crash, NextDay, Writer, Tick,
         InitGuard, SkipReset, BeginReset, ResetStep, SnapshotKey, ZeroKey, RollbackKey,
         EndSnapshot, OpenArchive, FillArchive, AbortReset, EndZero, EndRollback,
         SaveGuard, WriteStep, CollectKey, EndCollect, WriteTmp, StatsFileDuringWrite,
         FailPeriodicWrite, FailResetWrite, vars, outside, memory, disk, history
<1> QED
  BY <1>1, <1>2

LEMMA NextSound == FileSound /\ [Next]_vars => FileSound'
  BY NextStatsFile DEF FileSound

LEMMA StatsFileInvariant == Spec => []StatsFileInv
<1>1. Init => StatsFileInv
  BY DEF Init, StatsFileInv, FileSound, NoFile
<1>2. StatsFileInv /\ [Next]_vars => StatsFileInv'
  BY NextStatsFile DEF StatsFileInv, FileSound
<1> QED
  BY <1>1, <1>2, PTL DEF Spec

(* Whoever reads the stats file finds none yet or a whole one.              *)
THEOREM StatsFileCorrect == Spec => []StatsFileWhole
<1>1. StatsFileInv => StatsFileWhole
  BY DEF StatsFileInv, FileSound, StatsFileWhole, NoFile
<1> QED
  BY <1>1, StatsFileInvariant, PTL

-----------------------------------------------------------------------------
(* A process that is never lost resets a date at most once.  The dates      *)
(* already reset never exceed the guard in memory, which never exceeds the  *)
(* clock, so a date that passes the guard's test is later than all of them. *)

OnceInv ==
  /\ wpc = "down" => settled = {} /\ guardFile = NoDate
  /\ lastReset <= today
  /\ HasDate => now <= today
  /\ HasDate /\ wpc # "saveGuard" => \A d \in settled : d < now
  /\ wpc = "saveGuard" => \A d \in settled : d <= now
  /\ wpc # "saveGuard" => \A d \in settled : d <= lastReset

LEMMA OnceInvariant == ASSUME ~MayCrash PROVE Spec => []OnceInv
<1>1. Init => OnceInv
  BY DEF Init, OnceInv, HasDate, Resetting, NoDate
<1>2. TypeInv /\ OnceInv /\ [Next]_vars => OnceInv'
  <2> SUFFICES ASSUME TypeInv, OnceInv, [Next]_vars PROVE OnceInv'
    OBVIOUS
  <2> USE DEF OnceInv, HasDate, Resetting
  <2>t. /\ today \in Nat \ {0} /\ lastReset \in Nat /\ now \in Nat
        /\ \A d \in settled : d \in Nat \ {0}
        /\ inReset \in BOOLEAN /\ wpc \in Places
    BY BoundsAssumption DEF TypeInv, TypeOK, Dates, NoDate
  <2>1. ASSUME Boot PROVE OnceInv'
    BY <2>1, <2>t DEF Boot, NoDate, disk, history
  <2>2. ASSUME Crash PROVE OnceInv'
    BY <2>2 DEF Crash
  <2>3. ASSUME Tunnels PROVE OnceInv'
    BY <2>3 DEF Tunnels, FindCounter, AddBytes, writer, disk, history
  <2>4. ASSUME NextDay PROVE OnceInv'
    BY <2>4, <2>t DEF NextDay, memory, writer, disk, history
  <2>5. ASSUME Tick PROVE OnceInv'
    <3>1. ASSUME InitGuard PROVE OnceInv'
      BY <3>1, <2>t DEF InitGuard, EnterWrite, NoDate
    <3>2. ASSUME SkipReset PROVE OnceInv'
      BY <3>2, <2>t DEF SkipReset, EnterWrite, outside, memory, disk, history
    <3>3. ASSUME BeginReset PROVE OnceInv'
      BY <3>3, <2>t DEF BeginReset, outside, memory, disk, history
    <3> QED
      BY <2>5, <3>1, <3>2, <3>3 DEF Tick
  <2>6. ASSUME ResetStep PROVE OnceInv'
    <3>1. ASSUME SaveGuard PROVE OnceInv'
      BY <3>1, <2>t DEF SaveGuard, EnterWrite, GuardAfterReset, history
    <3>2. ASSUME ResetStep, ~SaveGuard PROVE OnceInv'
      BY <3>2, <2>t
      DEF ResetStep, SnapshotKey, ZeroKey, RollbackKey, EndSnapshot, OpenArchive, FillArchive,
          AbortReset, EndZero, EndRollback, EnterWrite, GuardAfterAbort,
          outside, memory, disk, history
    <3> QED
      BY <2>6, <3>1, <3>2
  <2>7. ASSUME WriteStep PROVE OnceInv'
    <3>1. ASSUME RenameOfReset PROVE OnceInv'
      BY <3>1, <2>t DEF RenameOfReset, memory
    <3>2. ASSUME WriteStep, ~RenameOfReset PROVE OnceInv'
      BY <3>2, <2>t
      DEF WriteStep, CollectKey, EndCollect, WriteTmp, RenameOfPeriodicWrite, WriteFailed,
          FailPeriodicWrite, FailResetWrite, LeaveWrite, outside, memory, disk, history
    <3> QED
      BY <2>7, <3>1, <3>2
  <2>8. CASE UNCHANGED vars
    BY <2>8 DEF vars, memory, writer, disk, history
  <2> QED
    BY <2>1, <2>2, <2>3, <2>4, <2>5, <2>6, <2>7, <2>8 DEF Next, Writer
<1> QED
  BY <1>1, <1>2, TypeInvariant, PTL DEF Spec

(* Without crashes no archive is overwritten by a second reset of its date, *)
(* even when the guard cannot be saved.                                     *)
THEOREM OneResetCorrect == ASSUME ~MayCrash PROVE Spec => OneResetPerDate
<1>1. TypeInv /\ OnceInv => (RenameOfReset => now \notin settled)
  BY BoundsAssumption
  DEF TypeInv, TypeOK, OnceInv, HasDate, Resetting, RenameOfReset, Dates, NoDate
<1> QED
  BY <1>1, TypeInvariant, OnceInvariant, PTL DEF OneResetPerDate

-----------------------------------------------------------------------------
(* The accounting implements the ledger.  In a process that has read the    *)
(* stats file, what the ledger calls saved never exceeds the total that the *)
(* next rename will put in its place or bill; in any process the image of   *)
(* a write never exceeds the counters, so that its rename restores that.    *)

KeepsAt(a) ==
  /\ wpc \notin {"down", "zero", "rollback"} /\ ~(InWrite /\ inReset)
       => Saved(a) <= At(counters, a)
  /\ wpc = "snapshot" /\ a \notin todo => Saved(a) <= At(snap, a)
  /\ HasSnap /\ wpc # "snapshot" => Saved(a) <= At(snap, a)
  /\ wpc = "rollback" /\ a \notin todo => Saved(a) <= At(counters, a)
  /\ wpc = "collect" /\ ~inReset /\ a \notin todo => Saved(a) <= At(image, a)
  /\ wpc \in {"write", "rename"} /\ ~inReset => Saved(a) <= At(image, a)

ImageBehind == \A a \in Accounts : InWrite => At(image, a) <= At(counters, a)

Kept == \A a \in Accounts : KeepsAt(a)

KeepsInv == ImageBehind /\ (~blind => Kept)

LEMMA InitKeeps == Init => KeepsInv
  BY DEF Init, KeepsInv, Kept, KeepsAt, ImageBehind, InWrite, HasSnap

LEMMA NextImage == TypeInv /\ ImageBehind /\ [Next]_vars => ImageBehind'
<1> SUFFICES ASSUME TypeInv, ImageBehind, [Next]_vars PROVE ImageBehind'
  OBVIOUS
<1> USE DEF ImageBehind, InWrite
<1>t. /\ IsTotals(counters) /\ IsTotals(image)
      /\ pend \in [Streams -> [acct : Accounts, n : Nat]]
  BY DEF TypeInv, TypeOK
<1>n. ASSUME NEW a \in Accounts PROVE At(counters, a) \in Nat /\ At(image, a) \in Nat
  BY <1>t, AtNat
<1>1. ASSUME NEW s \in Streams, NEW name \in Users, NEW n \in 1 .. MaxChunk,
             FindCounter(s, name, n)
      PROVE  ImageBehind'
  <2>1. \A b : At(counters', b) = At(counters, b)
    BY <1>1, <1>t, CountersWithSame DEF FindCounter, AccountOf, Accounts
  <2> QED
    BY <1>1, <2>1 DEF FindCounter, writer
<1>2. ASSUME NEW s \in Streams, AddBytes(s) PROVE ImageBehind'
  <2> DEFINE c == pend[s].acct
             n == pend[s].n
  <2>1. c \in Accounts /\ n \in Nat
    BY <1>t
  <2>2. /\ \A b : At(counters', b) = IF b = c THEN At(counters, c) + n ELSE At(counters, b)
        /\ UNCHANGED writer
    BY <1>2, AtPut DEF AddBytes
  <2>3. \A b \in Accounts : At(counters', b) \in Nat /\ At(counters', b) >= At(counters, b)
    BY <2>1, <2>2, <1>n
  <2> QED
    BY <2>2, <2>3, <1>n DEF writer
<1>3. ASSUME NEW k \in Accounts, CollectKey(k) PROVE ImageBehind'
  <2>1. \A b : At(image', b) = IF b = k THEN At(counters, k) ELSE At(image, b)
    BY <1>3, AtPut, AtKey DEF CollectKey
  <2> QED
    BY <1>3, <2>1, <1>n DEF CollectKey, outside, memory
<1>4. ASSUME Tick PROVE ImageBehind'
  BY <1>4, <1>n, EmptyTotals
  DEF Tick, InitGuard, SkipReset, BeginReset, EnterWrite, outside, memory
<1>5. ASSUME AbortReset \/ EndZero \/ EndRollback \/ SaveGuard PROVE ImageBehind'
  BY <1>5, <1>n, EmptyTotals
  DEF AbortReset, EndZero, EndRollback, SaveGuard, EnterWrite, outside, memory
<1>6. ASSUME NEW a \in Accounts, SnapshotKey(a) \/ ZeroKey(a) \/ RollbackKey(a)
      PROVE  ImageBehind'
  BY <1>6 DEF SnapshotKey, ZeroKey, RollbackKey
<1>7. ASSUME EndSnapshot \/ OpenArchive \/ FillArchive \/ Boot \/ Crash PROVE ImageBehind'
  BY <1>7 DEF EndSnapshot, OpenArchive, FillArchive, Boot, Crash
<1>8. ASSUME EndCollect \/ WriteTmp PROVE ImageBehind'
  BY <1>8 DEF EndCollect, WriteTmp, outside, memory
<1>9. ASSUME \/ RenameOfPeriodicWrite \/ RenameOfReset
             \/ FailPeriodicWrite \/ FailResetWrite
      PROVE  ImageBehind'
  BY <1>9 DEF RenameOfPeriodicWrite, RenameOfReset, FailPeriodicWrite, FailResetWrite, LeaveWrite
<1>10. ASSUME NextDay \/ UNCHANGED vars PROVE ImageBehind'
  BY <1>10 DEF NextDay, vars, memory, writer
<1> QED
  BY <1>1, <1>2, <1>3, <1>4, <1>5, <1>6, <1>7, <1>8, <1>9, <1>10
  DEF Next, Tunnels, Writer, ResetStep, WriteStep

\* A start that reads the file begins with what it holds.
LEMMA BootKept == TypeInv /\ FileSound /\ Boot /\ ~blind' => Kept'
<1> SUFFICES ASSUME TypeInv, FileSound, Boot, ~blind' PROVE Kept'
  OBVIOUS
<1>1. ASSUME NEW a \in Accounts PROVE At(statsFile.totals, a) <= At(counters', a)
  <2>1. At(statsFile.totals, a) \in Nat
    BY AtNat DEF TypeInv, TypeOK, IsFile
  <2>2. \/ counters' = statsFile.totals
        \/ counters' = Empty /\ statsFile = NoFile
    BY DEF Boot, FileSound
  <2> QED
    BY <2>1, <2>2, EmptyTotals DEF NoFile
<1> QED
  BY <1>1 DEF Boot, Kept, KeepsAt, HasSnap, InWrite, Saved, disk

\* So does a write that reached its place, whatever the file held before.
LEMMA RenameKept == TypeInv /\ ImageBehind /\ (RenameOfPeriodicWrite \/ RenameOfReset) => Kept'
<1> SUFFICES ASSUME TypeInv, ImageBehind, RenameOfPeriodicWrite \/ RenameOfReset PROVE Kept'
  OBVIOUS
<1> USE DEF Kept, KeepsAt, HasSnap, InWrite, Saved, ImageBehind
<1>1. CASE RenameOfPeriodicWrite
  BY <1>1 DEF RenameOfPeriodicWrite, LeaveWrite, memory, Whole
<1>2. CASE RenameOfReset
  BY <1>2 DEF RenameOfReset, memory, Whole
<1> QED
  BY <1>1, <1>2

\* No other step lets the totals to come fall behind the file.
LEMMA NextKept ==
  /\ TypeInv /\ ImageBehind /\ Kept /\ [Next]_vars
  /\ ~Boot /\ ~RenameOfPeriodicWrite /\ ~RenameOfReset
  => Kept'
<1> SUFFICES ASSUME TypeInv, ImageBehind, Kept, [Next]_vars,
                    ~Boot, ~RenameOfPeriodicWrite, ~RenameOfReset
             PROVE  Kept'
  OBVIOUS
<1> USE DEF Kept, HasSnap, InWrite, Saved, ImageBehind
<1>t. /\ IsTotals(counters) /\ IsTotals(snap) /\ IsTotals(image)
      /\ IsTotals(statsFile.totals)
      /\ pend \in [Streams -> [acct : Accounts, n : Nat]]
      /\ inReset \in BOOLEAN /\ wpc \in Places
  BY DEF TypeInv, TypeOK, IsFile
<1>n. ASSUME NEW a \in Accounts
      PROVE  /\ At(counters, a) \in Nat /\ At(snap, a) \in Nat /\ At(image, a) \in Nat
             /\ At(statsFile.totals, a) \in Nat
  BY <1>t, AtNat
<1>1. ASSUME NEW s \in Streams, NEW name \in Users, NEW n \in 1 .. MaxChunk,
             FindCounter(s, name, n)
      PROVE  Kept'
  <2>1. \A b : At(counters', b) = At(counters, b)
    BY <1>1, <1>t, CountersWithSame DEF FindCounter, AccountOf, Accounts
  <2> QED
    BY <1>1, <2>1 DEF FindCounter, KeepsAt, writer, disk
<1>2. ASSUME NEW s \in Streams, AddBytes(s) PROVE Kept'
  <2> DEFINE c == pend[s].acct
             n == pend[s].n
  <2>1. c \in Accounts /\ n \in Nat
    BY <1>t
  <2>2. /\ \A b : At(counters', b) = IF b = c THEN At(counters, c) + n ELSE At(counters, b)
        /\ UNCHANGED <<writer, disk>>
    BY <1>2, AtPut DEF AddBytes
  <2>3. \A b \in Accounts : At(counters', b) \in Nat /\ At(counters', b) >= At(counters, b)
    BY <2>1, <2>2, <1>n
  <2> QED
    BY <2>2, <2>3, <1>n DEF KeepsAt, writer, disk
<1>4. ASSUME Crash PROVE Kept'
  BY <1>4 DEF Crash, KeepsAt
<1>5. ASSUME NextDay PROVE Kept'
  BY <1>5 DEF NextDay, KeepsAt, memory, writer, disk
<1>6. ASSUME Tick PROVE Kept'
  <2>1. ASSUME NEW a \in Accounts, a \notin DOMAIN counters PROVE Saved(a) = 0
    <3>1. wpc = "wait"
      BY <1>6 DEF Tick, InitGuard, SkipReset, BeginReset
    <3>2. At(counters, a) = 0
      BY <2>1, AtNoKey
    <3> QED
      BY <3>1, <3>2, <1>n DEF KeepsAt
  <2>2. ASSUME InitGuard \/ SkipReset, NEW a \in Accounts PROVE KeepsAt(a)'
    BY <2>1, <2>2, <1>n, EmptyTotals
    DEF InitGuard, SkipReset, EnterWrite, KeysToVisit, KeepsAt, outside, memory, disk
  <2>3. ASSUME BeginReset, NEW a \in Accounts PROVE KeepsAt(a)'
    BY <2>1, <2>3, <1>n, EmptyTotals
    DEF BeginReset, KeysToVisit, KeepsAt, outside, memory, disk
  <2> QED
    BY <1>6, <2>2, <2>3 DEF Tick
<1>9. ASSUME NEW k \in Accounts, SnapshotKey(k) PROVE Kept'
  <2>1. \A b : At(snap', b) = IF b = k THEN At(counters, k) ELSE At(snap, b)
    BY <1>9, AtPut, AtKey DEF SnapshotKey
  <2> QED
    BY <1>9, <2>1 DEF SnapshotKey, KeepsAt, outside, memory, disk
<1>10. ASSUME EndSnapshot PROVE Kept'
  BY <1>10 DEF EndSnapshot, KeepsAt, outside, memory, disk
<1>11. ASSUME OpenArchive PROVE Kept'
  BY <1>11 DEF OpenArchive, KeepsAt, memory
<1>12. ASSUME FillArchive PROVE Kept'
  BY <1>12 DEF FillArchive, KeepsAt, memory
<1>13. ASSUME AbortReset PROVE Kept'
  <2>1. ASSUME NEW a \in Accounts PROVE KeepsAt(a)'
    <3>1. a \notin todo' => Saved(a) = 0
      BY <1>13, <1>n, AtNoKey DEF AbortReset, EnterWrite, KeysToVisit, KeepsAt
    <3> QED
      BY <1>13, <3>1, <1>n, EmptyTotals DEF AbortReset, EnterWrite, GuardAfterAbort, KeepsAt, disk
  <2> QED
    BY <2>1
<1>14. ASSUME NEW k \in Accounts, ZeroKey(k) PROVE Kept'
  BY <1>14 DEF ZeroKey, KeepsAt, disk
<1>15. ASSUME EndZero PROVE Kept'
  BY <1>15, <1>n, EmptyTotals DEF EndZero, EnterWrite, KeepsAt, outside, memory, disk
<1>16. ASSUME NEW k \in Accounts, CollectKey(k) PROVE Kept'
  <2>1. \A b : At(image', b) = IF b = k THEN At(counters, k) ELSE At(image, b)
    BY <1>16, AtPut, AtKey DEF CollectKey
  <2> QED
    BY <1>16, <2>1, <1>n DEF CollectKey, KeepsAt, outside, memory, disk
<1>17. ASSUME EndCollect PROVE Kept'
  BY <1>17 DEF EndCollect, KeepsAt, outside, memory, disk
<1>18. ASSUME WriteTmp PROVE Kept'
  BY <1>18 DEF WriteTmp, StatsFileDuringWrite, KeepsAt, memory
<1>21. ASSUME FailPeriodicWrite PROVE Kept'
  BY <1>21 DEF FailPeriodicWrite, WriteFailed, LeaveWrite, KeepsAt, outside, memory, disk
<1>22. ASSUME FailResetWrite PROVE Kept'
  <2>1. ASSUME NEW a \in Accounts PROVE KeepsAt(a)'
    <3>1. a \notin todo' => Saved(a) = 0
      BY <1>22, <1>n, AtNoKey DEF FailResetWrite, WriteFailed, KeepsAt
    <3> QED
      BY <1>22, <3>1, <1>n DEF FailResetWrite, WriteFailed, KeepsAt, outside, memory, disk
  <2> QED
    BY <2>1
<1>23. ASSUME NEW k \in Accounts, RollbackKey(k) PROVE Kept'
  <2>1. \A b : At(counters', b) = IF b = k THEN At(snap, k) ELSE At(counters, b)
    BY <1>23, AtPut, AtKey DEF RollbackKey, RollbackValue, TypeInv, ResetLocals
  <2> QED
    BY <1>23, <2>1 DEF RollbackKey, KeepsAt, disk
<1>24. ASSUME EndRollback PROVE Kept'
  <2>1. ASSUME NEW a \in Accounts PROVE KeepsAt(a)'
    <3>1. a \notin todo' => Saved(a) = 0
      BY <1>24, <1>n, AtNoKey DEF EndRollback, EnterWrite, KeysToVisit, KeepsAt
    <3> QED
      BY <1>24, <3>1, <1>n, EmptyTotals DEF EndRollback, EnterWrite, KeepsAt, outside, memory, disk
  <2> QED
    BY <2>1
<1>25. ASSUME SaveGuard PROVE Kept'
  <2>1. ASSUME NEW a \in Accounts PROVE KeepsAt(a)'
    <3>1. a \notin todo' => Saved(a) = 0
      BY <1>25, <1>n, AtNoKey DEF SaveGuard, EnterWrite, KeysToVisit, KeepsAt
    <3> QED
      BY <1>25, <3>1, <1>n, EmptyTotals DEF SaveGuard, EnterWrite, KeepsAt
  <2> QED
    BY <2>1
<1>26. CASE UNCHANGED vars
  BY <1>26 DEF vars, memory, writer, disk, KeepsAt
<1> QED
  BY <1>1, <1>2, <1>4, <1>5, <1>6, <1>9, <1>10, <1>11, <1>12, <1>13,
     <1>14, <1>15, <1>16, <1>17, <1>18, <1>21, <1>22, <1>23, <1>24, <1>25,
     <1>26
  DEF Next, Tunnels, Writer, ResetStep, WriteStep

LEMMA NextKeeps == TypeInv /\ FileSound /\ KeepsInv /\ [Next]_vars => KeepsInv'
<1> SUFFICES ASSUME TypeInv, FileSound, KeepsInv, [Next]_vars PROVE KeepsInv'
  OBVIOUS
<1>1. ImageBehind'
  BY NextImage DEF KeepsInv
<1>2. ASSUME ~blind' PROVE Kept'
  <2>1. CASE Boot
    BY <1>2, <2>1, BootKept
  <2>2. CASE RenameOfPeriodicWrite \/ RenameOfReset
    BY <2>2, RenameKept DEF KeepsInv
  <2>3. CASE ~Boot /\ ~RenameOfPeriodicWrite /\ ~RenameOfReset
    <3>1. blind' = blind
      BY <2>3
      DEF Next, Tunnels, FindCounter, AddBytes, Crash, NextDay, Writer, Tick,
          InitGuard, SkipReset, BeginReset, ResetStep, SnapshotKey, ZeroKey, RollbackKey,
          EndSnapshot, OpenArchive, FillArchive, AbortReset, EndZero, EndRollback,
          SaveGuard, WriteStep, CollectKey, EndCollect, WriteTmp,
          FailPeriodicWrite, FailResetWrite, vars, outside, history
    <3>2. Kept
      BY <1>2, <3>1 DEF KeepsInv
    <3> QED
      BY <2>3, <3>2, NextKept DEF KeepsInv
  <2> QED
    BY <2>1, <2>2, <2>3
<1> QED
  BY <1>1, <1>2 DEF KeepsInv

LEMMA KeepsInvariant == Spec => []KeepsInv
<1>1. StatsFileInv => FileSound
  BY DEF StatsFileInv
<1> QED
  BY <1>1, InitKeeps, NextKeeps, TypeInvariant, StatsFileInvariant, PTL DEF Spec

\* The initial state of the accounting is one of the ledger.
LEMMA LedgerInit == Init => Ledger!Init
  BY EmptyTotals DEF Init, Ledger!Init, Saved, NoFile

\* Every step is a step of the ledger or leaves it alone.
LEMMA LedgerNext ==
  TypeInv /\ TypeInv' /\ BillingInv(Nothing) /\ BillingInv(Nothing)' /\ KeepsInv /\ [Next]_vars
    => [Ledger!Next]_(Ledger!ledger)
<1> SUFFICES ASSUME TypeInv, TypeInv', BillingInv(Nothing), BillingInv(Nothing)', KeepsInv, [Next]_vars
             PROVE  [Ledger!Next]_(Ledger!ledger)
  OBVIOUS
<1> DEFINE saved == [a \in Accounts |-> Saved(a)]
<1>n. ASSUME NEW a \in Accounts
      PROVE  /\ At(snap, a) \in Nat /\ At(image, a) \in Nat /\ Saved(a) \in Nat
             /\ counted[a] \in Nat /\ billed[a] \in Nat
  BY AtNat DEF TypeInv, TypeOK, IsFile, Saved
<1>b. \A a \in Accounts : billed'[a] + Saved(a)' <= counted'[a]
  <2> SUFFICES ASSUME NEW a \in Accounts PROVE billed'[a] + Saved(a)' <= counted'[a]
    OBVIOUS
  <2>1. Nothing[a] + billed'[a] + Saved(a)' <= counted'[a]
    BY DEF BillingInv, BillingAt, Within
  <2>2. Nothing[a] = 0 /\ billed'[a] \in Nat
    BY DEF Nothing, TypeInv, TypeOK
  <2> QED
    BY <2>1, <2>2
<1>1. ASSUME NEW s \in Streams, AddBytes(s) PROVE Ledger!Count
  <2>1. pend[s].acct \in Accounts /\ pend[s].n \in Nat
    BY DEF TypeInv, TypeOK
  <2>2. \A a \in Accounts : counted'[a] >= counted[a]
    BY <1>1, <2>1, <1>n DEF AddBytes, TypeInv, TypeOK
  <2>3. billed' = billed /\ saved' = saved /\ blind' = blind
    BY <1>1 DEF AddBytes, disk, Saved
  <2> QED
    BY <2>2, <2>3 DEF Ledger!Count, Ledger!Covers
<1>2. ASSUME RenameOfPeriodicWrite PROVE Ledger!Checkpoint
  <2>1. \A a \in Accounts : Saved(a)' = At(image, a)
    BY <1>2 DEF RenameOfPeriodicWrite, Whole, Saved
  <2>2. blind \in BOOLEAN /\ blind' = FALSE /\ UNCHANGED <<counted, billed>>
    BY <1>2 DEF RenameOfPeriodicWrite, TypeInv, TypeOK
  <2>3. ASSUME ~blind PROVE Ledger!Covers(saved', saved)
    <3>1. \A a \in Accounts : Saved(a) <= At(image, a)
      BY <1>2, <2>3 DEF RenameOfPeriodicWrite, KeepsInv, Kept, KeepsAt
    <3>2. \A a \in Accounts : Saved(a)' >= Saved(a)
      BY <2>1, <3>1, <1>n
    <3> QED
      BY <3>2 DEF Ledger!Covers
  <2>4. Ledger!Balanced(counted, saved', billed)
    BY <2>2, <1>b DEF Ledger!Balanced
  <2> QED
    BY <2>2, <2>3, <2>4, Zenon DEF Ledger!Checkpoint
<1>3. ASSUME RenameOfReset PROVE Ledger!Bill
  <2>1. \A a \in Accounts : billed'[a] = billed[a] + At(snap, a)
    BY <1>3 DEF RenameOfReset, BillingInv, HasArchive, InWrite, Whole
  <2>2. ~blind => \A a \in Accounts : Saved(a) <= At(snap, a)
    BY <1>3 DEF RenameOfReset, KeepsInv, Kept, KeepsAt, HasSnap, InWrite
  <2>3. blind \in BOOLEAN /\ blind' = FALSE /\ UNCHANGED counted
    BY <1>3 DEF RenameOfReset, TypeInv, TypeOK
  <2> QED
    BY <2>1, <2>2, <2>3, <1>b, <1>n DEF Ledger!Bill, Ledger!Balanced, Ledger!Covers
<1>4. ASSUME Boot PROVE Ledger!Restart
  BY <1>4 DEF Boot, disk, Saved, Ledger!Restart
<1>6. CASE UNCHANGED <<counted, billed, statsFile, blind>>
  BY <1>6 DEF Ledger!ledger, Saved
<1>5. \/ \E s \in Streams : AddBytes(s)
      \/ RenameOfPeriodicWrite
      \/ RenameOfReset
      \/ Boot
      \/ UNCHANGED <<counted, billed, statsFile, blind>>
  BY DEF Next, Tunnels, FindCounter, Crash, NextDay, Writer, Tick,
         InitGuard, SkipReset, BeginReset, ResetStep, SnapshotKey, ZeroKey, RollbackKey,
         EndSnapshot, OpenArchive, FillArchive, AbortReset, EndZero, EndRollback,
         SaveGuard, WriteStep, CollectKey, EndCollect, WriteTmp, StatsFileDuringWrite,
         FailPeriodicWrite, FailResetWrite, vars, outside, memory, disk, history
<1> QED
  BY <1>1, <1>2, <1>3, <1>4, <1>5, <1>6 DEF Ledger!Next

(* Durable totals behave as the ledger says: a saved total never shrinks    *)
(* but in a reset whose archive covers it, or after a start that could not  *)
(* read it, whatever crashes and file errors come between the archive, the  *)
(* zeroing, the rename and the guard.                                       *)
THEOREM LedgerCorrect == Spec => ImplementsLedger
<1>1. Spec => Ledger!Init /\ [][Ledger!Next]_(Ledger!ledger)
  BY LedgerInit, LedgerNext, TypeInvariant, BillingInvariant, KeepsInvariant, PTL DEF Spec
<1> QED
  BY <1>1 DEF ImplementsLedger, Ledger!Spec

-----------------------------------------------------------------------------
(* A process that is never lost accounts for every byte, except for those   *)
(* added during a reset: what is counted is billed, at risk, or held by the *)
(* counters outside a reset and by the snapshot, which the rename bills and *)
(* the rollback puts back, inside one.                                      *)

Covered(a, n) == counted[a] <= billed[a] + n + atRisk[a]

LossAt(a) ==
  /\ wpc = "down" => counted[a] = 0
  /\ wpc \notin {"zero", "rollback"} /\ ~(InWrite /\ inReset) => Covered(a, At(counters, a))
  /\ wpc = "snapshot" /\ a \notin todo => Covered(a, At(snap, a))
  /\ HasSnap /\ wpc # "snapshot" => Covered(a, At(snap, a))
  /\ wpc = "rollback" /\ a \notin todo => Covered(a, At(counters, a))

LossInv == \A a \in Accounts : LossAt(a)

LEMMA InitLoss == Init => LossInv
  BY EmptyTotals DEF Init, LossInv, LossAt, Covered, HasSnap, InWrite

LEMMA NextLoss ==
  ASSUME ~MayCrash
  PROVE  TypeInv /\ BillingInv(Nothing) /\ LossInv /\ [Next]_vars => LossInv'
<1> SUFFICES ASSUME TypeInv, BillingInv(Nothing), LossInv, [Next]_vars PROVE LossInv'
  OBVIOUS
<1> USE DEF LossInv, HasSnap, InWrite
<1>t. /\ IsTotals(counters) /\ IsTotals(snap)
      /\ pend \in [Streams -> [acct : Accounts, n : Nat]]
      /\ inReset \in BOOLEAN /\ wpc \in Places
      /\ counted \in [Accounts -> Nat] /\ atRisk \in [Accounts -> Nat]
  BY DEF TypeInv, TypeOK
<1>n. ASSUME NEW a \in Accounts
      PROVE  /\ At(counters, a) \in Nat /\ At(snap, a) \in Nat
             /\ counted[a] \in Nat /\ billed[a] \in Nat /\ atRisk[a] \in Nat
  BY <1>t, AtNat DEF TypeInv, TypeOK
<1>1. ASSUME NEW s \in Streams, NEW name \in Users, NEW n \in 1 .. MaxChunk,
             FindCounter(s, name, n)
      PROVE  LossInv'
  <2>1. \A b : At(counters', b) = At(counters, b)
    BY <1>1, <1>t, CountersWithSame DEF FindCounter, AccountOf, Accounts
  <2> QED
    BY <1>1, <2>1 DEF FindCounter, LossAt, Covered, writer, history
<1>2. ASSUME NEW s \in Streams, AddBytes(s) PROVE LossInv'
  <2> DEFINE c == pend[s].acct
             n == pend[s].n
  <2>1. c \in Accounts /\ n \in Nat
    BY <1>t
  <2>2. /\ \A b : At(counters', b) = IF b = c THEN At(counters, c) + n ELSE At(counters, b)
        /\ counted' = [counted EXCEPT ![c] = counted[c] + n]
        /\ UNCHANGED <<writer, billed>>
    BY <1>2, AtPut DEF AddBytes
  <2>3. /\ Resetting => atRisk' = [atRisk EXCEPT ![c] = atRisk[c] + n]
        /\ ~Resetting => atRisk' = atRisk
    BY <1>2 DEF AddBytes
  <2>4. Resetting <=> HasSnap
    BY DEF Resetting
  <2>5. wpc # "down" \/ n = 0
    BY <1>2 DEF AddBytes
  <2>6. ASSUME NEW a \in Accounts PROVE LossAt(a)'
    <3>1. CASE a # c
      <4>1. At(counters', a) = At(counters, a) /\ counted'[a] = counted[a]
        BY <2>1, <2>2, <3>1, <1>t
      <4>2. atRisk'[a] = atRisk[a]
        BY <2>1, <2>3, <3>1, <1>t
      <4> QED
        BY <4>1, <4>2, <2>2 DEF LossAt, Covered, writer
    <3>2. CASE a = c
      <4>1. At(counters', a) = At(counters, a) + n /\ counted'[a] = counted[a] + n
        BY <2>1, <2>2, <3>2, <1>t
      <4>2. Resetting => atRisk'[a] = atRisk[a] + n
        BY <2>1, <2>3, <3>2, <1>t
      <4>3. ~Resetting => atRisk'[a] = atRisk[a]
        BY <2>3
      <4> QED
        BY <4>1, <4>2, <4>3, <2>1, <2>2, <2>4, <2>5, <1>n DEF LossAt, Covered, writer
    <3> QED
      BY <3>1, <3>2
  <2> QED
    BY <2>6
<1>3. ASSUME Boot PROVE LossInv'
  <2>1. ASSUME NEW a \in Accounts PROVE At(counters', a) \in Nat
    BY <1>3, AtNat, EmptyTotals DEF Boot, TypeInv, TypeOK, IsFile
  <2>2. /\ wpc = "down" /\ wpc' = "wait" /\ UNCHANGED <<counted, billed, atRisk, inReset>>
    BY <1>3 DEF Boot
  <2> QED
    BY <2>1, <2>2, <1>n DEF LossAt, Covered
<1>5. ASSUME NextDay PROVE LossInv'
  BY <1>5 DEF NextDay, LossAt, Covered, memory, writer, history
<1>6. ASSUME Tick PROVE LossInv'
  <2>1. ASSUME NEW a \in Accounts, a \notin DOMAIN counters PROVE At(counters, a) = 0
    BY <2>1, AtNoKey
  <2>2. ASSUME InitGuard \/ SkipReset, NEW a \in Accounts PROVE LossAt(a)'
    BY <2>2 DEF InitGuard, SkipReset, EnterWrite, LossAt, Covered, outside, memory, history
  <2>3. ASSUME BeginReset, NEW a \in Accounts PROVE LossAt(a)'
    BY <2>1, <2>3, EmptyTotals
    DEF BeginReset, KeysToVisit, LossAt, Covered, outside, memory, history
  <2> QED
    BY <1>6, <2>2, <2>3 DEF Tick
<1>9. ASSUME NEW k \in Accounts, SnapshotKey(k) PROVE LossInv'
  <2>1. \A b : At(snap', b) = IF b = k THEN At(counters, k) ELSE At(snap, b)
    BY <1>9, AtPut, AtKey DEF SnapshotKey
  <2> QED
    BY <1>9, <2>1 DEF SnapshotKey, LossAt, Covered, outside, memory, history
<1>10. ASSUME EndSnapshot PROVE LossInv'
  BY <1>10 DEF EndSnapshot, LossAt, Covered, outside, memory, history
<1>11. ASSUME OpenArchive \/ FillArchive PROVE LossInv'
  BY <1>11 DEF OpenArchive, FillArchive, LossAt, Covered, memory, history
<1>13. ASSUME AbortReset PROVE LossInv'
  BY <1>13 DEF AbortReset, EnterWrite, LossAt, Covered, history
<1>14. ASSUME NEW k \in Accounts, ZeroKey(k) PROVE LossInv'
  BY <1>14 DEF ZeroKey, LossAt, Covered, history
<1>15. ASSUME EndZero PROVE LossInv'
  BY <1>15 DEF EndZero, EnterWrite, LossAt, Covered, outside, memory, history
<1>16. ASSUME NEW k \in Accounts, CollectKey(k) PROVE LossInv'
  BY <1>16 DEF CollectKey, LossAt, Covered, outside, memory, history
<1>17. ASSUME EndCollect \/ WriteTmp PROVE LossInv'
  BY <1>17 DEF EndCollect, WriteTmp, LossAt, Covered, outside, memory, history
<1>19. ASSUME RenameOfPeriodicWrite PROVE LossInv'
  BY <1>19 DEF RenameOfPeriodicWrite, LeaveWrite, LossAt, Covered, memory
<1>20. ASSUME RenameOfReset PROVE LossInv'
  <2>1. ASSUME NEW a \in Accounts PROVE LossAt(a)'
    <3>1. billed'[a] = billed[a] + At(snap, a)
      BY <1>20 DEF RenameOfReset, Whole, BillingInv, HasArchive
    <3>2. UNCHANGED <<counters, snap, counted, atRisk>> /\ wpc' = "saveGuard"
      BY <1>20 DEF RenameOfReset, memory
    <3>3. Covered(a, At(snap, a))
      BY <1>20 DEF RenameOfReset, LossAt
    <3> QED
      BY <3>1, <3>2, <3>3, <1>n DEF LossAt, Covered
  <2> QED
    BY <2>1
<1>21. ASSUME FailPeriodicWrite PROVE LossInv'
  BY <1>21 DEF FailPeriodicWrite, WriteFailed, LeaveWrite, LossAt, Covered, outside, memory, history
<1>22. ASSUME FailResetWrite PROVE LossInv'
  <2>1. ASSUME NEW a \in Accounts PROVE LossAt(a)'
    <3>1. a \notin todo' => At(snap, a) = 0
      BY <1>22, AtNoKey DEF FailResetWrite
    <3>2. Covered(a, At(snap, a))
      BY <1>22 DEF FailResetWrite, WriteFailed, LossAt
    <3> QED
      BY <1>22, <3>1, <3>2, <1>n
      DEF FailResetWrite, WriteFailed, LossAt, Covered, outside, memory, history
  <2> QED
    BY <2>1
<1>23. ASSUME NEW k \in Accounts, RollbackKey(k) PROVE LossInv'
  <2>1. \A b : At(counters', b) = IF b = k THEN At(snap, k) ELSE At(counters, b)
    BY <1>23, AtPut, AtKey DEF RollbackKey, RollbackValue, TypeInv, ResetLocals
  <2> QED
    BY <1>23, <2>1 DEF RollbackKey, LossAt, Covered, history
<1>24. ASSUME EndRollback PROVE LossInv'
  BY <1>24 DEF EndRollback, EnterWrite, LossAt, Covered, outside, memory, history
<1>25. ASSUME SaveGuard PROVE LossInv'
  BY <1>25 DEF SaveGuard, EnterWrite, LossAt, Covered, history
<1>26. CASE UNCHANGED vars
  BY <1>26 DEF vars, memory, writer, history, LossAt, Covered
<1>27. ~Crash
  BY DEF Crash
<1> QED
  BY <1>1, <1>2, <1>3, <1>5, <1>6, <1>9, <1>10, <1>11, <1>13, <1>14, <1>15, <1>16, <1>17,
     <1>19, <1>20, <1>21, <1>22, <1>23, <1>24, <1>25, <1>26, <1>27
  DEF Next, Tunnels, Writer, ResetStep, WriteStep

(* A process that is never lost loses a byte only if it was added while a   *)
(* reset was between its snapshot and its rename or rollback, whatever file *)
(* operations fail: StoreInt64(0) and the rollback overwrite nothing else.  *)
THEOREM LossCorrect == ASSUME ~MayCrash PROVE Spec => []LossOnlyDuringReset
<1>1. LossInv => LossOnlyDuringReset
  BY DEF LossInv, LossAt, Covered, LossOnlyDuringReset, Resetting, InWrite
<1>2. Spec => []LossInv
  BY InitLoss, NextLoss, TypeInvariant, BillingInvariant, PTL DEF Spec
<1> QED
  BY <1>1, <1>2, PTL
=============================================================================
