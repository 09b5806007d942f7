----------------------------- MODULE StatsLedger -----------------------------
(***************************************************************************)
(* What the traffic accounting promises about durable totals, whatever     *)
(* crashes and file errors happen on the way: an account's bytes are       *)
(* counted once, wait in the stats file, and leave it only for a bill (the *)
(* archive of a monthly reset) that covers all the file held.  The one     *)
(* exception is a start that cannot read the file: loadTrafficStats then   *)
(* begins at zero, and the next write forgets what it did not know.        *)
(***************************************************************************)
EXTENDS Naturals

CONSTANT Accounts

VARIABLES
  counted,   \* bytes ever counted for each account
  saved,     \* bytes of the account in the stats file
  billed,    \* bytes of the account moved into archives
  blind      \* did the process start without what the file holds?

ledger == <<counted, saved, billed, blind>>

\* t holds at least what s holds, for every account.
Covers(t, s) == \A a \in Accounts : t[a] >= s[a]

\* No byte is in the stats file and in a bill, or twice in either.
Balanced(c, s, b) == \A a \in Accounts : b[a] + s[a] <= c[a]

Init ==
  /\ counted = [a \in Accounts |-> 0]
  /\ saved   = [a \in Accounts |-> 0]
  /\ billed  = [a \in Accounts |-> 0]
  /\ blind   = FALSE

Count ==
  /\ Covers(counted', counted)
  /\ UNCHANGED <<saved, billed, blind>>

Restart ==
  /\ blind' \in BOOLEAN
  /\ UNCHANGED <<counted, saved, billed>>

\* A periodic write: a saved total never shrinks.
Checkpoint ==
  /\ blind \/ Covers(saved', saved)
  /\ Balanced(counted, saved', billed)
  /\ blind' = FALSE
  /\ UNCHANGED <<counted, billed>>

\* A reset: the bill covers what the stats file held.
Bill ==
  /\ Covers(billed', billed)
  /\ blind \/ \A a \in Accounts : billed'[a] >= billed[a] + saved[a]
  /\ Balanced(counted, saved', billed')
  /\ blind' = FALSE
  /\ UNCHANGED counted

Next == Count \/ Restart \/ Checkpoint \/ Bill

Spec == Init /\ [][Next]_ledger
=============================================================================
