----------------------------- MODULE MCAdmission -----------------------------
(* Two requests at a time, of a user who may move one byte a month.         *)
EXTENDS Admission, TLC

CONSTANTS alice, r1, r2

MCRequests == {r1, r2}
MCSymmetry == Permutations(MCRequests)
MCUsers == {alice}
MCQuota == [u \in Users |-> 1]
=============================================================================
