SPECIFICATION Spec
CONSTANTS
  alice = alice
  r1 = r1
  r2 = r2
  Requests <- MCRequests
  Users <- MCUsers
  Quota <- MCQuota
  MaxUsed = 2
SYMMETRY MCSymmetry
INVARIANTS
  TypeOK
  OnlyAdmittedReachNetwork
  SameFace
