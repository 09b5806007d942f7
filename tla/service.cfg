SPECIFICATION ScriptSpec
CONSTANTS
  alice = alice
  up = up
  down = down
  Users = {alice}
  NoName = noname
  Unknown = unknown
  Streams = {up, down}
  MaxChunk = 1
  MaxBytes <- MCBytes
  MaxDay = 2
  DayOfMonth <- MCCalendar
  ResetDay = 1
  Fails <- MCFails
  MayCrash = TRUE
  Quota <- MCQuota
  Pairs <- MCPairs
  Closed = closed
  MaxRuns = 2
INVARIANTS
  BilledOnceByHand
PROPERTIES
  NoAdmissionAtQuota
