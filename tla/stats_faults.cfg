SPECIFICATION Spec
CONSTANTS
  Users = {alice}
  NoName = noname
  Unknown = unknown
  Streams = {s1}
  MaxChunk = 1
  MaxBytes <- MCBytes2
  MaxDay = 3
  DayOfMonth <- MCCalendar
  ResetDay = 1
  Fails <- MCAllFails
  MayCrash = TRUE
INVARIANTS
  TypeOK
  StatsFileWhole
  NoDoubleBilling
  GuardIsEarned
PROPERTIES
  ImplementsLedger

