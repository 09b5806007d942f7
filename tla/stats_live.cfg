SPECIFICATION FairSpec
CONSTANTS
  Users = {alice, noname}
  NoName = noname
  Unknown = unknown
  Streams = {s1}
  MaxChunk = 1
  MaxBytes <- MCBytes21
  MaxDay = 2
  DayOfMonth <- MCCalendar2
  ResetDay = 1
  Fails <- MCAllFails
  MayCrash = FALSE
INVARIANTS
  LossOnlyDuringReset
PROPERTIES
  OneResetPerDate
  ResetCatchesUp
  CountedReachesDisk
