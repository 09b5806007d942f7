SPECIFICATION Spec
CONSTANTS
  Users = {alice}
  NoName = noname
  Unknown = unknown
  Streams = {s1}
  MaxChunk = 1
  MaxBytes <- MCBytes2
  MaxDay = 2
  DayOfMonth <- MCCalendar2
  ResetDay = 1
  Fails <- MCNoFails
  MayCrash = TRUE

PROPERTIES
  OneResetPerDate
