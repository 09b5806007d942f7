SPECIFICATION FairSpec
CONSTANTS
  Base = 3
  NumFirst = 2
  Content <- MCContent
  EmptyFrames = TRUE
INVARIANTS
  TypeOK
  DeliveredIsSent
  PaddingIsBounded
PROPERTIES
  AllComesOut
CHECK_DEADLOCK FALSE
