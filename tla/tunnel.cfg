SPECIFICATION FairSpec
CONSTANTS
  Bytes <- MCBytes
  MaxEarly = 1
CHECK_DEADLOCK FALSE
INVARIANTS
  TypeOK
  CountsWhatIsDelivered
  WholeUnlessBroken
PROPERTIES
  TunnelEnds
