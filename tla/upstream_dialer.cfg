SPECIFICATION FairSpec
CONSTANTS
  p1 = p1
  p2 = p2
  c1 = c1
  c2 = c2
  Callers <- MCCallers
  Conns <- MCConns
  NoConn = NoConn
INVARIANTS
  TypeOK
  OneNilPerConn
  Http1TunnelPrivate
  LeftOpenOnPurpose
PROPERTIES
  AbandonsDeadConn
