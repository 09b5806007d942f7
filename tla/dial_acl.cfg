SPECIFICATION Spec
CONSTANTS
  Public = public
  Private = private
  NoAddr = noaddr
  Addrs <- MCAddrs
  Hosts <- MCHosts
  LiteralOf <- MCLiteralOf
  PrivateNets <- MCPrivateNets
  UserRules <- MCUserRules
  Ports <- MCPorts
  AllowedPorts <- MCAllowed
  MaxAnswer = 2
CHECK_DEADLOCK FALSE
INVARIANTS
  TypeOK
  DialsWhatPolicyAllows
  PrivateNeedsUserRule
  NamePassAgrees
