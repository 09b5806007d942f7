SPECIFICATION Spec
CONSTANTS
  MaxInt = 15
  Multiplier <- MCMultiplier
  Frac = 4
  MaxFloat = 72
  Users = {alice, bob}
  Hosts = {host}
  Domains = {secret}
  Paths = {statsPath, otherPath}
  Dirs = {dir, otherDir}
  Subjects = {net, broken}
  BadSubjects = {broken}
  PortArgs <- MCPortArgs
  Upstreams <- MCUpstreams
  Numbers <- MCNumbers
  QuotaTexts <- MCQuotaTexts
  JSONHandlers <- MCJSON
  DirOf <- MCDirOf
  DefaultPath = statsPath
  PACDefault = pacDefault
  Unset = unset
  NoDomain = noDomain
  Saturates = FALSE
  MaxLines = 2
  MaxBlocks = 2
  MaxLoads = 2
  alice = alice
  bob = bob
  host = host
  secret = secret
  statsPath = statsPath
  otherPath = otherPath
  dir = dir
  otherDir = otherDir
  net = net
  broken = broken
INVARIANTS
  TypeOK
  BlockMeansItsLines
  QuotaAsWritten
  RunningIsSafe
  ResetEveryMonth
  OneWriter
CHECK_DEADLOCK FALSE
