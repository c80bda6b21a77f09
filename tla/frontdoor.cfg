CONSTANTS
  server = server  c1 = c1  c2 = c2  browser = browser  key = key  ip = ip
  NoToken = NoToken  NoBucket = NoBucket  NoCaller = NoCaller
  Procs = {server}
  Calls = {c1, c2}
  ProcOf <- SlotsOf
  Callers = {browser}
  IpOf <- OneAddress
  TokenOf <- Tokens
  ApiKey = key
  IpLimit = 2
  KeyLimit = 1
  Window = 2
  MaxFaults = 1
SPECIFICATION FairSpec
CHECK_DEADLOCK FALSE
INVARIANTS CounterExpires FleetLimit
PROPERTY RefusalEnds
