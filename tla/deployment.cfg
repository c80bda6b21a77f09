CONSTANTS
  Environs <- SomeEnvirons
  Deliveries <- SomeDeliveries
  MaxBusy = 1
  MaxBoots = 2
  Refs = {r1, r2}
  k1 = k1  k2 = k2  k3 = k3
  Keys = {k1, k2, k3}
  Joined <- SomeJoined
  Events = {e}
  Price = 2
  Reported = {2, 3}
  Guess = 9
  MaxEntries = 2
  Half = 8
  Requests <- SomeRequests
  AppIds = {a1, a2}
  Names = {n1, n2}
  AppCalls = {c1, c2, c3, c4}
  Lost = 1
  NoRef = NoRef  NoKey = NoKey  NoApp = NoApp  NoName = NoName  NoHash = NoHash
SPECIFICATION MCSpec
CHECK_DEADLOCK FALSE
INVARIANTS ProductionIsGuarded CloseIsLast DuplicateWasSeen MemoryStandsIn TotalIsSum StoredKeyIsHeld
