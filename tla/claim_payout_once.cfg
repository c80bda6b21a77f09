CONSTANTS
  x = x  y = y  e1 = e1  e2 = e2  f = f  d1 = d1  d2 = d2  k = k
  NoKey = NoKey  NoBatch = NoBatch  NoEntry = NoEntry
  Requests = {x}
  KeyOf <- KeyOne
  Entries = {e1}
  BatchOf <- BatchOfOne
  Primary = "paystack"
  InGHS = {e1}
  Dispatchers = {d1}
  Configured <- AllGateways
  MaxRounds = 2
  MaxFaults = 0
SPECIFICATION Spec
CHECK_DEADLOCK FALSE
INVARIANT EntryPaidOnce
