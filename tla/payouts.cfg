CONSTANTS
  x = x  y = y  e1 = e1  e2 = e2  f = f  d1 = d1  d2 = d2  k = k
  NoKey = NoKey  NoBatch = NoBatch  NoEntry = NoEntry
  Requests = {x, y}
  KeyOf <- KeyShared
  Entries = {e1, e2, f}
  BatchOf <- BatchOfBoth
  Primary = "paystack"
  InGHS = {e1, e2}
  Dispatchers = {d1, d2}
  Configured <- WithoutMoolre
  MaxRounds = 2
  MaxFaults = 1
SPECIFICATION Spec
SYMMETRY Symmetric
CHECK_DEADLOCK FALSE
INVARIANTS TypeOK DispatchersExclusive PaymentsBounded BookedIsPaid PaidIsBooked
