CONSTANTS
  a = a  b = b  k = k
  NoKey = NoKey  NoGateway = NoGateway  NoRef = NoRef
  Requests = {a, b}
  KeyOf <- KeyShared
  InGHS = {a, b}
  Primary = "paystack"
  Configured <- WithoutMoolre
  FailureThreshold = 2
  MaxFaults = 2
SPECIFICATION Spec
CHECK_DEADLOCK FALSE
INVARIANTS TypeOK PendingIsLive SameKeySameRef OneAcceptancePerRequest BreakerTrips
