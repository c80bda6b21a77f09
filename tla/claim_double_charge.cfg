CONSTANTS
  a = a  b = b  k = k
  NoKey = NoKey  NoGateway = NoGateway  NoRef = NoRef
  Requests = {a, b}
  KeyOf <- KeyShared
  InGHS = {a, b}
  Primary = "paystack"
  Configured <- WithoutMoolre
  FailureThreshold = 5
  MaxFaults = 0
SPECIFICATION Spec
CHECK_DEADLOCK FALSE
INVARIANT OneChargePerKey
