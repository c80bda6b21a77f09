CONSTANTS
  a1 = a1  a2 = a2  b = b  OA = OA  OB = OB
  NoKey = NoKey  NoGateway = NoGateway  NoRef = NoRef
  Requests = {a1, a2, b}
  Orders = {OA, OB}
  OrderOf <- Order
  Keyed = {OA}
  KeyOf <- ClientKeys
  InGHS = {a1, a2}
  Primary = "moolre"
  Configured <- OnlyPaystack
  FailureThreshold = 1
  MaxFaults = 1
  MaxCutoffs = 2
SPECIFICATION ClientSpec
CHECK_DEADLOCK FALSE
INVARIANTS KeyedRetryIsSafe ToldFailedIsUncollected ToldPendingIsStored
SYMMETRY Attempts
