CONSTANTS
  p = p  q = q  w1 = w1  w2 = w2  h1 = h1  h2 = h2  e1 = e1  e2 = e2
  NoRef = NoRef  NoEvent = NoEvent
  Refs = {p}
  Workers = {w1, w2}
  Handlers = {h1, h2}
  WebhookEvents = {e1, e2}
  EventRef <- EventRefOneCharge
  GatewayOf <- GatewayOneCharge
  Configured <- AllGateways
  ClaimLimit = 50
  MaxFaults = 2
SYMMETRY Symmetric
SPECIFICATION Spec
INVARIANTS TypeOK LedgerBacked SucceededIsBooked OneEntryPerWebhookEvent
  WorkerEntriesBounded WorkersExclusive ClosedRowMeansSettledIntent
