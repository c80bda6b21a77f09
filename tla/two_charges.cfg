CONSTANTS
  p = p  q = q  w1 = w1  w2 = w2  h1 = h1  h2 = h2  e1 = e1  e2 = e2
  NoRef = NoRef  NoEvent = NoEvent
  Refs = {p, q}
  Workers = {w1}
  Handlers = {h1}
  WebhookEvents = {e1, e2}
  EventRef <- EventRefTwoCharges
  GatewayOf <- GatewayTwoCharges
  Configured <- AllGateways
  ClaimLimit = 1
  MaxFaults = 1
SPECIFICATION FairSpec
INVARIANT ShownIsTrue
PROPERTIES ImplementsBook OutboxSettles
