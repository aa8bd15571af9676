\* Two repetitions of one request, an event and a refund.
SPECIFICATION Spec
CONSTANTS
  r1 = r1
  r2 = r2
  k1 = k1
  d1 = d1
  f1 = f1
  Null = Null
  Request = {r1, r2}
  TheKey = k1
  FixedMetadata = {}
  History <- PaidHistory
  Delivery = {d1}
  EventOf <- OneDelivery
  Refund = {f1}
  RefundLimit = 1
  MaxFailures = 1
  Faults = {"redis", "db", "expiry"}
SYMMETRY Repetitions
INVARIANTS
  KnownIsFound
  ShownHasCause
PROPERTIES
  ImplementsCreation
  ImplementsLifecycle
