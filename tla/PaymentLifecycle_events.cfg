\* Failed, then paid, then refunded, with copies in any order, and every fault.
SPECIFICATION Spec
CONSTANTS
  d1 = d1
  d2 = d2
  d3 = d3
  d4 = d4
  d5 = d5
  f1 = f1
  f2 = f2
  Null = Null
  History <- FullHistory
  Delivery = {d1, d3, d4, d5}
  EventOf <- FullDeliveries
  Refund = {}
  RefundLimit = 0
  Early = FALSE
  Faults = {"redis", "db", "crash"}
  MaxFailures = 1
INVARIANTS
  StatusHasCause
  AcknowledgedWasApplied
  FollowsStripe
