\* Two partial refunds and the success event twice, every fault.
SPECIFICATION FairSpec
CONSTANTS
  d1 = d1
  d2 = d2
  d3 = d3
  d4 = d4
  d5 = d5
  f1 = f1
  f2 = f2
  Null = Null
  History <- SuccessHistory
  Delivery = {d1, d2}
  EventOf <- SuccessTwice
  Refund = {f1, f2}
  RefundLimit = 2
  Early = TRUE
  Faults = {"redis", "db", "stripe", "crash"}
  MaxFailures = 1
INVARIANTS
  TypeOK
  RefundBooks
PROPERTIES
  AllAnswered
