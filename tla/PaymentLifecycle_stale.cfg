\* Nothing fails; two partial refunds of one payment.
SPECIFICATION Spec
CONSTANTS
  d1 = d1
  d2 = d2
  d3 = d3
  d4 = d4
  d5 = d5
  f1 = f1
  f2 = f2
  Null = Null
  History <- SuccessHistory
  Delivery = {d1, d2}
  EventOf <- SuccessTwice
  Refund = {f1, f2}
  RefundLimit = 2
  Early = FALSE
  Faults = {}
  MaxFailures = 0
PROPERTIES
  RefundsOnlySucceeded
