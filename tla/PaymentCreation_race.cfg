\* Three repetitions of one request: locks that expire, are stolen or never taken.
SPECIFICATION Spec
CONSTANTS
  r1 = r1
  r2 = r2
  r3 = r3
  k1 = k1
  Null = Null
  Request = {r1, r2, r3}
  Key = {k1}
  KeyOf <- OneKey
  FixedMetadata = {k1}
  IntentStatus = {"requires_payment_method"}
  LaterStatus = {"succeeded"}
  Faults = {"redis", "crash", "expiry"}
SYMMETRY Repetitions
INVARIANTS
  OneStripeCaller
  SamePayment
PROPERTIES
  SettledStays
  ImplementsRegister
