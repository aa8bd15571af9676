\* Two repetitions of one request, every fault at any moment.
SPECIFICATION FairSpec
CONSTANTS
  r1 = r1
  r2 = r2
  r3 = r3
  k1 = k1
  Null = Null
  Request = {r1, r2}
  Key = {k1}
  KeyOf <- OneKey
  FixedMetadata = {}
  IntentStatus = {"requires_payment_method"}
  LaterStatus = {"succeeded"}
  Faults = {"redis", "db", "stripe", "crash", "expiry"}
INVARIANTS
  TypeOK
  DeclinedIsRecorded
  LedgerMatchesRows
PROPERTIES
  AllAnswered
