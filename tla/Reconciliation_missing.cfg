\* A payment whose row is there, but not as succeeded, is reported as missing.
SPECIFICATION Spec
CONSTANTS
  ordinary = ordinary
  straddler = straddler
  foreign = foreign
  x1 = x1
  x2 = x2
  Null = Null
  Payment = {ordinary, straddler, foreign}
  Amount <- AllEqual
  RowTime <- RowTimes
  IntentTime <- IntentTimes
  Unlinked = {foreign}
  Place <- NewestFirst
  LaterStatus = {"refunded"}
  DayLength = 3
  Runs = {x1, x2}
  DateOf <- SameDay
  PageSize = 1
  StoredLimit = 1
  Faults = {}
INVARIANTS
  MissingIsAbsent
