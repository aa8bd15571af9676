\* Two runs for one day while three payments go on, one intent a page, every fault.
SPECIFICATION FairSpec
CONSTANTS
  ordinary = ordinary
  straddler = straddler
  foreign = foreign
  x1 = x1
  x2 = x2
  Null = Null
  Payment = {ordinary, straddler, foreign}
  Amount <- AllEqual
  RowTime <- RowTimes
  IntentTime <- IntentTimes
  Unlinked = {foreign}
  Place <- NewestFirst
  LaterStatus = {"refunded"}
  DayLength = 3
  Runs = {x1, x2}
  DateOf <- SameDay
  PageSize = 1
  StoredLimit = 1
  Faults = {"stripe", "db", "crash"}
INVARIANTS
  TypeOK
  LostAreReported
  NoFalseAlarm
  AllClearIsTrue
  ToldIsStored
PROPERTIES
  RunsEnd
