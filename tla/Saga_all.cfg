\* Two sagas: step 3 cannot be compensated, compensating step 2 may fail.
SPECIFICATION FairSpec
CONSTANTS
  s1 = s1
  s2 = s2
  Sagas = {s1, s2}
  NumSteps = 5
  Compensable = {1, 2, 4}
  Stubborn = {2}
  Faults = {"late", "cancel"}
INVARIANTS
  TypeOK
  NothingHidden
  ActiveIsUnfinished
PROPERTIES
  UndoneInReverse
  SagasEnd
