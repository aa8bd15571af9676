\* Two workers, one poisonous event, two failures at any moment.
SPECIFICATION FairSpec
CONSTANTS
  p1 = p1
  p2 = p2
  Events = 3
  Publisher = {p1, p2}
  BatchSize = 2
  Poison = {1}
  MaxFaults = 2
INVARIANTS
  TypeOK
  MarkedWasDelivered
  BoundedDuplicates
PROPERTIES
  ImplementsAtLeastOnce
  AllDelivered
