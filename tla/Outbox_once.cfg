\* The one worker docker-compose.yml starts, and one failure: is an event
\* delivered twice?
SPECIFICATION Spec
CONSTANTS
  p1 = p1
  p2 = p2
  Events = 2
  Publisher = {p1}
  BatchSize = 2
  Poison = {}
  MaxFaults = 1
INVARIANTS
  DeliveredOnce
