\* Two hooks and one drainer.
CONSTANTS
  Hooks = {h1, h2}
  Drainers = {d1}
  Mortal = {h1, h2, d1}
  Events <- AllEvents
  MaxEvents = 1
  MaxBytes = 3
  MaxShelved = 1
  Limit = 2
  Nothing = Nothing
  MaxWrites = 3
SPECIFICATION Spec
SYMMETRY Interchangeable
CHECK_DEADLOCK FALSE
INVARIANTS
  NothingVanishes
  SpoolNearBound
  QuarantineNearBound
