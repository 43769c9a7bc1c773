\* One hook that may die and two drainers that are restarted: liveness.
CONSTANTS
  Hooks = {h1}
  Drainers = {d1, d2}
  Mortal = {h1}
  Events <- AllEvents
  MaxEvents = 2
  MaxBytes = 3
  MaxShelved = 1
  Limit = 2
  Nothing = Nothing
  MaxWrites = 2
SPECIFICATION FairSpec
CHECK_DEADLOCK FALSE
PROPERTIES
  EveryFileLeaves
