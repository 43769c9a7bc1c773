\* Two couriers with all limits up to the most a batch may hold.
CONSTANTS
  Couriers = {c1, c2}
  Events = {e1, e2, e3, e4}
  Limits = {1, 2, 3}
  MaxBatch = 2
  NoRead = NoRead
SPECIFICATION Spec
SYMMETRY Interchangeable
CHECK_DEADLOCK FALSE
INVARIANTS
  AcknowledgedIsStored
  Resumable
PROPERTIES
  ImplementsReplication
