\* Three processes; a new database or one of an early release.
CONSTANTS
  Process = {p1, p2, p3}
  MaxKeys = 3
  MaxLosses = 1
  Legacies = {TRUE, FALSE}
SPECIFICATION Spec
SYMMETRY Interchangeable
INVARIANTS
  TypeOK
  ProcessesAgree
  OneKeyUnlessMissed
