\* Two processes open a database of an early release; no key is ever lost.
CONSTANTS
  Process = {p1, p2}
  MaxKeys = 2
  MaxLosses = 0
  Legacies = {TRUE}
SPECIFICATION Spec
SYMMETRY Interchangeable
INVARIANTS
  OneKey
