\* A second shell only asks for the status while the first one starts the service.
CONSTANTS
  Shell = {s1, s2}
  Config = {c1}
  MaxDaemons = 1
SPECIFICATION Spec
INVARIANTS
  Controllable
