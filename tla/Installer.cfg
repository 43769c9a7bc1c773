\* Two installers, two runtimes, two launchers, two hosts.
CONSTANTS
  Installers = {i1, i2}
  Runtimes = {r1, r2}
  FileHosts = {cursor}
  Claude = claude
  Shims = 2
  None = None
  Foreign = Foreign
SPECIFICATION Spec
SYMMETRY Interchangeable
INVARIANTS
  NamedAreComplete
  OneRuntime
PROPERTIES
  CopyKept
  ForeignKept
