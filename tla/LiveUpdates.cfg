\* Two commits, a queue of one message, two faults.
CONSTANTS
  MaxVersion = 2
  MaxQueue = 1
  MaxFaults = 2
SPECIFICATION LiveSpec
INVARIANT CommitIsOnItsWay
CHECK_DEADLOCK FALSE
PROPERTY CommitReachesConsole
