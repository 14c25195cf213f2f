CONSTANTS
  Requests = 2
  MaxFaults = 1
SPECIFICATION Spec
CHECK_DEADLOCK FALSE
CONSTRAINT TurnsApart
INVARIANTS TypeOK DiscardedIsGone FinishedIsKept StopIsHeard
