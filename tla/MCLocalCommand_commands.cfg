CONSTANTS
  MaxAttempts = 2
  MaxCloses = 1
  MaxFaults = 2
SPECIFICATION FairSpec
INVARIANTS TypeOK 
PROPERTIES CancelIsAnswered
CHECK_DEADLOCK FALSE
