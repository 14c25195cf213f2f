CONSTANTS
  Runs = {r1, r2}
  Calls = {c1, c2}
  Operations = {"start", "stop", "forget", "delete"}
  Sessions = {"open"}
  NoRun = NoRun
  NoAsk = NoAsk
  MaxAsks = 0
  MaxMessages = 1
  MaxJobs = 1
  MaxAttempts = 1
SPECIFICATION Spec
SYMMETRY Symmetry
INVARIANTS TypeOK RowIsOfOneRun
PROPERTIES RunningIsNotForgotten SessionOfRunningIsKept
