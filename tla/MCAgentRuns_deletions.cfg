CONSTANTS
  Runs = {r1}
  Calls = {c1}
  Operations = {"start", "forget", "delete", "deleteAll", "approve"}
  Sessions = {"none", "open"}
  NoRun = NoRun
  NoAsk = NoAsk
  MaxAsks = 1
  MaxMessages = 2
  MaxJobs = 1
  MaxAttempts = 2
SPECIFICATION FairSpec
PROPERTIES EndedIsForgotten NothingUnapproved
