CONSTANTS
  Session = {p, t}
  Team = {t}
  Delayed = {p}
  Request = {r1, r2}
  NoSession = NoSession
  MaxFaults = 2
SPECIFICATION FairSpec
INVARIANTS TypeOK TrailFollowsCredit
PROPERTIES ImplementsLedger PaidIsCredited
