CONSTANTS
  Delivery = {d1, d2}
  Warning = {w1}
  Fraudulent = {f1}
  OtherDispute = {}
  NoEvent = NoEvent
  Sub = {s1}
  Card = {}
  User = {}
  Charge = 2
  MaxFailures = 2
  Overrun = FALSE
  Patient = TRUE
SPECIFICATION FairSpec
PROPERTIES EveryEventIsEnforced
