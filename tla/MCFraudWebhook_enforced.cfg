CONSTANTS
  Delivery = {d1, d2}
  Warning = {w1}
  Fraudulent = {f1}
  OtherDispute = {}
  NoEvent = NoEvent
  Sub = {s1}
  Card = {k1}
  User = {u1}
  Charge = 2
  MaxFailures = 1
  Overrun = FALSE
  Patient = FALSE
SPECIFICATION Spec
INVARIANTS TypeOK CompletedIsEnforced OneHandler
 
SYMMETRY Symmetry
