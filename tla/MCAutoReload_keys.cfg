CONSTANTS
  PointsNum = 1
  PointsDen = 1
  MinChargeCents = 1
  Call = {c1}
  Op = {o1}
  NoOp = NoOp
  NoCall = NoCall
  InvoiceNo = {1, 2}
  NoInvoice = NoInvoice
  Amounts = {2}
  InitialBalance = 0
  Thresholds = {0}
  Reloads = {2}
  Caps <- Uncapped
  MinReloadGap = 1
  MaxPolls = 0
  MaxFailures = 1
  MaxPoints = 2
  MaxLate = 1
  MaxBilled = 2
  KeysExpire = TRUE
  PayMayStayOpen = TRUE
SPECIFICATION ScheduledSpec
INVARIANTS CreditBackedByPayment
 
