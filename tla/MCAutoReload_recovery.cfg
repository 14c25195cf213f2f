CONSTANTS
  PointsNum = 1
  PointsDen = 1
  MinChargeCents = 1
  Call = {c1}
  Op = {o1, o2}
  NoOp = NoOp
  NoCall = NoCall
  InvoiceNo = {1}
  NoInvoice = NoInvoice
  Amounts = {2}
  InitialBalance = 0
  Thresholds = {0}
  Reloads = {2}
  Caps <- Uncapped
  MinReloadGap = 1
  MaxPolls = 0
  MaxFailures = 1
  MaxPoints = 0
  MaxLate = 1
  MaxBilled = 2
  KeysExpire = FALSE
  PayMayStayOpen = FALSE
SPECIFICATION FairSpec
PROPERTIES PaymentIsCredited ImplementsLedger
