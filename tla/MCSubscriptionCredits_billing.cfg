SPECIFICATION Spec
CONSTANTS
    pro = pro
    ultra = ultra
    Tiers = {pro, ultra}
    TierMax <- Credits
    FirstTier = pro
    Invoices = {i1, i2}
    Handlers = {h1, h2}
    Share = 2
    NoTier = NoTier
    NoInvoice = NoInvoice
    MaxChanges = 1
    MaxAttempts = 1
    MaxSpent = 1
    MaxFaults = 1
SYMMETRY Symmetry
CHECK_DEADLOCK FALSE
INVARIANT TypeOK
INVARIANT HoldFollowsPayment
 
 
PROPERTY ImplementsLedger
