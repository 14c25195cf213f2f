SPECIFICATION Spec
CONSTANTS
    Requests = {r1, r2}
    Paths = {"run"}
    Allocation = 3
    Funds = 2
    Estimates = {1, 3}
    MaxCost = 3
    MaxFailures = 1
    MaxRenewals = 1
SYMMETRY Symmetry
CHECK_DEADLOCK FALSE
INVARIANT TypeOK
 
 
INVARIANT SettledExactly
 
