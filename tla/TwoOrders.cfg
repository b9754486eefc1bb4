SPECIFICATION Spec
CONSTANTS
    Orders = {o1, o2}
    Accounts = {a1, a2}
    Workers = {w1, w2}
    NoOrder = NoOrder
    NoAccount = NoAccount
    NoWorker = NoWorker
    MaxAttempts = 2
    MaxReplacements = 1
    MaxFaults = 0
    CheckedAccounts = {}
    SaleEnds = {}
SYMMETRY Symmetric
CONSTRAINT OneReplacement
INVARIANT Exclusive
PROPERTY KeepsCustody
CHECK_DEADLOCK FALSE
