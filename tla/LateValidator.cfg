SPECIFICATION Spec
CONSTANTS
    Orders = {o1, o2}
    Accounts = {a1}
    Workers = {w1, w2}
    NoOrder = NoOrder
    NoAccount = NoAccount
    NoWorker = NoWorker
    MaxAttempts = 2
    MaxReplacements = 1
    MaxFaults = 0
    CheckedAccounts = {}
    SaleEnds = {}
INVARIANT ValidatorAlone
CHECK_DEADLOCK FALSE
