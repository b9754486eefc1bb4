SPECIFICATION Spec
CONSTANTS
    Orders = {o1}
    Accounts = {a1}
    Workers = {w1, w2}
    NoOrder = NoOrder
    NoAccount = NoAccount
    NoWorker = NoWorker
    MaxAttempts = 2
    MaxReplacements = 1
    MaxFaults = 0
    CheckedAccounts = {}
    SaleEnds = {"completed", "refunded"}
PROPERTY RefundIsFinal
CHECK_DEADLOCK FALSE
