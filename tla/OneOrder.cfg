SPECIFICATION Spec
CONSTANTS
    Orders = {o1}
    Accounts = {a1, a2}
    Workers = {w1, w2}
    NoOrder = NoOrder
    NoAccount = NoAccount
    NoWorker = NoWorker
    MaxAttempts = 2
    MaxReplacements = 1
    MaxFaults = 1
    CheckedAccounts = {}
    SaleEnds = {"completed", "refunded"}
SYMMETRY Symmetric
INVARIANTS TypeOK Custody NoExpiryBeforeSend ToldAfterLogout RefundBeforeExpiry
PROPERTY RefundsStand
CHECK_DEADLOCK FALSE
