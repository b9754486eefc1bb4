SPECIFICATION Spec
CONSTANTS
    Orders = {o1}
    Accounts = {a1, a2}
    Workers = {w1, w2}
    NoOrder = NoOrder
    NoAccount = NoAccount
    NoWorker = NoWorker
    MaxAttempts = 2
    MaxReplacements = 2
    MaxFaults = 0
    CheckedAccounts = {a1, a2}
    SaleEnds = {"refunded"}
SYMMETRY Symmetric
INVARIANTS NoCheckUnderBuyer ReservationKept
CHECK_DEADLOCK FALSE
