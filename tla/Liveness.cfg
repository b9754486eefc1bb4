SPECIFICATION FairSpec
CONSTANTS
    Orders = {o1}
    Accounts = {a1, a2}
    Workers = {w1}
    NoOrder = NoOrder
    NoAccount = NoAccount
    NoWorker = NoWorker
    MaxAttempts = 2
    MaxReplacements = 1
    MaxFaults = 1
    CheckedAccounts = {}
    SaleEnds = {"completed", "refunded"}
PROPERTIES RefundEnds OverdueEnds DeliveryEnds BuyerTold
CHECK_DEADLOCK FALSE
