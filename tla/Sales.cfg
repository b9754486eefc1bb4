SPECIFICATION FairSpec
CONSTANTS
    Calls = {c1, c2}
    Nodes = {n1, n2}
    Nothing = Nothing
    MaxAttempts = 1
    MaxFaults = 1
INVARIANTS SalesTypeOK ToldOnce
PROPERTIES ToldWhileCompleted RefundSticks MissedIsRecovered RefundIsHeard ConfirmationSettles
CHECK_DEADLOCK FALSE
