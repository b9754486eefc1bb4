SPECIFICATION FairSpec
CONSTANTS
    Accounts = {a1}
    Workers = {w1, w2}
    Device = Device
    NoAccount = NoAccount
    MaxRecoveries = 1
    MaxStalls = 1
INVARIANTS JobsTypeOK SuspensionWins OneLoginAtATime UnprovenIsDue ConfirmableIsCurrent
    WaitingIsDue
PROPERTIES RecoveryTried
