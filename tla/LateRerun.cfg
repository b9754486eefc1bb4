SPECIFICATION Spec
CONSTANTS
    Accounts = {a1}
    Workers = {w1, w2}
    Device = Device
    NoAccount = NoAccount
    MaxRecoveries = 1
    MaxStalls = 0
SYMMETRY Symmetric
PROPERTIES SoldIsProven
