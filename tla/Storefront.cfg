SPECIFICATION Spec
CONSTANTS
    AutoLot = auto
    ManualLot = manual
    Nothing = Nothing
    MaxChanges = 3
    MaxMishaps = 1
    MaxRequests = 2
INVARIANTS StoreTypeOK OnSaleIsBound HeldIsOff SoldIsAttributed PriceIsPublished RequestHasLoop StockAgreesAtRest
