SPECIFICATION Spec
CONSTANTS
    Progs <- MCProgs
    Price = 1
    SignedPrices = {0, 1}
    MaxDeposit = 1
    Margin = 1
    Period = 1
    Life = 2
    Rounds = 1
    MaxTime = 2
    MaxFaults = 1
INVARIANTS
    KeyNeedsReceipt
    RecordedAsDelivered
    RecordedAsFailed
    KeyHasRow
PROPERTIES
    TradeEnds
    IsExchange
CHECK_DEADLOCK FALSE
