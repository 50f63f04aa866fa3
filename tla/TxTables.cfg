SPECIFICATION Spec
CONSTANTS
    t1 = t1  t2 = t2
    Trades <- MCTrades
    Sess = {1, 2}
    Addrs = {"own", "new"}
    Peers = {"peer"}
    Asks = {0, 2}
    Prices = {0, 3}
    Agreed <- MCAgreed
    MaxFaults = 1
SYMMETRY Symm
INVARIANTS
    OneTradePerRow
    RowIsTrade
    SettlesItsSale
CHECK_DEADLOCK FALSE
