SPECIFICATION FairSpec
CONSTANTS
    IPs = {"a", "b"}  DefaultIP = "a"
    KsFiles = {"ks", "own"}  DefaultKs = "ks"
    Keys = {k1, k2}
    NoKey = NoKey  Cut = Cut
    Reloads = {h1}
    Buyers = {b1}
    MaxFaults = 2
INVARIANTS
    StartsAsSaved
    AccountIsKept
    TradeOneKey
PROPERTIES
    Listens
CHECK_DEADLOCK FALSE
