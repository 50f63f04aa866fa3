SPECIFICATION MCSpec
CONSTANTS
    Trades = {1, 2}
    A1 = A1  A2 = A2  B1 = B1  B2 = B2
    Sellers <- MCSellers
    Buyers <- MCBuyers
    SessIDs = {11}
    Progs = {"PC", "POC", "PAS", "PASVC", "TC", "TOC", "TAS", "TASVC", "TQ", "TOQ"}
    UnitPrice = 2
    DemandSets <- MCDemands
    PhantomSets <- MCPhantoms
    MaxFaults = 1
INVARIANTS
    InputsMatch
    DirOfOneTrade
    SidesAgree
PROPERTIES
    Delivers
CHECK_DEADLOCK FALSE
