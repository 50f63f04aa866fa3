SPECIFICATION Spec
CONSTANTS
    h1 = h1  h2 = h2  h3 = h3  h4 = h4
    Roots = {"root"}
    Reqs <- MCReqs
    ModeNames = {"plain", "table", "other"}
    SubModeLists <- MCSubModeLists
    Prices = {1, 2}
    MaxCrashes = 1
INVARIANTS
    FoldersComplete
    SoldIsServed
PROPERTIES
    OfferIsStable
SYMMETRY MCSymmetry
CHECK_DEADLOCK FALSE
