SPECIFICATION Spec
CONSTANTS
    s1 = s1
    s2 = s2
    s3 = s3
    Sessions <- MCSessions
    Price <- MCPrice
    Total <- MCTotal
    MaxDeposit = 3
    MaxFaults = 2
INVARIANTS
    LockExact
PROPERTIES
    RefusedWhy
    AllReleased
CHECK_DEADLOCK FALSE
