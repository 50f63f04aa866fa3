SPECIFICATION Spec
CONSTANTS
    s1 = s1
    s2 = s2
    s3 = s3
    Sessions <- MCSessions
    Price <- MCPrice
    Total <- MCTotal
    MaxDeposit = 3
    MaxFaults = 0
INVARIANTS
    KeyPaid
CHECK_DEADLOCK FALSE
