SPECIFICATION Spec
CONSTANTS
    SessNums <- MCSessNums
    Offers <- MCOffers
    Wants <- MCWants
    MaxFaults = 2
INVARIANTS
    TypeOK
    NoProtocolError
    SessionAgreement
    SameTrade
PROPERTIES
    Completes
    BothEnd
CHECK_DEADLOCK FALSE
