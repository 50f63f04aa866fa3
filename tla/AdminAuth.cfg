SPECIFICATION AuthSpec
CONSTANTS
    c1 = c1  c2 = c2  c3 = c3
    Calls <- MCCalls
    Amounts = {1, 2}
SYMMETRY Symm
INVARIANTS
    AloneIsExact
PROPERTIES
    NoStrayAmount
CHECK_DEADLOCK FALSE
