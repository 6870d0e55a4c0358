SPECIFICATION FairSpec
CONSTANTS
    a1 = a1
    t1 = t1
    Order = {o1, o2}
    Account = {a1}
    AccountOf <- MCAccountOf
    TokenOf <- MCTokenOf
    Quantity = 2
    Attempts = 2
    MaxVersion = 2
    None = None
INVARIANTS TypeOK OneLogin ReportStaysTrue SameTokenSameInstrument
PROPERTY RequestEnds
CHECK_DEADLOCK FALSE
