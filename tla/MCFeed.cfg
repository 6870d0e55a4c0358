SPECIFICATION Spec
CONSTANTS
    NSE = NSE
    BSE = BSE
    Reader = {NSE, BSE}
    Files <- MCFiles
    Today <- MCToday
    Undated <- MCUndated
    Multicast <- MCMulticast
    Fallback <- MCFallback
    Symbols <- MCSymbols
    NoRoot <- MCNoRoot
    DefaultStep = 50
    TakeN = 9
    MaxRecords = 50
    MaxPackets = 2
INVARIANTS ChainsConsistent 
PROPERTY SyntheticSticky
