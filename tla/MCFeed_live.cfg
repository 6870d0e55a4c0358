SPECIFICATION FairSpec
CONSTANTS
    NSE = NSE
    BSE = BSE
    Reader = {NSE, BSE}
    Files <- LiveFiles
    Today <- MCToday
    Undated <- MCUndated
    Multicast <- LiveMulticast
    Fallback <- LiveFallback
    Symbols <- MCSymbols
    NoRoot <- MCNoRoot
    DefaultStep = 50
    TakeN = 9
    MaxRecords = 50
    MaxPackets = 2
PROPERTY PublishedCatchesUp
