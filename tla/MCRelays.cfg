SPECIFICATION FairRelays
CONSTANTS
    Instruments = 3
    chunkSize = 2
    MaxDials = 2
    MaxTicks = 1
INVARIANTS ShownInOrder 
  
CHECK_DEADLOCK FALSE
