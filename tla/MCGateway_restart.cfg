\* All requests on a trade, with a restart and a lost write.
CONSTANTS
    Deployer = deployer
    Request = {r1, r2}
    Kinds = {"SQF", "PARTIAL", "MANUAL", "REFRESH", "READ"}
    NumOrders = 2
    LegOf <- MCLegOf
    ChunkOf <- MCChunkOf
    OrderQty = 1
    Percents = {50}
    MaxSec = 0
    MaxCrashes = 1
    MaxFaults = 1
    OrderId <- MCOrderId
    Ticket <- MCTicket
    Answers = {"FILLED"}
SYMMETRY RequestSymmetry
SPECIFICATION Spec
INVARIANTS  MemoryIsDurable  PanicOnlyByRace
PROPERTIES FillsTrue
