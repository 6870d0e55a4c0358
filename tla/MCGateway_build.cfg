\* DeployStraddle alone: three orders in two chunks, with retries and partial fills.
CONSTANTS
    Deployer = deployer
    Request = {}
    Kinds = {}
    NumOrders = 3
    LegOf <- MCLegOf
    ChunkOf <- MCChunkOf
    OrderQty = 2
    Percents = {}
    MaxSec = 0
    MaxCrashes = 0
    MaxFaults = 0
    OrderId <- MCOrderId
    Ticket <- MCTicket
    Answers = {"ERR", "REJECTED", "CANCELLED", "OPEN", "FILLED", "PARTIALLY_FILLED"}
SPECIFICATION Spec
INVARIANTS TypeOK ActiveIsBuilt 
PROPERTIES  KeepsPromise
