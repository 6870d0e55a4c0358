\* The comment on duplicate live orders, against an answer that is lost.
CONSTANTS
    Deployer = deployer
    Request = {}
    Kinds = {}
    NumOrders = 2
    LegOf <- MCLegOf
    ChunkOf <- MCChunkOf
    OrderQty = 1
    Percents = {}
    MaxSec = 0
    MaxCrashes = 0
    MaxFaults = 0
    OrderId <- MCOrderId
    Ticket <- MCTicket
    Answers = {"ERR", "FILLED"}
SPECIFICATION Spec
INVARIANTS NoDuplicateLiveOrders
