\* One request of each kind beside the build, fairly scheduled.
CONSTANTS
    Deployer = deployer
    Request = {r1}
    Kinds = {"SQF", "PARTIAL", "HEDGE", "MANUAL", "REFRESH", "READ"}
    NumOrders = 2
    LegOf <- MCLegOf
    ChunkOf <- MCChunkOf
    OrderQty = 1
    Percents = {50}
    MaxSec = 1
    MaxCrashes = 0
    MaxFaults = 0
    OrderId <- MCOrderId
    Ticket <- MCTicket
    Answers = {"REJECTED", "FILLED"}
SPECIFICATION FairSpec
PROPERTIES HandlersFinish
