SPECIFICATION Spec
CONSTANTS
    Caller = {c1, c2}
    Strike = {k1}
    MaxChunkRetries = 2
    Page = 1
    MaxSec = 1
    MaxRequests = 3
    MaxRestarts = 1
    MaxLost = 1
SYMMETRY Interchangeable
CONSTRAINT OneFailure
INVARIANTS TypeOK MonotoneListing CacheCurrent NoExtraIntent
CHECK_DEADLOCK FALSE
