\* Three intents in two chunks, two chases, updates spelled as the machine
\* expects.
CONSTANTS
    NumIntents = 3
    ChunkOf <- MCChunkOf
    CancelStatus = "CANCELED"
    MaxChases = 2
SPECIFICATION Spec
INVARIANT TypeOK
PROPERTIES KeepsPromise KnownIsNotReplaced
