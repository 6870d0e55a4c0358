---------------------------- MODULE DecoderCache ----------------------------
(***************************************************************************)
(* The market data gateway as a relay: listenToDecoder takes the option    *)
(* chains the feed decoder publishes from a conflating socket, caches the  *)
(* last one of each symbol for /api/option-chain and writes it to the      *)
(* WebSocket clients of /ws/data.                                          *)
(*                                                                         *)
(* The socket holds one message for all symbols together.  The listener    *)
(* tests under wsClientsMu whether there is a client, releases the lock,   *)
(* looks at the message and takes the lock again for all the writes.  The  *)
(* decoder's messages carry their type, so they are passed on as they are; *)
(* the branch that wraps a message without one is never taken.             *)
(***************************************************************************)
EXTENDS Integers, Sequences

CONSTANTS
    Symbol,         \* instruments the decoder publishes
    Client,         \* WebSocket connections
    MaxSent         \* bound: messages the decoder publishes

VARIABLES
    slot,           \* the conflating socket: <<>> or one message
    sent,           \* messages published so far
    chains,         \* cache.Chains: number of the last message of a symbol
    listener,       \* "recv", "test", "look", "write"
    message,        \* message the listener handles
    left,           \* clients it has still to write to
    conn,           \* "new", "open", "lost", "gone"
    wsClients,      \* the map of clients
    seen            \* history: the messages written to each client

vars == <<slot, sent, chains, listener, message, left, conn, wsClients, seen>>

\* wsClientsMu is held by the listener from the first write to the last.
Unlocked == listener # "write"

Published(n, s) == [number |-> n, symbol |-> s]

\* External: the decoder publishes, the socket conflates.
DecoderSends ==
    /\ sent < MaxSent
    /\ sent' = sent + 1
    /\ \E s \in Symbol : slot' = <<Published(sent + 1, s)>>
    /\ UNCHANGED <<chains, listener, message, left, conn, wsClients, seen>>

\* Leaves the caching to the end of the broadcast.
ReceiveNoStore ==
    /\ listener = "recv" /\ slot # <<>>
    /\ slot' = <<>>
    /\ message' = Head(slot)
    /\ listener' = "test"
    /\ UNCHANGED <<sent, chains, left, conn, wsClients, seen>>

Receive ==
    /\ listener = "recv" /\ slot # <<>>
    /\ slot' = <<>>
    /\ message' = Head(slot)
    /\ chains' = [chains EXCEPT ![Head(slot).symbol] = Head(slot).number]
    /\ listener' = "test"
    /\ UNCHANGED <<sent, left, conn, wsClients, seen>>

AnyClient ==
    /\ listener = "test"
    /\ listener' = IF wsClients = {} THEN "recv" ELSE "look"
    /\ UNCHANGED <<slot, sent, chains, message, left, conn, wsClients, seen>>

\* Clients may have come and gone since the test.
StartWrites ==
    /\ listener = "look"
    /\ left' = wsClients
    /\ listener' = IF wsClients = {} THEN "recv" ELSE "write"
    /\ UNCHANGED <<slot, sent, chains, message, conn, wsClients, seen>>

Done(c) ==
    /\ left' = left \ {c}
    /\ listener' = IF left = {c} THEN "recv" ELSE "write"

Write(c) ==
    /\ listener = "write" /\ c \in left /\ conn[c] \in {"open", "lost"}
    /\ seen' = [seen EXCEPT ![c] = Append(@, message)]
    /\ Done(c)
    /\ UNCHANGED <<slot, sent, chains, message, conn, wsClients>>

\* The error is ignored: the client stays in the map.
WriteFails(c) ==
    /\ listener = "write" /\ c \in left /\ conn[c] # "open"
    /\ Done(c)
    /\ UNCHANGED <<slot, sent, chains, message, conn, wsClients, seen>>

\* wsHandler: the connection joins the map,
Connect(c) ==
    /\ conn[c] = "new" /\ Unlocked
    /\ conn' = [conn EXCEPT ![c] = "open"]
    /\ wsClients' = wsClients \union {c}
    /\ UNCHANGED <<slot, sent, chains, listener, message, left, seen>>

Disconnect(c) ==
    /\ conn[c] = "open"
    /\ conn' = [conn EXCEPT ![c] = "lost"]
    /\ UNCHANGED <<slot, sent, chains, listener, message, left, wsClients, seen>>

\* Returns without taking the connection out of the map.
ReadFailsKeep(c) ==
    /\ conn[c] = "lost" /\ Unlocked
    /\ conn' = [conn EXCEPT ![c] = "gone"]
    /\ UNCHANGED <<slot, sent, chains, listener, message, left, wsClients, seen>>

\* and leaves it when its read fails.
ReadFails(c) ==
    /\ conn[c] = "lost" /\ Unlocked
    /\ conn' = [conn EXCEPT ![c] = "gone"]
    /\ wsClients' = wsClients \ {c}
    /\ UNCHANGED <<slot, sent, chains, listener, message, left, seen>>

Init ==
    /\ slot = <<>> /\ sent = 0
    /\ chains = [s \in Symbol |-> 0]
    /\ listener = "recv" /\ message = <<>> /\ left = {}
    /\ conn = [c \in Client |-> "new"]
    /\ wsClients = {}
    /\ seen = [c \in Client |-> <<>>]

Next ==
    \/ DecoderSends \/ Receive \/ AnyClient \/ StartWrites
    \/ \E c \in Client : Write(c) \/ WriteFails(c) \/ Connect(c) \/ Disconnect(c) \/ ReadFails(c)

Spec == Init /\ [][Next]_vars

\* The goroutines run, and a write returns.
FairSpec ==
    /\ Spec
    /\ WF_vars(Receive) /\ WF_vars(AnyClient) /\ WF_vars(StartWrites)
    /\ \A c \in Client : WF_vars(Write(c) \/ WriteFails(c)) /\ SF_vars(ReadFails(c))

-----------------------------------------------------------------------------
\* Every variable has a value of its kind, and the clients being written to
\* are in the map: it changes only under wsClientsMu.
TypeOK ==
    /\ Len(slot) <= 1 /\ sent \in 0..MaxSent
    /\ chains \in [Symbol -> 0..sent]
    /\ listener \in {"recv", "test", "look", "write"}
    /\ conn \in [Client -> {"new", "open", "lost", "gone"}]
    /\ wsClients \subseteq Client /\ left \subseteq wsClients
    /\ (listener = "write") <=> (left # {})

\* What a client is shown of a symbol never goes back in time, and is never
\* ahead of what /api/option-chain answers for it, though the socket drops
\* messages and the clients come and go between the test and the writes.
ShownInOrder ==
    \A c \in Client :
       /\ \A i, j \in DOMAIN seen[c] : i < j => seen[c][i].number < seen[c][j].number
       /\ \A i \in DOMAIN seen[c] : seen[c][i].number <= chains[seen[c][i].symbol]

\* "Keep ONLY the absolute latest tick": a message that is not followed by
\* another reaches the cache, however far behind the listener is.
LatestTickCached ==
    \A n \in 1..MaxSent :
       (sent = n) ~> (sent > n \/ \E s \in Symbol : chains[s] = n)

\* A client whose peer has gone leaves the map, though the writes to it that
\* fail leave it there: its handler takes it out.
GoneIsForgotten ==
    \A c \in Client : (conn[c] = "lost") ~> (c \notin wsClients)
=============================================================================
