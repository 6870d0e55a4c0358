----------------------------- MODULE SnapshotHub -----------------------------
(***************************************************************************)
(* The snapshot service: one loop receives option chains from the feed     *)
(* decoder, stores each in the cache and broadcasts it; a handler          *)
(* broadcasts the trade updates pushed by the execution gateway; the hub   *)
(* writes every broadcast message to every WebSocket client; a REST        *)
(* handler answers from the cache.                                         *)
(*                                                                         *)
(* The hub goroutine owns the map of clients.  While it writes a message   *)
(* to the clients, one after the other and in no particular order, it      *)
(* takes nothing else; a write to a client whose buffer is full waits.     *)
(***************************************************************************)
EXTENDS Integers, SequencesExt

CONSTANTS
    Client,         \* WebSocket connections
    Key,            \* <<symbol, expiry>> of the chains the decoder sends
    Today,          \* today's date, see DateOf
    Capacity,       \* capacity of the broadcast channel (5000 in the code)
    Buffer,         \* messages a connection holds before a write waits
    MaxChains,      \* bound: chains the decoder sends
    MaxPushes,      \* bound: updates the gateway pushes
    Asked           \* symbols asked for by REST

VARIABLES
    socket,         \* chains received from the decoder, not yet taken
    versions,       \* chains sent so far: a chain is named by its number
    feed,           \* the chain the feed loop is about to broadcast, or <<>>
    chainCache,     \* number of the cached chain of each key, 0 for none
    pushes,         \* updates pushed so far
    updates,        \* updates of the push under way, not yet broadcast
    broadcast,      \* the broadcast channel
    conn,           \* what became of each connection
    clients,        \* the hub's map of clients
    writing,        \* message the hub is writing and the clients left to do
    inbox,          \* what each connection holds for its client
    got,            \* history: all that was written to each client
    since,          \* history: length of out when each client registered
    out,            \* history: the messages the hub took, in order
    request         \* the REST request under way

feedVars == <<socket, versions, feed, chainCache>>
pushVars == <<pushes, updates>>
hubVars == <<conn, clients, writing, inbox, got, since, out>>
vars == <<feedVars, pushVars, broadcast, hubVars, request>>

HubAssumption ==
    /\ Capacity \in Nat /\ Buffer \in Nat /\ MaxChains \in Nat /\ MaxPushes \in Nat
    /\ Today \in Nat
    /\ \A k \in Key :
          /\ k # <<>>
          /\ k[2].day \in Nat /\ k[2].mon \in Nat /\ k[2].year \in Nat

Idle == [message |-> <<>>, left |-> {}]
NoRequest == [symbol |-> "none"]

-----------------------------------------------------------------------------
(* Expiry dates.  An expiry is [len, day, mon, year]: the length of its    *)
(* text without separators, and the three parts; mon is 0 if the letters   *)
(* name no month.                                                          *)

NoDate == 0

DaysIn(mon, year) ==
    IF mon = 2 THEN IF year % 4 = 0 THEN 29 ELSE 28
    ELSE IF mon \in {4, 6, 9, 11} THEN 30 ELSE 31

\* A date the calendar does not have is refused.
parseSnapshotExpiryDate(exp) ==
    LET year == IF exp.year < 100 THEN exp.year + 2000 ELSE exp.year
    IN  IF /\ exp.len \in {7, 9}
           /\ exp.mon \in 1..12
           /\ exp.day \in 1..DaysIn(exp.mon, year)
        THEN year * 10000 + exp.mon * 100 + exp.day
        ELSE NoDate

Upcoming(key) == parseSnapshotExpiryDate(key[2]) >= Today

Cached == {k \in Key : chainCache[k] # 0}

-----------------------------------------------------------------------------
(* The feed decoder (external) and the feed loop *)

DecoderSends ==
    /\ versions < MaxChains
    /\ versions' = versions + 1
    /\ \E k \in Key : socket' = Append(socket, [key |-> k, number |-> versions + 1])
    /\ UNCHANGED <<feed, chainCache, pushVars, broadcast, hubVars, request>>

\* Every expiry has its own entry.
ReceiveChain ==
    /\ feed = <<>> /\ socket # <<>>
    /\ feed' = <<Head(socket)>>
    /\ socket' = Tail(socket)
    /\ chainCache' = [chainCache EXCEPT ![Head(socket).key] = Head(socket).number]
    /\ UNCHANGED <<versions, pushVars, broadcast, hubVars, request>>

\* Drops the chain if the channel is full.
BroadcastOrDrop ==
    /\ feed # <<>>
    /\ broadcast' = IF Len(broadcast) < Capacity THEN Append(broadcast, Head(feed))
                    ELSE broadcast
    /\ feed' = <<>>
    /\ UNCHANGED <<socket, versions, chainCache, pushVars, hubVars, request>>

BroadcastChain ==
    /\ feed # <<>> /\ Len(broadcast) < Capacity
    /\ broadcast' = Append(broadcast, Head(feed))
    /\ feed' = <<>>
    /\ UNCHANGED <<socket, versions, chainCache, pushVars, hubVars, request>>

-----------------------------------------------------------------------------
(* /api/push-snapshots *)

\* The gateway pushes the updates of its trades in one request, the next one
\* after the answer.
PushRequest ==
    /\ updates = <<>> /\ pushes < MaxPushes
    /\ \E n \in 1..(MaxPushes - pushes) :
          /\ updates' = [i \in 1..n |-> [update |-> pushes + i]]
          /\ pushes' = pushes + n
    /\ UNCHANGED <<feedVars, broadcast, hubVars, request>>

PushUpdate ==
    /\ updates # <<>> /\ Len(broadcast) < Capacity
    /\ broadcast' = Append(broadcast, Head(updates))
    /\ updates' = Tail(updates)
    /\ UNCHANGED <<feedVars, pushes, hubVars, request>>

-----------------------------------------------------------------------------
(* Connections: new, joining (register <- conn), open, leaving             *)
(* (unregister <- conn), gone.  "lost" is an open connection whose peer    *)
(* has gone: reads and writes fail.                                        *)

Set(c, s) == conn' = [conn EXCEPT ![c] = s]

Connect(c) ==
    /\ conn[c] = "new"
    /\ Set(c, "joining")
    /\ UNCHANGED <<feedVars, pushVars, broadcast, clients, writing, inbox, got,
                   since, out, request>>

\* The peer goes away.
Disconnect(c) ==
    /\ conn[c] = "open"
    /\ Set(c, "lost")
    /\ UNCHANGED <<feedVars, pushVars, broadcast, clients, writing, inbox, got,
                   since, out, request>>

\* The reader goroutine of the connection sees the error.
ReadFails(c) ==
    /\ conn[c] = "lost"
    /\ Set(c, "leaving")
    /\ UNCHANGED <<feedVars, pushVars, broadcast, clients, writing, inbox, got,
                   since, out, request>>

Consume(c) ==
    /\ conn[c] = "open" /\ inbox[c] # <<>>
    /\ inbox' = [inbox EXCEPT ![c] = Tail(@)]
    /\ UNCHANGED <<feedVars, pushVars, broadcast, conn, clients, writing, got,
                   since, out, request>>

-----------------------------------------------------------------------------
(* Hub.run *)

Register(c) ==
    /\ writing = Idle /\ conn[c] = "joining"
    /\ clients' = clients \union {c}
    /\ since' = [since EXCEPT ![c] = Len(out)]
    /\ Set(c, "open")
    /\ UNCHANGED <<feedVars, pushVars, broadcast, writing, inbox, got, out, request>>

Unregister(c) ==
    /\ writing = Idle /\ conn[c] = "leaving"
    /\ clients' = clients \ {c}
    /\ Set(c, "gone")
    /\ UNCHANGED <<feedVars, pushVars, broadcast, writing, inbox, got, since, out,
                   request>>

Take ==
    /\ writing = Idle /\ broadcast # <<>>
    /\ writing' = IF clients = {} THEN Idle
                  ELSE [message |-> Head(broadcast), left |-> clients]
    /\ out' = Append(out, Head(broadcast))
    /\ broadcast' = Tail(broadcast)
    /\ UNCHANGED <<feedVars, pushVars, conn, clients, inbox, got, since, request>>

Written(c) == IF writing.left = {c} THEN Idle ELSE [writing EXCEPT !.left = @ \ {c}]

\* Skips a client whose buffer is full.
WriteOrSkip(c) ==
    /\ c \in writing.left /\ conn[c] \in {"open", "lost"}
    /\ writing' = Written(c)
    /\ IF Len(inbox[c]) < Buffer
       THEN /\ inbox' = [inbox EXCEPT ![c] = Append(@, writing.message)]
            /\ got' = [got EXCEPT ![c] = Append(@, writing.message)]
       ELSE UNCHANGED <<inbox, got>>
    /\ UNCHANGED <<feedVars, pushVars, broadcast, conn, clients, since, out, request>>

\* A write to a connection that is lost may still be accepted.
Write(c) ==
    /\ c \in writing.left /\ conn[c] \in {"open", "lost", "leaving"}
    /\ Len(inbox[c]) < Buffer
    /\ writing' = Written(c)
    /\ inbox' = [inbox EXCEPT ![c] = Append(@, writing.message)]
    /\ got' = [got EXCEPT ![c] = Append(@, writing.message)]
    /\ UNCHANGED <<feedVars, pushVars, broadcast, conn, clients, since, out, request>>

\* The connection is closed and leaves the map; its reader fails next.
WriteFails(c) ==
    /\ c \in writing.left /\ conn[c] \in {"lost", "leaving", "gone"}
    /\ writing' = Written(c)
    /\ clients' = clients \ {c}
    /\ UNCHANGED <<feedVars, pushVars, broadcast, conn, inbox, got, since, out, request>>

-----------------------------------------------------------------------------
(* /api/option-chain/{SYMBOL} without an expiry.  Range visits every entry *)
(* that is in the cache throughout the call, and perhaps later ones.       *)

AskNearest ==
    /\ request = NoRequest
    /\ \E s \in Asked :
          request' = [symbol |-> s, visited |-> {}, nearest |-> <<>>,
                      atStart |-> {k \in Cached : k[1] = s}]
    /\ UNCHANGED <<feedVars, pushVars, broadcast, hubVars>>

\* Compares the texts of the expiries: the day comes first.
EarlierText(k, l) == k[2].day < l[2].day

Earlier(k, l) == parseSnapshotExpiryDate(k[2]) < parseSnapshotExpiryDate(l[2])

Nearer(k, best) ==
    IF Upcoming(k) /\ (best = <<>> \/ Earlier(k, best)) THEN k ELSE best

Visit ==
    /\ request # NoRequest
    /\ \E k \in Cached \ request.visited :
          /\ k[1] = request.symbol
          /\ request' = [request EXCEPT !.visited = @ \union {k},
                                        !.nearest = Nearer(k, @)]
    /\ UNCHANGED <<feedVars, pushVars, broadcast, hubVars>>

Answered == request # NoRequest /\ request.atStart \subseteq request.visited

Answer ==
    /\ Answered
    /\ request' = NoRequest
    /\ UNCHANGED <<feedVars, pushVars, broadcast, hubVars>>

-----------------------------------------------------------------------------
Init ==
    /\ socket = <<>> /\ versions = 0 /\ feed = <<>>
    /\ chainCache = [k \in Key |-> 0]
    /\ pushes = 0 /\ updates = <<>> /\ broadcast = <<>>
    /\ conn = [c \in Client |-> "new"]
    /\ clients = {} /\ writing = Idle
    /\ inbox = [c \in Client |-> <<>>]
    /\ got = [c \in Client |-> <<>>]
    /\ since = [c \in Client |-> 0]
    /\ out = <<>>
    /\ request = NoRequest

Hub(c) == Register(c) \/ Unregister(c) \/ Write(c) \/ WriteFails(c)

Next ==
    \/ DecoderSends \/ ReceiveChain \/ BroadcastChain
    \/ PushRequest \/ PushUpdate
    \/ Take
    \/ AskNearest \/ Visit \/ Answer
    \/ \E c \in Client : Connect(c) \/ Disconnect(c) \/ ReadFails(c) \/ Consume(c) \/ Hub(c)

Spec == Init /\ [][Next]_vars

\* The goroutines of the service run, and every client that stays connected
\* reads its messages.
FairSpec ==
    /\ Spec
    /\ WF_vars(ReceiveChain) /\ WF_vars(BroadcastChain) /\ WF_vars(PushUpdate)
    /\ WF_vars(Take)
    /\ \A c \in Client :
          /\ WF_vars(ReadFails(c)) /\ WF_vars(Consume(c))
          /\ SF_vars(Register(c)) /\ SF_vars(Unregister(c))
          /\ WF_vars(Write(c) \/ WriteFails(c))
-----------------------------------------------------------------------------
Message == [key : Key, number : 1..MaxChains] \union [update : 1..MaxPushes]

\* Every variable has a value of its kind, and the channel keeps within its
\* capacity (make(chan []byte, 5000)).
TypeOK ==
    /\ socket \in Seq(Message) /\ feed \in Seq(Message) /\ Len(feed) <= 1
    /\ versions \in 0..MaxChains
    /\ chainCache \in [Key -> 0..MaxChains]
    /\ pushes \in 0..MaxPushes /\ updates \in Seq(Message)
    /\ broadcast \in Seq(Message) /\ Len(broadcast) <= Capacity
    /\ conn \in [Client -> {"new", "joining", "open", "lost", "leaving", "gone"}]
    /\ clients \subseteq Client /\ writing.left \subseteq clients
    /\ \A c \in Client :
          /\ inbox[c] \in Seq(Message) /\ Len(inbox[c]) <= Buffer
          /\ got[c] \in Seq(Message)
          /\ since[c] \in 0..Len(out)
    /\ out \in Seq(Message)

Since(c) == SubSeq(out, since[c] + 1, Len(out))

\* A registered client is written every message the hub took after it
\* registered, in the hub's order and without a gap, up to the one being
\* written now; a client that was dropped got an unbroken first part of them.
\* Hub.run holds the message until every client has it.
ContiguousDelivery ==
    \A c \in Client :
       /\ c \in clients =>
             Since(c) = got[c] \o (IF c \in writing.left THEN <<writing.message>> ELSE <<>>)
       /\ conn[c] \notin {"new", "joining"} => IsPrefix(got[c], Since(c))

\* A client that has been shown a chain and then asks for it by REST is not
\* answered with an older one: chainCache.Store comes before the broadcast and
\* every expiry has its own entry.
CacheNotBehind ==
    \A c \in Client : \A m \in Range(got[c]) :
       "key" \in DOMAIN m => m.number <= chainCache[m.key]

\* Hub.run writes a client every message taken since it registered, in order
\* and without a gap, and no chain newer than the cached one of its key.
HubDelivers == TypeOK /\ ContiguousDelivery /\ CacheNotBehind

\* The answer to a request without an expiry is an upcoming expiry no later
\* than any upcoming one cached when the request came in, whatever the order in
\* which Range visits the entries and whatever is stored meanwhile; there is an
\* answer if there was such an entry.
NearestAnswered ==
    Answered =>
       /\ request.nearest # <<>> => Upcoming(request.nearest)
       /\ \A k \in request.atStart :
             Upcoming(k) =>
                /\ request.nearest # <<>>
                /\ parseSnapshotExpiryDate(request.nearest[2]) <= parseSnapshotExpiryDate(k[2])

\* A client whose peer has gone is eventually out of the hub's map, whether a
\* failed write or its reader's error comes first.
LeftIsForgotten ==
    \A c \in Client : (conn[c] = "lost") ~> (c \notin clients)

\* Every chain the decoder sent is eventually taken by the hub, however full
\* the channel: the feed loop waits, it does not drop.  This rests on every
\* connected client reading its messages, for the hub writes without a deadline.
EveryChainTaken ==
    \A n \in 1..MaxChains :
       (versions >= n) ~> (\E m \in Range(out) : "key" \in DOMAIN m /\ m.number = n)
=============================================================================
