---------------------------- MODULE SocketBridge ----------------------------
(***************************************************************************)
(* The market data gateway's connection to the broker: the reconnect loop  *)
(* of main, XTSClient.Connect, Subscribe, and the read pumps.              *)
(*                                                                         *)
(* Connect runs in a goroutine of its own, returns once the pump has been  *)
(* started, and does not wait for the connection to end.  c.conn is one    *)
(* field, replaced by every Connect; a pump reads it anew before each      *)
(* message, and its deferred Close is of the connection it started with.   *)
(* sendRaw writes to whatever c.conn is at that moment.                    *)
(*                                                                         *)
(* Connections and pumps are numbered in the order of the dials.           *)
(***************************************************************************)
EXTENDS Integers, Sequences, FiniteSets

CONSTANTS
    Instruments,    \* number of foInstruments
    chunkSize,      \* instruments of one subscription (45 in the code)
    MaxDials,       \* bound: dials
    MaxTicks        \* bound: ticks the broker sends

VARIABLES
    loop,           \* "dial", "subscribe", "wait", "sleep"
    from,           \* index of the next chunk to subscribe
    dialing,        \* Connect is under way
    dials,          \* dials so far
    conn,           \* c.conn: number of a connection, 0 for nil
    link,           \* "none", "open", "dropped" (by the peer), "closed" (by us)
    joined,         \* instruments subscribed on each connection
    wire,           \* ticks sent on each connection, not yet read
    ticks,          \* ticks sent so far
    pump,           \* of each pump: "none", "start", "read", "publish", "end"
    reads,          \* connection a pump reads
    owns,           \* connection a pump closes when it ends
    holds,          \* tick a pump is about to publish
    published,      \* the ticks published, in order
    early           \* history: the connection was there before the first chunk

vars == <<loop, from, dialing, dials, conn, link, joined, wire, ticks, pump,
          reads, owns, holds, published, early>>

main == <<loop, from, early>>
pumps == <<pump, reads, owns, holds, published>>
broker == <<link, wire, ticks>>

Conn == 1..MaxDials

BridgeAssumption ==
    Instruments \in Nat /\ chunkSize \in Nat \ {0} /\ MaxDials \in Nat \ {0}

-----------------------------------------------------------------------------
(* main's loop *)

Dial ==
    /\ loop = "dial" /\ dials < MaxDials
    /\ dialing' = TRUE /\ dials' = dials + 1
    /\ loop' = "subscribe" /\ from' = 0 /\ early' = FALSE
    /\ UNCHANGED <<conn, joined, broker, pumps>>

Chunk(i) ==
    (i + 1)..(IF i + chunkSize > Instruments THEN Instruments ELSE i + chunkSize)

\* An error of Subscribe is ignored.  Between two chunks the loop sleeps.
SubscribeChunk ==
    /\ loop = "subscribe" /\ from < Instruments
    /\ joined' = IF conn # 0 /\ link[conn] = "open"
                 THEN [joined EXCEPT ![conn] = @ \union Chunk(from)] ELSE joined
    /\ early' = IF from = 0 THEN ~dialing ELSE early
    /\ from' = from + chunkSize
    /\ UNCHANGED <<loop, dialing, dials, conn, broker, pumps>>

\* The cash instruments are suppressed by Subscribe.
SubscribeCash ==
    /\ loop = "subscribe" /\ from >= Instruments
    /\ loop' = "wait"
    /\ UNCHANGED <<from, early, dialing, dials, conn, joined, broker, pumps>>

\* wg.Wait, and the message that the connection has dropped.
Dropped ==
    /\ loop = "wait" /\ ~dialing
    /\ loop' = "sleep"
    /\ UNCHANGED <<from, early, dialing, dials, conn, joined, broker, pumps>>

Redial ==
    /\ loop = "sleep"
    /\ loop' = "dial"
    /\ UNCHANGED <<from, early, dialing, dials, conn, joined, broker, pumps>>

-----------------------------------------------------------------------------
(* XTSClient.Connect *)

Connect ==
    /\ dialing
    /\ dialing' = FALSE
    /\ conn' = dials
    /\ link' = [link EXCEPT ![dials] = "open"]
    /\ pump' = [pump EXCEPT ![dials] = "start"]
    /\ UNCHANGED <<main, dials, joined, wire, ticks, reads, owns, holds, published>>

DialFails ==
    /\ dialing
    /\ dialing' = FALSE
    /\ UNCHANGED <<main, dials, conn, joined, broker, pumps>>

-----------------------------------------------------------------------------
(* readPump *)

PumpStart(p) ==
    /\ pump[p] = "start"
    /\ pump' = [pump EXCEPT ![p] = "read"]
    /\ owns' = [owns EXCEPT ![p] = conn]
    /\ reads' = [reads EXCEPT ![p] = conn]
    /\ UNCHANGED <<main, dialing, dials, conn, joined, broker, holds, published>>

\* Leaves the tick on the connection.
ReadKeep(p) ==
    /\ pump[p] = "read" /\ wire[reads[p]] # <<>>
    /\ holds' = [holds EXCEPT ![p] = Head(wire[reads[p]])]
    /\ pump' = [pump EXCEPT ![p] = "publish"]
    /\ UNCHANGED <<main, dialing, dials, conn, joined, broker, reads, owns, published>>

Read(p) ==
    /\ pump[p] = "read" /\ wire[reads[p]] # <<>>
    /\ link[reads[p]] # "closed"
    /\ holds' = [holds EXCEPT ![p] = Head(wire[reads[p]])]
    /\ wire' = [wire EXCEPT ![reads[p]] = Tail(@)]
    /\ pump' = [pump EXCEPT ![p] = "publish"]
    /\ UNCHANGED <<main, dialing, dials, conn, joined, link, ticks, reads, owns, published>>

\* The next message is read from what c.conn is now.
Publish(p) ==
    /\ pump[p] = "publish"
    /\ published' = Append(published, holds[p])
    /\ pump' = [pump EXCEPT ![p] = "read"]
    /\ reads' = [reads EXCEPT ![p] = conn]
    /\ UNCHANGED <<main, dialing, dials, conn, joined, broker, owns, holds>>

ReadFails(p) ==
    /\ pump[p] = "read" /\ link[reads[p]] \in {"dropped", "closed"}
    /\ link[reads[p]] = "dropped" => wire[reads[p]] = <<>>
    /\ pump' = [pump EXCEPT ![p] = "end"]
    /\ link' = [link EXCEPT ![owns[p]] = "closed"]
    /\ UNCHANGED <<main, dialing, dials, conn, joined, wire, ticks, reads, owns,
                   holds, published>>

-----------------------------------------------------------------------------
(* The broker (external): one tick is sent on every connection that has    *)
(* subscribed its instrument.                                              *)

BrokerTick ==
    /\ ticks < MaxTicks
    /\ \E i \in 1..Instruments, c \in Conn :
          /\ link[c] = "open" /\ i \in joined[c]
          /\ ticks' = ticks + 1
          /\ wire' = [d \in Conn |-> IF link[d] = "open" /\ i \in joined[d]
                                     THEN Append(wire[d], [tick |-> ticks + 1, on |-> d])
                                     ELSE wire[d]]
    /\ UNCHANGED <<main, dialing, dials, conn, joined, link, pumps>>

BrokerDrops(c) ==
    /\ link[c] = "open"
    /\ link' = [link EXCEPT ![c] = "dropped"]
    /\ UNCHANGED <<main, dialing, dials, conn, joined, wire, ticks, pumps>>

-----------------------------------------------------------------------------
Init ==
    /\ loop = "dial" /\ from = 0 /\ early = FALSE
    /\ dialing = FALSE /\ dials = 0 /\ conn = 0
    /\ link = [c \in Conn |-> "none"]
    /\ joined = [c \in Conn |-> {}]
    /\ wire = [c \in Conn |-> <<>>]
    /\ ticks = 0
    /\ pump = [c \in Conn |-> "none"]
    /\ reads = [c \in Conn |-> 0] /\ owns = [c \in Conn |-> 0]
    /\ holds = [c \in Conn |-> <<>>]
    /\ published = <<>>

Next ==
    \/ Dial \/ SubscribeChunk \/ SubscribeCash \/ Dropped \/ Redial
    \/ Connect \/ DialFails \/ BrokerTick
    \/ \E p \in Conn : PumpStart(p) \/ Read(p) \/ Publish(p) \/ ReadFails(p) \/ BrokerDrops(p)

Spec == Init /\ [][Next]_vars

\* A pump that has read a message passes it on.
FairSpec == Spec /\ \A p \in Conn : WF_vars(Publish(p))

-----------------------------------------------------------------------------
\* Every variable has a value of its kind; c.conn is a connection that was
\* opened, and a pump reads one.
TypeOK ==
    /\ loop \in {"dial", "subscribe", "wait", "sleep"}
    /\ dials \in 0..MaxDials /\ conn \in 0..dials
    /\ link \in [Conn -> {"none", "open", "dropped", "closed"}]
    /\ conn # 0 => link[conn] # "none"
    /\ \A p \in Conn :
          /\ joined[p] \subseteq 1..Instruments
          /\ pump[p] \in {"none", "start", "read", "publish", "end"}
          /\ pump[p] \in {"read", "publish"} => reads[p] # 0 /\ owns[p] # 0

\* No tick read from a connection is published twice, though several pumps end
\* up reading the same connection.
PublishedOnce ==
    \A i, j \in DOMAIN published : published[i] = published[j] => i = j

\* When the loop has sent its subscriptions and the connection they went to was
\* there from the first chunk on and still is, all the instruments are
\* subscribed on it, whatever their number is to the size of a chunk.
SubscribedWhole ==
    (/\ loop = "wait" /\ early /\ conn # 0 /\ link[conn] = "open" /\ Instruments > 0)
       => joined[conn] = 1..Instruments

\* readPump publishes no tick twice, though two pumps may read one connection,
\* and a connection that was there throughout has all instruments subscribed.
SocketExact == TypeOK /\ PublishedOnce /\ SubscribedWhole

\* A tick a pump has read is eventually published, even if c.conn has been
\* replaced or the connection is lost in the meantime.
ReadIsPublished ==
    \A n \in 1..MaxTicks, c \in Conn :
       (\E p \in Conn : pump[p] = "publish" /\ holds[p] = [tick |-> n, on |-> c])
          ~> (\E i \in DOMAIN published : published[i] = [tick |-> n, on |-> c])

\* "Socket.IO dropped. Reconnecting in 3 seconds..." (main.go:516): when the
\* loop says so and dials again, the connection has dropped.
\* It does not hold: see the disagreements in the README.
ReconnectsAfterDrop ==
    loop = "sleep" => (conn = 0 \/ link[conn] # "open")
=============================================================================
