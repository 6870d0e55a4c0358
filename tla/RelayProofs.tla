----------------------------- MODULE RelayProofs -----------------------------
(***************************************************************************)
(* Proofs about the two relays of the market data gateway, for any number  *)
(* of instruments, chunks, dials and ticks, and of symbols, clients and    *)
(* messages.                                                               *)
(*                                                                         *)
(* SocketBridge: the read pumps publish no tick twice, and the reconnect   *)
(* loop subscribes everything on a connection that is there throughout.    *)
(* DecoderCache: a client is shown the chains of a symbol in order, never  *)
(* ahead of the cache.                                                     *)
(***************************************************************************)
EXTENDS SocketBridge, TLAPS

CONSTANTS Symbol, Client, MaxSent

VARIABLES slot, sent, chains, listener, message, left, peer, wsClients, seen

Cache == INSTANCE DecoderCache WITH conn <- peer

-----------------------------------------------------------------------------
(* The inductive invariant of SocketBridge *)

Tick == [tick : Nat, on : Conn]

LoopTypes ==
    /\ loop \in {"dial", "subscribe", "wait", "sleep"} /\ from \in Nat
    /\ dials \in 0..MaxDials /\ conn \in 0..dials
    /\ joined \in [Conn -> SUBSET (1..Instruments)]

\* c.conn is only replaced, never reset, so a pump that was started finds one.
PumpTypes ==
    /\ link \in [Conn -> {"none", "open", "dropped", "closed"}]
    /\ conn # 0 => link[conn] # "none"
    /\ dialing => dials # 0
    /\ pump \in [Conn -> {"none", "start", "read", "publish", "end"}]
    /\ reads \in [Conn -> 0..MaxDials] /\ owns \in [Conn -> 0..MaxDials]
    /\ \A p \in Conn : /\ pump[p] # "none" => conn # 0
                       /\ pump[p] \in {"read", "publish"} => reads[p] # 0 /\ owns[p] # 0

TickTypes ==
    /\ ticks \in Nat /\ wire \in [Conn -> Seq(Tick)] /\ published \in Seq(Tick)
    /\ holds \in [Conn -> Tick \union {<<>>}]
    /\ \A p \in Conn : pump[p] = "publish" => holds[p] \in Tick

\* A tick that was read is older than all that wait on its connection.
ReadBefore(e, sentTicks, unread) ==
    /\ e.tick <= sentTicks
    /\ \A i \in 1..Len(unread[e.on]) : e.tick < unread[e.on][i].tick

WireInOrder(c) ==
    \A i \in 1..Len(wire[c]) :
       /\ wire[c][i].on = c /\ wire[c][i].tick <= ticks
       /\ \A j \in 1..Len(wire[c]) : i < j => wire[c][i].tick < wire[c][j].tick

\* What waits on the connections, what the pumps hold and what is published
\* are different ticks.
TicksApart ==
    /\ \A c \in Conn : WireInOrder(c)
    /\ \A p \in Conn : pump[p] = "publish" =>
          /\ ReadBefore(holds[p], ticks, wire)
          /\ \A q \in Conn : pump[q] = "publish" /\ holds[q] = holds[p] => q = p
          /\ \A i \in 1..Len(published) : published[i] # holds[p]
    /\ \A i \in 1..Len(published) :
          /\ ReadBefore(published[i], ticks, wire)
          /\ \A j \in 1..Len(published) : published[i] = published[j] => i = j

\* While the subscriptions are sent on a connection that was there at the first
\* chunk, it is not replaced and has the instruments of the chunks sent.
Subscribing ==
    /\ loop = "wait" => from >= Instruments
    /\ early /\ loop \in {"subscribe", "wait"} =>
          /\ ~dialing
          /\ conn # 0 /\ link[conn] = "open" =>
                \A i \in 1..Instruments : i <= from => i \in joined[conn]

BridgeInv ==
    /\ BridgeAssumption /\ LoopTypes /\ PumpTypes /\ TickTypes
    /\ TicksApart /\ Subscribing

-----------------------------------------------------------------------------
(* The inductive invariant of DecoderCache *)

Msg == [number : Nat, symbol : Symbol]

CacheTypes ==
    /\ slot \in Seq(Msg) /\ Len(slot) <= 1 /\ sent \in 0..MaxSent
    /\ chains \in [Symbol -> 0..sent]
    /\ listener \in {"recv", "test", "look", "write"}
    /\ listener # "recv" => message \in Msg
    /\ peer \in [Client -> {"new", "open", "lost", "gone"}]
    /\ wsClients \subseteq Client /\ left \subseteq wsClients
    /\ (listener = "write") <=> (left # {})
    /\ seen \in [Client -> Seq(Msg)]

\* The message in the socket is newer than all that are cached; the one the
\* listener handles is cached; and a client that has still to be written it has
\* seen older ones only.
ShownBefore ==
    /\ \A i \in 1..Len(slot) :
          slot[i].number <= sent /\ \A s \in Symbol : chains[s] < slot[i].number
    /\ listener # "recv" => chains[message.symbol] = message.number
    /\ \A c \in Client : listener \in {"test", "look"} \/ c \in left =>
          \A i \in 1..Len(seen[c]) : seen[c][i].number < message.number
    /\ \A c \in Client : \A i \in 1..Len(seen[c]) :
          /\ seen[c][i].number <= chains[seen[c][i].symbol]
          /\ \A j \in 1..Len(seen[c]) : i < j => seen[c][i].number < seen[c][j].number

CacheInv == MaxSent \in Nat /\ CacheTypes /\ ShownBefore

-----------------------------------------------------------------------------
(* SocketBridge *)

LEMMA LoopTypesNext == ASSUME BridgeInv, [Next]_vars PROVE LoopTypes'
<1> USE DEF BridgeInv, LoopTypes, BridgeAssumption, main, pumps, broker
<1>1. CASE Dial
  BY <1>1 DEF Dial
<1>2. CASE SubscribeChunk
  <2>1. from' \in Nat
    BY <1>2 DEF SubscribeChunk
  <2>2. Chunk(from) \subseteq 1..Instruments
    BY DEF Chunk
  <2>3. joined' \in [Conn -> SUBSET (1..Instruments)]
    BY <1>2, <2>2, Zenon DEF SubscribeChunk
  <2> QED
    BY <1>2, <2>1, <2>3, Zenon DEF SubscribeChunk
<1>3. CASE SubscribeCash \/ Dropped \/ Redial
  BY <1>3, Zenon DEF SubscribeCash, Dropped, Redial
<1>4. CASE Connect \/ DialFails
  BY <1>4 DEF Connect, DialFails
<1>5. CASE UNCHANGED <<main, dialing, dials, conn, joined>>
  BY <1>5, Zenon
<1> QED
  BY <1>1, <1>2, <1>3, <1>4, <1>5, Zenon
     DEF Next, BrokerTick, PumpStart, Read, Publish, ReadFails, BrokerDrops, vars

LEMMA PumpTypesNext == ASSUME BridgeInv, [Next]_vars PROVE PumpTypes'
<1> USE DEF BridgeInv, PumpTypes, LoopTypes, BridgeAssumption, main, pumps, broker, Conn
<1>1. CASE Dial
  BY <1>1 DEF Dial
<1>2. CASE Connect
  <2>1. dials \in Conn /\ conn' = dials /\ ~dialing' /\ dials' = dials
    BY <1>2 DEF Connect
  <2> QED
    BY <1>2, <2>1, Zenon DEF Connect
<1>3. CASE DialFails
  BY <1>3, Zenon DEF DialFails
<1>4. ASSUME NEW p \in Conn, PumpStart(p) PROVE PumpTypes'
  BY <1>4 DEF PumpStart
<1>5. ASSUME NEW p \in Conn, Read(p) PROVE PumpTypes'
  BY <1>5, Zenon DEF Read
<1>6. ASSUME NEW p \in Conn, Publish(p) PROVE PumpTypes'
  BY <1>6 DEF Publish
<1>7. ASSUME NEW p \in Conn, ReadFails(p) PROVE PumpTypes'
  <2>1. owns[p] \in Conn
    BY <1>7 DEF ReadFails
  <2>2. link' = [link EXCEPT ![owns[p]] = "closed"] /\ pump' = [pump EXCEPT ![p] = "end"]
    BY <1>7, Zenon DEF ReadFails
  <2>3. conn # 0 => conn \in Conn
    BY DEF LoopTypes
  <2>4. conn # 0 => link'[conn] # "none"
    BY <2>1, <2>2, <2>3, Zenon
  <2>5. link' \in [Conn -> {"none", "open", "dropped", "closed"}]
    BY <2>1, <2>2, Zenon
  <2> QED
    BY <1>7, <2>2, <2>4, <2>5, Zenon DEF ReadFails
<1>8. ASSUME NEW p \in Conn, BrokerDrops(p) PROVE PumpTypes'
  BY <1>8 DEF BrokerDrops
<1>9. CASE UNCHANGED <<dialing, dials, conn, link, pump, reads, owns>>
  BY <1>9, Zenon
<1> QED
  BY <1>1, <1>2, <1>3, <1>4, <1>5, <1>6, <1>7, <1>8, <1>9, Zenon
     DEF Next, SubscribeChunk, SubscribeCash, Dropped, Redial, BrokerTick, vars

\* One step of the ticks: a tick is read, published or sent, or none moves.
TicksStay ==
    /\ UNCHANGED <<ticks, wire, published, holds>>
    /\ \A p \in Conn : pump'[p] = "publish" => pump[p] = "publish"

LEMMA TickSteps ==
    ASSUME BridgeInv, [Next]_vars
    PROVE  \/ TicksStay
           \/ BrokerTick
           \/ \E p \in Conn : Read(p) \/ Publish(p)
<1> USE DEF BridgeInv, PumpTypes, main, pumps, broker, TicksStay
<1>1. CASE Connect
  BY <1>1, Zenon DEF Connect
<1>2. ASSUME NEW p \in Conn, PumpStart(p) \/ ReadFails(p) \/ BrokerDrops(p) PROVE TicksStay
  BY <1>2, Zenon DEF PumpStart, ReadFails, BrokerDrops
<1>3. CASE UNCHANGED <<pump, ticks, wire, published, holds>>
  BY <1>3, Zenon
<1> QED
  BY <1>1, <1>2, <1>3, Zenon
     DEF Next, Dial, SubscribeChunk, SubscribeCash, Dropped, Redial, DialFails, vars

\* What Read does: the first tick of the connection the pump reads.
LEMMA ReadEffect ==
    ASSUME BridgeInv, NEW p \in Conn, Read(p)
    PROVE  LET c == reads[p]
               e == wire[c][1]
           IN  /\ c \in Conn /\ 1 \in 1..Len(wire[c]) /\ e \in Tick /\ e.on = c
               /\ holds' = [holds EXCEPT ![p] = e]
               /\ pump' = [pump EXCEPT ![p] = "publish"] /\ pump[p] = "read"
               /\ wire' \in [Conn -> Seq(Tick)]
               /\ \A d \in Conn : d # c => wire'[d] = wire[d]
               /\ Len(wire'[c]) = Len(wire[c]) - 1
               /\ \A i \in 1..Len(wire'[c]) : wire'[c][i] = wire[c][i + 1]
               /\ ticks' = ticks /\ published' = published
<1> DEFINE c == reads[p]
<1>1. c \in Conn /\ wire[c] \in Seq(Tick) /\ wire[c] # <<>> /\ WireInOrder(c)
  BY DEF Read, BridgeInv, PumpTypes, TickTypes, TicksApart, Conn
<1>2. /\ Head(wire[c]) = wire[c][1] /\ 1 \in 1..Len(wire[c]) /\ wire[c][1] \in Tick
      /\ Tail(wire[c]) \in Seq(Tick) /\ Len(Tail(wire[c])) = Len(wire[c]) - 1
      /\ \A i \in 1..Len(Tail(wire[c])) : Tail(wire[c])[i] = wire[c][i + 1]
  BY <1>1
<1>3. wire[c][1].on = c
  BY <1>1, <1>2, Zenon DEF WireInOrder
<1>4. wire \in [Conn -> Seq(Tick)]
  BY Zenon DEF BridgeInv, TickTypes
<1> QED
  BY <1>1, <1>2, <1>3, <1>4, Zenon DEF Read

\* What BrokerTick does: a tick newer than all others goes to some connections.
LEMMA TickEffect ==
    ASSUME BridgeInv, BrokerTick
    PROVE  /\ ticks' = ticks + 1 /\ UNCHANGED <<pump, holds, published>>
           /\ wire' \in [Conn -> Seq(Tick)]
           /\ \A d \in Conn :
                 \/ wire'[d] = wire[d]
                 \/ wire'[d] = Append(wire[d], [tick |-> ticks + 1, on |-> d])
<1>1. PICK i \in 1..Instruments :
         wire' = [d \in Conn |-> IF link[d] = "open" /\ i \in joined[d]
                                 THEN Append(wire[d], [tick |-> ticks + 1, on |-> d])
                                 ELSE wire[d]]
  BY Zenon DEF BrokerTick
<1>2. \A d \in Conn : [tick |-> ticks + 1, on |-> d] \in Tick /\ wire[d] \in Seq(Tick)
  <2>1. ticks + 1 \in Nat /\ \A d \in Conn : wire[d] \in Seq(Tick)
    BY DEF BridgeInv, TickTypes
  <2> QED
    BY <2>1, Zenon DEF Tick
<1>3. \A d \in Conn : Append(wire[d], [tick |-> ticks + 1, on |-> d]) \in Seq(Tick)
  BY <1>2
<1> QED
  BY <1>1, <1>2, <1>3, Zenon DEF BrokerTick, pumps

LEMMA TickTypesNext == ASSUME BridgeInv, [Next]_vars PROVE TickTypes'
<1> USE DEF BridgeInv, TickTypes
<1>1. CASE TicksStay
  BY <1>1, Zenon DEF TicksStay
<1>2. CASE BrokerTick
  BY <1>2, TickEffect
<1>3. ASSUME NEW p \in Conn, Read(p) PROVE TickTypes'
  <2>1. pump \in [Conn -> {"none", "start", "read", "publish", "end"}]
    BY Zenon DEF PumpTypes
  <2> DEFINE e == wire[reads[p]][1]
  <2>2. /\ e \in Tick /\ holds' = [holds EXCEPT ![p] = e]
        /\ pump' = [pump EXCEPT ![p] = "publish"] /\ wire' \in [Conn -> Seq(Tick)]
        /\ ticks' = ticks /\ published' = published
    BY <1>3, ReadEffect, Zenon
  <2> HIDE DEF e
  <2> QED
    BY <2>1, <2>2, Zenon
<1>4. ASSUME NEW p \in Conn, Publish(p) PROVE TickTypes'
  <2>1. holds[p] \in Tick /\ pump \in [Conn -> {"none", "start", "read", "publish", "end"}]
    BY <1>4, Zenon DEF Publish, PumpTypes
  <2> QED
    BY <1>4, <2>1 DEF Publish, broker
<1> QED
  BY <1>1, <1>2, <1>3, <1>4, TickSteps, Zenon

\* The ticks on the connections stay in order, and what was read before stays
\* older than they are.
LEMMA WireStep ==
    ASSUME BridgeInv, BrokerTick \/ \E p \in Conn : Read(p)
    PROVE  /\ \A c \in Conn : WireInOrder(c)'
           /\ \A e \in Tick : ReadBefore(e, ticks, wire) => ReadBefore(e, ticks', wire')
<1> ticks \in Nat /\ \A c \in Conn : wire[c] \in Seq(Tick) /\ WireInOrder(c)
  BY Zenon DEF BridgeInv, TickTypes, TicksApart
<1>0. \A c \in Conn : \A i \in 1..Len(wire[c]) : wire[c][i].tick \in Nat
  <2>1. ASSUME NEW c \in Conn, NEW i \in 1..Len(wire[c]) PROVE wire[c][i] \in Tick
    BY <2>1
  <2> QED
    BY <2>1, Zenon DEF Tick
<1>1. CASE BrokerTick
  <2>1. /\ ticks' = ticks + 1
        /\ \A d \in Conn : wire'[d] = wire[d] \/ \E e \in Tick :
              e.tick = ticks + 1 /\ e.on = d /\ wire'[d] = Append(wire[d], e)
    <3>1. \A d \in Conn : [tick |-> ticks + 1, on |-> d] \in Tick
      BY DEF Tick
    <3> QED
      BY <1>1, <3>1, TickEffect, Zenon
  <2>2. ASSUME NEW d \in Conn, NEW e \in Tick, e.tick = ticks + 1, e.on = d,
               wire'[d] = Append(wire[d], e)
        PROVE  /\ Len(wire'[d]) = Len(wire[d]) + 1 /\ wire'[d][Len(wire[d]) + 1] = e
               /\ \A i \in 1..Len(wire[d]) : wire'[d][i] = wire[d][i]
               /\ \A i \in 1..Len(wire'[d]) : i \in 1..Len(wire[d]) \/ i = Len(wire[d]) + 1
    BY <2>2
  <2>3. ASSUME NEW d \in Conn PROVE WireInOrder(d)'
    <3>1. CASE wire'[d] = wire[d]
      BY <1>0, <2>1, <3>1 DEF WireInOrder
    <3>2. ASSUME NEW e \in Tick, e.tick = ticks + 1, e.on = d, wire'[d] = Append(wire[d], e)
          PROVE  WireInOrder(d)'
      BY <1>0, <2>1, <2>2, <3>2 DEF WireInOrder
    <3> QED
      BY <2>1, <3>1, <3>2, Zenon
  <2>4. ASSUME NEW e \in Tick, ReadBefore(e, ticks, wire) PROVE ReadBefore(e, ticks', wire')
    <3>1. e.tick \in Nat /\ e.on \in Conn
      BY Zenon DEF Tick
    <3>2. CASE wire'[e.on] = wire[e.on]
      BY <2>1, <2>4, <3>1, <3>2 DEF ReadBefore
    <3>3. ASSUME NEW f \in Tick, f.tick = ticks + 1, f.on = e.on,
                 wire'[e.on] = Append(wire[e.on], f)
          PROVE  ReadBefore(e, ticks', wire')
      BY <2>1, <2>2, <2>4, <3>1, <3>3 DEF ReadBefore
    <3> QED
      BY <2>1, <3>1, <3>2, <3>3, Zenon
  <2> QED
    BY <2>3, <2>4, Zenon
<1>2. ASSUME NEW p \in Conn, Read(p)
      PROVE  /\ \A c \in Conn : WireInOrder(c)'
             /\ \A e \in Tick : ReadBefore(e, ticks, wire) => ReadBefore(e, ticks', wire')
  <2>1. /\ ticks' = ticks
        /\ \A d \in Conn : wire'[d] = wire[d] \/
              (/\ Len(wire'[d]) = Len(wire[d]) - 1
               /\ \A i \in 1..Len(wire'[d]) : wire'[d][i] = wire[d][i + 1])
    BY <1>2, ReadEffect, Zenon
  <2>2. ASSUME NEW d \in Conn, Len(wire'[d]) = Len(wire[d]) - 1
        PROVE  \A i \in 1..Len(wire'[d]) : i + 1 \in 1..Len(wire[d])
    BY <2>2
  <2>3. ASSUME NEW d \in Conn PROVE WireInOrder(d)'
    <3>1. CASE wire'[d] = wire[d]
      BY <2>1, <3>1, Zenon DEF WireInOrder
    <3>2. ASSUME Len(wire'[d]) = Len(wire[d]) - 1,
                 \A i \in 1..Len(wire'[d]) : wire'[d][i] = wire[d][i + 1]
          PROVE  WireInOrder(d)'
      <4> SUFFICES ASSUME NEW i \in 1..Len(wire'[d])
                   PROVE  /\ wire'[d][i].on = d /\ wire'[d][i].tick <= ticks'
                          /\ \A j \in 1..Len(wire'[d]) :
                               i < j => wire'[d][i].tick < wire'[d][j].tick
        BY Zenon DEF WireInOrder
      <4>1. i + 1 \in 1..Len(wire[d]) /\ wire'[d][i] = wire[d][i + 1]
        BY <2>2, <3>2, Zenon
      <4>2. ASSUME NEW j \in 1..Len(wire'[d]), i < j
            PROVE  wire'[d][i].tick < wire'[d][j].tick
        <5>1. j + 1 \in 1..Len(wire[d]) /\ wire'[d][j] = wire[d][j + 1]
          BY <2>2, <3>2, Zenon
        <5>2. i + 1 < j + 1
          BY <3>2, <4>2
        <5> QED
          BY <4>1, <5>1, <5>2, Zenon DEF WireInOrder
      <4> QED
        BY <2>1, <4>1, <4>2, Zenon DEF WireInOrder
    <3> QED
      BY <2>1, <3>1, <3>2, Zenon
  <2>4. ASSUME NEW e \in Tick, ReadBefore(e, ticks, wire) PROVE ReadBefore(e, ticks', wire')
    <3>1. e.tick \in Nat /\ e.on \in Conn
      BY Zenon DEF Tick
    <3> QED
      BY <2>1, <2>2, <2>4, <3>1, Zenon DEF ReadBefore
  <2> QED
    BY <2>3, <2>4, Zenon
<1> QED
  BY <1>1, <1>2, Zenon

LEMMA TicksApartNext == ASSUME BridgeInv, [Next]_vars PROVE TicksApart'
<1> /\ \A c \in Conn : wire[c] \in Seq(Tick)
    /\ published \in Seq(Tick) /\ ticks \in Nat
    /\ \A p \in Conn : pump[p] = "publish" => holds[p] \in Tick
    /\ \A i \in 1..Len(published) : published[i] \in Tick
    /\ pump \in [Conn -> {"none", "start", "read", "publish", "end"}]
    /\ holds \in [Conn -> Tick \union {<<>>}]
    /\ TicksApart
  BY DEF BridgeInv, TickTypes, PumpTypes
<1>1. CASE TicksStay
  BY <1>1, Zenon DEF TicksStay, TicksApart, WireInOrder, ReadBefore
<1>2. CASE BrokerTick
  <2>1. UNCHANGED <<pump, holds, published>>
    BY <1>2, TickEffect, Zenon
  <2> QED
    BY <1>2, <2>1, WireStep, Zenon DEF TicksApart
<1>3. ASSUME NEW p \in Conn, Read(p) PROVE TicksApart'
  <2> DEFINE c == reads[p]
             e == wire[c][1]
  <2>1. /\ c \in Conn /\ 1 \in 1..Len(wire[c]) /\ e \in Tick /\ e.on = c
        /\ holds' = [holds EXCEPT ![p] = e] /\ pump[p] = "read"
        /\ pump' = [pump EXCEPT ![p] = "publish"]
        /\ Len(wire'[c]) = Len(wire[c]) - 1
        /\ \A i \in 1..Len(wire'[c]) : wire'[c][i] = wire[c][i + 1]
        /\ ticks' = ticks /\ published' = published
    BY <1>3, ReadEffect, Zenon
  <2>2. WireInOrder(c) /\ \A f \in Tick : ReadBefore(f, ticks, wire) => f # e
    <3>1. WireInOrder(c)
      BY <2>1, Zenon DEF TicksApart
    <3>2. ASSUME NEW f \in Tick, ReadBefore(f, ticks, wire), f = e PROVE FALSE
      BY <2>1, <3>2 DEF ReadBefore, Tick
    <3> QED
      BY <3>1, <3>2, Zenon
  <2> HIDE DEF c
  <2>3. ReadBefore(e, ticks', wire')
    <3>1. e.tick <= ticks
      BY <2>1, <2>2, Zenon DEF WireInOrder
    <3>2. ASSUME NEW i \in 1..Len(wire'[c]) PROVE e.tick < wire'[c][i].tick
      <4>1. i + 1 \in 1..Len(wire[c]) /\ 1 < i + 1
        BY <2>1
      <4> QED
        BY <2>1, <2>2, <4>1, Zenon DEF WireInOrder
    <3> QED
      BY <2>1, <3>1, <3>2, Zenon DEF ReadBefore
  <2> HIDE DEF e
  <2>4. \A f \in Tick : ReadBefore(f, ticks, wire) => ReadBefore(f, ticks', wire')
    BY <1>3, WireStep, Zenon
  <2>5. \A d \in Conn : WireInOrder(d)'
    BY <1>3, WireStep, Zenon
  <2>6. /\ holds'[p] = e /\ pump'[p] = "publish"
        /\ \A q \in Conn : q # p => holds'[q] = holds[q] /\ pump'[q] = pump[q]
    BY <2>1, Zenon
  <2>7. \A i \in 1..Len(published) :
           ReadBefore(published[i], ticks', wire') /\ published[i] # e
    BY <2>2, <2>4, Zenon DEF TicksApart
  <2>8. \A q \in Conn : pump[q] = "publish" =>
           ReadBefore(holds[q], ticks', wire') /\ holds[q] # e
    BY <2>2, <2>4, Zenon DEF TicksApart
  <2>9. ASSUME NEW q \in Conn, pump'[q] = "publish"
        PROVE  /\ ReadBefore(holds'[q], ticks', wire')
               /\ \A r \in Conn : pump'[r] = "publish" /\ holds'[r] = holds'[q] => r = q
               /\ \A i \in 1..Len(published) : published[i] # holds'[q]
    <3>1. CASE q = p
      BY <2>3, <2>6, <2>7, <2>8, <3>1, Zenon
    <3>2. CASE q # p
      BY <2>6, <2>8, <2>9, <3>2, Zenon DEF TicksApart
    <3> QED
      BY <3>1, <3>2, Zenon
  <2>10. \A i \in 1..Len(published') :
            /\ ReadBefore(published'[i], ticks', wire')
            /\ \A j \in 1..Len(published') : published'[i] = published'[j] => i = j
    BY <2>1, <2>7, Zenon DEF TicksApart
  <2>11. ASSUME NEW q \in Conn, pump'[q] = "publish"
         PROVE  \A i \in 1..Len(published') : published'[i] # holds'[q]
    BY <2>1, <2>9, <2>11, Zenon
  <2> QED
    BY <2>5, <2>9, <2>10, <2>11, Zenon DEF TicksApart
<1>4. ASSUME NEW p \in Conn, Publish(p) PROVE TicksApart'
  <2>1. /\ pump[p] = "publish" /\ holds[p] \in Tick /\ published' = Append(published, holds[p])
        /\ UNCHANGED <<holds, wire, ticks>> /\ pump'[p] = "read"
        /\ \A q \in Conn : q # p => pump'[q] = pump[q]
    BY <1>4, Zenon DEF Publish, broker
  <2> DEFINE e == holds[p]
             n == Len(published)
  <2>2. /\ n \in Nat /\ Len(published') = n + 1 /\ published'[n + 1] = e
        /\ \A i \in 1..n : published'[i] = published[i]
        /\ \A i \in 1..(n + 1) : i \in 1..n \/ i = n + 1
    BY <2>1
  <2>3. /\ ReadBefore(e, ticks, wire)
        /\ \A i \in 1..n : published[i] # e /\ ReadBefore(published[i], ticks, wire)
    BY <2>1, Zenon DEF TicksApart
  <2>4. \A f \in Tick : ReadBefore(f, ticks, wire) => ReadBefore(f, ticks', wire')
    BY <2>1, Zenon DEF ReadBefore
  <2>5. \A d \in Conn : WireInOrder(d)'
    BY <2>1, Zenon DEF TicksApart, WireInOrder
  <2>6. \A q \in Conn : pump[q] = "publish" /\ holds[q] = e => q = p
    BY <2>1, Zenon DEF TicksApart
  <2>7. ASSUME NEW q \in Conn, pump'[q] = "publish"
        PROVE  /\ ReadBefore(holds'[q], ticks', wire')
               /\ \A r \in Conn : pump'[r] = "publish" /\ holds'[r] = holds'[q] => r = q
               /\ \A i \in 1..(n + 1) : published'[i] # holds'[q]
    <3>1. q # p /\ pump[q] = "publish" /\ holds[q] # e
      BY <2>1, <2>6, <2>7, Zenon
    <3>2. /\ holds'[q] = holds[q] /\ ReadBefore(holds[q], ticks, wire) /\ holds[q] \in Tick
          /\ \A i \in 1..n : published[i] # holds[q]
      BY <2>1, <3>1, Zenon DEF TicksApart
    <3>3. ASSUME NEW r \in Conn, pump'[r] = "publish", holds'[r] = holds'[q] PROVE r = q
      <4>1. r # p /\ pump[r] = "publish" /\ holds[r] = holds[q]
        BY <2>1, <3>2, <3>3, Zenon
      <4> QED
        BY <3>1, <4>1, Zenon DEF TicksApart
    <3> HIDE DEF e, n
    <3>4. \A i \in 1..(n + 1) : published'[i] # holds'[q]
      BY <2>2, <3>1, <3>2, Zenon
    <3> QED
      BY <2>4, <3>2, <3>3, <3>4, Zenon
  <2>8. ASSUME NEW i \in 1..(n + 1)
        PROVE  /\ ReadBefore(published'[i], ticks', wire')
               /\ \A j \in 1..(n + 1) : published'[i] = published'[j] => i = j
    <3> HIDE DEF e, n
    <3>1. \A i1, j1 \in 1..n : published[i1] = published[j1] => i1 = j1
      BY Zenon DEF TicksApart, n
    <3>2. \A i1 \in 1..n : published[i1] \in Tick
      BY Zenon DEF n
    <3>3. e \in Tick
      BY <2>1, Zenon DEF e
    <3> QED
      BY <2>2, <2>3, <2>4, <3>1, <3>2, <3>3, Zenon
  <2> QED
    BY <2>2, <2>5, <2>7, <2>8, Zenon DEF TicksApart
<1> QED
  BY <1>1, <1>2, <1>3, <1>4, TickSteps, Zenon

\* The chunks follow each other without a gap, and the connection stays the
\* same while they are sent.
LEMMA SubscribingNext == ASSUME BridgeInv, [Next]_vars PROVE Subscribing'
<1> USE DEF main, pumps, broker
<1> Subscribing /\ LoopTypes /\ PumpTypes /\ BridgeAssumption
  BY Zenon DEF BridgeInv
<1>1. CASE Dial
  BY <1>1, Zenon DEF Dial, Subscribing
<1>2. CASE SubscribeChunk
  <2>1. /\ loop = "subscribe" /\ loop' = loop /\ dialing' = dialing /\ conn' = conn
        /\ link' = link /\ from' = from + chunkSize
        /\ early' = IF from = 0 THEN ~dialing ELSE early
        /\ joined' = IF conn # 0 /\ link[conn] = "open"
                     THEN [joined EXCEPT ![conn] = @ \union Chunk(from)] ELSE joined
    BY <1>2, Zenon DEF SubscribeChunk
  <2>2. ASSUME early' PROVE ~dialing
    BY <2>1, <2>2, Zenon DEF Subscribing
  <2>3. ASSUME early', conn # 0, link[conn] = "open", NEW i \in 1..Instruments,
               i <= from + chunkSize
        PROVE  i \in joined'[conn]
    <3>1. joined'[conn] = joined[conn] \union Chunk(from)
      <4>1. conn \in Conn
        BY <2>3 DEF LoopTypes, Conn, BridgeAssumption
      <4> QED
        BY <2>1, <2>3, <4>1, Zenon DEF LoopTypes
    <3>2. CASE i <= from
      <4>1. from # 0
        BY <3>2 DEF LoopTypes
      <4>2. early
        BY <2>1, <2>3, <4>1, Zenon
      <4> QED
        BY <2>1, <2>3, <3>1, <3>2, <4>2, Zenon DEF Subscribing
    <3>3. CASE i > from
      BY <2>3, <3>1, <3>3 DEF Chunk, LoopTypes, BridgeAssumption
    <3> QED
      BY <3>2, <3>3 DEF LoopTypes, BridgeAssumption
  <2> QED
    BY <2>1, <2>2, <2>3, Zenon DEF Subscribing
<1>3. CASE SubscribeCash
  BY <1>3, Zenon DEF SubscribeCash, Subscribing
<1>4. ASSUME dialing, UNCHANGED main PROVE Subscribing'
  BY <1>4, Zenon DEF Subscribing
<1>5. ASSUME UNCHANGED <<main, dialing, conn, joined>>,
             conn # 0 => (link'[conn] = "open" => link[conn] = "open")
      PROVE  Subscribing'
  BY <1>5, Zenon DEF Subscribing
<1>6. ASSUME NEW p \in Conn, ReadFails(p) \/ BrokerDrops(p) PROVE Subscribing'
  <2>1. conn # 0 => conn \in Conn
    BY DEF LoopTypes, Conn, BridgeAssumption
  <2>2. \E c \in 0..MaxDials, s \in {"closed", "dropped"} : link' = [link EXCEPT ![c] = s]
    BY <1>6 DEF ReadFails, BrokerDrops, PumpTypes, Conn
  <2>3. conn # 0 => (link'[conn] = "open" => link[conn] = "open")
    BY <2>1, <2>2, Zenon DEF PumpTypes
  <2> QED
    BY <1>5, <1>6, <2>3, Zenon DEF ReadFails, BrokerDrops
<1>7. ASSUME NEW p \in Conn, PumpStart(p) \/ Read(p) \/ Publish(p) PROVE Subscribing'
  BY <1>5, <1>7, Zenon DEF PumpStart, Read, Publish
<1>8. CASE BrokerTick \/ UNCHANGED vars
  BY <1>5, <1>8, Zenon DEF BrokerTick, vars
<1>9. CASE Dropped \/ Redial
  BY <1>9, Zenon DEF Dropped, Redial, Subscribing
<1>10. CASE Connect \/ DialFails
  BY <1>4, <1>10, Zenon DEF Connect, DialFails
<1> QED
  BY <1>1, <1>2, <1>3, <1>6, <1>7, <1>8, <1>9, <1>10, Zenon DEF Next

LEMMA BridgeInit == BridgeAssumption /\ Init => BridgeInv
BY DEF Init, BridgeInv, BridgeAssumption, LoopTypes, PumpTypes, TickTypes, TicksApart,
       WireInOrder, ReadBefore, Subscribing, Conn

LEMMA BridgeNext == BridgeInv /\ [Next]_vars => BridgeInv'
<1>1. BridgeAssumption => BridgeAssumption'
  BY Zenon DEF BridgeAssumption
<1> QED
  BY <1>1, LoopTypesNext, PumpTypesNext, TickTypesNext, TicksApartNext, SubscribingNext, Zenon
     DEF BridgeInv

\* readPump publishes no tick of a connection twice, though several pumps may
\* come to read the same connection, and main has subscribed all instruments on
\* a connection that was there from the first chunk on, whatever their number
\* is to the size of a chunk and whenever connections drop or are replaced.
THEOREM SocketIsExact == BridgeAssumption /\ Spec => []SocketExact
<1>1. BridgeInv => SocketExact
  <2> SUFFICES ASSUME BridgeInv PROVE SocketExact
    BY Zenon
  <2>1. TypeOK
    BY Zenon DEF BridgeInv, LoopTypes, PumpTypes, TypeOK
  <2>2. PublishedOnce
    BY DEF BridgeInv, TickTypes, TicksApart, PublishedOnce
  <2>3. SubscribedWhole
    <3> SUFFICES ASSUME loop = "wait", early, conn # 0, link[conn] = "open"
                 PROVE  joined[conn] = 1..Instruments
      BY Zenon DEF SubscribedWhole
    <3>1. conn \in Conn /\ from >= Instruments /\ from \in Nat /\ Instruments \in Nat
      BY DEF BridgeInv, LoopTypes, Subscribing, BridgeAssumption, Conn
    <3>2. \A i \in 1..Instruments : i <= from
      BY <3>1
    <3>3. joined[conn] \subseteq 1..Instruments
      BY <3>1, Zenon DEF BridgeInv, LoopTypes
    <3>4. \A i \in 1..Instruments : i \in joined[conn]
      BY <3>2, Zenon DEF BridgeInv, Subscribing
    <3> QED
      BY <3>3, <3>4, Zenon
  <2> QED
    BY <2>1, <2>2, <2>3, Zenon DEF SocketExact
<1> QED
  BY <1>1, BridgeInit, BridgeNext, PTL DEF Spec


-----------------------------------------------------------------------------
(* DecoderCache *)

LEMMA CacheInit == ASSUME MaxSent \in Nat, Cache!Init PROVE CacheInv
<1>1. CacheTypes
  BY DEF Cache!Init, CacheTypes
<1>2. ShownBefore
  BY DEF Cache!Init, ShownBefore
<1> QED
  BY <1>1, <1>2, Zenon DEF CacheInv

\* The map of the clients, and who is still to be written to.
LEMMA ListenerNext ==
    ASSUME CacheTypes, [Cache!Next]_(Cache!vars)
    PROVE  /\ listener' \in {"recv", "test", "look", "write"}
           /\ wsClients' \subseteq Client /\ left' \subseteq wsClients'
           /\ (listener' = "write") <=> (left' # {})
<1> USE DEF CacheTypes
<1>1. CASE Cache!DecoderSends
  BY <1>1, Zenon DEF Cache!DecoderSends
<1>2. CASE Cache!Receive
  BY <1>2, Zenon DEF Cache!Receive
<1>3. CASE Cache!AnyClient
  BY <1>3, Zenon DEF Cache!AnyClient
<1>4. CASE Cache!StartWrites
  BY <1>4, Zenon DEF Cache!StartWrites
<1>5. ASSUME NEW c \in Client, Cache!Write(c) \/ Cache!WriteFails(c)
      PROVE  /\ listener' \in {"recv", "write"}
             /\ wsClients' = wsClients /\ left' \subseteq wsClients'
             /\ (listener' = "write") <=> (left' # {})
  <2>1. /\ listener = "write" /\ c \in left /\ wsClients' = wsClients /\ left' = left \ {c}
        /\ listener' = IF left = {c} THEN "recv" ELSE "write"
    BY <1>5, Zenon DEF Cache!Write, Cache!WriteFails, Cache!Done
  <2> QED
    BY <2>1, Zenon
<1>6. ASSUME NEW c \in Client, Cache!Connect(c)
      PROVE  /\ listener' = listener /\ wsClients' \subseteq Client
             /\ left' = left /\ left' \subseteq wsClients'
  BY <1>6, Zenon DEF Cache!Connect
<1>7. ASSUME NEW c \in Client, Cache!Disconnect(c)
      PROVE  listener' = listener /\ wsClients' = wsClients /\ left' = left
  BY <1>7, Zenon DEF Cache!Disconnect
<1>8. ASSUME NEW c \in Client, Cache!ReadFails(c)
      PROVE  /\ listener' = listener /\ wsClients' \subseteq Client
             /\ left' = left /\ left' \subseteq wsClients'
  BY <1>8, Zenon DEF Cache!ReadFails, Cache!Unlocked
<1>9. CASE UNCHANGED Cache!vars
  BY <1>9, Zenon DEF Cache!vars
<1> QED
  BY <1>1, <1>2, <1>3, <1>4, <1>5, <1>6, <1>7, <1>8, <1>9, Zenon DEF Cache!Next

\* The steps of the connections change neither the messages nor what is seen.
ClientStep == UNCHANGED <<slot, sent, chains, listener, message, left, seen>>

LEMMA ConnectionSteps ==
    ASSUME CacheTypes, [Cache!Next]_(Cache!vars)
    PROVE  /\ \/ Cache!DecoderSends \/ Cache!Receive \/ Cache!AnyClient \/ Cache!StartWrites
              \/ \E c \in Client : Cache!Write(c) \/ Cache!WriteFails(c)
              \/ ClientStep
           /\ peer' \in [Client -> {"new", "open", "lost", "gone"}]
<1>0. peer \in [Client -> {"new", "open", "lost", "gone"}]
  BY Zenon DEF CacheTypes
<1>1. CASE Cache!DecoderSends \/ Cache!Receive \/ Cache!AnyClient \/ Cache!StartWrites
  BY <1>0, <1>1, Zenon DEF Cache!DecoderSends, Cache!Receive, Cache!AnyClient, Cache!StartWrites
<1>2. ASSUME NEW c \in Client, Cache!Write(c) \/ Cache!WriteFails(c) PROVE peer' = peer
  BY <1>2, Zenon DEF Cache!Write, Cache!WriteFails
<1>3. ASSUME NEW c \in Client, Cache!Connect(c)
      PROVE  ClientStep /\ peer' = [peer EXCEPT ![c] = "open"]
  BY <1>3, Zenon DEF Cache!Connect, ClientStep
<1>4. ASSUME NEW c \in Client, Cache!Disconnect(c)
      PROVE  ClientStep /\ peer' = [peer EXCEPT ![c] = "lost"]
  BY <1>4, Zenon DEF Cache!Disconnect, ClientStep
<1>5. ASSUME NEW c \in Client, Cache!ReadFails(c)
      PROVE  ClientStep /\ peer' = [peer EXCEPT ![c] = "gone"]
  BY <1>5, Zenon DEF Cache!ReadFails, ClientStep
<1>6. CASE UNCHANGED Cache!vars
  BY <1>0, <1>6, Zenon DEF Cache!vars, ClientStep
<1>7. ASSUME NEW c \in Client, NEW s \in {"open", "lost", "gone"},
             peer' = [peer EXCEPT ![c] = s]
      PROVE  peer' \in [Client -> {"new", "open", "lost", "gone"}]
  BY <1>0, <1>7, Zenon
<1> QED
  BY <1>0, <1>1, <1>2, <1>3, <1>4, <1>5, <1>6, <1>7, Zenon DEF Cache!Next

\* What a write to a client adds to what it has seen.
LEMMA WriteEffect ==
    ASSUME CacheInv, NEW c \in Client, Cache!Write(c)
    PROVE  /\ UNCHANGED <<slot, sent, chains, message>> /\ listener = "write" /\ c \in left
           /\ message \in Msg /\ left' = left \ {c} /\ listener' \in {"recv", "write"}
           /\ seen' \in [Client -> Seq(Msg)]
           /\ Len(seen[c]) \in Nat /\ Len(seen'[c]) = Len(seen[c]) + 1
           /\ seen'[c][Len(seen[c]) + 1] = message
           /\ \A i \in 1..Len(seen[c]) : seen'[c][i] = seen[c][i]
           /\ \A i \in 1..Len(seen'[c]) : i \in 1..Len(seen[c]) \/ i = Len(seen[c]) + 1
           /\ \A d \in Client : d # c => seen'[d] = seen[d]
<1>1. /\ UNCHANGED <<slot, sent, chains, message>> /\ listener = "write" /\ c \in left
      /\ left' = left \ {c} /\ listener' = IF left = {c} THEN "recv" ELSE "write"
      /\ seen' = [seen EXCEPT ![c] = Append(@, message)]
  BY Zenon DEF Cache!Write, Cache!Done
<1>2. message \in Msg /\ seen \in [Client -> Seq(Msg)]
  BY <1>1, Zenon DEF CacheInv, CacheTypes
<1>3. /\ seen'[c] = Append(seen[c], message) /\ seen[c] \in Seq(Msg)
      /\ \A d \in Client : d # c => seen'[d] = seen[d]
  BY <1>1, <1>2, Zenon
<1>4. /\ Len(seen[c]) \in Nat /\ Len(seen'[c]) = Len(seen[c]) + 1
      /\ seen'[c][Len(seen[c]) + 1] = message
      /\ \A i \in 1..Len(seen[c]) : seen'[c][i] = seen[c][i]
      /\ \A i \in 1..Len(seen'[c]) : i \in 1..Len(seen[c]) \/ i = Len(seen[c]) + 1
  BY <1>2, <1>3
<1>5. seen' \in [Client -> Seq(Msg)]
  BY <1>1, <1>2
<1>6. listener' \in {"recv", "write"}
  BY <1>1, Zenon
<1> QED
  BY <1>1, <1>2, <1>3, <1>4, <1>5, <1>6, Zenon

\* What the listener takes from the socket.
LEMMA ReceiveEffect ==
    ASSUME CacheInv, Cache!Receive
    PROVE  /\ slot' = <<>> /\ message' = slot[1] /\ 1 \in 1..Len(slot) /\ message' \in Msg
           /\ chains' = [chains EXCEPT ![message'.symbol] = message'.number]
           /\ message'.symbol \in Symbol /\ message'.number \in Nat
           /\ listener = "recv" /\ listener' = "test" /\ UNCHANGED <<sent, left, seen>>
<1>1. /\ listener = "recv" /\ slot # <<>> /\ slot' = <<>> /\ message' = Head(slot)
      /\ chains' = [chains EXCEPT ![message'.symbol] = message'.number]
      /\ listener' = "test" /\ UNCHANGED <<sent, left, seen>>
  BY Zenon DEF Cache!Receive
<1>2. message' = slot[1] /\ 1 \in 1..Len(slot) /\ message' \in Msg
  BY <1>1 DEF CacheInv, CacheTypes
<1> QED
  BY <1>1, <1>2, Zenon DEF Msg

LEMMA CacheTypesNext == ASSUME CacheInv, [Cache!Next]_(Cache!vars) PROVE CacheTypes'
<1> DEFINE Messages == /\ slot \in Seq(Msg) /\ Len(slot) <= 1 /\ sent \in 0..MaxSent
                       /\ chains \in [Symbol -> 0..sent]
                       /\ listener # "recv" => message \in Msg
                       /\ seen \in [Client -> Seq(Msg)]
<1>0. CacheTypes /\ Messages /\ MaxSent \in Nat
  BY Zenon DEF CacheInv, CacheTypes
<1> SUFFICES Messages'
  BY <1>0, ListenerNext, ConnectionSteps, Zenon DEF CacheTypes
<1>1. CASE Cache!DecoderSends
  <2>1. PICK s \in Symbol : slot' = <<Cache!Published(sent + 1, s)>>
    BY <1>1, Zenon DEF Cache!DecoderSends
  <2>2. sent < MaxSent /\ sent' = sent + 1 /\ UNCHANGED <<chains, listener, message, seen>>
    BY <1>1, Zenon DEF Cache!DecoderSends
  <2>3. Cache!Published(sent + 1, s) \in Msg
    BY <1>0 DEF Cache!Published, Msg
  <2> HIDE DEF Msg
  <2>4. slot' \in Seq(Msg) /\ Len(slot') <= 1
    BY <2>1, <2>3
  <2>5. sent' \in 0..MaxSent /\ chains' \in [Symbol -> 0..sent']
    BY <1>0, <2>2
  <2> QED
    BY <1>0, <2>2, <2>4, <2>5, Zenon
<1>2. CASE Cache!Receive
  <2>1. slot' \in Seq(Msg) /\ Len(slot') <= 1
    BY <1>2, ReceiveEffect
  <2>2. message'.number \in 0..sent
    BY <1>0, <1>2, ReceiveEffect DEF CacheInv, ShownBefore
  <2>3. chains' \in [Symbol -> 0..sent]
    BY <1>0, <1>2, <2>2, ReceiveEffect, Zenon
  <2> QED
    BY <1>0, <1>2, <2>1, <2>3, ReceiveEffect, Zenon
<1>3. CASE Cache!AnyClient \/ Cache!StartWrites
  <2>1. UNCHANGED <<slot, sent, chains, message, seen>> /\ listener # "recv"
    BY <1>3, Zenon DEF Cache!AnyClient, Cache!StartWrites
  <2> QED
    BY <1>0, <2>1, Zenon
<1>4. ASSUME NEW c \in Client, Cache!Write(c) PROVE Messages'
  BY <1>0, <1>4, WriteEffect, Zenon
<1>5. ASSUME NEW c \in Client, Cache!WriteFails(c) PROVE Messages'
  <2>1. UNCHANGED <<slot, sent, chains, message, seen>> /\ listener = "write"
    BY <1>5, Zenon DEF Cache!WriteFails
  <2> QED
    BY <1>0, <2>1, Zenon
<1>6. CASE ClientStep
  BY <1>0, <1>6, Zenon DEF ClientStep
<1> QED
  BY <1>0, <1>1, <1>2, <1>3, <1>4, <1>5, <1>6, ConnectionSteps, Zenon

LEMMA ShownBeforeNext == ASSUME CacheInv, [Cache!Next]_(Cache!vars) PROVE ShownBefore'
<1>0. /\ CacheTypes /\ ShownBefore /\ MaxSent \in Nat
      /\ sent \in Nat /\ chains \in [Symbol -> 0..sent]
      /\ seen \in [Client -> Seq(Msg)]
  BY DEF CacheInv, CacheTypes
<1>s. ASSUME NEW c \in Client, NEW i \in 1..Len(seen[c])
      PROVE  seen[c][i].symbol \in Symbol /\ seen[c][i].number \in Nat
  <2>1. seen[c][i] \in Msg
    BY <1>0
  <2> QED
    BY <2>1, Zenon DEF Msg
<1>1. CASE Cache!DecoderSends
  <2>1. PICK s \in Symbol : slot' = <<Cache!Published(sent + 1, s)>>
    BY <1>1, Zenon DEF Cache!DecoderSends
  <2>2. sent' = sent + 1 /\ UNCHANGED <<chains, listener, message, left, seen>>
    BY <1>1, Zenon DEF Cache!DecoderSends
  <2>3. \A i \in 1..Len(slot') : slot'[i].number = sent + 1
    BY <2>1 DEF Cache!Published
  <2>4. \A i \in 1..Len(slot') :
           slot'[i].number <= sent' /\ \A t \in Symbol : chains'[t] < slot'[i].number
    BY <1>0, <2>2, <2>3
  <2> QED
    BY <1>0, <2>2, <2>4, Zenon DEF ShownBefore
<1>2. CASE Cache!Receive
  <2> DEFINE s == message'.symbol
             n == message'.number
  <2>1. /\ s \in Symbol /\ n \in Nat /\ chains' = [chains EXCEPT ![s] = n]
        /\ seen' = seen /\ left' = left /\ left = {} /\ listener' = "test" /\ Len(slot') = 0
    BY <1>0, <1>2, ReceiveEffect, Zenon DEF CacheTypes
  <2>2. \A t \in Symbol : chains[t] < n
    BY <1>2, ReceiveEffect, Zenon DEF CacheInv, ShownBefore
  <2> HIDE DEF s, n
  <2>3. chains'[s] = n /\ \A t \in Symbol : chains'[t] \in Nat /\ chains[t] <= chains'[t]
    BY <1>0, <2>1, <2>2
  <2>4. ASSUME NEW c \in Client, NEW i \in 1..Len(seen[c])
        PROVE  seen[c][i].number < n /\ seen[c][i].number <= chains'[seen[c][i].symbol]
    <3>1. seen[c][i].number <= chains[seen[c][i].symbol]
      BY <1>0, Zenon DEF ShownBefore
    <3> QED
      BY <1>0, <1>s, <2>1, <2>2, <2>3, <3>1
  <2>5. \A i \in 1..Len(slot') : FALSE
    BY <2>1
  <2> QED
    BY <1>0, <2>1, <2>3, <2>4, <2>5, Zenon DEF ShownBefore, s, n
<1>3. CASE Cache!AnyClient
  <2>1. /\ UNCHANGED <<slot, sent, chains, message, left, seen>>
        /\ listener = "test" /\ listener' \in {"recv", "look"} /\ left = {}
    BY <1>0, <1>3, Zenon DEF Cache!AnyClient, CacheTypes
  <2> QED
    BY <1>0, <2>1, Zenon DEF ShownBefore
<1>4. CASE Cache!StartWrites
  <2>1. /\ UNCHANGED <<slot, sent, chains, message, seen>> /\ listener = "look"
    BY <1>4, Zenon DEF Cache!StartWrites
  <2> QED
    BY <1>0, <2>1, Zenon DEF ShownBefore
<1>5. ASSUME NEW c \in Client, Cache!Write(c) PROVE ShownBefore'
  <2>1. /\ UNCHANGED <<slot, sent, chains, message>> /\ listener = "write" /\ c \in left
        /\ message \in Msg /\ left' = left \ {c} /\ listener' \in {"recv", "write"}
        /\ \A d \in Client : d # c => seen'[d] = seen[d]
    BY <1>5, WriteEffect, Zenon
  <2> DEFINE m == Len(seen[c])
  <2>2. /\ m \in Nat /\ Len(seen'[c]) = m + 1 /\ seen'[c][m + 1] = message
        /\ \A i \in 1..m : seen'[c][i] = seen[c][i]
        /\ \A i \in 1..Len(seen'[c]) : i \in 1..m \/ i = m + 1
    BY <1>5, WriteEffect, Zenon
  <2>3. chains[message.symbol] = message.number /\ message.number \in Nat
    BY <1>0, <2>1, Zenon DEF ShownBefore, Msg
  <2>4. \A i \in 1..m : seen[c][i].number < message.number
    BY <1>0, <2>1, Zenon DEF ShownBefore
  <2>5. \A i, j \in 1..m : i < j => seen[c][i].number < seen[c][j].number
    BY <1>0, Zenon DEF ShownBefore
  <2>6. \A i \in 1..m : seen[c][i].number <= chains[seen[c][i].symbol]
    BY <1>0, Zenon DEF ShownBefore
  <2> HIDE DEF m
  <2>7. ASSUME NEW i \in 1..Len(seen'[c])
        PROVE  /\ seen'[c][i].number <= chains'[seen'[c][i].symbol]
               /\ \A j \in 1..Len(seen'[c]) : i < j => seen'[c][i].number < seen'[c][j].number
    <3>1. CASE i \in 1..m
      BY <2>1, <2>2, <2>4, <2>5, <2>6, <3>1, Zenon
    <3>2. CASE i = m + 1
      <4>1. seen'[c][i].number <= chains'[seen'[c][i].symbol]
        BY <2>1, <2>2, <2>3, <3>2
      <4>2. \A j \in 1..Len(seen'[c]) : ~ i < j
        BY <2>2, <3>2
      <4> QED
        BY <4>1, <4>2, Zenon
    <3> QED
      BY <2>2, <3>1, <3>2, Zenon
  <2>8. ASSUME NEW d \in Client
        PROVE  \A i \in 1..Len(seen'[d]) :
                  /\ seen'[d][i].number <= chains'[seen'[d][i].symbol]
                  /\ \A j \in 1..Len(seen'[d]) : i < j => seen'[d][i].number < seen'[d][j].number
    <3>1. CASE d = c
      BY <2>7, <3>1, Zenon
    <3>2. CASE d # c
      BY <1>0, <2>1, <3>2, Zenon DEF ShownBefore
    <3> QED
      BY <3>1, <3>2, Zenon
  <2>9. ASSUME NEW d \in Client, listener' \in {"test", "look"} \/ d \in left'
        PROVE  \A i \in 1..Len(seen'[d]) : seen'[d][i].number < message'.number
    <3>1. d # c /\ d \in left
      BY <2>1, <2>9, Zenon
    <3> QED
      BY <1>0, <2>1, <3>1, Zenon DEF ShownBefore
  <2>10. \A i \in 1..Len(slot') :
            slot'[i].number <= sent' /\ \A s \in Symbol : chains'[s] < slot'[i].number
    BY <1>0, <2>1, Zenon DEF ShownBefore
  <2>11. chains'[message'.symbol] = message'.number
    BY <2>1, <2>3, Zenon
  <2> QED
    BY <2>8, <2>9, <2>10, <2>11, Zenon DEF ShownBefore
<1>6. ASSUME NEW c \in Client, Cache!WriteFails(c) PROVE ShownBefore'
  <2>1. /\ UNCHANGED <<slot, sent, chains, message, seen>> /\ listener = "write"
        /\ left' = left \ {c} /\ listener' \in {"recv", "write"}
    BY <1>6, Zenon DEF Cache!WriteFails, Cache!Done
  <2> QED
    BY <1>0, <2>1, Zenon DEF ShownBefore
<1>7. CASE ClientStep
  BY <1>0, <1>7, Zenon DEF ClientStep, ShownBefore
<1> QED
  BY <1>0, <1>1, <1>2, <1>3, <1>4, <1>5, <1>6, <1>7, ConnectionSteps, Zenon

\* listenToDecoder and wsHandler: for any set of symbols and clients, and
\* whatever the socket drops, what a client is shown of a symbol never goes back
\* in time and is never ahead of what /api/option-chain answers; and the clients
\* being written to are in the map.
THEOREM ChainsShownInOrder ==
    MaxSent \in Nat /\ Cache!Spec => [](Cache!TypeOK /\ Cache!ShownInOrder)
<1>1. MaxSent \in Nat /\ Cache!Init => CacheInv
  BY CacheInit, Zenon
<1>2. CacheInv /\ [Cache!Next]_(Cache!vars) => CacheInv'
  BY CacheTypesNext, ShownBeforeNext, Zenon DEF CacheInv
<1>3. CacheInv => Cache!TypeOK /\ Cache!ShownInOrder
  <2> SUFFICES ASSUME CacheInv PROVE Cache!TypeOK /\ Cache!ShownInOrder
    BY Zenon
  <2>1. Cache!TypeOK
    BY Zenon DEF CacheInv, CacheTypes, Cache!TypeOK
  <2>2. \A c \in Client : DOMAIN seen[c] = 1..Len(seen[c])
    BY DEF CacheInv, CacheTypes
  <2>3. Cache!ShownInOrder
    BY <2>2, Zenon DEF CacheInv, ShownBefore, Cache!ShownInOrder
  <2> QED
    BY <2>1, <2>3, Zenon
<1> QED
  BY <1>1, <1>2, <1>3, PTL DEF Cache!Spec
=============================================================================
