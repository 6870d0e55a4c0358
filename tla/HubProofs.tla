----------------------------- MODULE HubProofs ------------------------------
(***************************************************************************)
(* Proof that the hub of the snapshot service writes every client the      *)
(* messages it took since the client registered, that no client is shown a *)
(* chain newer than the cached one, and that a request without an expiry   *)
(* is answered with the nearest one, for any number of clients, expiries,  *)
(* chains and updates and any capacity of the channel.                     *)
(***************************************************************************)
EXTENDS SnapshotHub, SequenceTheorems, TLAPS

-----------------------------------------------------------------------------
(* The inductive invariant *)

Chain == [key : Key, number : 1..MaxChains]
Update == [update : 1..MaxPushes]

\* The types, with what TypeOK leaves open: only chains come from the decoder,
\* and the hub has a message in hand exactly as long as it has clients to do.
FeedTypes ==
    /\ socket \in Seq(Chain) /\ feed \in Seq(Chain) /\ Len(feed) <= 1
    /\ versions \in 0..MaxChains /\ chainCache \in [Key -> 0..MaxChains]

ChannelTypes ==
    /\ pushes \in 0..MaxPushes /\ updates \in Seq(Update)
    /\ broadcast \in Seq(Message) /\ Len(broadcast) <= Capacity

ClientTypes ==
    /\ conn \in [Client -> {"new", "joining", "open", "lost", "leaving", "gone"}]
    /\ clients \subseteq Client /\ writing.left \subseteq clients
    /\ writing \in [message : Message \union {<<>>}, left : SUBSET Client]
    /\ IF writing.left = {} THEN writing = Idle ELSE writing.message \in Message

WrittenTypes ==
    /\ inbox \in [Client -> Seq(Message)] /\ \A c \in Client : Len(inbox[c]) <= Buffer
    /\ got \in [Client -> Seq(Message)]
    /\ out \in Seq(Message)
    /\ since \in [Client -> Nat] /\ \A c \in Client : since[c] <= Len(out)

Types == FeedTypes /\ ChannelTypes /\ ClientTypes /\ WrittenTypes

New(c) == conn[c] \in {"new", "joining"}

\* What a client was written are the first messages taken since it registered;
Follows(c) ==
    /\ Len(got[c]) + since[c] <= Len(out)
    /\ \A i \in 1..Len(got[c]) : got[c][i] = out[since[c] + i]

\* all of them, or all but the one that the hub has in hand for it.
UpToDate(c) ==
    IF c \in writing.left
    THEN Len(got[c]) + since[c] + 1 = Len(out) /\ writing.message = out[Len(out)]
    ELSE Len(got[c]) + since[c] = Len(out)

Delivered(c) ==
    /\ New(c) => got[c] = <<>> /\ c \notin clients
    /\ ~New(c) => Follows(c)
    /\ c \in clients => UpToDate(c)

DeliveryInv == \A c \in Client : Delivered(c)

\* A chain that is on its way to the clients is not newer than the cached one.
Behind(m, cache) == m \in Chain => m.number <= cache[m.key]

\* The chains still to be received are newer than all that are cached.
CacheInv ==
    /\ \A k \in Key : chainCache[k] <= versions
    /\ \A i \in 1..Len(socket) :
          /\ socket[i].number <= versions
          /\ \A k \in Key : chainCache[k] < socket[i].number
          /\ \A j \in 1..Len(socket) : i < j => socket[i].number < socket[j].number
    /\ \A i \in 1..Len(feed) : Behind(feed[i], chainCache)
    /\ \A i \in 1..Len(broadcast) : Behind(broadcast[i], chainCache)
    /\ \A i \in 1..Len(out) : Behind(out[i], chainCache)

Date(k) == parseSnapshotExpiryDate(k[2])

\* The nearest upcoming expiry of those visited so far.
RequestInv ==
    request # NoRequest =>
       /\ request \in [symbol : Asked, visited : SUBSET Key, nearest : Key \union {<<>>},
                       atStart : SUBSET Key]
       /\ request.nearest # <<>> => Upcoming(request.nearest)
       /\ \A k \in request.visited :
             Upcoming(k) => request.nearest # <<>> /\ Date(request.nearest) <= Date(k)

HubInv == HubAssumption /\ Types /\ DeliveryInv /\ CacheInv /\ RequestInv

-----------------------------------------------------------------------------
(* Types *)

\* A sequence of messages of one kind is a sequence of messages.
LEMMA Kinds ==
    /\ \A s \in Seq(Chain) : s \in Seq(Message)
    /\ \A s \in Seq(Update) : s \in Seq(Message)
    /\ Chain \subseteq Message /\ Update \subseteq Message
<1>1. Chain \subseteq Message /\ Update \subseteq Message
  BY Zenon DEF Chain, Update, Message
<1> QED
  BY <1>1

LEMMA TypesOK == ASSUME Types PROVE TypeOK
BY Kinds DEF Types, FeedTypes, ChannelTypes, ClientTypes, WrittenTypes, TypeOK

LEMMA FeedTypesNext == ASSUME HubAssumption, Types, [Next]_vars PROVE FeedTypes'
<1>1. CASE DecoderSends
  BY <1>1 DEF HubAssumption, DecoderSends, Types, FeedTypes, Chain
<1>2. CASE ReceiveChain
  <2>1. Head(socket) \in Chain /\ Tail(socket) \in Seq(Chain)
    BY <1>2 DEF ReceiveChain, Types, FeedTypes
  <2>2. <<Head(socket)>> \in Seq(Chain) /\ Len(<<Head(socket)>>) = 1
    BY <2>1
  <2>3. Head(socket).key \in Key /\ Head(socket).number \in 0..MaxChains
    BY <2>1 DEF Chain
  <2> QED
    BY <1>2, <2>1, <2>2, <2>3 DEF ReceiveChain, Types, FeedTypes
<1>3. CASE BroadcastChain
  BY <1>3 DEF BroadcastChain, Types, FeedTypes
<1>4. CASE UNCHANGED feedVars
  BY <1>4, Zenon DEF feedVars, Types, FeedTypes
<1> QED
  BY <1>1, <1>2, <1>3, <1>4, Zenon
     DEF Next, Hub, PushRequest, PushUpdate, Take, AskNearest, Visit, Answer, Connect,
         Disconnect, ReadFails, Consume, Register, Unregister, Write, WriteFails, vars

LEMMA ChannelTypesNext == ASSUME HubAssumption, Types, [Next]_vars PROVE ChannelTypes'
<1>1. CASE PushRequest
  <2>1. PICK n \in 1..(MaxPushes - pushes) :
           /\ updates' = [i \in 1..n |-> [update |-> pushes + i]]
           /\ pushes' = pushes + n
    BY <1>1, Zenon DEF PushRequest
  <2>2. pushes \in 0..MaxPushes /\ n \in Nat
    BY <2>1 DEF HubAssumption, Types, ChannelTypes
  <2>3. \A i \in 1..n : pushes + i \in 1..MaxPushes
    BY <2>1, <2>2 DEF HubAssumption
  <2>4. updates' \in [1..n -> Update]
    BY <2>1, <2>3, Zenon DEF Update
  <2>5. updates' \in Seq(Update)
    BY <2>2, <2>4, SeqDef, Zenon
  <2>6. pushes' \in 0..MaxPushes
    BY <2>1, <2>2 DEF HubAssumption
  <2> QED
    BY <1>1, <2>5, <2>6, Zenon DEF PushRequest, Types, ChannelTypes
<1>2. CASE PushUpdate
  <2>1. Head(updates) \in Message /\ Tail(updates) \in Seq(Update)
    BY <1>2, Kinds DEF PushUpdate, Types, ChannelTypes
  <2> QED
    BY <1>2, <2>1 DEF PushUpdate, Types, ChannelTypes, HubAssumption
<1>3. CASE BroadcastChain
  <2>1. Head(feed) \in Message
    BY <1>3, Kinds DEF BroadcastChain, Types, FeedTypes
  <2> QED
    BY <1>3, <2>1 DEF BroadcastChain, Types, ChannelTypes, HubAssumption, pushVars
<1>4. CASE Take
  BY <1>4 DEF Take, Types, ChannelTypes, HubAssumption, pushVars
<1>5. CASE UNCHANGED <<pushVars, broadcast>>
  BY <1>5, Zenon DEF pushVars, Types, ChannelTypes
<1> QED
  BY <1>1, <1>2, <1>3, <1>4, <1>5, Zenon
     DEF Next, Hub, DecoderSends, ReceiveChain, AskNearest, Visit, Answer, Connect,
         Disconnect, ReadFails, Consume, Register, Unregister, Write, WriteFails, vars

\* When a client is done the hub keeps the message for the others.
LEMMA WrittenEffect ==
    ASSUME Types, NEW c \in writing.left, writing' = Written(c)
    PROVE  /\ writing' \in [message : Message \union {<<>>}, left : SUBSET Client]
           /\ writing'.left = writing.left \ {c} /\ c \in Client
           /\ IF writing'.left = {} THEN writing' = Idle
              ELSE writing'.message = writing.message /\ writing.message \in Message
<1>1. /\ writing \in [message : Message \union {<<>>}, left : SUBSET Client]
      /\ writing.message \in Message
  BY Zenon DEF Types, ClientTypes
<1>2. CASE writing.left = {c}
  BY <1>1, <1>2, Zenon DEF Written, Idle
<1>3. CASE writing.left # {c}
  BY <1>1, <1>3, Zenon DEF Written
<1> QED
  BY <1>2, <1>3, Zenon

LEMMA ClientTypesNext == ASSUME Types, [Next]_vars PROVE ClientTypes'
<1> USE DEF Types, ClientTypes
<1>1. ASSUME NEW c \in Client, NEW s \in {"joining", "open", "lost", "leaving", "gone"},
             Set(c, s)
      PROVE  conn' \in [Client -> {"new", "joining", "open", "lost", "leaving", "gone"}]
  BY <1>1, Zenon DEF Set
<1>2. ASSUME NEW c \in Client, Connect(c) \/ Disconnect(c) \/ ReadFails(c)
      PROVE  ClientTypes'
  BY <1>1, <1>2, Zenon DEF Connect, Disconnect, ReadFails
<1>3. ASSUME NEW c \in Client, Register(c) PROVE ClientTypes'
  BY <1>1, <1>3, Zenon DEF Register
<1>4. ASSUME NEW c \in Client, Unregister(c) PROVE ClientTypes'
  <2>1. writing.left = {}
    BY <1>4, Zenon DEF Unregister, Idle
  <2> QED
    BY <1>1, <1>4, <2>1, Zenon DEF Unregister
<1>5. ASSUME NEW c \in Client, Write(c) PROVE ClientTypes'
  <2>1. conn' = conn /\ clients' = clients /\ c \in writing.left /\ writing' = Written(c)
    BY <1>5, Zenon DEF Write
  <2> QED
    BY <2>1, WrittenEffect, Zenon
<1>6. ASSUME NEW c \in Client, WriteFails(c) PROVE ClientTypes'
  <2>1. conn' = conn /\ clients' = clients \ {c} /\ c \in writing.left /\ writing' = Written(c)
    BY <1>6, Zenon DEF WriteFails
  <2> QED
    BY <2>1, WrittenEffect, Zenon
<1>7. CASE Take
  <2>1. Head(broadcast) \in Message
    BY <1>7 DEF Take, ChannelTypes
  <2>2. CASE clients = {}
    BY <1>7, <2>2, Zenon DEF Take, Idle
  <2>3. CASE clients # {}
    BY <1>7, <2>1, <2>3, Zenon DEF Take
  <2> QED
    BY <2>2, <2>3, Zenon
<1>8. CASE UNCHANGED <<conn, clients, writing>>
  BY <1>8, Zenon
<1> QED
  BY <1>2, <1>3, <1>4, <1>5, <1>6, <1>7, <1>8, Zenon
     DEF Next, Hub, DecoderSends, ReceiveChain, BroadcastChain, PushRequest, PushUpdate,
         AskNearest, Visit, Answer, Consume, vars, hubVars

LEMMA WrittenTypesNext == ASSUME HubAssumption, Types, [Next]_vars PROVE WrittenTypes'
<1> USE DEF Types, WrittenTypes
<1>1. ASSUME NEW c \in Client, Consume(c) PROVE WrittenTypes'
  BY <1>1 DEF Consume, HubAssumption
<1>2. ASSUME NEW c \in Client, Register(c) PROVE WrittenTypes'
  BY <1>2 DEF Register
<1>3. ASSUME NEW c \in Client, Write(c) PROVE WrittenTypes'
  <2>1. writing.message \in Message
    BY <1>3, Zenon DEF Write, ClientTypes
  <2> QED
    BY <1>3, <2>1 DEF Write, HubAssumption
<1>4. CASE Take
  <2>1. Head(broadcast) \in Message
    BY <1>4 DEF Take, ChannelTypes
  <2> QED
    BY <1>4, <2>1 DEF Take
<1>5. CASE UNCHANGED <<inbox, got, since, out>>
  BY <1>5, Zenon
<1> QED
  BY <1>1, <1>2, <1>3, <1>4, <1>5, Zenon
     DEF Next, Hub, DecoderSends, ReceiveChain, BroadcastChain, PushRequest, PushUpdate,
         AskNearest, Visit, Answer, Connect, Disconnect, ReadFails, Unregister,
         WriteFails, vars, hubVars

LEMMA TypesNext == HubAssumption /\ Types /\ [Next]_vars => Types'
BY FeedTypesNext, ChannelTypesNext, ClientTypesNext, WrittenTypesNext, Zenon DEF Types

-----------------------------------------------------------------------------
(* Delivery *)

\* A step that a client's part of the invariant does not notice.
Unnoticed(c) ==
    /\ out' = out /\ got'[c] = got[c] /\ since'[c] = since[c]
    /\ New(c)' <=> New(c)
    /\ (c \in clients') => (c \in clients)
    /\ (c \in writing'.left) <=> (c \in writing.left)
    /\ c \in writing'.left => writing'.message = writing.message

LEMMA UnnoticedStep ==
    ASSUME NEW c \in Client, Delivered(c), Unnoticed(c) PROVE Delivered(c)'
BY Zenon DEF Delivered, Unnoticed, Follows, UpToDate, New

\* A change of a connection is noticed by nobody else, nor by its own client
\* once it is registered.
LEMMA SetStep ==
    ASSUME Types, DeliveryInv, NEW c \in Client, NEW d \in Client,
           Connect(d) \/ Disconnect(d) \/ ReadFails(d)
    PROVE  Delivered(c)'
<1>1. Unnoticed(c)
  BY Zenon DEF Connect, Disconnect, ReadFails, Set, Unnoticed, New, Types, ClientTypes
<1> QED
  BY <1>1, UnnoticedStep, Zenon DEF DeliveryInv

LEMMA HubStep ==
    ASSUME Types, DeliveryInv, NEW c \in Client, NEW d \in Client, Hub(d)
    PROVE  Delivered(c)'
<1> Types /\ Delivered(c) /\ Delivered(d)
  BY Zenon DEF DeliveryInv
<1>1. CASE Register(d)
  <2>1. CASE c = d
    <3>1. /\ got[c] = <<>> /\ writing = Idle /\ writing' = writing /\ out' = out
          /\ got' = got /\ since'[c] = Len(out) /\ conn'[c] = "open"
      BY <1>1, <2>1, Zenon DEF Register, Set, Delivered, New, Types, ClientTypes, WrittenTypes
    <3> QED
      BY <3>1 DEF Delivered, New, Follows, UpToDate, Idle, Types, WrittenTypes
  <2>2. CASE c # d
    <3>1. Unnoticed(c)
      BY <1>1, <2>2, Zenon DEF Register, Set, Unnoticed, New, Types, ClientTypes, WrittenTypes
    <3> QED
      BY <3>1, UnnoticedStep, Zenon
  <2> QED
    BY <2>1, <2>2, Zenon
<1>2. CASE Unregister(d)
  <2>1. Unnoticed(c)
    BY <1>2, Zenon DEF Unregister, Set, Unnoticed, New, Types, ClientTypes
  <2> QED
    BY <2>1, UnnoticedStep, Zenon
<1>3. CASE Write(d)
  <2>1. /\ d \in writing.left /\ writing' = Written(d) /\ d \in clients /\ ~New(d)
        /\ got' = [got EXCEPT ![d] = Append(@, writing.message)]
        /\ UNCHANGED <<conn, clients, since, out>>
    BY <1>3, Zenon DEF Write, Types, ClientTypes, New
  <2>2. writing'.left = writing.left \ {d} /\ writing.message \in Message
    BY <2>1, WrittenEffect, Zenon DEF Types, ClientTypes
  <2>3. CASE c = d
    <3>1. /\ Follows(c) /\ Len(got[c]) + since[c] + 1 = Len(out)
          /\ writing.message = out[Len(out)]
      BY <2>1, <2>3, Zenon DEF Delivered, UpToDate
    <3>2. /\ got[c] \in Seq(Message) /\ since[c] \in Nat /\ out \in Seq(Message)
          /\ got'[c] = Append(got[c], writing.message)
      BY <2>1, <2>3, Zenon DEF Types, WrittenTypes
    <3>3. /\ Len(got'[c]) + since[c] = Len(out)
          /\ \A i \in 1..Len(got'[c]) : got'[c][i] = out[since[c] + i]
      <4>1. /\ Len(got'[c]) = Len(got[c]) + 1
            /\ \A i \in 1..Len(got[c]) : got'[c][i] = got[c][i]
            /\ got'[c][Len(got[c]) + 1] = writing.message
        BY <2>2, <3>2
      <4>2. Len(got[c]) \in Nat /\ Len(out) \in Nat /\ since[c] \in Nat
        BY <3>2
      <4>3. \A i \in 1..Len(got[c]) : got[c][i] = out[since[c] + i]
        BY <3>1, Zenon DEF Follows
      <4>4. out[since[c] + (Len(got[c]) + 1)] = out[Len(out)]
        BY <3>1, <4>2
      <4>5. \A i \in 1..(Len(got[c]) + 1) : i \in 1..Len(got[c]) \/ i = Len(got[c]) + 1
        BY <4>2
      <4>6. Len(got'[c]) + since[c] = Len(out)
        BY <3>1, <4>1, <4>2
      <4> QED
        BY <3>1, <4>1, <4>3, <4>4, <4>5, <4>6, Zenon
    <3>4. ~New(c)' /\ c \notin writing'.left
      BY <2>1, <2>2, <2>3, Zenon DEF New
    <3> QED
      BY <2>1, <3>2, <3>3, <3>4 DEF Delivered, Follows, UpToDate
  <2>4. CASE c # d
    <3>1. Unnoticed(c)
      BY <2>1, <2>2, <2>4, WrittenEffect, Zenon DEF Unnoticed, New, Types, WrittenTypes
    <3> QED
      BY <3>1, UnnoticedStep, Zenon
  <2> QED
    BY <2>3, <2>4, Zenon
<1>4. CASE WriteFails(d)
  <2>1. /\ d \in writing.left /\ writing' = Written(d) /\ clients' = clients \ {d}
        /\ UNCHANGED <<conn, got, since, out>>
    BY <1>4, Zenon DEF WriteFails
  <2>2. /\ writing'.left = writing.left \ {d}
        /\ writing'.left # {} => writing'.message = writing.message
    BY <2>1, WrittenEffect, Zenon
  <2>3. CASE c = d
    BY <2>1, <2>3, Zenon DEF Delivered, New, Follows
  <2>4. CASE c # d
    <3>1. Unnoticed(c)
      BY <2>1, <2>2, <2>4, Zenon DEF Unnoticed, New
    <3> QED
      BY <3>1, UnnoticedStep, Zenon
  <2> QED
    BY <2>3, <2>4, Zenon
<1> QED
  BY <1>1, <1>2, <1>3, <1>4, Zenon DEF Hub

LEMMA TakeStep ==
    ASSUME Types, DeliveryInv, NEW c \in Client, Take
    PROVE  Delivered(c)'
<1> DEFINE m == Head(broadcast)
<1>1. /\ m \in Message /\ out \in Seq(Message) /\ out' = Append(out, m)
      /\ UNCHANGED <<conn, clients, got, since>>
      /\ writing.left = {} /\ got[c] \in Seq(Message) /\ since[c] \in Nat
  BY DEF Take, Idle, Types, ChannelTypes, WrittenTypes
<1>2. /\ New(c) => got[c] = <<>> /\ c \notin clients
      /\ ~New(c) => Follows(c)
      /\ c \in clients => UpToDate(c)
  BY Zenon DEF DeliveryInv, Delivered
<1>3. Follows(c) => Follows(c)'
  BY <1>1 DEF Follows
<1>4. ASSUME c \in clients PROVE UpToDate(c)'
  <2>1. writing' = [message |-> m, left |-> clients]
    BY <1>4, Zenon DEF Take
  <2>2. Len(got[c]) + since[c] = Len(out)
    BY <1>1, <1>2, <1>4, Zenon DEF UpToDate
  <2> QED
    BY <1>1, <1>4, <2>1, <2>2 DEF UpToDate
<1> QED
  BY <1>1, <1>2, <1>3, <1>4, Zenon DEF Delivered, New

LEMMA DeliveryNext == Types /\ DeliveryInv /\ [Next]_vars => DeliveryInv'
<1> SUFFICES ASSUME Types, DeliveryInv, [Next]_vars, NEW c \in Client
             PROVE  Delivered(c)'
  BY Zenon DEF DeliveryInv
<1>1. ASSUME NEW d \in Client, Connect(d) \/ Disconnect(d) \/ ReadFails(d) \/ Hub(d)
      PROVE  Delivered(c)'
  BY <1>1, SetStep, HubStep, Zenon
<1>2. CASE Take
  BY <1>2, TakeStep, Zenon
<1>3. CASE UNCHANGED <<conn, clients, writing, got, since, out>>
  <2>1. Unnoticed(c)
    BY <1>3, Zenon DEF Unnoticed, New
  <2> QED
    BY <2>1, UnnoticedStep, Zenon DEF DeliveryInv
<1> QED
  BY <1>1, <1>2, <1>3, Zenon
     DEF Next, DecoderSends, ReceiveChain, BroadcastChain, PushRequest, PushUpdate,
         AskNearest, Visit, Answer, Consume, vars, hubVars

-----------------------------------------------------------------------------
(* The cache *)

\* A message that was not newer than the cached chain stays so, for the entry
\* is only replaced by a newer one.
LEMMA CacheGrows ==
    ASSUME Types, CacheInv, [Next]_vars
    PROVE  \A k \in Key : chainCache[k] \in Nat /\ chainCache'[k] \in Nat
                          /\ chainCache[k] <= chainCache'[k]
<1>1. CASE ReceiveChain
  <2>1. /\ Head(socket) \in Chain /\ Head(socket) = socket[1] /\ 1 \in 1..Len(socket)
    BY <1>1 DEF ReceiveChain, Types, FeedTypes
  <2>2. /\ Head(socket).key \in Key /\ Head(socket).number \in Nat
        /\ \A k \in Key : chainCache[k] < Head(socket).number
    BY <2>1 DEF CacheInv, Chain
  <2> QED
    BY <1>1, <2>2 DEF ReceiveChain, Types, FeedTypes
<1>2. CASE chainCache' = chainCache
  BY <1>2 DEF Types, FeedTypes
<1> QED
  BY <1>1, <1>2, Zenon
     DEF Next, Hub, DecoderSends, BroadcastChain, PushRequest, PushUpdate, Take, AskNearest,
         Visit, Answer, Connect, Disconnect, ReadFails, Consume, Register, Unregister,
         Write, WriteFails, vars, feedVars

LEMMA BehindStep ==
    ASSUME Types, CacheInv, [Next]_vars, NEW m, Behind(m, chainCache)
    PROVE  Behind(m, chainCache')
<1>1. m \in Chain => m.key \in Key /\ m.number \in Nat
  BY DEF Chain
<1> QED
  BY <1>1, CacheGrows DEF Behind

\* What is still to be received.
Incoming ==
    /\ \A k \in Key : chainCache[k] <= versions
    /\ \A i \in 1..Len(socket) :
          /\ socket[i].number <= versions
          /\ \A k \in Key : chainCache[k] < socket[i].number
          /\ \A j \in 1..Len(socket) : i < j => socket[i].number < socket[j].number

LEMMA IncomingNext ==
    ASSUME HubAssumption, Types, Incoming, [Next]_vars
    PROVE  Incoming'
<1> /\ socket \in Seq(Chain) /\ versions \in Nat /\ chainCache \in [Key -> 0..MaxChains]
    /\ \A i \in 1..Len(socket) : socket[i] \in Chain
  BY DEF Types, FeedTypes, HubAssumption
<1>0. \A i \in 1..Len(socket) : socket[i].number \in Nat /\ socket[i].key \in Key
  BY DEF Chain
<1>1. CASE DecoderSends
  <2>1. PICK k \in Key : socket' = Append(socket, [key |-> k, number |-> versions + 1])
    BY <1>1, Zenon DEF DecoderSends
  <2> DEFINE m == [key |-> k, number |-> versions + 1]
  <2>2. m \in Chain /\ m.number = versions + 1
    BY <1>1 DEF DecoderSends, Chain, HubAssumption
  <2> HIDE DEF m
  <2>3. versions' = versions + 1 /\ chainCache' = chainCache
    BY <1>1, Zenon DEF DecoderSends
  <2>4. /\ Len(socket') = Len(socket) + 1 /\ socket'[Len(socket) + 1] = m
        /\ \A i \in 1..Len(socket) : socket'[i] = socket[i]
    BY <2>1, <2>2 DEF m
  <2>5. \A k1 \in Key : chainCache[k1] \in Nat
    BY DEF HubAssumption
  <2>6. \A i \in 1..Len(socket') : i \in 1..Len(socket) \/ i = Len(socket) + 1
    BY <2>4
  <2>7. \A k1 \in Key : chainCache[k1] <= versions
    BY Zenon DEF Incoming
  <2>8. ASSUME NEW i \in 1..Len(socket')
        PROVE  /\ socket'[i].number <= versions + 1
               /\ \A k1 \in Key : chainCache[k1] < socket'[i].number
    <3>1. CASE i \in 1..Len(socket)
      BY <1>0, <2>4, <2>5, <3>1 DEF Incoming
    <3>2. CASE i = Len(socket) + 1
      BY <2>2, <2>4, <2>5, <2>7, <3>2
    <3> QED
      BY <2>6, <3>1, <3>2, Zenon
  <2>9. ASSUME NEW i \in 1..Len(socket'), NEW j \in 1..Len(socket'), i < j
        PROVE  socket'[i].number < socket'[j].number
    <3>1. i \in 1..Len(socket)
      BY <2>4, <2>9
    <3>2. CASE j \in 1..Len(socket)
      BY <2>4, <2>9, <3>1, <3>2, Zenon DEF Incoming
    <3>3. CASE j = Len(socket) + 1
      BY <1>0, <2>2, <2>4, <3>1, <3>3 DEF Incoming
    <3> QED
      BY <2>6, <3>2, <3>3, Zenon
  <2>10. \A k1 \in Key : chainCache[k1] <= versions + 1
    BY <2>5, <2>7
  <2> QED
    BY <2>3, <2>8, <2>9, <2>10, Zenon DEF Incoming
<1>2. CASE ReceiveChain
  <2>1. /\ socket # <<>> /\ socket' = Tail(socket) /\ versions' = versions
        /\ chainCache' = [chainCache EXCEPT ![Head(socket).key] = Head(socket).number]
    BY <1>2, Zenon DEF ReceiveChain
  <2>2. /\ Len(socket') = Len(socket) - 1 /\ Head(socket) = socket[1] /\ 1 \in 1..Len(socket)
        /\ \A i \in 1..Len(socket') : socket'[i] = socket[i + 1] /\ i + 1 \in 1..Len(socket)
    BY <2>1
  <2>3. \A k \in Key : chainCache'[k] = chainCache[k] \/ chainCache'[k] = socket[1].number
    BY <2>1, <2>2, Zenon
  <2> QED
    BY <1>0, <2>1, <2>2, <2>3 DEF Incoming
<1>3. CASE socket' = socket /\ versions' = versions /\ chainCache' = chainCache
  BY <1>3, Zenon DEF Incoming
<1> QED
  BY <1>1, <1>2, <1>3, Zenon
     DEF Next, Hub, BroadcastChain, PushRequest, PushUpdate, Take, AskNearest,
         Visit, Answer, Connect, Disconnect, ReadFails, Consume, Register, Unregister,
         Write, WriteFails, vars, feedVars

\* What is on its way: a chain is cached as it is received, before it goes to
\* the channel.
LEMMA CacheNext == HubAssumption /\ Types /\ CacheInv /\ [Next]_vars => CacheInv'
<1> SUFFICES ASSUME HubAssumption, Types, CacheInv, [Next]_vars PROVE CacheInv'
  BY Zenon
<1>1. Incoming'
  BY IncomingNext, Zenon DEF CacheInv, Incoming
<1>2. \A i \in 1..Len(feed') : Behind(feed'[i], chainCache')
  <2>1. CASE ReceiveChain
    <3>1. feed' = <<Head(socket)>> /\ Head(socket) \in Chain
      BY <2>1 DEF ReceiveChain, Types, FeedTypes
    <3>2. chainCache'[Head(socket).key] = Head(socket).number /\ Head(socket).number \in Nat
      BY <2>1, <3>1 DEF ReceiveChain, Types, FeedTypes, Chain
    <3> QED
      BY <3>1, <3>2 DEF Behind
  <2>2. CASE BroadcastChain
    BY <2>2 DEF BroadcastChain
  <2>3. CASE feed' = feed
    BY <2>3, BehindStep, Zenon DEF CacheInv
  <2> QED
    BY <2>1, <2>2, <2>3, Zenon
       DEF Next, Hub, DecoderSends, PushRequest, PushUpdate, Take, AskNearest,
           Visit, Answer, Connect, Disconnect, ReadFails, Consume, Register, Unregister,
           Write, WriteFails, vars, feedVars
<1>3. \A i \in 1..Len(broadcast') : Behind(broadcast'[i], chainCache')
  <2>1. ASSUME NEW m, Behind(m, chainCache), m \in Message, broadcast' = Append(broadcast, m)
        PROVE  \A i \in 1..Len(broadcast') : Behind(broadcast'[i], chainCache')
    <3>1. \A i \in 1..Len(broadcast') : broadcast'[i] = m \/
             (i \in 1..Len(broadcast) /\ broadcast'[i] = broadcast[i])
      BY <2>1 DEF Types, ChannelTypes
    <3> QED
      BY <2>1, <3>1, BehindStep, Zenon DEF CacheInv
  <2>2. CASE BroadcastChain
    <3>1. Head(feed) = feed[1] /\ 1 \in 1..Len(feed) /\ Head(feed) \in Chain
      BY <2>2 DEF BroadcastChain, Types, FeedTypes
    <3> QED
      BY <2>1, <2>2, <3>1, Kinds, Zenon DEF BroadcastChain, CacheInv
  <2>3. CASE PushUpdate
    <3>1. Head(updates) \in Update
      BY <2>3 DEF PushUpdate, Types, ChannelTypes
    <3>2. Behind(Head(updates), chainCache)
      BY <3>1, Zenon DEF Behind, Chain, Update
    <3> QED
      BY <2>1, <2>3, <3>1, <3>2, Kinds, Zenon DEF PushUpdate
  <2>4. CASE Take
    <3>1. \A i \in 1..Len(broadcast') :
             i + 1 \in 1..Len(broadcast) /\ broadcast'[i] = broadcast[i + 1]
      BY <2>4 DEF Take, Types, ChannelTypes
    <3> QED
      BY <3>1, BehindStep, Zenon DEF CacheInv
  <2>5. CASE broadcast' = broadcast
    BY <2>5, BehindStep, Zenon DEF CacheInv
  <2> QED
    BY <2>2, <2>3, <2>4, <2>5, Zenon
       DEF Next, Hub, DecoderSends, ReceiveChain, PushRequest, AskNearest,
           Visit, Answer, Connect, Disconnect, ReadFails, Consume, Register, Unregister,
           Write, WriteFails, vars
<1>4. \A i \in 1..Len(out') : Behind(out'[i], chainCache')
  <2>1. CASE Take
    <3>1. Head(broadcast) = broadcast[1] /\ 1 \in 1..Len(broadcast) /\ Head(broadcast) \in Message
      BY <2>1 DEF Take, Types, ChannelTypes
    <3>2. \A i \in 1..Len(out') : out'[i] = Head(broadcast) \/
             (i \in 1..Len(out) /\ out'[i] = out[i])
      BY <2>1, <3>1 DEF Take, Types, WrittenTypes
    <3> QED
      BY <3>1, <3>2, BehindStep, Zenon DEF CacheInv
  <2>2. CASE out' = out
    BY <2>2, BehindStep, Zenon DEF CacheInv
  <2> QED
    BY <2>1, <2>2, Zenon
       DEF Next, Hub, DecoderSends, ReceiveChain, BroadcastChain, PushRequest, PushUpdate,
           AskNearest, Visit, Answer, Connect, Disconnect, ReadFails, Consume, Register,
           Unregister, Write, WriteFails, vars, hubVars
<1> QED
  BY <1>1, <1>2, <1>3, <1>4, Zenon DEF CacheInv, Incoming

-----------------------------------------------------------------------------
(* The request for the nearest expiry *)

LEMMA DateType == ASSUME HubAssumption, NEW k \in Key PROVE Date(k) \in Int
<1> DEFINE e == k[2]
           y == IF e.year < 100 THEN e.year + 2000 ELSE e.year
<1>1. y \in Nat /\ e.mon \in Nat /\ e.day \in Nat
  BY DEF HubAssumption
<1> HIDE DEF y
<1>2. y * 10000 + e.mon * 100 + e.day \in Int
  BY <1>1
<1>3. Date(k) = y * 10000 + e.mon * 100 + e.day \/ Date(k) = 0
  BY DEF Date, parseSnapshotExpiryDate, NoDate, y
<1> QED
  BY <1>2, <1>3

LEMMA RequestNext == HubAssumption /\ RequestInv /\ [Next]_vars => RequestInv'
<1> SUFFICES ASSUME HubAssumption, RequestInv, [Next]_vars PROVE RequestInv'
  BY Zenon
<1>1. CASE AskNearest
  <2>1. PICK s \in Asked :
           request' = [symbol |-> s, visited |-> {}, nearest |-> <<>>,
                       atStart |-> {k \in Cached : k[1] = s}]
    BY <1>1, Zenon DEF AskNearest
  <2> QED
    BY <2>1, Zenon DEF RequestInv, Cached
<1>2. CASE Visit
  <2>1. PICK k \in Key : request' = [request EXCEPT !.visited = @ \union {k},
                                                    !.nearest = Nearer(k, @)]
    BY <1>2, Zenon DEF Visit, Cached
  <2> DEFINE r == request
             n == Nearer(k, r.nearest)
  <2>2. /\ r \in [symbol : Asked, visited : SUBSET Key, nearest : Key \union {<<>>},
                  atStart : SUBSET Key]
        /\ r.nearest # <<>> => Upcoming(r.nearest)
        /\ \A l \in r.visited :
              Upcoming(l) => r.nearest # <<>> /\ Date(r.nearest) <= Date(l)
    BY <1>2, Zenon DEF Visit, RequestInv
  <2>3. /\ k # <<>> /\ Date(k) \in Int /\ (r.nearest # <<>> => Date(r.nearest) \in Int)
        /\ \A l \in r.visited : Date(l) \in Int
    BY <2>2, DateType, Zenon DEF HubAssumption
  <2>4. /\ n \in Key \union {<<>>} /\ (n # <<>> => Upcoming(n))
        /\ r.nearest # <<>> => n # <<>> /\ Date(n) <= Date(r.nearest)
        /\ Upcoming(k) => n # <<>> /\ Date(n) <= Date(k)
        /\ n # <<>> => Date(n) \in Int
    BY <2>2, <2>3 DEF Nearer, Earlier, Date
  <2> HIDE DEF n
  <2>5. \A l \in r.visited \union {k} : Upcoming(l) => n # <<>> /\ Date(n) <= Date(l)
    BY <2>2, <2>3, <2>4
  <2>6. request' = [r EXCEPT !.visited = @ \union {k}, !.nearest = n]
    BY <2>1, Zenon DEF n
  <2>7. /\ request' \in [symbol : Asked, visited : SUBSET Key, nearest : Key \union {<<>>},
                         atStart : SUBSET Key]
        /\ request'.nearest = n /\ request'.visited = r.visited \union {k}
    BY <2>2, <2>4, <2>6, Zenon
  <2> QED
    BY <2>4, <2>5, <2>7, Zenon DEF RequestInv, Upcoming, Date
<1>3. CASE Answer
  BY <1>3, Zenon DEF Answer, RequestInv
<1>4. CASE request' = request
  BY <1>4, Zenon DEF RequestInv, Upcoming, Date
<1> QED
  BY <1>1, <1>2, <1>3, <1>4, Zenon
     DEF Next, Hub, DecoderSends, ReceiveChain, BroadcastChain, PushRequest, PushUpdate,
         Take, Connect, Disconnect, ReadFails, Consume, Register, Unregister, Write,
         WriteFails, vars

-----------------------------------------------------------------------------
(* The theorems *)

LEMMA HubInit == HubAssumption /\ Init => HubInv
<1> SUFFICES ASSUME HubAssumption, Init PROVE HubInv
  BY Zenon
<1>1. Types
  BY DEF Init, HubAssumption, Types, FeedTypes, ChannelTypes, ClientTypes, WrittenTypes, Idle
<1>2. DeliveryInv
  BY Zenon DEF Init, DeliveryInv, Delivered, New
<1>3. CacheInv
  BY DEF Init, CacheInv
<1>4. RequestInv
  BY Zenon DEF Init, RequestInv
<1> QED
  BY <1>1, <1>2, <1>3, <1>4, Zenon DEF HubInv

LEMMA HubNext == HubInv /\ [Next]_vars => HubInv'
<1>1. HubAssumption => HubAssumption'
  BY Zenon DEF HubAssumption
<1> QED
  BY <1>1, TypesNext, DeliveryNext, CacheNext, RequestNext, Zenon DEF HubInv

\* The positions spelled out by the invariant are the sequences the property
\* speaks of.
LEMMA Contiguous == ASSUME Types, DeliveryInv PROVE ContiguousDelivery
<1> SUFFICES ASSUME NEW c \in Client
             PROVE  /\ c \in clients =>
                         Since(c) = got[c] \o (IF c \in writing.left
                                               THEN <<writing.message>> ELSE <<>>)
                    /\ ~New(c) => IsPrefix(got[c], Since(c))
  BY Zenon DEF ContiguousDelivery, New
<1> DEFINE g == got[c]
           s == Since(c)
           w == IF c \in writing.left THEN <<writing.message>> ELSE <<>>
<1>1. /\ Delivered(c) /\ g \in Seq(Message) /\ out \in Seq(Message)
      /\ since[c] \in Nat /\ since[c] <= Len(out)
  BY Zenon DEF DeliveryInv, Types, WrittenTypes
<1>2. /\ s \in Seq(Message) /\ Len(s) = Len(out) - since[c]
      /\ \A i \in 1..Len(s) : s[i] = out[since[c] + i]
  <2>1. \A i \in (since[c] + 1)..Len(out) : out[i] \in Message
    BY <1>1
  <2> DEFINE a == since[c] + 1
             b == Len(out)
  <2>2. a \in Int /\ b \in Int /\ s = SubSeq(out, a, b)
    BY <1>1 DEF Since
  <2> HIDE DEF a, b, s
  <2>3. /\ s \in Seq(Message) /\ Len(s) = IF a <= b THEN b - a + 1 ELSE 0
        /\ \A i \in 1..(b - a + 1) : s[i] = out[a + i - 1]
    BY <2>1, <2>2, SubSeqProperties DEF a, b
  <2>4. Len(s) = Len(out) - since[c] /\ Len(s) = b - a + 1
    BY <1>1, <2>3 DEF a, b
  <2>5. \A i \in 1..Len(s) : a + i - 1 = since[c] + i
    BY <1>1, <2>4 DEF a
  <2> QED
    BY <2>3, <2>4, <2>5, Zenon
<1> HIDE DEF s
<1>3. ASSUME ~New(c) PROVE IsPrefix(g, s)
  <2>1. Len(g) <= Len(s) /\ \A i \in 1..Len(g) : g[i] = s[i] /\ g[i] \in Message
    BY <1>1, <1>2, <1>3 DEF Delivered, Follows
  <2>2. /\ SubSeq(g, 1, Len(g)) \in Seq(Message) /\ Len(SubSeq(g, 1, Len(g))) = Len(g)
        /\ \A i \in 1..Len(g) : SubSeq(g, 1, Len(g))[i] = g[i]
    BY <1>1, <2>1, SubSeqProperties
  <2>3. /\ SubSeq(s, 1, Len(g)) \in Seq(Message) /\ Len(SubSeq(s, 1, Len(g))) = Len(g)
        /\ \A i \in 1..Len(g) : SubSeq(s, 1, Len(g))[i] = s[i]
    BY <1>1, <1>2, <2>1, SubSeqProperties
  <2>4. SubSeq(g, 1, Len(g)) = SubSeq(s, 1, Len(g))
    BY <2>1, <2>2, <2>3, SeqEqual, Zenon
  <2> QED
    BY <2>1, <2>4, Zenon DEF IsPrefix
<1>4. ASSUME c \in clients PROVE s = g \o w
  <2>0. Follows(c) /\ UpToDate(c)
    BY <1>1, <1>4, Zenon DEF Delivered
  <2>1. CASE c \in writing.left
    <3>1. writing.message \in Message
      BY <2>1, Zenon DEF Types, ClientTypes
    <3>2. /\ g \o w \in Seq(Message) /\ Len(g \o w) = Len(g) + 1
          /\ \A i \in 1..Len(g) : (g \o w)[i] = g[i]
          /\ (g \o w)[Len(g) + 1] = writing.message
      <4>1. g \o w = Append(g, writing.message)
        BY <1>1, <2>1, <3>1, AppendIsConcat, Zenon
      <4> HIDE DEF g, w
      <4> QED
        BY <1>1, <3>1, <4>1, AppendProperties
    <3>3. Len(s) = Len(g) + 1
      BY <1>1, <1>2, <2>0, <2>1 DEF UpToDate
    <3>4. \A i \in 1..Len(s) : s[i] = (g \o w)[i]
      <4>1. ASSUME NEW i \in 1..Len(g) PROVE s[i] = (g \o w)[i]
        <5>1. g[i] = out[since[c] + i]
          BY <2>0, Zenon DEF Follows
        <5>2. i \in 1..Len(s)
          BY <1>1, <3>3
        <5> QED
          BY <1>2, <3>2, <5>1, <5>2, Zenon
      <4>2. s[Len(g) + 1] = (g \o w)[Len(g) + 1]
        <5>1. Len(g) + 1 \in 1..Len(s) /\ since[c] + (Len(g) + 1) = Len(out)
          BY <1>1, <1>2, <3>3
        <5>2. writing.message = out[Len(out)]
          BY <2>0, <2>1, Zenon DEF UpToDate
        <5> QED
          BY <1>2, <3>2, <5>1, <5>2, Zenon
      <4> QED
        <5>1. \A i \in 1..Len(s) : i \in 1..Len(g) \/ i = Len(g) + 1
          BY <1>1, <3>3
        <5> QED
          BY <4>1, <4>2, <5>1, Zenon
    <3> QED
      BY <1>2, <3>2, <3>3, <3>4, SeqEqual, Zenon
  <2>2. CASE c \notin writing.left
    <3>1. w = <<>> /\ g \o w = g
      BY <1>1, <2>2
    <3>2. Len(s) = Len(g) /\ \A i \in 1..Len(s) : s[i] = g[i]
      BY <1>1, <1>2, <2>0, <2>2 DEF UpToDate, Follows
    <3> QED
      BY <1>1, <1>2, <3>1, <3>2, SeqEqual, Zenon
  <2> QED
    BY <2>1, <2>2, Zenon
<1> QED
  BY <1>3, <1>4, Zenon DEF s

\* What a client was shown was taken by the hub before.
LEMMA NotBehind == ASSUME Types, DeliveryInv, CacheInv PROVE CacheNotBehind
<1> SUFFICES ASSUME NEW c \in Client, NEW m \in Range(got[c]), "key" \in DOMAIN m
             PROVE  m.number <= chainCache[m.key]
  BY Zenon DEF CacheNotBehind
<1>1. got[c] \in Seq(Message) /\ out \in Seq(Message) /\ since[c] \in Nat /\ Delivered(c)
  BY Zenon DEF Types, WrittenTypes, DeliveryInv
<1>2. PICK i \in 1..Len(got[c]) : m = got[c][i]
  BY <1>1 DEF Range
<1>3. Follows(c)
  BY <1>1, <1>2 DEF Delivered
<1>4. m = out[since[c] + i] /\ since[c] + i \in 1..Len(out) /\ m \in Message
  BY <1>1, <1>2, <1>3 DEF Follows
<1>5. Behind(m, chainCache)
  BY <1>4, Zenon DEF CacheInv
<1>6. m \in Chain
  BY <1>4, Zenon DEF Message, Chain
<1> QED
  BY <1>5, <1>6, Zenon DEF Behind

\* Hub.run writes every client all the messages it took since the client
\* registered, in order and without a gap, whatever order it visits the clients
\* in and whenever they come, go or fail; and a client that asks by REST for a
\* chain it was shown is not answered with an older one.
THEOREM HubKeepsUp == HubAssumption /\ Spec => []HubDelivers
<1>1. HubInv => HubDelivers
  BY TypesOK, Contiguous, NotBehind, Zenon DEF HubInv, HubDelivers
<1> QED
  BY <1>1, HubInit, HubNext, PTL DEF Spec

\* The handler of /api/option-chain finds the nearest upcoming expiry, whatever
\* the order in which it visits the entries and whatever is stored meanwhile.
THEOREM NearestIsAnswered == HubAssumption /\ Spec => []NearestAnswered
<1>1. HubInv => NearestAnswered
  BY Zenon DEF HubInv, RequestInv, NearestAnswered, Answered, Date
<1> QED
  BY <1>1, HubInit, HubNext, PTL DEF Spec

=============================================================================
