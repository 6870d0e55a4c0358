------------------------------ MODULE MCRelays ------------------------------
(***************************************************************************)
(* The loops that pass the feed on and must keep doing so: the relay and   *)
(* the socket of the market data gateway, and the hub of the snapshot      *)
(* service.                                                                *)
(*                                                                         *)
(* They share no state, so as in MCServices a behaviour picks one of them, *)
(* `part`, and lets only that one take steps; fairness is asked of that    *)
(* one alone.  The module extended is that of the socket; the others are   *)
(* instances.                                                              *)
(***************************************************************************)
EXTENDS SocketBridge

VARIABLES
    part,
    slot, sent, cache, listener, message, left, peer, wsClients, seen,
    socket, versions, feed, chainCache, pushes, updates, broadcast, client,
    clients, writing, inbox, got, since, out, request

cacheVars == <<slot, sent, cache, listener, message, left, peer, wsClients, seen>>
hubVars == <<socket, versions, feed, chainCache, pushes, updates, broadcast,
             client, clients, writing, inbox, got, since, out, request>>

-----------------------------------------------------------------------------
Client == {"c1", "c2"}

\* Two symbols and three messages of the decoder.
Cache == INSTANCE DecoderCache WITH
    Symbol <- {"NIFTY", "SENSEX"}, MaxSent <- 3, chains <- cache, conn <- peer

\* Two chains of two expiries for clients that hold one message each.
Expiry(day) == [len |-> 7, day |-> day, mon |-> 7, year |-> 26]
Hub == INSTANCE SnapshotHub WITH
    Key <- {<<"NIFTY", Expiry(28)>>, <<"NIFTY", Expiry(30)>>}, Today <- 20260727,
    Capacity <- 1, Buffer <- 1, MaxChains <- 2, MaxPushes <- 0, Asked <- {},
    conn <- client

ASSUME BridgeAssumption /\ Hub!HubAssumption

-----------------------------------------------------------------------------
RelaysInit ==
    /\ part \in {"cache", "bridge", "hub"}
    /\ Cache!Init /\ Init /\ Hub!Init

RelaysNext ==
    /\ UNCHANGED part
    /\ \/ part = "cache" /\ Cache!Next /\ UNCHANGED <<vars, hubVars>>
       \/ part = "bridge" /\ Next /\ UNCHANGED <<cacheVars, hubVars>>
       \/ part = "hub" /\ Hub!Next /\ UNCHANGED <<cacheVars, vars>>

\* The fairness of each loop, as its module explains it.
CacheFair ==
    /\ WF_cacheVars(part = "cache" /\ Cache!Receive)
    /\ WF_cacheVars(part = "cache" /\ Cache!AnyClient)
    /\ WF_cacheVars(part = "cache" /\ Cache!StartWrites)
    /\ \A c \in Client :
          /\ WF_cacheVars(part = "cache" /\ (Cache!Write(c) \/ Cache!WriteFails(c)))
          /\ SF_cacheVars(part = "cache" /\ Cache!ReadFails(c))
BridgeFair == \A p \in Conn : WF_vars(part = "bridge" /\ Publish(p))
HubFair ==
    /\ WF_hubVars(part = "hub" /\ Hub!ReceiveChain)
    /\ WF_hubVars(part = "hub" /\ Hub!BroadcastChain)
    /\ WF_hubVars(part = "hub" /\ Hub!Take)
    /\ \A c \in Client :
          /\ WF_hubVars(part = "hub" /\ Hub!ReadFails(c))
          /\ WF_hubVars(part = "hub" /\ Hub!Consume(c))
          /\ SF_hubVars(part = "hub" /\ Hub!Register(c))
          /\ SF_hubVars(part = "hub" /\ Hub!Unregister(c))
          /\ WF_hubVars(part = "hub" /\ (Hub!Write(c) \/ Hub!WriteFails(c)))

FairRelays ==
    /\ RelaysInit /\ [][RelaysNext]_<<part, cacheVars, vars, hubVars>>
    /\ CacheFair /\ BridgeFair /\ HubFair

-----------------------------------------------------------------------------
(* The properties of the loops, as their modules state and explain them, next *)
(* to SocketExact of the module extended.                                    *)

\* A client of broadcastToWS sees a symbol's chains in order, never ahead of
\* the cache.
ShownInOrder == Cache!TypeOK /\ Cache!ShownInOrder

\* The last message of the decoder reaches the cache of listenToDecoder, a tick
\* that readPump has read is published whatever becomes of the connection, and
\* every chain the snapshot service is sent is taken by its hub.
FeedArrives == Cache!LatestTickCached /\ ReadIsPublished /\ Hub!EveryChainTaken

\* A client whose peer has gone leaves wsClients, or the hub's map.
GoneIsForgotten == Cache!GoneIsForgotten /\ Hub!LeftIsForgotten
=============================================================================
