----------------------------- MODULE MCServices -----------------------------
(***************************************************************************)
(* The parts of the system that stand beside the order path: the contract  *)
(* master, the two chunkers, the views of a position, the Greeks monitor,  *)
(* the start of the market data gateway and the snapshot service.          *)
(*                                                                         *)
(* They share no state: a step of one neither needs nor changes what       *)
(* another has, so a property of one holds of all of them together exactly *)
(* if it holds of the one alone.  A behaviour therefore picks one of them, *)
(* `part`, and lets only that one take steps.  The module extended is that *)
(* of the snapshot service; the others are instances.                      *)
(***************************************************************************)
EXTENDS SnapshotHub

VARIABLES
    part,
    state, contracts, done, tx, table, loads, starts,
    order, chunks, placed, phase,
    rows,
    tokenToLegs, tradeGreeks, registered, seen, updated,
    main, pc, cached, atStart, spot, todo, chain, lost, csvLines, foInstruments,
    temp, final, whole, runs

masterVars == <<state, contracts, done, tx, table, loads, starts>>
chunkVars == <<order, chunks, placed, phase>>
greekVars == <<tokenToLegs, tradeGreeks, registered, seen, updated>>
startVars == <<main, pc, cached, atStart, spot, todo, chain, lost, csvLines,
               foInstruments, temp, final, whole, runs>>

N == "NIFTY"
X == "SENSEX"

-----------------------------------------------------------------------------
\* Two days' token files; a token is given to another strike on the second.
Row(t, x, ty, s, e, k, o) ==
    [width |-> 32, header |-> FALSE, token |-> t, exchange |-> x, type |-> ty,
     symbol |-> s, expiry |-> e, strike |-> k, option |-> o]
Header == [Row(1, "Exchange", "Type", "Symbol", 1, 0, "") EXCEPT !.header = TRUE]
Narrow == [Row(1, "NSE", "OPTIDX", N, 1, 0, "CE") EXCEPT !.width = 4]
Day1 == <<Header, Row(1, "NSE", "OPTIDX", N, 1, 100, "CE"),
          Row(2, "NSE", "FUTIDX", N, 1, 0, "XX"), Narrow>>
Day2 == <<Row(1, "NSE", "OPTIDX", N, 1, 200, "PUT"),
          Row(0, "NSE", "OPTIDX", N, 1, 300, "CE"),
          Row(1, "NSE", "OPTIDX", N, 2, 200, "PE"),
          Row(3, "NSE", "OPTIDX", N, 0, 200, "PE")>>
Bombay == <<Row(1, "BSE", "OPTION", X, 1, 700, "CALL"),
            Row(4, "BSE", "OPTION", "FOCIT", 1, 100, "CE")>>

Contracts == INSTANCE ContractMaster WITH
    Nse <- {Day1, Day2}, Bse <- {Bombay}, FallbackLots <- (N :> 65) @@ (X :> 20),
    MaxStarts <- 4

-----------------------------------------------------------------------------
\* The chunker of the gateway: up to 16 lots of 2, against order limits that
\* divide them and that do not.
Gateway == INSTANCE Chunker WITH
    LotsLimit <- 16, LotSizes <- {2}, MaxOrderQtys <- {3, 7}, Deltas <- {3, 5},
    request <- order

\* The chunker of the worker: lots below and above an order's limit.
Worker == INSTANCE WorkerIntents WITH
    LotSizes <- {2, 9}, MaxOrderQty <- 5, ChunkDivisor <- 3, MaxLots <- 9,
    Deltas <- {0, 1, 3, 4, 5, 6, 9, 10}, state <- phase, emitted <- placed,
    request <- order

-----------------------------------------------------------------------------
\* The views of a position of up to three orders.
Views == INSTANCE PositionViews WITH
    Leg <- {"CE", "PE"}, Quantity <- {1, 2}, Price <- {1, 3}, LotSize <- 2,
    MaxOrders <- 3

\* Two short straddles that share a token, and a hedge bought on it.
Held(t, k, q, s) == [trade |-> t, token |-> k, qty |-> q, side |-> s]
Greeks == INSTANCE GreeksMonitor WITH
    Trade <- {"A", "B"}, Token <- {1, 2, 3}, Greek <- {-1, 1, 2},
    LegsOf <- ("A" :> <<Held("A", 1, 1, "SELL"), Held("A", 2, 1, "SELL"),
                        Held("A", 1, 2, "BUY")>>)
           @@ ("B" :> <<Held("B", 1, 2, "SELL"), Held("B", 3, 2, "SELL")>>),
    MaxUpdates <- 4, updates <- updated

-----------------------------------------------------------------------------
\* Two indices, one strike on either side of the money.  10 is a past expiry,
\* 20 is today.  Of SENSEX the nearest expiry has no call at the lowest strike.
Quote(s, e, k, t) == [symbol |-> s, expiry |-> e, strike |-> k, type |-> t]
Pair(s, e, k) == {Quote(s, e, k, "CE"), Quote(s, e, k, "PE")}
Startup == INSTANCE ChainStartup WITH
    Symbol <- {N, X},
    Gap <- (N :> 50) @@ (X :> 100), DefaultSpot <- (N :> 200) @@ (X :> 700),
    Quoted <- (N :> 225) @@ (X :> 749), Offered <- (N :> {30, 10, 20}) @@ (X :> {25, 30}),
    BrokerTokens <- Pair(N, 10, 200) \union Pair(N, 20, 150) \union Pair(N, 20, 200)
                    \union Pair(N, 30, 200) \union Pair(N, 30, 250)
                    \union Pair(X, 25, 700)
                    \union {Quote(X, 30, 600, "CE"), Quote(X, 30, 700, "PE")},
    Today <- 20, strikeRange <- 1, MaxLost <- 1, MaxRuns <- 2

-----------------------------------------------------------------------------
\* The snapshot service on 27 July 2026.  By its text the December expiry of
\* 2029 comes before the July one of 2026.
Exp(len, day, mon, year) == [len |-> len, day |-> day, mon |-> mon, year |-> year]
July == <<N, Exp(7, 28, 7, 26)>>
December == <<N, Exp(9, 24, 12, 2029)>>
Past == <<N, Exp(7, 21, 7, 26)>>
NoSuchDay == <<N, Exp(7, 31, 9, 26)>>
Other == <<X, Exp(9, 30, 7, 2026)>>

Keys == {July, December, Past, NoSuchDay, Other}

\* Two bounds.  While its hub is followed nobody asks by REST, and the decoder
\* sends two chains of two keys; while a REST request is followed no client
\* connects and nothing is pushed.
HubBound ==
    /\ request' = NoRequest /\ versions' <= 2
    /\ \A m \in Range(socket') : m.key \in {July, December}
RestBound == UNCHANGED <<pushes, conn>>

ASSUME
    /\ Gateway!ChunkerAssumption /\ Worker!WorkerIntentsAssumption
    /\ Views!ViewsAssumption /\ Greeks!MonitorAssumption
    /\ Startup!StartupAssumption
    /\ HubAssumption

-----------------------------------------------------------------------------
ServicesInit ==
    /\ part \in {"contracts", "gateway", "worker", "views", "greeks", "startup",
                 "hub", "rest"}
    /\ Contracts!Init /\ Views!Init /\ Greeks!Init /\ Startup!Init
    /\ CASE part = "gateway" -> Gateway!Init /\ phase = "IDLE"
         [] part = "worker" -> Worker!Init
         [] OTHER -> order = <<>> /\ chunks = <<>> /\ placed = 0 /\ phase = "IDLE"
    /\ Init

ServicesNext ==
    /\ UNCHANGED part
    /\ \/ /\ part = "contracts" /\ Contracts!Next
          /\ UNCHANGED <<chunkVars, rows, greekVars, startVars, vars>>
       \/ /\ \/ part = "gateway" /\ Gateway!Next /\ UNCHANGED phase
             \/ part = "worker" /\ Worker!Next
          /\ UNCHANGED <<masterVars, rows, greekVars, startVars, vars>>
       \/ /\ part = "views" /\ Views!Next
          /\ UNCHANGED <<masterVars, chunkVars, greekVars, startVars, vars>>
       \/ /\ part = "greeks" /\ Greeks!Next
          /\ UNCHANGED <<masterVars, chunkVars, rows, startVars, vars>>
       \/ /\ part = "startup" /\ Startup!Next
          /\ UNCHANGED <<masterVars, chunkVars, rows, greekVars, vars>>
       \/ /\ \/ part = "hub" /\ Next /\ HubBound
             \/ part = "rest" /\ Next /\ RestBound
          /\ UNCHANGED <<masterVars, chunkVars, rows, greekVars, startVars>>

Services ==
    /\ ServicesInit
    /\ [][ServicesNext]_<<part, masterVars, chunkVars, rows, greekVars, startVars, vars>>

-----------------------------------------------------------------------------
(* The properties of the parts, as their modules state and explain them, each *)
(* with the types of its part, next to HubDelivers and NearestAnswered of the *)
(* module extended.                                                          *)

\* GetLotSize has one answer, though rows of earlier days stay in the table,
\* and the table is what the committed loads make of it, wherever one fails.
ContractsCurrent ==
    /\ Contracts!TypeOK
    /\ Contracts!LotUnambiguous
    /\ Contracts!TableIsLastCommitted

\* GenerateChunkedOrders hands out the whole position in orders within the
\* limits; the legs stay level while they are placed, to within one order, and
\* the chunks of a leg differ by one lot at most.
GatewayOrders ==
    part = "gateway" => /\ Gateway!TypeOK
                        /\ Gateway!WholePosition
                        /\ Gateway!LegsStayLevel
                        /\ Gateway!EvenChunks

\* The lots on_command_deploy allocates are as delta neutral as whole lots can
\* be, its chunks hold all of them, and the legs advance together chunk by chunk.
WorkerOrders ==
    part = "worker" => /\ Worker!TypeOK
                       /\ Worker!AllocationNeutral
                       /\ Worker!ChunksHoldAllocation
                       /\ Worker!LevelAfterChunk

\* The three loops over the orders table see the same open legs and the orders
\* computed to square off bring every leg to zero; the average price of a leg lies
\* within the prices of its fills, and both computations of it agree as long as
\* the fills are one way.
PositionsAgree ==
    /\ Views!TypeOK
    /\ Views!ViewsAgree
    /\ Views!SquareOffCloses
    /\ Views!AverageWithinFills
    /\ Views!SameAverageOneWay

\* After one value per token a trade's Greeks are the signed sum over its legs,
\* and RemoveTrade leaves nothing of a trade that a later value could revive.
GreeksExact ==
    /\ Greeks!TypeOK
    /\ Greeks!FirstValuesExact
    /\ Greeks!RemovedStaysForgotten

\* The token file is the complete file of some run, whenever main crashes; a
\* gateway that serves has subscribed exactly the options of the file; and if no
\* answer was lost each index got its nearest expiry whose lowest strike in
\* range has a call.
StartServes ==
    /\ Startup!TypeOK
    /\ Startup!FinalCsvWhole
    /\ Startup!FileMatchesSubscriptions
    /\ Startup!NearestExpiryServed
=============================================================================
