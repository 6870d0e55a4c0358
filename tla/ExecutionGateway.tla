-------------------------- MODULE ExecutionGateway --------------------------
(***************************************************************************)
(* The trade lifecycle of the execution gateway (package trading): the     *)
(* HTTP handlers that act on one short straddle, interleaved at every call *)
(* that touches the store, the database or the broker.                     *)
(*                                                                         *)
(* The process Deployer runs DeployStraddle.  Each member of Request runs  *)
(* one later request on the same trade: SQF (SquareOff), PARTIAL           *)
(* (PartialSquareOff), HEDGE (ManualHedgeBrokerOrder), MANUAL              *)
(* (ManualSquareOff), REFRESH (RefreshTradeLifecycle) or READ (any handler *)
(* that only loads the trade).  net/http runs each in a goroutine of its   *)
(* own and nothing serialises two requests on one trade.                   *)
(***************************************************************************)
EXTENDS TradeStore, Broker

CONSTANTS
    Deployer, Request,
    Kinds,          \* the kinds of request made in this instance
    NumOrders,      \* build orders, numbered in the order they are placed
    LegOf, ChunkOf, \* leg and chunk of each build order
    OrderQty,       \* quantity of a build order: one lot
    Percents,       \* percentages asked of PartialSquareOff
    MaxSec,         \* bound: seconds that pass
    MaxCrashes      \* bound: restarts of the gateway

BuildOrder == 1..NumOrders
DropLastChunk == ChunkOf[NumOrders] - 1
NumChunks == ChunkOf[NumOrders]
AllKinds == {"SQF", "PARTIAL", "HEDGE", "MANUAL", "REFRESH", "READ"}
MaxChunkRetries == 3

\* intent_ids.  A build order keeps one id for all its retries.  The ids of
\* square-off and hedge orders carry a time stamp of one second resolution
\* and, for square-off, a running number.
BuildId(n) == <<"BUI", LegOf[n], n, 0>>
SqfId(leg, s, k) == <<"SQF", leg, s, k>>
HedgeId(leg, s) == <<"HDG", leg, s, 0>>
NoId == <<"NONE", "CE", 0, 0>>

AllIds == {BuildId(n) : n \in BuildOrder}
            \cup {SqfId(l, s, k) : l \in Legs, s \in 0..MaxSec, k \in 0..1}
            \cup {HedgeId(l, s) : l \in Legs, s \in 0..MaxSec}

\* Tickets: a build order, or the order of a request on a leg.
BuildTicket(n) == <<Deployer, n>>
LegTicket(p, leg) == <<p, leg>>

AllTickets == {BuildTicket(n) : n \in BuildOrder}
                \cup {LegTicket(p, l) : p \in Request, l \in Legs}

ASSUME GatewayAssumption ==
    /\ Deployer \notin Request
    /\ Kinds \subseteq AllKinds
    /\ NumOrders \in Nat \ {0}
    /\ LegOf \in [BuildOrder -> Legs]
    /\ ChunkOf \in [BuildOrder -> Nat \ {0}]
    /\ \A m, n \in BuildOrder : m <= n => ChunkOf[m] <= ChunkOf[n]
    /\ OrderQty \in Nat \ {0}
    /\ Percents \subseteq 1..100
    /\ MaxSec \in Nat
    /\ MaxCrashes \in Nat
    /\ OrderId = AllIds
    /\ Ticket = AllTickets

Process == Request \cup {Deployer}

VARIABLES
    pc, kind,
    tr,             \* the StoredTrade value a handler works on
    res,            \* the outcome of its last ExecuteOrderIntent
    chunk, attempt, todo, nextRetry,   \* locals of executeBuild
    verdict,        \* the status DeployStraddle ends with
    want,           \* signed quantity a request trades on each leg
    legs, lead,     \* legs it has still to execute, and the one that leads
    ids,            \* intent_id of its order on each leg
    allFilled,
    runtime,        \* is the trade's runtime registered?
    stopped,        \* is its StopCh closed?
    sec,            \* the wall clock, in seconds
    crashes,
    newStatus,      \* the status a refresh has derived
    raced,          \* history: did two writes of the trade overlap?
    undisturbed     \* history: since a square-off read the rows, nobody
                    \* else changed the recorded position, and its own rows
                    \* were new

buildVars == <<chunk, attempt, todo, nextRetry, verdict>>
planVars == <<want, legs, lead, ids, allFilled>>
restVars == <<sec, crashes, newStatus, raced>>
vars == <<storeVars, brokerVars, pc, kind, tr, res, buildVars, planVars,
          runtime, stopped, restVars, undisturbed>>

BuildPC == {"idle", "saveDb", "append", "execute", "record",
            "finishMem", "finishDb", "startRuntime", "done"}
RequestPC == {"idle", "cache", "loaded", "insert", "sqMem", "sqDb",
              "rtLoad", "rtStop", "gate", "execute", "record", "closeMem",
              "closeDb", "partialDb", "refreshDb", "panic", "done"}

\* Every variable holds a value of its kind.
TypeOK ==
    /\ StoreTypeOK
    /\ BrokerTypeOK
    /\ pc \in [Process -> BuildPC \cup RequestPC]
    /\ kind \in [Request -> AllKinds]
    /\ tr \in [Process -> StoredTrade]
    /\ res \in [Process -> Outcome]
    /\ chunk \in Nat
    /\ attempt \in 1..MaxChunkRetries
    /\ todo \subseteq BuildOrder
    /\ nextRetry \subseteq BuildOrder
    /\ verdict \in {"ACTIVE", "PENDING_FILL", "FAILED"}
    /\ want \in [Request -> [Legs -> Int]]
    /\ legs \in [Request -> SUBSET Legs]
    /\ lead \in [Request -> Legs]
    /\ ids \in [Request -> [Legs -> OrderId \cup {NoId}]]
    /\ allFilled \in [Request -> BOOLEAN]
    /\ runtime \in BOOLEAN
    /\ stopped \in BOOLEAN
    /\ sec \in 0..MaxSec
    /\ crashes \in 0..MaxCrashes
    /\ newStatus \in [Request -> TradeStatus]
    /\ raced \in BOOLEAN
    /\ undisturbed \in [Request -> BOOLEAN]

Init ==
    /\ StoreInit
    /\ BrokerInit
    /\ pc = [p \in Process |-> "idle"]
    /\ kind = [p \in Request |-> "READ"]
    /\ tr = [p \in Process |-> NoTrade]
    /\ res = [p \in Process |-> NoOutcome]
    /\ chunk = 0
    /\ attempt = 1
    /\ todo = {}
    /\ nextRetry = {}
    /\ verdict = "FAILED"
    /\ want = [p \in Request |-> [l \in Legs |-> 0]]
    /\ legs = [p \in Request |-> {}]
    /\ lead = [p \in Request |-> "CE"]
    /\ ids = [p \in Request |-> [l \in Legs |-> NoId]]
    /\ allFilled = [p \in Request |-> TRUE]
    /\ runtime = FALSE
    /\ stopped = FALSE
    /\ sec = 0
    /\ crashes = 0
    /\ newStatus = [p \in Request |-> "NONE"]
    /\ raced = FALSE
    /\ undisturbed = [p \in Request |-> FALSE]

-----------------------------------------------------------------------------
(* Shared by the handlers *)

At(p, label) == pc[p] = label
Goto(p, label) == pc' = [pc EXCEPT ![p] = label]

OnlyStatus(t, s) == [status |-> s]
WithStatus(t, s) == [t EXCEPT !.status = s]

\* A step that only moves process p on.
Move(p, next) ==
    /\ Goto(p, next)
    /\ UNCHANGED <<storeVars, brokerVars, kind, tr, res, buildVars, planVars,
                   runtime, stopped, restVars, undisturbed>>

\* Process p holds a trade that it has written to one half of the store, or
\* read from it, and not yet written to the other.
HalfWay(p) == pc[p] \in {"saveDb", "finishDb", "sqDb", "closeDb", "partialDb",
                        "cache"}

\* UpdateTrade(t) by process p: the memory half, then the database half.
UpdateMem(p, t, next) ==
    /\ saveToMemory(t)
    /\ tr' = [tr EXCEPT ![p] = t]
    /\ raced' = (raced \/ \E q \in Process \ {p} : HalfWay(q))
    /\ Goto(p, next)
    /\ UNCHANGED <<brokerVars, kind, res, buildVars, planVars, runtime,
                   stopped, sec, crashes, newStatus, undisturbed>>

SkipDb(p, next) == Move(p, next)
UpdateDb(p, next) ==
    /\ upsertTrade(tr[p])
    /\ Goto(p, next)
    /\ UNCHANGED <<brokerVars, kind, tr, res, buildVars, planVars, runtime,
                   stopped, restVars, undisturbed>>

\* The rows changed by p spoil the square-offs of the others if they change
\* the recorded position.
SamePosition == \A l \in Legs : NetPosition(rows', l) = NetPosition(rows, l)
Disturb(p) ==
    undisturbed' = [q \in Request |-> /\ undisturbed[q]
                                      /\ q = p \/ SamePosition]

-----------------------------------------------------------------------------
(* DeployStraddle *)

NewTrade ==
    [status |-> "BUILDING",
     qty |-> [l \in Legs |->
                OrderQty * Cardinality({n \in BuildOrder : LegOf[n] = l})]]

\* The checks have passed; SaveTrade writes the BUILDING trade to memory.
DeployStraddle ==
    /\ At(Deployer, "idle")
    /\ UpdateMem(Deployer, NewTrade, "saveDb")

ChunkOrdersSoFar(c) == {n \in BuildOrder : ChunkOf[n] <= c}
ChunkOrders(c) == {n \in BuildOrder : ChunkOf[n] = c}

\* The database half of SaveTrade.  GenerateChunkedOrders then yields the
\* chunks, or an error that leaves the trade BUILDING.
DeploySaveDb ==
    /\ At(Deployer, "saveDb")
    /\ upsertTrade(tr[Deployer])
    /\ \/ /\ Goto(Deployer, "done")
          /\ UNCHANGED <<chunk, todo>>
       \/ /\ Goto(Deployer, "append")
          /\ chunk' = 1
          /\ todo' = ChunkOrders(1)
    /\ UNCHANGED <<brokerVars, kind, tr, res, attempt, nextRetry, verdict,
                   planVars, runtime, stopped, restVars, undisturbed>>

\* executeBuild takes the orders of a chunk in their order.
IsNext(n) == n \in todo /\ \A m \in todo : n <= m

BuildAppendIntent ==
    /\ At(Deployer, "append")
    /\ \E n \in todo :
         /\ IsNext(n)
         /\ insertOrderIntents([i \in {BuildId(n)} |->
                                  CreatedRow(LegOf[n], "SELL", OrderQty)])
    /\ Goto(Deployer, "execute")
    /\ UNCHANGED <<brokerVars, kind, tr, res, buildVars, planVars, runtime,
                   stopped, restVars, undisturbed>>

\* An error is not recorded: the order goes to the next round.
BuildExecute ==
    /\ At(Deployer, "execute")
    /\ \E n \in todo, r \in Outcomes(OrderQty) :
         /\ IsNext(n)
         /\ ExecuteOrderIntent(BuildTicket(n), r)
         /\ \/ /\ r.status = "ERR"
               /\ todo' = todo \ {n}
               /\ nextRetry' = nextRetry \cup {n}
               /\ Goto(Deployer, "append")
               /\ UNCHANGED res
            \/ /\ r.status # "ERR"
               /\ res' = [res EXCEPT ![Deployer] = r]
               /\ Goto(Deployer, "record")
               /\ UNCHANGED <<todo, nextRetry>>
    /\ UNCHANGED <<storeVars, kind, tr, chunk, attempt, verdict, planVars,
                   runtime, stopped, restVars, undisturbed>>

\* The switch on the reported status: any other one is a live order.
BuildFilled(s) == s = "FILLED"
AnyFailure(s) == s # "FILLED"
BuildRetryable(s) == s \in {"REJECTED", "CANCELLED"}

\* MarkOrderExecution, then the switch.
BuildRecord ==
    /\ At(Deployer, "record")
    /\ \E n \in todo :
         LET r == res[Deployer] IN
         /\ IsNext(n)
         /\ MarkOrderExecution(BuildId(n), r.status, r.filled)
         /\ \/ /\ BuildFilled(r.status)
               /\ todo' = todo \ {n}
               /\ Goto(Deployer, "append")
               /\ UNCHANGED <<nextRetry, verdict>>
            \/ /\ BuildRetryable(r.status)
               /\ todo' = todo \ {n}
               /\ nextRetry' = nextRetry \cup {n}
               /\ Goto(Deployer, "append")
               /\ UNCHANGED verdict
            \/ /\ ~BuildFilled(r.status) /\ ~BuildRetryable(r.status)
               /\ verdict' = "PENDING_FILL"
               /\ Goto(Deployer, "finishMem")
               /\ todo' = {}
               /\ nextRetry' = {}
    /\ res' = [res EXCEPT ![Deployer] = NoOutcome]
    /\ Disturb(Deployer)
    /\ UNCHANGED <<brokerVars, kind, tr, chunk, attempt, planVars, runtime,
                   stopped, restVars>>

SameAttempt == attempt
NextAttempt == attempt + 1

\* The end of a round: retry what failed, go to the next chunk, or return.
BuildRound ==
    /\ At(Deployer, "append")
    /\ todo = {}
    /\ nextRetry' = {}
    /\ \/ /\ nextRetry # {}
          /\ attempt < MaxChunkRetries
          /\ attempt' = NextAttempt
          /\ todo' = nextRetry
          /\ UNCHANGED <<pc, chunk, verdict>>
       \/ /\ nextRetry # {}
          /\ attempt = MaxChunkRetries
          /\ verdict' = "FAILED"
          /\ Goto(Deployer, "finishMem")
          /\ UNCHANGED <<todo, attempt, chunk>>
       \/ /\ nextRetry = {}
          /\ chunk < NumChunks
          /\ chunk' = chunk + 1
          /\ attempt' = 1
          /\ todo' = ChunkOrders(chunk + 1)
          /\ UNCHANGED <<pc, verdict>>
       \/ /\ nextRetry = {}
          /\ chunk = NumChunks
          /\ verdict' = "ACTIVE"
          /\ Goto(Deployer, "finishMem")
          /\ UNCHANGED <<todo, attempt, chunk>>
    /\ UNCHANGED <<storeVars, brokerVars, kind, tr, res, planVars, runtime,
                   stopped, restVars, undisturbed>>

\* UpdateTrade with ACTIVE, PENDING_FILL or FAILED: a blind overwrite with
\* the value built before the orders went out.
DeployFinishMem ==
    /\ At(Deployer, "finishMem")
    /\ UpdateMem(Deployer, WithStatus(tr[Deployer], verdict), "finishDb")

DeployFinishDb ==
    /\ At(Deployer, "finishDb")
    /\ UpdateDb(Deployer, IF verdict = "ACTIVE" THEN "startRuntime"
                          ELSE "done")

\* startRuntime: a new runtime has a new, open StopCh.
StartStopped ==
    /\ At(Deployer, "startRuntime")
    /\ Goto(Deployer, "done")
    /\ runtime' = TRUE
    /\ stopped' = TRUE
    /\ UNCHANGED <<storeVars, brokerVars, kind, tr, res, buildVars, planVars,
                   restVars, undisturbed>>
StartRuntime ==
    /\ At(Deployer, "startRuntime")
    /\ Goto(Deployer, "done")
    /\ runtime' = TRUE
    /\ stopped' = IF runtime THEN stopped ELSE FALSE
    /\ UNCHANGED <<storeVars, brokerVars, kind, tr, res, buildVars, planVars,
                   restVars, undisturbed>>

DeployStep ==
    \/ DeployStraddle \/ DeploySaveDb \/ BuildAppendIntent
    \/ BuildExecute \/ BuildRecord \/ BuildRound
    \/ DeployFinishMem \/ DeployFinishDb \/ StartRuntime

-----------------------------------------------------------------------------
(* Requests: loading the trade *)

\* LoadTrade.  A trade that is nowhere ends the request.
RequestLoad(p) ==
    /\ At(p, "idle")
    /\ \E k \in Kinds \ {"REFRESH"} : kind' = [kind EXCEPT ![p] = k]
    /\ tr' = [tr EXCEPT ![p] = LoadTrade]
    /\ Goto(p, IF mem # NoTrade THEN "loaded"
               ELSE IF cfg # NoTrade THEN "cache" ELSE "done")
    /\ UNCHANGED <<storeVars, brokerVars, res, buildVars, planVars, runtime,
                   stopped, restVars, undisturbed>>

\* A trade found in the database is cached.  The cache is not checked again:
\* a write that came in between is overwritten.
CacheFill(p) ==
    /\ At(p, "cache")
    /\ UpdateMem(p, tr[p], "loaded")

ReadOnly(p) ==
    /\ At(p, "loaded")
    /\ kind[p] = "READ"
    /\ Move(p, "done")

\* An early error return.  SquareOff: the trade is PENDING_FILL, the query
\* fails, or there is no filled position.  PartialSquareOff: the percentage is
\* invalid.  ManualHedgeBrokerOrder: side or quantity is invalid, or a token
\* is missing.
Refuse(p) ==
    /\ At(p, "loaded")
    /\ kind[p] \in {"SQF", "PARTIAL", "HEDGE"}
    /\ Move(p, "done")

-----------------------------------------------------------------------------
(* SquareOff *)

Abs(n) == IF n < 0 THEN -n ELSE n
OpeningSide(q) == IF q < 0 THEN "BUY" ELSE "SELL"
SideOf(q) == IF q < 0 THEN "SELL" ELSE "BUY"

\* The set of legs a plan trades, and where a leg comes in its order.
Traded(q) == {l \in Legs : q[l] # 0}
Position(q, first, l) == IF l = first \/ first \notin Traded(q) THEN 0 ELSE 1

\* The PENDING_FILL check, then the query of
\* createSQFIntentsFromFilledNetPosition.  Go iterates over the positions in
\* an arbitrary order.
SquareOffRead(p) ==
    /\ At(p, "loaded")
    /\ kind[p] = "SQF"
    /\ tr[p].status # "PENDING_FILL"
    /\ LET q == [l \in Legs |-> -NetPosition(rows, l)] IN
         /\ Traded(q) # {}
         /\ want' = [want EXCEPT ![p] = q]
         /\ legs' = [legs EXCEPT ![p] = Traded(q)]
         /\ \E l \in Traded(q) : lead' = [lead EXCEPT ![p] = l]
    /\ undisturbed' = [undisturbed EXCEPT ![p] = TRUE]
    /\ Goto(p, "insert")
    /\ UNCHANGED <<storeVars, brokerVars, kind, tr, res, buildVars, ids,
                   allFilled, runtime, stopped, restVars>>

\* The AppendIntent calls of p, for the legs it trades; the leg is part of
\* the id.
AppendIntents(p, q, idOf) ==
    /\ ids' = [ids EXCEPT ![p] = idOf]
    /\ insertOrderIntents([i \in {idOf[l] : l \in Traded(q)} |->
                             CreatedRow(i[2], SideOf(q[i[2]]), Abs(q[i[2]]))])

SquareOffInsert(p) ==
    /\ At(p, "insert")
    /\ LET idOf == [l \in Legs |->
                      SqfId(l, sec, Position(want[p], lead[p], l))] IN
         /\ AppendIntents(p, want[p], idOf)
         /\ undisturbed' = [undisturbed EXCEPT ![p] =
                              @ /\ \A l \in Traded(want[p]) : ~Exists(idOf[l])]
    /\ Goto(p, "sqMem")
    /\ UNCHANGED <<brokerVars, kind, tr, res, buildVars, want, legs, lead,
                   allFilled, runtime, stopped, restVars>>

SquaringOffMem(p) ==
    /\ At(p, "sqMem")
    /\ UpdateMem(p, WithStatus(tr[p], "SQUARING_OFF"), "sqDb")

SquaringOffDb(p) ==
    /\ At(p, "sqDb")
    /\ UpdateDb(p, "rtLoad")

\* LoadRuntime, and then close(StopCh) and DeleteRuntime: closing a closed
\* channel panics, which net/http turns into the end of this request.
RuntimeLoad(p) ==
    /\ At(p, "rtLoad")
    /\ Move(p, IF runtime THEN "rtStop" ELSE "gate")

RuntimeStop(p) ==
    /\ At(p, "rtStop")
    /\ \/ /\ stopped
          /\ Goto(p, "panic")
          /\ UNCHANGED <<runtime, stopped>>
       \/ /\ ~stopped
          /\ stopped' = TRUE
          /\ runtime' = FALSE
          /\ Goto(p, "gate")
    /\ UNCHANGED <<storeVars, brokerVars, kind, tr, res, buildVars, planVars,
                   restVars, undisturbed>>

\* Live execution is off (square-off: ENABLE_LIVE_SQF_EXECUTION, hedge:
\* ENABLE_MANUAL_BROKER_ACTIONS), or there is no executor.
NotExecuted(p) ==
    /\ At(p, "gate")
    /\ Move(p, "done")

NextLeg(p, l) == l \in legs[p] /\ (lead[p] \in legs[p] => l = lead[p])

\* One ExecuteOrderIntent of a sequential loop.  An error ends SquareOff and
\* ManualHedgeBrokerOrder on the spot.
ExecuteLeg(p) ==
    /\ At(p, "gate") \/ At(p, "execute")
    /\ kind[p] # "MANUAL"
    /\ \E l \in legs[p] : \E r \in Outcomes(Abs(want[p][l])) :
         /\ NextLeg(p, l)
         /\ ExecuteOrderIntent(LegTicket(p, l), r)
         /\ \/ /\ r.status = "ERR"
               /\ Goto(p, "done")
               /\ UNCHANGED res
            \/ /\ r.status # "ERR"
               /\ res' = [res EXCEPT ![p] = r]
               /\ Goto(p, "record")
    /\ UNCHANGED <<storeVars, kind, tr, buildVars, planVars, runtime, stopped,
                   restVars, undisturbed>>

SqfFilled(s) == s = "FILLED"

\* After the last leg SquareOff closes the trade if every one was reported
\* filled.
CloseEarly(p, left, ok) == IF kind[p] = "SQF" /\ ok THEN "closeMem"
                           ELSE IF left # {} THEN "execute" ELSE "done"
AfterLeg(p, left, ok) == IF left # {} THEN "execute"
                         ELSE IF kind[p] = "SQF" /\ ok THEN "closeMem"
                         ELSE "done"

\* MarkOrderExecution of the leg just executed.
RecordLeg(p) ==
    /\ At(p, "record")
    /\ \E l \in legs[p] :
         /\ NextLeg(p, l)
         /\ MarkOrderExecution(ids[p][l], res[p].status, res[p].filled)
         /\ legs' = [legs EXCEPT ![p] = @ \ {l}]
    /\ allFilled' = [allFilled EXCEPT ![p] = @ /\ SqfFilled(res[p].status)]
    /\ Goto(p, AfterLeg(p, legs'[p], allFilled'[p]))
    /\ res' = [res EXCEPT ![p] = NoOutcome]
    /\ Disturb(p)
    /\ UNCHANGED <<brokerVars, kind, tr, buildVars, want, lead, ids, runtime,
                   stopped, restVars>>

\* The CLOSED trade is the value loaded at the start of the request.
CloseMem(p) ==
    /\ At(p, "closeMem")
    /\ UpdateMem(p, WithStatus(tr[p], "CLOSED"), "closeDb")

CloseDb(p) ==
    /\ At(p, "closeDb")
    /\ UpdateDb(p, "done")

SquareOffStep(p) ==
    \/ SquareOffRead(p) \/ SquareOffInsert(p)
    \/ SquaringOffMem(p) \/ SquaringOffDb(p) \/ RuntimeLoad(p)
    \/ RuntimeStop(p) \/ NotExecuted(p) \/ ExecuteLeg(p)
    \/ RecordLeg(p) \/ CloseMem(p) \/ CloseDb(p)

-----------------------------------------------------------------------------
(* PartialSquareOff, ManualHedgeBrokerOrder, ManualSquareOff *)

\* math.Round(q * (100 - percent) / 100)
Scaled(q, percent) == (2 * q * (100 - percent) + 100) \div 200

PartialMem(p) ==
    /\ At(p, "loaded")
    /\ kind[p] = "PARTIAL"
    /\ \E percent \in Percents :
         UpdateMem(p, [status |-> "PARTIAL",
                       qty |-> [l \in Legs |-> Scaled(tr[p].qty[l], percent)]],
                   "partialDb")

PartialDb(p) ==
    /\ At(p, "partialDb")
    /\ UpdateDb(p, "done")

\* Both hedge intents are stored before either is executed, CE first.
HedgeInsert(p) ==
    /\ At(p, "loaded")
    /\ kind[p] = "HEDGE"
    /\ \E q \in [Legs -> {OrderQty, -OrderQty}] :
         /\ want' = [want EXCEPT ![p] = q]
         /\ AppendIntents(p, q, [l \in Legs |-> HedgeId(l, sec)])
    /\ legs' = [legs EXCEPT ![p] = Legs]
    /\ lead' = [lead EXCEPT ![p] = "CE"]
    /\ Goto(p, "gate")
    /\ UNCHANGED <<brokerVars, kind, tr, res, buildVars, allFilled, runtime,
                   stopped, restVars, undisturbed>>

\* ManualSquareOff buys CEQty and PEQty of the loaded trade.  An order of
\* quantity 0 has no effect and is left out.  No executor or no price ends
\* the request.
ManualPlan(p) ==
    /\ At(p, "loaded")
    /\ kind[p] = "MANUAL"
    /\ \/ /\ want' = [want EXCEPT ![p] = tr[p].qty]
          /\ legs' = [legs EXCEPT ![p] = Traded(tr[p].qty)]
          /\ Goto(p, IF Traded(tr[p].qty) = {} THEN "done" ELSE "execute")
       \/ /\ Goto(p, "done")
          /\ UNCHANGED <<want, legs>>
    /\ UNCHANGED <<storeVars, brokerVars, kind, tr, res, buildVars, lead, ids,
                   allFilled, runtime, stopped, restVars, undisturbed>>

\* Its two goroutines execute in any order.  Neither result reaches the
\* store, and an error of one does not stop the other.
ManualExecute(p) ==
    /\ At(p, "execute")
    /\ kind[p] = "MANUAL"
    /\ \E l \in legs[p] : \E r \in Outcomes(Abs(want[p][l])) :
         /\ ExecuteOrderIntent(LegTicket(p, l), r)
         /\ legs' = [legs EXCEPT ![p] = @ \ {l}]
         /\ Goto(p, IF legs[p] = {l} THEN "done" ELSE "execute")
    /\ UNCHANGED <<storeVars, kind, tr, res, buildVars, want, lead, ids,
                   allFilled, runtime, stopped, restVars, undisturbed>>

-----------------------------------------------------------------------------
(* RefreshTradeLifecycle *)

\* The build orders whose stored row has one of these statuses.
BuildRows(statuses) ==
    {n \in BuildOrder : rows[BuildId(n)].status \in statuses}

BuildCounts ==
    LET Complete(n) == rows[BuildId(n)].filled >= rows[BuildId(n)].qty
    IN  [Total        |-> Cardinality(BuildRows(OrderStatus \ {"NONE"})),
         Filled       |-> Cardinality({n \in BuildRows({"FILLED"}) : Complete(n)}),
         Pending      |-> Cardinality({n \in BuildRows({"OPEN", "PARTIALLY_FILLED"}) :
                                          ~Complete(n)}),
         TerminalFail |-> Cardinality(BuildRows({"REJECTED", "CANCELLED"})),
         Unknown      |-> Cardinality(BuildRows({"CREATED"}))]

deriveTradeStatusFromBuildCounts(c) ==
    IF c.Total = 0 THEN "FAILED"
    ELSE IF c.Filled = c.Total THEN "ACTIVE"
    ELSE IF \/ c.Pending > 0
            \/ c.Filled > 0
            \/ c.TerminalFail # c.Total /\ c.Unknown > 0
    THEN "PENDING_FILL" ELSE "FAILED"

\* A trade with no row in the table trades is a 404.
RefreshRead(p) ==
    /\ At(p, "idle")
    /\ "REFRESH" \in Kinds
    /\ kind' = [kind EXCEPT ![p] = "REFRESH"]
    /\ newStatus' = [newStatus EXCEPT ![p] =
                        deriveTradeStatusFromBuildCounts(BuildCounts)]
    /\ Goto(p, IF col = "NONE" THEN "done" ELSE "refreshDb")
    /\ UNCHANGED <<storeVars, brokerVars, tr, res, buildVars, planVars, runtime,
                   stopped, sec, crashes, raced, undisturbed>>

\* The update changes the column and nothing else: neither the document nor
\* the cached trade, and whatever the column says by now.
RefreshWrite(p) ==
    /\ At(p, "refreshDb")
    /\ \/ /\ col' = newStatus[p]
          /\ UNCHANGED faults
       \/ /\ faults < MaxFaults
          /\ faults' = faults + 1
          /\ UNCHANGED col
    /\ Goto(p, "done")
    /\ UNCHANGED <<mem, cfg, rows, brokerVars, kind, tr, res, buildVars,
                   planVars, runtime, stopped, restVars, undisturbed>>

RequestStep(p) ==
    \/ RequestLoad(p) \/ CacheFill(p) \/ ReadOnly(p) \/ Refuse(p)
    \/ SquareOffStep(p)
    \/ PartialMem(p) \/ PartialDb(p)
    \/ HedgeInsert(p) \/ ManualPlan(p) \/ ManualExecute(p)
    \/ RefreshRead(p) \/ RefreshWrite(p)

-----------------------------------------------------------------------------
(* The environment *)

\* The intent_id under which a ticket's order was stored.
TicketId(x) == IF x[1] = Deployer THEN BuildId(x[2]) ELSE ids[x[1]][x[2]]

Market(x) ==
    /\ BrokerTrade(x) \/ BrokerDrop(x)
    /\ UNCHANGED <<storeVars, pc, kind, tr, res, buildVars, planVars, runtime,
                   stopped, restVars, undisturbed>>

\* Whoever follows the broker's order book brings the row of a live order up
\* to date.
RowStatus(traded, qty, live) ==
    IF traded >= qty THEN "FILLED"
    ELSE IF live = 0 THEN "CANCELLED"
    ELSE IF traded > 0 THEN "PARTIALLY_FILLED" ELSE "OPEN"

Reconcile(x) ==
    LET i == TicketId(x) IN
    /\ i \in OrderId
    /\ rows[i].status \in {"OPEN", "PARTIALLY_FILLED"}
    /\ rows' = [rows EXCEPT
                  ![i].status = RowStatus(fill[x], rows[i].qty, open[x]),
                  ![i].filled = IF fill[x] < rows[i].qty THEN fill[x]
                                ELSE rows[i].qty]
    /\ Disturb(Deployer)
    /\ UNCHANGED <<mem, col, cfg, faults, brokerVars, pc, kind, tr, res,
                   buildVars, planVars, runtime, stopped, restVars>>

Tick ==
    /\ sec < MaxSec
    /\ sec' = sec + 1
    /\ UNCHANGED <<storeVars, brokerVars, pc, kind, tr, res, buildVars,
                   planVars, runtime, stopped, crashes, newStatus, raced,
                   undisturbed>>

\* The gateway dies and comes back: memory, runtimes and running handlers
\* are gone, the tables and the orders at the broker are not.  Nothing
\* resumes what was running.
Crash ==
    /\ crashes < MaxCrashes
    /\ crashes' = crashes + 1
    /\ restartStore
    /\ pc' = [p \in Process |-> IF pc[p] = "idle" THEN "idle" ELSE "done"]
    /\ runtime' = FALSE
    /\ stopped' = FALSE
    /\ todo' = {}
    /\ nextRetry' = {}
    /\ chunk' = 0
    /\ attempt' = 1
    /\ tr' = [p \in Process |-> NoTrade]
    /\ res' = [p \in Process |-> NoOutcome]
    /\ UNCHANGED <<brokerVars, kind, verdict, planVars, sec, newStatus, raced,
                   undisturbed>>

\* Every handler has returned: the gateway waits for requests that this
\* instance does not make.
Finished(p) == pc[p] \in {"done", "panic"}
Idle ==
    /\ \A p \in Process : Finished(p)
    /\ UNCHANGED vars

Next ==
    \/ DeployStep
    \/ \E p \in Request : RequestStep(p)
    \/ \E x \in Ticket : Market(x) \/ Reconcile(x)
    \/ Tick
    \/ Crash
    \/ Idle

Spec == Init /\ [][Next]_vars

\* A goroutine that can take a step takes one: every call in a handler has a
\* timeout.  Nobody has to make a request.
Running(p) == ~At(p, "idle")
Fairness ==
    /\ WF_vars(Running(Deployer) /\ DeployStep)
    /\ \A p \in Request : WF_vars(Running(p) /\ RequestStep(p))

FairSpec == Spec /\ Fairness

-----------------------------------------------------------------------------
(* Correctness *)

\* A trade is ACTIVE, in memory or in the stored document, only if every
\* order of its build is completely filled at the broker: executeBuild must
\* not take an accepted, partial, cancelled or failed order for a fill, nor
\* lose an order between rounds and chunks.
Built == \A n \in BuildOrder : fill[BuildTicket(n)] >= OrderQty
ActiveIsBuilt ==
    \A t \in {mem, cfg} : t.status = "ACTIVE" => Built

\* A trade is CLOSED only if some SquareOff saw all its orders filled, and
\* they are filled at the broker.
TradedOut(p) ==
    /\ kind[p] = "SQF"
    /\ Traded(want[p]) # {}
    /\ \A l \in Traded(want[p]) : fill[LegTicket(p, l)] >= Abs(want[p][l])
ClosedIsTradedOut ==
    \A t \in {mem, cfg} : t.status = "CLOSED" => \E p \in Request : TradedOut(p)

\* Whatever the retries of executeBuild do, a build order never has more
\* quantity at the broker than asked for, beyond what calls left there that
\* came back as an error or as cancelled.
BuildExposureBound ==
    \A n \in BuildOrder :
       fill[BuildTicket(n)] + open[BuildTicket(n)]
         <= OrderQty + extra[BuildTicket(n)]

\* The orders table never shows a fill the broker does not have.
FillCovered(i) ==
    rows[i].filled > 0 =>
       \E x \in Ticket : TicketId(x) = i /\ rows[i].filled <= fill[x]
NoPhantomFill == \A i \in OrderId : FillCovered(i)

\* A SquareOff about to close the trade leaves a flat recorded position, if
\* nobody else moved it since the query, the ids were new and no write of
\* the database was lost.
CloseIsFlat ==
    \A p \in Request :
       (At(p, "closeMem") /\ undisturbed[p] /\ faults = 0)
         => \A l \in Legs : NetPosition(rows, l) = 0

\* A filled build order is final: no retry, reconciliation or later request
\* overwrites its row.
FilledBuildRowIsFinal ==
    [][\A n \in BuildOrder :
          rows[BuildId(n)].status = "FILLED"
             => rows'[BuildId(n)] = rows[BuildId(n)]]_vars

\* What the orders table says of fills is true of the broker and, for the
\* build, stays said.
FillsTrue == [](\A i \in OrderId : FillCovered(i)) /\ FilledBuildRowIsFinal

\* A SquareOff panics on its trade's StopCh only if another SquareOff of the
\* same trade got there first.
PanicOnlyByRace ==
    \A p \in Request : At(p, "panic") =>
       \E q \in Request \ {p} :
          kind[q] = "SQF" /\ (Finished(q) \/ At(q, "gate") \/ At(q, "execute")
             \/ At(q, "record") \/ At(q, "closeMem") \/ At(q, "closeDb"))

\* The cached trade is the stored one whenever no write is under way, unless
\* a database write was lost or two writes of the trade overlapped.
MemoryIsDurable ==
    (mem # NoTrade /\ faults = 0 /\ ~raced /\ \A p \in Process : ~HalfWay(p))
       => mem = cfg

\* The position recorded in the orders table is the position at the broker
\* whenever every answer arrived, was recorded, and belongs to one order: no
\* handler is between a fill and its record, nothing was lost, cancelled in
\* part or bought by ManualSquareOff, and no two requests share an id.
TicketsOn(l, side) ==
    {x \in Ticket : IF x[1] = Deployer
                    THEN LegOf[x[2]] = l /\ side = "SELL"
                    ELSE x[2] = l /\ (want[x[1]][l] < 0 <=> side = "SELL")}
BrokerPosition(l) ==
    Total(TicketsOn(l, "BUY"), fill) - Total(TicketsOn(l, "SELL"), fill)
AllAccounted ==
    /\ faults = 0 /\ crashes = 0
    /\ \A x \in Ticket : extra[x] = 0 /\ open[x] = 0
    /\ \A p \in Process : ~At(p, "record")
    /\ \A p \in Request : kind[p] # "MANUAL"
    /\ \A i \in OrderId : rows[i].status \notin {"OPEN", "PARTIALLY_FILLED"}
    /\ \A i \in OrderId : rows[i].filled > 0 => rows[i].status = "FILLED"
    /\ \A p, q \in Request, l \in Legs :
          p # q /\ ids[p][l] # NoId => ids[p][l] # ids[q][l]
BooksMatchBroker ==
    AllAccounted => \A l \in Legs : NetPosition(rows, l) = BrokerPosition(l)

\* What a comment in executeBuild says: it stops at a live order "so we do
\* not create duplicate live orders".
NoDuplicateLiveOrders ==
    \A n \in BuildOrder : fill[BuildTicket(n)] + open[BuildTicket(n)] <= OrderQty

\* What the square-off tests say: "expected no SQF orders for PENDING_FILL
\* trade".
\* It does not hold: see the disagreements in the README.
NoSqfForPendingFill ==
    [][\A i \in OrderId :
          (i[1] = "SQF" /\ ~Exists(i) /\ rows'[i].status # "NONE")
             => mem.status # "PENDING_FILL"]_vars

\* What the square-off tests say: a trade is not CLOSED "until SQF orders are
\* actually filled".
\* It does not hold: see the disagreements in the README.
ClosedHasNoLiveSqf ==
    mem.status = "CLOSED" =>
       \A i \in OrderId :
          i[1] = "SQF" => rows[i].status \notin {"OPEN", "PARTIALLY_FILLED"}

\* executeBuild builds as promised: no order of a chunk trades before the
\* chunks before it have, and DeployStraddle goes on to ACTIVE only when all
\* orders have traded, across retries, live orders left behind by errors,
\* restarts and every other request.
BuildPhase ==
    IF At(Deployer, "idle") THEN "idle"
    ELSE IF verdict = "ACTIVE" THEN "built"
    ELSE IF pc[Deployer] \in {"saveDb", "append", "execute", "record"}
    THEN "building" ELSE "failed"
Promise == INSTANCE BuildPromise
             WITH Orders <- BuildOrder, Chunk <- ChunkOf, phase <- BuildPhase,
                  traded <- {n \in BuildOrder :
                               fill[BuildTicket(n)] >= OrderQty}
KeepsPromise == Promise!Spec

\* Every handler that has started returns, if the gateway does not die.
HandlersFinish ==
    \A p \in Process : Running(p) ~> Finished(p)
=============================================================================
