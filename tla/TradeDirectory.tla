--------------------------- MODULE TradeDirectory ---------------------------
(***************************************************************************)
(* Several trades in one gateway: what the store of TradeStore, which      *)
(* follows one trade, does to trades that share its maps, its tables and   *)
(* the ids built from the clock.                                           *)
(*                                                                         *)
(* A caller sends one request at a time, and requests are numbered in the  *)
(* order they start:                                                       *)
(*   DEPLOY  DeployStraddle                                                *)
(*   CLOSE   SquareOff                                                     *)
(*   LIST    GetStraddles, GetActiveStraddles                              *)
(*   STATUS  TradeStatus                                                   *)
(*   ORDERS  GetOrders                                                     *)
(* All trades are of one user, broker, account and symbol, and one order   *)
(* of one lot stands for the two legs of a trade, which are treated alike. *)
(* What happens at the broker is ExecutionGateway's: here an order is      *)
(* filled, left open or rejected, or the call fails.                       *)
(***************************************************************************)
EXTENDS Integers, FiniteSets

CONSTANTS Caller,
          Strike,        \* the strikes trades are deployed at
          MaxChunkRetries,   \* attempts at a build order (3)
          Page,          \* LIMIT of the query of loadTradesFromDB (200)
          MaxSec,        \* bound: seconds that pass
          MaxRequests,   \* bound: requests made
          MaxRestarts,   \* bound: restarts of the gateway
          MaxLost        \* bound: statements the database fails

ASSUME DirectoryAssumption ==
    /\ {MaxChunkRetries, Page, MaxSec, MaxRequests, MaxRestarts, MaxLost} \subseteq Nat
    /\ Page > 0 /\ MaxChunkRetries > 0

Number == 1..MaxRequests

\* BuildTradeUID: everything that names the trade, and the second.
BuildTradeUID(strike, s) == <<strike, s>>
Uid == {BuildTradeUID(k, s) : k \in Strike, s \in 0..MaxSec}

\* A build order's id holds its trade's uid and a finer time stamp, which
\* the number of the request stands for.  BuildShortOrderUID makes the id of
\* a square-off order of the symbol, the leg and the second alone.
BuildId(n) == <<"BUI", n>>
BuildShortOrderUID(s) == <<"SQF", s>>
IntentId == {BuildId(n) : n \in Number}
              \cup {BuildShortOrderUID(s) : s \in 0..MaxSec}

\* by: the request that deployed the trade.
Trade == [by: Number,
          status: {"BUILDING", "ACTIVE", "PENDING_FILL", "FAILED",
                   "SQUARING_OFF", "CLOSED"}]
NoTrade == [by |-> 0, status |-> "NONE"]
\* A row is filled or not: CREATED, SUBMITTED, REJECTED... are one to the code
\* here.
Row == [trade: Uid, filled: BOOLEAN]
NoRow == [trade |-> <<>>, filled |-> FALSE]

VARIABLES
    trades, intents,   \* MemoryStore: the trades, and how often each order
                       \* is in the list kept for each trade
    db, orders,        \* the tables trades (its config) and orders
    req,               \* each caller's request
    count, sec, restarts, lost,
    shown,      \* history: trades that a finished request told of, in this
                \* life of the process
    sent,       \* history: how often an order was appended in this life
    raced,      \* history: trades cached while another caller was between
                \* reading and writing them, or whose statement was lost
    overlap     \* history: trades whose list of orders was added to while
                \* another caller was loading it

clockVars == <<count, sec, restarts>>
vars == <<trades, intents, db, orders, req, clockVars, lost, shown, sent,
          raced, overlap>>

\* num: a deployment's number; uid, tr, id: the trade, the StoredTrade in
\* hand and the order; tries: attempts made to build; batch: what was read
\* and is still to be cached; answer: what AllTrades will return; before:
\* shown when a listing began.
Idle == [pc |-> "idle", op |-> "NONE", num |-> 0, uid |-> <<>>,
         tr |-> NoTrade, id |-> <<>>, tries |-> 0, batch |-> {},
         answer |-> {}, before |-> {}]

PC == {"idle", "saveDb", "append", "insert", "execute", "update", "updateDb",
       "loadDb", "cache", "plan", "listDb", "listSave", "orders",
       "ordersDb", "ordersSave"}

\* Every variable holds a value of its kind; a request past its first step
\* has its trade, one with an order has the order's id, and a listing that
\* caches trades answers with those and with no more than one page.
TypeOK ==
    /\ trades \in [Uid -> Trade \cup {NoTrade}]
    /\ db \in [Uid -> Trade \cup {NoTrade}]
    /\ \A u \in Uid : intents[u] \in [IntentId -> Nat]
    /\ orders \in [IntentId -> Row \cup {NoRow}]
    /\ \A p \in Caller :
         LET r == req[p] IN
         /\ r.pc \in PC
         /\ r.op \in {"DEPLOY", "CLOSE", "STATUS", "ORDERS"} => r.uid \in Uid
         /\ r.pc \in {"append", "insert", "execute"} => r.id \in IntentId
         /\ r.pc \in {"saveDb", "update", "updateDb", "cache", "plan"}
              => r.tr \in Trade
         /\ r.tries \in 0..MaxChunkRetries
         /\ r.pc = "listSave" /\ r.batch # {} =>
              /\ {e[1] : e \in r.batch} \subseteq r.answer
              /\ Cardinality(r.answer) <= Page
         /\ r.answer \subseteq Uid /\ r.before \subseteq Uid
    /\ count \in 0..MaxRequests
    /\ sec \in 0..MaxSec
    /\ restarts \in 0..MaxRestarts
    /\ lost \in 0..MaxLost
    /\ sent \in [IntentId -> Nat]
    /\ shown \subseteq Uid /\ raced \subseteq Uid /\ overlap \subseteq Uid

NoTrades == [u \in Uid |-> NoTrade]
NoIntents == [u \in Uid |-> [i \in IntentId |-> 0]]

Init ==
    /\ trades = NoTrades /\ db = NoTrades
    /\ intents = NoIntents
    /\ orders = [i \in IntentId |-> NoRow]
    /\ req = [p \in Caller |-> Idle]
    /\ count = 0 /\ sec = 0 /\ restarts = 0 /\ lost = 0
    /\ shown = {} /\ raced = {} /\ overlap = {}
    /\ sent = [i \in IntentId |-> 0]

-----------------------------------------------------------------------------
(* The store *)

At(p, label) == req[p].pc = label
Goto(p, r, label) == req' = [req EXCEPT ![p] = [r EXCEPT !.pc = label]]

\* The request of p ends, having told its caller of the trades in told.
Finish(p, told) ==
    /\ req' = [req EXCEPT ![p] = Idle]
    /\ shown' = shown \cup told

Lose == lost < MaxLost /\ lost' = lost + 1

Known(m) == {u \in Uid : m[u] # NoTrade}

\* Caller q has found trade u missing in memory, holds a copy of it that is
\* not cached yet, or has written one half of the store.
HalfWay(q, u) ==
    \/ At(q, "listDb")
    \/ At(q, "listSave") /\ \E e \in req[q].batch : e[1] = u
    \/ req[q].pc \in {"loadDb", "cache", "saveDb", "updateDb"}
         /\ req[q].uid = u

\* MemoryStore.SaveTrade and UpdateTrade.
SaveInMemory(p, u, t) ==
    /\ trades' = [trades EXCEPT ![u] = t]
    /\ raced' = IF \E q \in Caller \ {p} : HalfWay(q, u)
                THEN raced \cup {u} ELSE raced

\* ON CONFLICT (trade_uid) DO UPDATE
InsertOnly(u, t) ==
    /\ db' = IF db[u] = NoTrade THEN [db EXCEPT ![u] = t] ELSE db
    /\ UNCHANGED <<lost, raced>>
upsertTrade(u, t) ==
    \/ db' = [db EXCEPT ![u] = t] /\ UNCHANGED <<lost, raced>>
    \/ Lose /\ raced' = raced \cup {u} /\ UNCHANGED db

\* MemoryStore.AppendIntent
AppendInMemory(p, u, i) ==
    /\ intents' = [intents EXCEPT ![u][i] = @ + 1]
    /\ overlap' = IF \E q \in Caller \ {p} :
                       /\ req[q].pc \in {"ordersDb", "ordersSave"}
                       /\ req[q].uid = u
                  THEN overlap \cup {u} ELSE overlap

-----------------------------------------------------------------------------
(* DEPLOY and CLOSE *)

Begin(p) ==
    /\ At(p, "idle")
    /\ count < MaxRequests
    /\ count' = count + 1
    /\ UNCHANGED <<sec, restarts>>

\* DeployStraddle up to the memory half of SaveTrade.
Deploy(p) ==
    /\ Begin(p)
    /\ \E strike \in Strike :
         LET u == BuildTradeUID(strike, sec)
             t == [by |-> count', status |-> "BUILDING"]
         IN  /\ SaveInMemory(p, u, t)
             /\ Goto(p, [Idle EXCEPT !.op = "DEPLOY", !.num = count',
                                     !.uid = u, !.tr = t,
                                     !.id = BuildId(count')], "saveDb")
    /\ UNCHANGED <<intents, db, orders, lost, shown, sent, overlap>>

SaveDb(p) ==
    /\ At(p, "saveDb")
    /\ upsertTrade(req[p].uid, req[p].tr)
    /\ Goto(p, req[p], "append")
    /\ UNCHANGED <<trades, intents, orders, clockVars, shown, sent, overlap>>

\* AppendIntent, first in memory.
Append(p) ==
    /\ At(p, "append")
    /\ AppendInMemory(p, req[p].uid, req[p].id)
    /\ sent' = [sent EXCEPT ![req[p].id] = @ + 1]
    /\ Goto(p, req[p], "insert")
    /\ UNCHANGED <<trades, db, orders, clockVars, lost, shown, raced>>

\* insertOrderIntent: ON CONFLICT (intent_id) DO NOTHING.  SquareOff then
\* writes the trade as SQUARING_OFF.
Insert(p) ==
    LET r == req[p] IN
    /\ At(p, "insert")
    /\ \/ /\ orders' = IF orders[r.id] # NoRow THEN orders
                       ELSE [orders EXCEPT ![r.id] =
                               [trade |-> r.uid, filled |-> FALSE]]
          /\ UNCHANGED lost
       \/ Lose /\ UNCHANGED orders
    /\ IF r.op = "DEPLOY"
       THEN Goto(p, r, "execute")
       ELSE Goto(p, [r EXCEPT !.tr.status = "SQUARING_OFF"], "update")
    /\ UNCHANGED <<trades, intents, db, clockVars, shown, sent, raced, overlap>>

\* ExecuteOrderIntent and MarkOrderExecution, which looks for the row by
\* intent_id alone.  executeBuild tries a rejected or failed order again and
\* gives up after MaxChunkRetries; SquareOff stops unless all is filled.
MarkOrderExecution(i, filled) ==
    \/ /\ orders' = IF orders[i] = NoRow THEN orders
                    ELSE [orders EXCEPT ![i].filled = filled]
       /\ UNCHANGED lost
    \/ Lose /\ UNCHANGED orders

NextTry(r) == [r EXCEPT !.tries = @ + 1]
Verdict(p, status) == Goto(p, [req[p] EXCEPT !.tr.status = status], "update")

\* executeBuild after an order was rejected or its call failed.
Retry(p) ==
    IF req[p].tries + 1 < MaxChunkRetries
    THEN Goto(p, NextTry(req[p]), "append")
    ELSE Verdict(p, "FAILED")

Execute(p) ==
    LET r == req[p] IN
    /\ At(p, "execute")
    /\ \/ \E status \in {"FILLED", "OPEN", "REJECTED"} :
            /\ MarkOrderExecution(r.id, status = "FILLED")
            /\ \/ /\ r.op = "DEPLOY"
                  /\ CASE status = "FILLED" -> Verdict(p, "ACTIVE")
                       [] status = "OPEN" -> Verdict(p, "PENDING_FILL")
                       [] OTHER -> Retry(p)
                  /\ UNCHANGED shown
               \/ /\ r.op = "CLOSE" /\ status = "FILLED"
                  /\ Verdict(p, "CLOSED")
                  /\ UNCHANGED shown
               \/ /\ r.op = "CLOSE" /\ status # "FILLED"
                  /\ Finish(p, {r.uid})
       \/ /\ UNCHANGED <<orders, lost>>
          /\ \/ r.op = "DEPLOY" /\ Retry(p) /\ UNCHANGED shown
             \/ r.op = "CLOSE" /\ Finish(p, {r.uid})
    /\ UNCHANGED <<trades, intents, db, clockVars, sent, raced, overlap>>

\* UpdateTrade, memory and then database.
Update(p) ==
    /\ At(p, "update")
    /\ SaveInMemory(p, req[p].uid, req[p].tr)
    /\ Goto(p, req[p], "updateDb")
    /\ UNCHANGED <<intents, db, orders, clockVars, lost, shown, sent, overlap>>

\* With live square-off off (ENABLE_LIVE_SQF_EXECUTION), SquareOff ends once
\* the orders are recorded.
UpdateDb(p) ==
    LET r == req[p] IN
    /\ At(p, "updateDb")
    /\ upsertTrade(r.uid, r.tr)
    /\ \/ Finish(p, {r.uid})
       \/ /\ r.tr.status = "SQUARING_OFF"
          /\ Goto(p, r, "execute")
          /\ UNCHANGED shown
    /\ UNCHANGED <<trades, intents, orders, clockVars, sent, overlap>>

\* The net quantity of the trade's filled rows.
Net(u) ==
    LET filled(kind) == {i \in IntentId : /\ i[1] = kind
                                          /\ orders[i].trade = u
                                          /\ orders[i].filled}
    IN  Cardinality(filled("BUI")) - Cardinality(filled("SQF"))

\* createSQFIntentsFromFilledNetPosition: without a position, or if the
\* query fails, SquareOff returns the error.
Plan(p) ==
    LET r == req[p] IN
    /\ At(p, "plan")
    /\ \/ /\ r.tr.status # "PENDING_FILL" /\ Net(r.uid) # 0
          /\ Goto(p, [r EXCEPT !.id = BuildShortOrderUID(sec)], "append")
          /\ UNCHANGED <<shown, lost>>
       \/ /\ r.tr.status = "PENDING_FILL" \/ Net(r.uid) = 0
          /\ Finish(p, {r.uid})
          /\ UNCHANGED lost
       \/ r.tr.status # "PENDING_FILL" /\ Lose /\ Finish(p, {r.uid})
    /\ UNCHANGED <<trades, intents, db, orders, clockVars, sent, raced, overlap>>

-----------------------------------------------------------------------------
(* Reading: LoadTrade, AllTrades, LoadIntents *)

AfterLoad(p, r, t) ==
    IF r.op = "CLOSE" THEN Goto(p, [r EXCEPT !.tr = t], "plan")
    ELSE Goto(p, r, "orders")

\* LoadTrade, for a request on one trade; the uid is one that a caller was
\* given.
LoadTrade(p) ==
    /\ Begin(p)
    /\ \E u \in Known(trades) \cup Known(db), o \in {"CLOSE", "STATUS"} :
         LET r == [Idle EXCEPT !.op = o, !.uid = u] IN
         IF trades[u] # NoTrade THEN AfterLoad(p, r, trades[u])
         ELSE Goto(p, r, "loadDb")
    /\ UNCHANGED <<trades, intents, db, orders, lost, shown, sent, raced, overlap>>

loadTradeFromDB(p) ==
    LET t == db[req[p].uid] IN
    /\ At(p, "loadDb")
    /\ \/ /\ t # NoTrade
          /\ Goto(p, [req[p] EXCEPT !.tr = t], "cache")
          /\ UNCHANGED <<lost, shown>>
       \/ t = NoTrade /\ Finish(p, {}) /\ UNCHANGED lost
       \/ Lose /\ Finish(p, {})
    /\ UNCHANGED <<trades, intents, db, orders, clockVars, sent, raced, overlap>>

Cache(p) ==
    /\ At(p, "cache")
    /\ SaveInMemory(p, req[p].uid, req[p].tr)
    /\ AfterLoad(p, req[p], req[p].tr)
    /\ UNCHANGED <<intents, db, orders, clockVars, lost, shown, sent, overlap>>

\* AllTrades: what memory holds, if it holds any trade at all.
AllTrades(p) ==
    /\ Begin(p)
    /\ \/ /\ Known(trades) # {}
          /\ Goto(p, [Idle EXCEPT !.op = "LIST", !.answer = Known(trades),
                                  !.before = shown], "listSave")
       \/ /\ Known(trades) = {}
          /\ Goto(p, [Idle EXCEPT !.op = "LIST", !.before = shown], "listDb")
    /\ UNCHANGED <<trades, intents, db, orders, lost, shown, sent, raced, overlap>>

\* ORDER BY created_at DESC LIMIT Page: all trades, or a full page of them.
NoLimit(S) == {S}
Newest(S) ==
    {T \in SUBSET S :
       /\ Cardinality(T) <= Page
       /\ T # S => Cardinality(T) = Page
       /\ \A u \in T, v \in S \ T : u[2] >= v[2]}

loadTradesFromDB(p) ==
    /\ At(p, "listDb")
    /\ \/ /\ \E T \in Newest(Known(db)) :
               Goto(p, [req[p] EXCEPT !.batch = {<<u, db[u]>> : u \in T},
                                      !.answer = T], "listSave")
          /\ UNCHANGED lost
       \/ Lose /\ Goto(p, req[p], "listSave")
    /\ UNCHANGED <<trades, intents, db, orders, clockVars, shown, sent,
                   raced, overlap>>

ListDrop(p) ==
    /\ At(p, "listSave")
    /\ \E e \in req[p].batch :
         Goto(p, [req[p] EXCEPT !.batch = @ \ {e}], "listSave")
    /\ UNCHANGED <<trades, intents, db, orders, clockVars, lost, shown, sent,
                   raced, overlap>>
ListSave(p) ==
    /\ At(p, "listSave")
    /\ \E e \in req[p].batch :
         /\ SaveInMemory(p, e[1], e[2])
         /\ Goto(p, [req[p] EXCEPT !.batch = @ \ {e}], "listSave")
    /\ UNCHANGED <<intents, db, orders, clockVars, lost, shown, sent, overlap>>

ListAnswer(p) ==
    /\ At(p, "listSave") /\ req[p].batch = {}
    /\ Finish(p, req[p].answer)
    /\ UNCHANGED <<trades, intents, db, orders, clockVars, lost, sent, raced,
                   overlap>>

OpenOrders(p) ==
    /\ Begin(p)
    /\ \E u \in Known(trades) \cup Known(db) :
         Goto(p, [Idle EXCEPT !.op = "ORDERS", !.uid = u], "orders")
    /\ UNCHANGED <<trades, intents, db, orders, lost, shown, sent, raced, overlap>>

\* TradeStatus told of its trade, GetOrders of no trade.
ToldOf(r) == IF r.op = "STATUS" THEN {r.uid} ELSE {}

\* LoadIntents: the list in memory unless it is empty.
AlwaysLoad(p) ==
    /\ At(p, "orders")
    /\ Goto(p, req[p], "ordersDb")
    /\ UNCHANGED <<trades, intents, db, orders, clockVars, lost, shown, sent,
                   raced, overlap>>
LoadIntents(p) ==
    LET r == req[p] IN
    /\ At(p, "orders")
    /\ IF \E i \in IntentId : intents[r.uid][i] > 0
       THEN Finish(p, ToldOf(r))
       ELSE Goto(p, r, "ordersDb") /\ UNCHANGED shown
    /\ UNCHANGED <<trades, intents, db, orders, clockVars, lost, sent, raced,
                   overlap>>

loadIntentsFromDB(p) ==
    LET mine == {i \in IntentId : orders[i].trade = req[p].uid} IN
    /\ At(p, "ordersDb")
    /\ \/ Goto(p, [req[p] EXCEPT !.batch = mine], "ordersSave")
            /\ UNCHANGED lost
       \/ Lose /\ Goto(p, req[p], "ordersSave")
    /\ UNCHANGED <<trades, intents, db, orders, clockVars, shown, sent, raced,
                   overlap>>

OrdersSave(p) ==
    /\ At(p, "ordersSave")
    /\ \E i \in req[p].batch :
         /\ AppendInMemory(p, req[p].uid, i)
         /\ Goto(p, [req[p] EXCEPT !.batch = @ \ {i}], "ordersSave")
    /\ UNCHANGED <<trades, db, orders, clockVars, lost, shown, sent, raced>>

OrdersAnswer(p) ==
    /\ At(p, "ordersSave") /\ req[p].batch = {}
    /\ Finish(p, ToldOf(req[p]))
    /\ UNCHANGED <<trades, intents, db, orders, clockVars, lost, sent, raced,
                   overlap>>

-----------------------------------------------------------------------------
(* The clock, and a restart of the gateway, which ends every request *)

Tick ==
    /\ sec < MaxSec
    /\ sec' = sec + 1
    /\ UNCHANGED <<trades, intents, db, orders, req, count, restarts, lost,
                   shown, sent, raced, overlap>>

Restart ==
    /\ restarts < MaxRestarts
    /\ restarts' = restarts + 1
    /\ trades' = NoTrades
    /\ intents' = NoIntents
    /\ req' = [p \in Caller |-> Idle]
    /\ shown' = {} /\ raced' = {} /\ overlap' = {}
    /\ sent' = [i \in IntentId |-> 0]
    /\ UNCHANGED <<db, orders, count, sec, lost>>

Next ==
    \/ \E p \in Caller :
         \/ Deploy(p) \/ SaveDb(p) \/ Append(p) \/ Insert(p)
         \/ Execute(p) \/ Update(p) \/ UpdateDb(p) \/ Plan(p)
         \/  LoadTrade(p) \/ loadTradeFromDB(p) \/ Cache(p)
         \/ AllTrades(p) \/ loadTradesFromDB(p) \/ ListSave(p)
         \/ ListAnswer(p)
         \/ OpenOrders(p) \/ LoadIntents(p) \/ loadIntentsFromDB(p)
         \/ OrdersSave(p) \/ OrdersAnswer(p)
    \/ Tick
    \/ Restart

Spec == Init /\ [][Next]_vars

-----------------------------------------------------------------------------
(* Properties *)

\* AllTrades reads as a directory: in one life of the gateway a listing never
\* omits a trade that a request finished before the listing began had
\* created, loaded or listed.  (It does omit trades of an earlier life: one
\* LoadTrade after a restart makes memory non-empty and hides the others.)
MonotoneListing ==
    \A p \in Caller : At(p, "listSave") => req[p].before \subseteq req[p].answer

\* The trade in memory is the trade in the database, for every trade that no
\* caller is half way through reading or writing: the two part only through
\* a lost statement, or when one caller cached the trade while another was
\* between reading it and writing it.
CacheCurrent ==
    \A u \in Known(trades) :
      \/ trades[u] = db[u]
      \/ u \in raced
      \/ \E p \in Caller : HalfWay(p, u)

\* LoadIntents lists an order once for every AppendIntent, and once more if
\* the process began with the order in the table: it lists it more often
\* only after two callers added to one trade's list, one of them loading it.
NoExtraIntent ==
    \A u \in Uid \ overlap, i \in IntentId :
      intents[u][i] <= sent[i] + (IF restarts > 0 THEN 1 ELSE 0)

\* The row MarkOrderExecution will update is the row of the order it marks:
\* "intent_id remains the primary idempotency key for platform orders".
\* It does not hold: see the disagreements in the README.
MarksOwnRow ==
    \A p \in Caller :
      At(p, "execute") /\ orders[req[p].id] # NoRow
        => orders[req[p].id].trade = req[p].uid

\* A row of trades "represents a single, unique trade instance": a deployment
\* that is about to write its result finds its own trade under its uid.
\* It does not hold: see the disagreements in the README.
OwnTrade ==
    \A p \in Caller :
      At(p, "update") /\ req[p].op = "DEPLOY"
        => trades[req[p].uid].by = req[p].num
=============================================================================
