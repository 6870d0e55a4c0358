--------------------------- MODULE DirectoryProofs ---------------------------
(***************************************************************************)
(* What the store of the gateway promises about several trades, for any    *)
(* number of callers, strikes, requests, restarts and lost statements.     *)
(***************************************************************************)
EXTENDS TradeDirectory, TLAPS

-----------------------------------------------------------------------------
(* Types, and what a request holds at each step *)

Op == {"NONE", "DEPLOY", "CLOSE", "LIST", "STATUS", "ORDERS"}

Req == [pc: PC, op: Op,
        num: 0..MaxRequests, uid: Uid \cup {<<>>}, tr: Trade \cup {NoTrade},
        id: IntentId \cup {<<>>}, tries: 0..MaxChunkRetries,
        batch: SUBSET ((Uid \X Trade) \cup IntentId),
        answer: SUBSET Uid, before: SUBSET Uid]

\* Steps at which a request has a trade in hand.
InHand == {"saveDb", "append", "insert", "execute", "update", "updateDb",
           "cache", "plan"}
Reading == {"orders", "ordersDb", "ordersSave"}

\* The page of trades that a listing has still to cache.
PageOK(r) ==
    /\ r.batch \subseteq Uid \X Trade
    /\ \A e, f \in r.batch : e[1] = f[1] => e = f
    /\ r.batch # {} => /\ {e[1] : e \in r.batch} \subseteq r.answer
                       /\ Cardinality(r.answer) <= Page

\* What a request holds at step l.
Fits(r, l) ==
    /\ r.op = "LIST" <=> l \in {"listDb", "listSave"}
    /\ r.op # "NONE"
    /\ r.op \in {"DEPLOY", "CLOSE", "STATUS", "ORDERS"} => r.uid \in Uid
    /\ l \in InHand \ {"cache", "plan"} => r.id \in IntentId
    /\ l \in InHand => r.tr \in Trade
    /\ l \in InHand \ {"cache"} => r.op \in {"DEPLOY", "CLOSE"}
    /\ l \in {"cache", "loadDb"} => r.op \in {"CLOSE", "STATUS"}
    /\ l \in Reading => r.op \in {"STATUS", "ORDERS"}
    /\ l \notin {"listSave", "ordersSave"} => r.batch = {}
    /\ l = "listSave" => PageOK(r)
    /\ l = "ordersSave" => r.batch \subseteq IntentId

Shape(r) == IF r.pc = "idle" THEN r = Idle ELSE Fits(r, r.pc)

Data ==
    /\ trades \in [Uid -> Trade \cup {NoTrade}]
    /\ db \in [Uid -> Trade \cup {NoTrade}]
    /\ intents \in [Uid -> [IntentId -> Nat]]
    /\ orders \in [IntentId -> Row \cup {NoRow}]
    /\ count \in 0..MaxRequests
    /\ sec \in 0..MaxSec
    /\ restarts \in 0..MaxRestarts
    /\ lost \in 0..MaxLost
    /\ sent \in [IntentId -> Nat]
    /\ shown \subseteq Uid /\ raced \subseteq Uid /\ overlap \subseteq Uid

Types == Data /\ req \in [Caller -> Req]

TypeInv == Types /\ \A p \in Caller : Shape(req[p])

-----------------------------------------------------------------------------
(* Listings: what a finished request told of stays in memory *)

\* A request that can tell of its trade without another look at memory.
Holds(r) ==
    \/ r.pc \in InHand \ {"cache"}
    \/ r.op = "STATUS" /\ r.pc \in Reading

ListOK(r) ==
    /\ Holds(r) => r.uid \in Known(trades)
    /\ r.pc = "listDb" => r.before = {} /\ r.answer = {}
    /\ r.pc = "listSave" =>
         /\ r.before \subseteq r.answer
         /\ r.answer \subseteq Known(trades) \cup {e[1] : e \in r.batch}

ListInv == shown \subseteq Known(trades) /\ \A p \in Caller : ListOK(req[p])

-----------------------------------------------------------------------------
(* The cache: a caller half way through a trade knows how it stands *)

\* Unless the trade was raced for: a writer's trade is the one in memory, and
\* a trade that was read for the cache is the stored one, memory still being
\* without it.
CacheOK(r) ==
    /\ r.pc \in {"saveDb", "updateDb"} =>
         trades[r.uid] = r.tr \/ r.uid \in raced
    /\ r.pc \in {"loadDb", "cache"} =>
         trades[r.uid] = NoTrade \/ r.uid \in raced
    /\ r.pc = "cache" => r.tr = db[r.uid] \/ r.uid \in raced
    /\ r.pc = "listDb" => \A u \in Uid : trades[u] = NoTrade \/ u \in raced
    /\ r.pc = "listSave" => \A e \in r.batch :
         e[1] \in raced \/ (trades[e[1]] = NoTrade /\ e[2] = db[e[1]])

CacheInv == CacheCurrent /\ \A p \in Caller : CacheOK(req[p])

-----------------------------------------------------------------------------
(* The lists of orders *)

FromTable(i) == sent[i] > 0 \/ restarts > 0

\* Unless two callers overlap: the list a caller loads is empty but for what
\* this caller has added, and what it adds was appended in this life or was
\* in the table when it began.
LoadOK(r) ==
    /\ r.pc = "insert" => sent[r.id] > 0
    /\ r.pc = "ordersDb" =>
         r.uid \in overlap \/ \A i \in IntentId : intents[r.uid][i] = 0
    /\ r.pc = "ordersSave" => \A i \in r.batch :
         FromTable(i) /\ (r.uid \in overlap \/ intents[r.uid][i] = 0)

OrdersInv ==
    /\ NoExtraIntent
    /\ \A i \in IntentId : orders[i] # NoRow => FromTable(i)
    /\ \A p \in Caller : LoadOK(req[p])

DirectoryInv == TypeInv /\ ListInv /\ CacheInv /\ OrdersInv

-----------------------------------------------------------------------------
(* Type correctness *)

\* Numbers, uids and ids.
LEMMA Names ==
    /\ <<>> \notin Uid /\ <<>> \notin IntentId
    /\ NoTrade \notin Trade /\ NoRow \notin Row
    /\ \A s \in 0..MaxSec :
         /\ BuildShortOrderUID(s) \in IntentId
         /\ \A k \in Strike : BuildTradeUID(k, s) \in Uid
    /\ \A n \in Number : BuildId(n) \in IntentId
<1>1. <<>> \notin Uid /\ <<>> \notin IntentId
  BY DEF Uid, IntentId, BuildTradeUID, BuildId, BuildShortOrderUID
<1>2. NoTrade \notin Trade
  BY DirectoryAssumption, Zenon DEF NoTrade, Trade, Number
<1>3. NoRow \notin Row
  BY <1>1, Zenon DEF NoRow, Row
<1> QED
  BY <1>1, <1>2, <1>3 DEF Uid, IntentId

\* The query of loadTradesFromDB returns at most a page, each uid once.
LEMMA NewestPage ==
    ASSUME Data, NEW T \in Newest(Known(db))
    PROVE  LET B == {<<u, db[u]>> : u \in T} IN
           /\ T \subseteq Uid /\ Cardinality(T) <= Page
           /\ B \subseteq Uid \X Trade
           /\ \A e, f \in B : e[1] = f[1] => e = f
           /\ {e[1] : e \in B} \subseteq T
<1>1. T \subseteq Uid /\ Cardinality(T) <= Page /\ \A u \in T : db[u] \in Trade
  BY Zenon DEF Known, Newest, Data
<1> QED
  BY <1>1

LEMMA IdleType == Idle \in Req /\ Shape(Idle)
BY DirectoryAssumption DEF Idle, Req, Op, Shape, PC

\* A request stays one when a field is replaced by a value of its kind.
LEMMA Fields ==
    ASSUME NEW r \in Req
    PROVE  /\ \A x \in PC : [r EXCEPT !.pc = x] \in Req
           /\ \A x \in Op : [r EXCEPT !.op = x] \in Req
           /\ \A x \in 0..MaxRequests : [r EXCEPT !.num = x] \in Req
           /\ \A x \in Uid : [r EXCEPT !.uid = x] \in Req
           /\ \A x \in Trade : [r EXCEPT !.tr = x] \in Req
           /\ \A x \in IntentId : [r EXCEPT !.id = x] \in Req
           /\ \A x \in 0..MaxChunkRetries : [r EXCEPT !.tries = x] \in Req
           /\ \A x \in SUBSET (Uid \X Trade) : [r EXCEPT !.batch = x] \in Req
           /\ \A x \in SUBSET IntentId : [r EXCEPT !.batch = x] \in Req
           /\ \A x \in SUBSET Uid : [r EXCEPT !.answer = x] \in Req
           /\ \A x \in SUBSET Uid : [r EXCEPT !.before = x] \in Req
<1>1. \A x \in PC : [r EXCEPT !.pc = x] \in Req  BY Zenon DEF Req
<1>2. \A x \in Op : [r EXCEPT !.op = x] \in Req  BY Zenon DEF Req
<1>3. \A x \in 0..MaxRequests : [r EXCEPT !.num = x] \in Req  BY Zenon DEF Req
<1>4. \A x \in Uid : [r EXCEPT !.uid = x] \in Req  BY Zenon DEF Req
<1>5. \A x \in Trade : [r EXCEPT !.tr = x] \in Req  BY Zenon DEF Req
<1>6. \A x \in IntentId : [r EXCEPT !.id = x] \in Req  BY Zenon DEF Req
<1>7. \A x \in 0..MaxChunkRetries : [r EXCEPT !.tries = x] \in Req  BY Zenon DEF Req
<1>8. \A x \in SUBSET (Uid \X Trade) : [r EXCEPT !.batch = x] \in Req  BY Zenon DEF Req
<1>9. \A x \in SUBSET IntentId : [r EXCEPT !.batch = x] \in Req  BY Zenon DEF Req
<1>10. \A x \in SUBSET Uid : [r EXCEPT !.answer = x] \in Req  BY Zenon DEF Req
<1>11. \A x \in SUBSET Uid : [r EXCEPT !.before = x] \in Req  BY Zenon DEF Req
<1> QED
  BY <1>1, <1>2, <1>3, <1>4, <1>5, <1>6, <1>7, <1>8, <1>9, <1>10, <1>11, Zenon

-----------------------------------------------------------------------------
(* What the steps do to the request of their caller *)

\* n is r but for where it stands, and for what no invariant speaks of.
Same(n, r) ==
    /\ n.op = r.op /\ n.uid = r.uid /\ n.tr = r.tr /\ n.id = r.id
    /\ n.batch = r.batch /\ n.answer = r.answer /\ n.before = r.before

\* The request of p is replaced by one of the right shape.
Moved(p) ==
    /\ req' = [req EXCEPT ![p] = req'[p]]
    /\ req'[p] \in Req /\ Shape(req'[p])

Status == {"BUILDING", "ACTIVE", "PENDING_FILL", "FAILED", "SQUARING_OFF", "CLOSED"}

LEMMA GotoEffect ==
    ASSUME TypeInv, NEW p \in Caller, NEW r \in Req, NEW l \in PC \ {"idle"},
           Goto(p, r, l), Fits(r, l)
    PROVE  Moved(p) /\ req'[p].pc = l /\ Same(req'[p], r)
<1> DEFINE m == [r EXCEPT !.pc = l]
<1> m \in Req
  BY Fields, Zenon
<1> m.pc = l /\ Same(m, r)
  BY Zenon DEF Same, Req
<1> req' = [req EXCEPT ![p] = m] /\ req'[p] = m
  BY Zenon DEF Goto, TypeInv, Types
<1> HIDE DEF m
<1> QED
  BY Zenon DEF Moved, Shape, Fits, Same, PageOK

LEMMA FinishEffect ==
    ASSUME TypeInv, NEW p \in Caller, NEW S, Finish(p, S)
    PROVE  Moved(p) /\ req'[p] = Idle /\ shown' = shown \cup S
BY IdleType, Zenon DEF Finish, TypeInv, Types, Moved

\* The trade in hand is replaced, or its status, or the order's id.
LEMMA InHandEffect ==
    ASSUME NEW r \in Req
    PROVE  /\ \A t \in Trade : LET n == [r EXCEPT !.tr = t] IN
                /\ n \in Req /\ n.op = r.op /\ n.uid = r.uid /\ n.id = r.id
                /\ n.tr = t /\ n.batch = r.batch
           /\ \A st \in Status : r.tr \in Trade =>
                LET n == [r EXCEPT !.tr.status = st] IN
                /\ n \in Req /\ n.op = r.op /\ n.uid = r.uid /\ n.id = r.id
                /\ n.tr \in Trade /\ n.batch = r.batch
           /\ \A i \in IntentId : LET n == [r EXCEPT !.id = i] IN
                /\ n \in Req /\ n.op = r.op /\ n.uid = r.uid /\ n.id = i
                /\ n.tr = r.tr /\ n.batch = r.batch
<1>1. ASSUME NEW t \in Trade
      PROVE  LET n == [r EXCEPT !.tr = t] IN
             /\ n \in Req /\ n.op = r.op /\ n.uid = r.uid /\ n.id = r.id
             /\ n.tr = t /\ n.batch = r.batch
  <2> [r EXCEPT !.tr = t] \in Req
    BY Fields, Zenon
  <2> QED
    BY Zenon DEF Req
<1>2. ASSUME NEW st \in Status, r.tr \in Trade
      PROVE  /\ [r.tr EXCEPT !.status = st] \in Trade
             /\ [r EXCEPT !.tr.status = st] = [r EXCEPT !.tr = [r.tr EXCEPT !.status = st]]
  BY <1>2, Zenon DEF Trade, Status
<1>3. ASSUME NEW i \in IntentId
      PROVE  LET n == [r EXCEPT !.id = i] IN
             /\ n \in Req /\ n.op = r.op /\ n.uid = r.uid /\ n.id = i
             /\ n.tr = r.tr /\ n.batch = r.batch
  <2> [r EXCEPT !.id = i] \in Req
    BY Fields, Zenon
  <2> QED
    BY Zenon DEF Req
<1> QED
  BY <1>1, <1>2, <1>3, Zenon

\* DeployStraddle begins.
LEMMA DeployEffect ==
    ASSUME TypeInv, NEW p \in Caller, Deploy(p)
    PROVE  LET n == req'[p] IN
           /\ req[p] = Idle /\ Moved(p) /\ n.pc = "saveDb"
           /\ n.uid \in Uid /\ n.tr \in Trade /\ SaveInMemory(p, n.uid, n.tr)
<1> req[p] = Idle
  BY Zenon DEF TypeInv, Types, Deploy, Begin, At, Shape
<1> count' \in Number
  BY DirectoryAssumption DEF TypeInv, Types, Data, Deploy, Begin, Number
<1>1. PICK strike \in Strike :
         LET u == BuildTradeUID(strike, sec)
             t == [by |-> count', status |-> "BUILDING"]
         IN  /\ SaveInMemory(p, u, t)
             /\ Goto(p, [Idle EXCEPT !.op = "DEPLOY", !.num = count',
                                     !.uid = u, !.tr = t,
                                     !.id = BuildId(count')], "saveDb")
  BY Zenon DEF Deploy
<1> DEFINE u == BuildTradeUID(strike, sec)
           t == [by |-> count', status |-> "BUILDING"]
           i == BuildId(count')
           r == [Idle EXCEPT !.op = "DEPLOY", !.num = count', !.uid = u, !.tr = t,
                             !.id = i]
<1> u \in Uid /\ t \in Trade /\ i \in IntentId /\ count' \in 0..MaxRequests
  BY Names DEF Trade, TypeInv, Types, Data, Number
<1> SaveInMemory(p, u, t) /\ Goto(p, r, "saveDb")
  BY <1>1, Zenon
<1> HIDE DEF u, t, i
<1> r \in Req
  BY IdleType, Fields, Zenon DEF Op
<1> r.op = "DEPLOY" /\ r.uid = u /\ r.tr = t /\ r.id = i /\ r.batch = {}
  BY Zenon DEF Idle
<1> HIDE DEF r
<1> Fits(r, "saveDb")
  BY Zenon DEF Fits, InHand, Reading
<1> QED
  BY GotoEffect, Zenon DEF PC, Same

\* The steps of an order that move a request on as it is.
LEMMA OnwardEffect ==
    ASSUME TypeInv, NEW p \in Caller
    PROVE  LET n == req'[p]
               r == req[p] IN
           /\ SaveDb(p) => Moved(p) /\ n.pc = "append" /\ Same(n, r)
           /\ Append(p) => Moved(p) /\ n.pc = "insert" /\ Same(n, r)
           /\ Update(p) => Moved(p) /\ n.pc = "updateDb" /\ Same(n, r)
<1> DEFINE r == req[p]
<1> r \in Req /\ Shape(r)
  BY Zenon DEF TypeInv, Types
<1>1. /\ SaveDb(p) => Goto(p, r, "append") /\ Fits(r, "append")
      /\ Append(p) => Goto(p, r, "insert") /\ Fits(r, "insert")
      /\ Update(p) => Goto(p, r, "updateDb") /\ Fits(r, "updateDb")
  BY Zenon DEF SaveDb, Append, Update, At, Shape, Fits, InHand, Reading
<1> QED
  BY <1>1, GotoEffect, Zenon DEF PC

\* executeBuild and SquareOff write their result, or try again.
LEMMA VerdictEffect ==
    ASSUME TypeInv, NEW p \in Caller, req[p].pc = "execute",
           \/ \E st \in Status : Verdict(p, st)
           \/ req[p].op = "DEPLOY" /\ Retry(p)
    PROVE  Moved(p) /\ req'[p].pc \in {"update", "append"} /\ req'[p].uid = req[p].uid
<1> DEFINE r == req[p]
<1> r \in Req /\ Shape(r) /\ Fits(r, "execute") /\ r.tr \in Trade
  BY Zenon DEF TypeInv, Types, Shape, Fits, InHand
<1>1. ASSUME NEW st \in Status, Verdict(p, st)
      PROVE  Moved(p) /\ req'[p].pc = "update" /\ req'[p].uid = r.uid
  <2> DEFINE m == [r EXCEPT !.tr.status = st]
  <2> /\ m \in Req /\ m.op = r.op /\ m.uid = r.uid /\ m.id = r.id
      /\ m.tr \in Trade /\ m.batch = r.batch
    BY InHandEffect, Zenon
  <2> Goto(p, m, "update")
    BY <1>1, Zenon DEF Verdict
  <2> HIDE DEF m
  <2> Fits(m, "update")
    BY Zenon DEF Fits, InHand, Reading
  <2> QED
    BY GotoEffect, Zenon DEF PC, Same
<1>2. ASSUME Retry(p), r.tries + 1 < MaxChunkRetries
      PROVE  Moved(p) /\ req'[p].pc = "append" /\ req'[p].uid = r.uid
  <2> DEFINE k == r.tries + 1
             m == [r EXCEPT !.tries = k]
  <2> k \in 0..MaxChunkRetries
    BY <1>2, DirectoryAssumption DEF Req
  <2> Goto(p, m, "append")
    BY <1>2, Zenon DEF Retry, NextTry
  <2> HIDE DEF k
  <2> m \in Req
    BY Fields, Zenon
  <2> Same(m, r)
    BY Zenon DEF Same, Req
  <2> HIDE DEF m
  <2> Fits(m, "append")
    BY Zenon DEF Fits, Same, InHand, Reading
  <2> QED
    BY GotoEffect, Zenon DEF PC, Same
<1> QED
  BY <1>1, <1>2, Zenon DEF Retry, Status

\* The steps of an order: the request goes on about its trade, or ends and
\* tells of it.
LEMMA OrderEffect ==
    ASSUME TypeInv, NEW p \in Caller,
           SaveDb(p) \/ Append(p) \/ Insert(p) \/ Execute(p) \/ Update(p) \/ UpdateDb(p)
             \/ Plan(p)
    PROVE  LET n == req'[p]
               r == req[p] IN
           /\ Moved(p) /\ r.pc \in InHand \ {"cache"} /\ r.uid \in Uid /\ r.tr \in Trade
           /\ \/ /\ n = Idle /\ shown' = shown \cup {r.uid}
                 /\ Execute(p) \/ UpdateDb(p) \/ Plan(p)
              \/ /\ n.uid = r.uid /\ shown' = shown
                 /\ \/ SaveDb(p) /\ n.pc = "append"
                    \/ Append(p) /\ n.pc = "insert" /\ n.id = r.id
                    \/ Insert(p) /\ n.pc \in {"execute", "update"}
                    \/ Execute(p) /\ n.pc \in {"update", "append"}
                    \/ Update(p) /\ n.pc = "updateDb" /\ n.tr = r.tr
                    \/ UpdateDb(p) /\ n.pc = "execute"
                    \/ Plan(p) /\ n.pc = "append"
<1> DEFINE n == req'[p]
           r == req[p]
<1> r \in Req /\ Shape(r)
  BY Zenon DEF TypeInv, Types
<1>0. /\ r.pc \in InHand \ {"cache"} /\ Fits(r, r.pc)
      /\ r.uid \in Uid /\ r.tr \in Trade /\ r.op \in {"DEPLOY", "CLOSE"}
  BY Zenon DEF SaveDb, Append, Insert, Execute, Update, UpdateDb, Plan, At, Shape, Fits, InHand
<1>1. CASE SaveDb(p) \/ Append(p) \/ Update(p)
  <2> shown' = shown
    BY <1>1, Zenon DEF SaveDb, Append, Update
  <2> QED
    BY <1>0, <1>1, OnwardEffect, Zenon DEF Same
<1>2. CASE Insert(p)
  <2> DEFINE m == [r EXCEPT !.tr.status = "SQUARING_OFF"]
  <2>1. Goto(p, r, "execute") \/ Goto(p, m, "update")
    BY <1>2, Zenon DEF Insert
  <2>2. r.pc = "insert" /\ shown' = shown
    BY <1>2, Zenon DEF Insert, At
  <2> /\ m \in Req /\ m.op = r.op /\ m.uid = r.uid /\ m.id = r.id
      /\ m.tr \in Trade /\ m.batch = r.batch
    BY <1>0, InHandEffect, Zenon DEF Status
  <2> HIDE DEF m
  <2> Fits(r, "execute") /\ Fits(m, "update")
    BY <1>0, <2>2, Zenon DEF Fits, InHand, Reading
  <2> QED
    BY <1>0, <1>2, <2>1, <2>2, GotoEffect, Zenon DEF PC, Same
<1>3. CASE Execute(p)
  <2> r.pc = "execute"
    BY <1>3, Zenon DEF Execute, At
  <2>1. \/ /\ \/ \E st \in Status : Verdict(p, st)
              \/ r.op = "DEPLOY" /\ Retry(p)
           /\ shown' = shown
        \/ Finish(p, {r.uid})
    BY <1>3, Zenon DEF Execute, Status
  <2> QED
    BY <1>0, <1>3, <2>1, VerdictEffect, FinishEffect, Zenon
<1>4. CASE UpdateDb(p)
  <2>1. \/ Finish(p, {r.uid})
        \/ Goto(p, r, "execute") /\ Fits(r, "execute") /\ shown' = shown
    BY <1>0, <1>4, Zenon DEF UpdateDb, At, Fits, InHand, Reading
  <2> QED
    BY <1>0, <1>4, <2>1, GotoEffect, FinishEffect, Zenon DEF PC, Same
<1>5. CASE Plan(p)
  <2> DEFINE i == BuildShortOrderUID(sec)
             m == [r EXCEPT !.id = i]
  <2> i \in IntentId
    BY Names, Zenon DEF TypeInv, Types, Data
  <2>1. Finish(p, {r.uid}) \/ (Goto(p, m, "append") /\ shown' = shown)
    BY <1>5, Zenon DEF Plan
  <2> HIDE DEF i
  <2> /\ m \in Req /\ m.op = r.op /\ m.uid = r.uid /\ m.id = i
      /\ m.tr = r.tr /\ m.batch = r.batch
    BY InHandEffect, Zenon
  <2> HIDE DEF m
  <2> Fits(m, "append")
    BY <1>0, <1>5, Zenon DEF Plan, At, Fits, InHand, Reading
  <2> QED
    BY <1>0, <1>5, <2>1, GotoEffect, FinishEffect, Zenon DEF PC, Same
<1> QED
  BY <1>1, <1>2, <1>3, <1>4, <1>5, Zenon

\* A trade has been found, for SquareOff or for TradeStatus.
LEMMA AfterLoadEffect ==
    ASSUME TypeInv, NEW p \in Caller, NEW r \in Req, NEW t \in Trade,
           r.op \in {"CLOSE", "STATUS"}, r.uid \in Uid, r.batch = {},
           AfterLoad(p, r, t)
    PROVE  LET n == req'[p] IN
           /\ Moved(p) /\ n.op = r.op /\ n.uid = r.uid
           /\ n.pc = IF r.op = "CLOSE" THEN "plan" ELSE "orders"
<1> DEFINE m == [r EXCEPT !.tr = t]
<1> /\ m \in Req /\ m.op = r.op /\ m.uid = r.uid /\ m.tr = t /\ m.batch = r.batch
  BY InHandEffect, Zenon
<1>1. \/ r.op = "CLOSE" /\ Goto(p, m, "plan")
      \/ r.op = "STATUS" /\ Goto(p, r, "orders")
  BY Zenon DEF AfterLoad
<1> HIDE DEF m
<1>2. r.op = "CLOSE" => Fits(m, "plan")
  BY Zenon DEF Fits, InHand, Reading
<1>3. r.op = "STATUS" => Fits(r, "orders")
  BY Zenon DEF Fits, InHand, Reading
<1> QED
  BY <1>1, <1>2, <1>3, GotoEffect, Zenon DEF PC, Same

\* A request on one trade begins.
LEMMA LoadTradeEffect ==
    ASSUME TypeInv, NEW p \in Caller, LoadTrade(p)
    PROVE  LET n == req'[p] IN
           /\ req[p] = Idle /\ Moved(p) /\ n.op \in {"CLOSE", "STATUS"} /\ n.uid \in Uid
           /\ \/ trades[n.uid] # NoTrade /\ n.pc \in {"plan", "orders"}
              \/ trades[n.uid] = NoTrade /\ n.pc = "loadDb"
<1> req[p] = Idle
  BY Zenon DEF TypeInv, Types, LoadTrade, Begin, At, Shape
<1>1. PICK u \in Known(trades) \cup Known(db), o \in {"CLOSE", "STATUS"} :
         LET r == [Idle EXCEPT !.op = o, !.uid = u] IN
         IF trades[u] # NoTrade THEN AfterLoad(p, r, trades[u])
         ELSE Goto(p, r, "loadDb")
  BY Zenon DEF LoadTrade
<1> DEFINE r == [Idle EXCEPT !.op = o, !.uid = u]
<1> u \in Uid /\ trades[u] \in Trade \cup {NoTrade}
  BY Zenon DEF Known, TypeInv, Types, Data
<1>2. \/ trades[u] # NoTrade /\ AfterLoad(p, r, trades[u])
      \/ trades[u] = NoTrade /\ Goto(p, r, "loadDb")
  BY <1>1, Zenon
<1> r \in Req
  BY IdleType, Fields, Zenon DEF Op
<1> r.op = o /\ r.uid = u /\ r.batch = {}
  BY Zenon DEF Idle
<1> HIDE DEF r
<1> Fits(r, "loadDb")
  BY Zenon DEF Fits, InHand, Reading
<1> QED
  BY <1>2, AfterLoadEffect, GotoEffect DEF PC, Same

\* LoadTrade goes to the database and caches what it finds.
LEMMA LoadEffect ==
    ASSUME TypeInv, NEW p \in Caller
    PROVE  LET n == req'[p]
               r == req[p] IN
           /\ loadTradeFromDB(p) =>
                /\ Moved(p) /\ r.pc = "loadDb" /\ r.uid \in Uid /\ shown' = shown
                /\ n = Idle \/ (n.pc = "cache" /\ n.uid = r.uid /\ n.tr = db[r.uid])
           /\ Cache(p) =>
                /\ Moved(p) /\ r.pc = "cache" /\ r.uid \in Uid /\ r.tr \in Trade
                /\ SaveInMemory(p, r.uid, r.tr) /\ n.uid = r.uid
                /\ n.pc \in {"plan", "orders"}
<1> DEFINE n == req'[p]
           r == req[p]
           t == db[r.uid]
           m == [r EXCEPT !.tr = t]
<1> r \in Req /\ Shape(r)
  BY Zenon DEF TypeInv, Types
<1>1. ASSUME loadTradeFromDB(p)
      PROVE  /\ Moved(p) /\ r.pc = "loadDb" /\ r.uid \in Uid /\ shown' = shown
             /\ n = Idle \/ (n.pc = "cache" /\ n.uid = r.uid /\ n.tr = t)
  <2>1. r.pc = "loadDb" /\ Fits(r, "loadDb") /\ r.uid \in Uid
    BY <1>1, Zenon DEF loadTradeFromDB, At, Shape, Fits
  <2>2. Finish(p, {}) \/ (t \in Trade /\ Goto(p, m, "cache") /\ shown' = shown)
    BY <1>1, <2>1, Zenon DEF loadTradeFromDB, TypeInv, Types, Data
  <2> HIDE DEF t
  <2>3. t \in Trade => /\ m \in Req /\ m.op = r.op /\ m.uid = r.uid
                       /\ m.tr = t /\ m.batch = r.batch
    BY InHandEffect, Zenon
  <2> HIDE DEF m
  <2>4. t \in Trade => Fits(m, "cache")
    BY <2>1, <2>3, Zenon DEF Fits, InHand, Reading
  <2> QED
    BY <2>1, <2>2, <2>3, <2>4, GotoEffect, FinishEffect DEF PC, Same
<1>2. ASSUME Cache(p)
      PROVE  /\ Moved(p) /\ r.pc = "cache" /\ r.uid \in Uid /\ r.tr \in Trade
             /\ SaveInMemory(p, r.uid, r.tr) /\ n.uid = r.uid
             /\ n.pc \in {"plan", "orders"}
  <2>1. /\ r.pc = "cache" /\ r.tr \in Trade /\ r.op \in {"CLOSE", "STATUS"}
        /\ r.uid \in Uid /\ r.batch = {}
        /\ SaveInMemory(p, r.uid, r.tr) /\ AfterLoad(p, r, r.tr)
    BY <1>2, Zenon DEF Cache, At, Shape, Fits, InHand
  <2> QED
    BY <2>1, AfterLoadEffect, Zenon
<1> QED
  BY <1>1, <1>2, Zenon

\* AllTrades begins, from memory or from the database.
LEMMA AllTradesEffect ==
    ASSUME TypeInv, NEW p \in Caller, AllTrades(p)
    PROVE  LET n == req'[p] IN
           /\ req[p] = Idle /\ Moved(p) /\ n.before = shown /\ n.batch = {}
           /\ \/ n.pc = "listSave" /\ n.answer = Known(trades)
              \/ n.pc = "listDb" /\ n.answer = {} /\ Known(trades) = {}
<1> DEFINE K == Known(trades)
           h == shown
           m == [Idle EXCEPT !.op = "LIST", !.answer = K, !.before = h]
           e == [Idle EXCEPT !.op = "LIST", !.before = h]
<1> req[p] = Idle /\ K \subseteq Uid /\ h \subseteq Uid
  BY Zenon DEF TypeInv, Types, Data, AllTrades, Begin, At, Shape, Known
<1>1. Goto(p, m, "listSave") \/ (K = {} /\ Goto(p, e, "listDb"))
  BY Zenon DEF AllTrades
<1>2. h = shown /\ K = Known(trades)
  BY Zenon
<1> HIDE DEF K, h
<1> m \in Req /\ e \in Req
  BY IdleType, Fields, Zenon DEF Op
<1> /\ m.op = "LIST" /\ m.batch = {} /\ m.answer = K /\ m.before = h
    /\ e.op = "LIST" /\ e.batch = {} /\ e.answer = {} /\ e.before = h
  BY Zenon DEF Idle
<1> HIDE DEF m, e
<1> Fits(m, "listSave") /\ Fits(e, "listDb")
  BY Zenon DEF Fits, PageOK, InHand, Reading
<1> QED
  BY <1>1, <1>2, GotoEffect, Zenon DEF PC, Same

\* The query of AllTrades returns a page, or fails.
LEMMA PageEffect ==
    ASSUME TypeInv, NEW p \in Caller, loadTradesFromDB(p)
    PROVE  LET n == req'[p]
               r == req[p] IN
           /\ Moved(p) /\ r.pc = "listDb" /\ n.pc = "listSave" /\ n.before = r.before
           /\ \/ n.batch = {<<u, db[u]>> : u \in n.answer}
              \/ n.batch = {} /\ n.answer = r.answer
<1> DEFINE n == req'[p]
           r == req[p]
<1> r \in Req /\ r.pc = "listDb" /\ Fits(r, "listDb") /\ Data
  BY Zenon DEF TypeInv, Types, loadTradesFromDB, At, Shape
<1> r.batch = {} /\ Fits(r, "listSave")
  BY Zenon DEF Fits, PageOK, InHand, Reading
<1>1. ASSUME NEW T \in Newest(Known(db)),
             Goto(p, [r EXCEPT !.batch = {<<u, db[u]>> : u \in T}, !.answer = T],
                  "listSave")
      PROVE  /\ Moved(p) /\ n.pc = "listSave" /\ n.before = r.before
             /\ n.batch = {<<u, db[u]>> : u \in n.answer}
  <2> DEFINE B == {<<u, db[u]>> : u \in T}
             m == [r EXCEPT !.batch = B, !.answer = T]
  <2> /\ T \subseteq Uid /\ B \subseteq Uid \X Trade
      /\ Cardinality(T) <= Page /\ {e[1] : e \in B} \subseteq T
      /\ \A e, f \in B : e[1] = f[1] => e = f
    BY NewestPage, Zenon
  <2>1. Goto(p, m, "listSave") /\ B = {<<u, db[u]>> : u \in T}
    BY <1>1, Zenon
  <2> HIDE DEF B
  <2> m \in Req
    BY Fields, Zenon
  <2> m.op = r.op /\ m.batch = B /\ m.answer = T /\ m.before = r.before
    BY Zenon DEF Req
  <2> HIDE DEF m
  <2> Fits(m, "listSave")
    BY Zenon DEF Fits, PageOK, InHand, Reading
  <2>2. Moved(p) /\ n.pc = "listSave" /\ Same(n, m)
    BY <2>1, GotoEffect, Zenon DEF PC
  <2> QED
    BY <2>1, <2>2, Zenon DEF Same
<1> QED
  BY <1>1, GotoEffect, Zenon DEF loadTradesFromDB, PC, Same

\* AllTrades caches what it has read, one trade after the other.
LEMMA ListSaveEffect ==
    ASSUME TypeInv, NEW p \in Caller, ListSave(p)
    PROVE  LET n == req'[p]
               r == req[p] IN
           /\ Moved(p) /\ r.pc = "listSave" /\ PageOK(r) /\ n.pc = "listSave"
           /\ n.before = r.before /\ n.answer = r.answer
           /\ \E u \in Uid, t \in Trade :
                /\ <<u, t>> \in r.batch /\ SaveInMemory(p, u, t)
                /\ n.batch = r.batch \ {<<u, t>>}
<1> DEFINE n == req'[p]
           r == req[p]
<1> r \in Req /\ r.pc = "listSave" /\ Fits(r, "listSave") /\ PageOK(r)
  BY Zenon DEF TypeInv, Types, ListSave, At, Shape, Fits
<1>1. PICK e \in r.batch : /\ SaveInMemory(p, e[1], e[2])
                           /\ Goto(p, [r EXCEPT !.batch = @ \ {e}], "listSave")
  BY Zenon DEF ListSave
<1> e[1] \in Uid /\ e[2] \in Trade /\ e = <<e[1], e[2]>>
  BY DEF PageOK
<1> DEFINE B == r.batch \ {e}
           m == [r EXCEPT !.batch = B]
<1>2. Goto(p, m, "listSave")
  BY <1>1, Zenon
<1> B \in SUBSET (Uid \X Trade) /\ B \subseteq r.batch /\ B = r.batch \ {e}
  BY Zenon DEF PageOK
<1> HIDE DEF B
<1> m \in Req
  BY Fields, Zenon
<1> m.op = r.op /\ m.batch = B /\ m.answer = r.answer /\ m.before = r.before
  BY Zenon DEF Req
<1> HIDE DEF m
<1> Fits(m, "listSave")
  BY DEF Fits, PageOK, InHand, Reading
<1>3. /\ Moved(p) /\ n.pc = "listSave" /\ n.before = r.before /\ n.answer = r.answer
      /\ n.batch = r.batch \ {<<e[1], e[2]>>}
  BY <1>2, GotoEffect DEF PC, Same
<1> QED
  BY <1>1, <1>3, Zenon

\* Reading the orders of a trade: from memory, or from the table.
LEMMA OrdersEffect ==
    ASSUME TypeInv, NEW p \in Caller
    PROVE  LET n == req'[p]
               r == req[p] IN
           /\ OpenOrders(p) =>
                r = Idle /\ Moved(p) /\ n.pc = "orders" /\ n.op = "ORDERS"
           /\ LoadIntents(p) =>
                /\ Moved(p) /\ r.pc = "orders" /\ r.uid \in Uid
                /\ \/ n = Idle /\ shown' = shown \cup ToldOf(r)
                   \/ /\ n.pc = "ordersDb" /\ n.op = r.op /\ n.uid = r.uid
                      /\ shown' = shown
                      /\ \A i \in IntentId : ~ intents[r.uid][i] > 0
           /\ loadIntentsFromDB(p) =>
                /\ Moved(p) /\ r.pc = "ordersDb" /\ r.uid \in Uid
                /\ n.pc = "ordersSave" /\ n.op = r.op /\ n.uid = r.uid
                /\ \A i \in n.batch : i \in IntentId /\ orders[i].trade = r.uid
           /\ OrdersSave(p) =>
                /\ Moved(p) /\ r.pc = "ordersSave" /\ r.uid \in Uid
                /\ n.pc = "ordersSave" /\ n.op = r.op /\ n.uid = r.uid
                /\ \E i \in IntentId : /\ i \in r.batch
                                       /\ AppendInMemory(p, r.uid, i)
                                       /\ n.batch = r.batch \ {i}
<1> DEFINE n == req'[p]
           r == req[p]
<1> r \in Req /\ Shape(r)
  BY Zenon DEF TypeInv, Types
<1>1. ASSUME OpenOrders(p)
      PROVE  r = Idle /\ Moved(p) /\ n.pc = "orders" /\ n.op = "ORDERS"
  <2>0. r = Idle
    BY <1>1, Zenon DEF OpenOrders, Begin, At, Shape
  <2>1. PICK u \in Known(trades) \cup Known(db) :
           Goto(p, [Idle EXCEPT !.op = "ORDERS", !.uid = u], "orders")
    BY <1>1, Zenon DEF OpenOrders
  <2> DEFINE m == [Idle EXCEPT !.op = "ORDERS", !.uid = u]
  <2> u \in Uid
    BY Zenon DEF Known
  <2> m \in Req
    BY IdleType, Fields, Zenon DEF Op
  <2> m.op = "ORDERS" /\ m.uid = u /\ m.batch = {}
    BY Zenon DEF Idle
  <2>2. Goto(p, m, "orders")
    BY <2>1, Zenon
  <2> HIDE DEF m
  <2> Fits(m, "orders")
    BY Zenon DEF Fits, InHand, Reading
  <2> QED
    BY <2>0, <2>2, GotoEffect, Zenon DEF PC, Same
<1>2. ASSUME LoadIntents(p)
      PROVE  /\ Moved(p) /\ r.pc = "orders" /\ r.uid \in Uid
             /\ \/ n = Idle /\ shown' = shown \cup ToldOf(r)
                \/ /\ n.pc = "ordersDb" /\ n.op = r.op /\ n.uid = r.uid
                   /\ shown' = shown
                   /\ \A i \in IntentId : ~ intents[r.uid][i] > 0
  <2> r.pc = "orders" /\ r.uid \in Uid /\ Fits(r, "ordersDb")
    BY <1>2, Zenon DEF LoadIntents, At, Shape, Fits, InHand, Reading
  <2>1. \/ Finish(p, ToldOf(r))
        \/ /\ Goto(p, r, "ordersDb") /\ shown' = shown
           /\ \A i \in IntentId : ~ intents[r.uid][i] > 0
    BY <1>2, Zenon DEF LoadIntents
  <2> QED
    BY <2>1, GotoEffect, FinishEffect DEF PC, Same
<1>3. ASSUME loadIntentsFromDB(p)
      PROVE  /\ Moved(p) /\ r.pc = "ordersDb" /\ r.uid \in Uid
             /\ n.pc = "ordersSave" /\ n.op = r.op /\ n.uid = r.uid
             /\ \A i \in n.batch : i \in IntentId /\ orders[i].trade = r.uid
  <2> DEFINE B == {i \in IntentId : orders[i].trade = r.uid}
             m == [r EXCEPT !.batch = B]
  <2> /\ r.pc = "ordersDb" /\ r.uid \in Uid /\ Fits(r, "ordersDb") /\ r.batch = {}
    BY <1>3, Zenon DEF loadIntentsFromDB, At, Shape, Fits, Reading
  <2>1. Goto(p, r, "ordersSave") \/ Goto(p, m, "ordersSave")
    BY <1>3, Zenon DEF loadIntentsFromDB
  <2> B \in SUBSET IntentId /\ \A i \in B : orders[i].trade = r.uid
    BY Zenon
  <2> HIDE DEF B
  <2> m \in Req
    BY Fields, Zenon
  <2> m.op = r.op /\ m.uid = r.uid /\ m.batch = B
    BY Zenon DEF Req
  <2> HIDE DEF m
  <2> Fits(r, "ordersSave") /\ Fits(m, "ordersSave")
    BY Zenon DEF Fits, InHand, Reading
  <2> QED
    BY <2>1, GotoEffect DEF PC, Same
<1>4. ASSUME OrdersSave(p)
      PROVE  /\ Moved(p) /\ r.pc = "ordersSave" /\ r.uid \in Uid
             /\ n.pc = "ordersSave" /\ n.op = r.op /\ n.uid = r.uid
             /\ \E i \in IntentId : /\ i \in r.batch
                                    /\ AppendInMemory(p, r.uid, i)
                                    /\ n.batch = r.batch \ {i}
  <2> /\ r.pc = "ordersSave" /\ r.uid \in Uid /\ Fits(r, "ordersSave")
      /\ r.batch \subseteq IntentId
    BY <1>4, Zenon DEF OrdersSave, At, Shape, Fits, Reading
  <2>1. PICK i \in r.batch : /\ AppendInMemory(p, r.uid, i)
                             /\ Goto(p, [r EXCEPT !.batch = @ \ {i}], "ordersSave")
    BY <1>4, Zenon DEF OrdersSave
  <2> DEFINE B == r.batch \ {i}
             m == [r EXCEPT !.batch = B]
  <2>2. Goto(p, m, "ordersSave")
    BY <2>1, Zenon
  <2> B \in SUBSET IntentId /\ B = r.batch \ {i}
    BY Zenon
  <2> HIDE DEF B
  <2> m \in Req
    BY Fields, Zenon
  <2> m.op = r.op /\ m.uid = r.uid /\ m.batch = B
    BY Zenon DEF Req
  <2> HIDE DEF m
  <2> Fits(m, "ordersSave")
    BY Zenon DEF Fits, InHand, Reading
  <2>3. /\ Moved(p) /\ n.pc = "ordersSave" /\ n.op = r.op /\ n.uid = r.uid
        /\ n.batch = r.batch \ {i}
    BY <2>2, GotoEffect DEF PC, Same
  <2> QED
    BY <2>1, <2>3, Zenon
<1> QED
  BY <1>1, <1>2, <1>3, <1>4, Zenon

\* The requests that only read end.
LEMMA AnswerEffect ==
    ASSUME TypeInv, NEW p \in Caller
    PROVE  /\ ListAnswer(p) => /\ Moved(p) /\ req'[p] = Idle
                               /\ req[p].pc = "listSave" /\ req[p].batch = {}
                               /\ shown' = shown \cup req[p].answer
           /\ OrdersAnswer(p) => /\ Moved(p) /\ req'[p] = Idle
                                 /\ req[p].pc = "ordersSave"
                                 /\ shown' = shown \cup ToldOf(req[p])
BY FinishEffect, Zenon DEF ListAnswer, OrdersAnswer, At

CallerStep(p) ==
    \/ Deploy(p) \/ SaveDb(p) \/ Append(p) \/ Insert(p)
    \/ Execute(p) \/ Update(p) \/ UpdateDb(p) \/ Plan(p)
    \/ LoadTrade(p) \/ loadTradeFromDB(p) \/ Cache(p)
    \/ AllTrades(p) \/ loadTradesFromDB(p) \/ ListSave(p)
    \/ ListAnswer(p)
    \/ OpenOrders(p) \/ LoadIntents(p) \/ loadIntentsFromDB(p)
    \/ OrdersSave(p) \/ OrdersAnswer(p)

LEMMA CallerMoves ==
    ASSUME TypeInv, NEW p \in Caller, CallerStep(p)
    PROVE  Moved(p)
BY DeployEffect, OrderEffect, LoadTradeEffect, LoadEffect, AllTradesEffect, PageEffect,
   ListSaveEffect, OrdersEffect, AnswerEffect, Zenon DEF CallerStep

-----------------------------------------------------------------------------
(* What the steps do to the store *)

\* The two copies of the trades.
LEMMA CopiesEffect ==
    ASSUME TypeInv, NEW p \in Caller, CallerStep(p)
    PROVE  LET n == req'[p]
               r == req[p] IN
           \/ trades' = trades /\ db' = db /\ raced' = raced
           \/ /\ db' = db
              /\ \E u \in Uid, t \in Trade :
                   /\ SaveInMemory(p, u, t)
                   /\ \/ Deploy(p) /\ u = n.uid /\ t = n.tr
                      \/ (Update(p) \/ Cache(p)) /\ u = r.uid /\ t = r.tr
                      \/ ListSave(p) /\ <<u, t>> \in r.batch /\ n.batch = r.batch \ {<<u, t>>}
           \/ /\ SaveDb(p) \/ UpdateDb(p)
              /\ trades' = trades /\ r.uid \in Uid /\ r.tr \in Trade
              /\ upsertTrade(r.uid, r.tr)
<1>1. CASE Deploy(p) \/ Update(p) \/ Cache(p) \/ ListSave(p)
  <2> db' = db
    BY <1>1, Zenon DEF Deploy, Update, Cache, ListSave
  <2>1. CASE Deploy(p)
    BY <2>1, DeployEffect, Zenon
  <2>2. CASE Update(p) \/ Cache(p)
    <3> SaveInMemory(p, req[p].uid, req[p].tr)
      BY <2>2, Zenon DEF Update, Cache
    <3> QED
      BY <2>2, OrderEffect, LoadEffect, Zenon
  <2>3. CASE ListSave(p)
    BY <2>3, ListSaveEffect, Zenon
  <2> QED
    BY <1>1, <2>1, <2>2, <2>3, Zenon
<1>2. CASE SaveDb(p) \/ UpdateDb(p)
  <2> trades' = trades /\ upsertTrade(req[p].uid, req[p].tr)
    BY <1>2, Zenon DEF SaveDb, UpdateDb
  <2> QED
    BY <1>2, OrderEffect, Zenon
<1>3. CASE trades' = trades /\ db' = db /\ raced' = raced
  BY <1>3, Zenon
<1> QED
  BY <1>1, <1>2, <1>3, Zenon
     DEF CallerStep, Append, Insert, Execute, Plan, LoadTrade,
         loadTradeFromDB, AllTrades, loadTradesFromDB, ListAnswer, OpenOrders,
         LoadIntents, loadIntentsFromDB, OrdersSave, OrdersAnswer

\* The lists of orders: an order is added that is appended, or that was read
\* from the table.
LEMMA ListsEffect ==
    ASSUME TypeInv, NEW p \in Caller, CallerStep(p)
    PROVE  \/ intents' = intents /\ overlap' = overlap /\ sent' = sent
           \/ \E i \in IntentId :
                /\ req[p].uid \in Uid /\ AppendInMemory(p, req[p].uid, i)
                /\ \/ /\ Append(p) /\ i = req[p].id
                      /\ sent' = [sent EXCEPT ![i] = @ + 1]
                   \/ OrdersSave(p) /\ i \in req[p].batch /\ sent' = sent
<1>1. CASE Append(p)
  <2> req[p].id \in IntentId
    BY <1>1, Zenon DEF Append, At, TypeInv, Types, Shape, Fits, InHand
  <2> /\ AppendInMemory(p, req[p].uid, req[p].id)
      /\ sent' = [sent EXCEPT ![req[p].id] = @ + 1]
    BY <1>1, Zenon DEF Append
  <2> QED
    BY <1>1, OrderEffect, Zenon
<1>2. CASE OrdersSave(p)
  <2> sent' = sent
    BY <1>2, Zenon DEF OrdersSave
  <2> QED
    BY <1>2, OrdersEffect, Zenon
<1>3. CASE intents' = intents /\ overlap' = overlap /\ sent' = sent
  BY <1>3, Zenon
<1> QED
  BY <1>1, <1>2, <1>3, Zenon
     DEF CallerStep, Deploy, SaveDb, Insert, Execute, Update, UpdateDb, Plan,
         LoadTrade, loadTradeFromDB, Cache, AllTrades, loadTradesFromDB, ListSave,
         ListAnswer, OpenOrders, LoadIntents, loadIntentsFromDB, OrdersAnswer

\* The table of orders: a row is inserted, or one that is there is marked.
LEMMA RowsEffect ==
    ASSUME TypeInv, NEW p \in Caller, CallerStep(p)
    PROVE  /\ orders' \in [IntentId -> Row \cup {NoRow}]
           /\ \A i \in IntentId : orders'[i] # NoRow =>
                orders[i] # NoRow \/ (req[p].pc = "insert" /\ i = req[p].id)
<1> DEFINE r == req[p]
<1> orders \in [IntentId -> Row \cup {NoRow}]
  BY Zenon DEF TypeInv, Types, Data
<1>1. CASE orders' = orders
  BY <1>1, Zenon
<1>2. CASE Insert(p)
  <2>1. r.pc = "insert" /\ r.id \in IntentId /\ r.uid \in Uid
    BY <1>2, OrderEffect, Zenon DEF Insert, At, TypeInv, Types, Shape, Fits, InHand
  <2>2. [trade |-> r.uid, filled |-> FALSE] \in Row
    BY <2>1, Zenon DEF Row
  <2> QED
    BY <1>2, <2>1, <2>2, Zenon DEF Insert
<1>3. CASE Execute(p)
  <2>1. orders' = orders \/ \E b \in BOOLEAN : MarkOrderExecution(r.id, b)
    BY <1>3, Zenon DEF Execute
  <2>2. ASSUME NEW b \in BOOLEAN, orders' # orders, MarkOrderExecution(r.id, b)
        PROVE  /\ orders[r.id] # NoRow /\ orders' = [orders EXCEPT ![r.id].filled = b]
               /\ r.id \in IntentId
    BY <1>3, <2>2, Zenon DEF MarkOrderExecution, Execute, At, TypeInv, Types, Shape, Fits, InHand
  <2>3. ASSUME NEW b \in BOOLEAN, orders[r.id] # NoRow, r.id \in IntentId
        PROVE  [orders[r.id] EXCEPT !.filled = b] \in Row
    BY <2>3, Zenon DEF Row
  <2> QED
    BY <1>1, <2>1, <2>2, <2>3, Zenon
<1> QED
  BY <1>1, <1>2, <1>3, Zenon
     DEF CallerStep, Deploy, SaveDb, Append, Update, UpdateDb, Plan, LoadTrade,
         loadTradeFromDB, Cache, AllTrades, loadTradesFromDB, ListSave, ListAnswer,
         OpenOrders, LoadIntents, loadIntentsFromDB, OrdersSave, OrdersAnswer

\* The clock and the counters.
LEMMA ClockEffect ==
    ASSUME NEW p \in Caller, CallerStep(p)
    PROVE  /\ sec' = sec /\ restarts' = restarts
           /\ count' = count \/ (count < MaxRequests /\ count' = count + 1)
           /\ lost' = lost \/ Lose
<1>1. CASE Deploy(p) \/ LoadTrade(p) \/ AllTrades(p) \/ OpenOrders(p)
  BY <1>1, Zenon DEF Deploy, LoadTrade, AllTrades, OpenOrders, Begin
<1>2. lost' = lost \/ Lose
  BY Zenon DEF CallerStep, Deploy, SaveDb, Append, Insert, Execute, MarkOrderExecution, Update,
         UpdateDb, upsertTrade, Plan, LoadTrade, loadTradeFromDB, Cache, AllTrades,
         loadTradesFromDB, ListSave, ListAnswer, OpenOrders, LoadIntents,
         loadIntentsFromDB, OrdersSave, OrdersAnswer
<1>3. CASE UNCHANGED clockVars
  BY <1>2, <1>3, Zenon DEF clockVars
<1> QED
  BY <1>1, <1>3, Zenon
     DEF CallerStep, SaveDb, Append, Insert, Execute, Update, UpdateDb, Plan,
         loadTradeFromDB, Cache, loadTradesFromDB, ListSave, ListAnswer,
         LoadIntents, loadIntentsFromDB, OrdersSave, OrdersAnswer

-----------------------------------------------------------------------------
(* Type correctness *)

\* A caller's step keeps the types of everything but the requests.
LEMMA CallerData ==
    ASSUME TypeInv, NEW p \in Caller, CallerStep(p)
    PROVE  Data'
<1> DEFINE r == req[p]
<1> Data /\ r \in Req /\ Shape(r)
  BY Zenon DEF TypeInv, Types
<1>1. /\ trades' \in [Uid -> Trade \cup {NoTrade}] /\ raced' \subseteq Uid
      /\ db' \in [Uid -> Trade \cup {NoTrade}]
  <2>1. ASSUME NEW u \in Uid, NEW t \in Trade, SaveInMemory(p, u, t)
        PROVE  trades' \in [Uid -> Trade \cup {NoTrade}] /\ raced' \subseteq Uid
    BY <2>1, Zenon DEF SaveInMemory, Data
  <2>2. ASSUME NEW u \in Uid, NEW t \in Trade, upsertTrade(u, t)
        PROVE  db' \in [Uid -> Trade \cup {NoTrade}] /\ raced' \subseteq Uid
    BY <2>2, Zenon DEF upsertTrade, Data
  <2> QED
    BY <2>1, <2>2, CopiesEffect, Zenon DEF Data
<1>2. /\ intents' \in [Uid -> [IntentId -> Nat]] /\ overlap' \subseteq Uid
      /\ sent' \in [IntentId -> Nat]
  <2>1. ASSUME NEW u \in Uid, NEW i \in IntentId, AppendInMemory(p, u, i)
        PROVE  intents' \in [Uid -> [IntentId -> Nat]] /\ overlap' \subseteq Uid
    BY <2>1 DEF AppendInMemory, Data
  <2>2. ASSUME NEW i \in IntentId, sent' = [sent EXCEPT ![i] = @ + 1]
        PROVE  sent' \in [IntentId -> Nat]
    BY <2>2 DEF Data
  <2> QED
    BY <2>1, <2>2, ListsEffect, Zenon DEF Data
<1>3. orders' \in [IntentId -> Row \cup {NoRow}]
  BY RowsEffect, Zenon
<1>4. /\ count' \in 0..MaxRequests /\ sec' \in 0..MaxSec
      /\ restarts' \in 0..MaxRestarts /\ lost' \in 0..MaxLost
  BY ClockEffect, DirectoryAssumption DEF Lose, Data
<1>5. shown' \subseteq Uid
  <2>0. r.answer \subseteq Uid
    BY Zenon DEF Req
  <2>1. r.op = "STATUS" => r.uid \in Uid
    BY DEF Shape, Fits, Idle
  <2>2. CASE shown' = shown
    BY <2>2, Zenon DEF Data
  <2>3. CASE \/ shown' = shown \cup r.answer
             \/ shown' = shown \cup ToldOf(r)
             \/ r.uid \in Uid /\ shown' = shown \cup {r.uid}
    BY <2>0, <2>1, <2>3, Zenon DEF Data, ToldOf
  <2> QED
    BY <2>2, <2>3, OrderEffect, LoadEffect, OrdersEffect, AnswerEffect, Zenon
       DEF CallerStep, Deploy, LoadTrade, Cache, AllTrades, loadTradesFromDB, ListSave,
           OpenOrders, loadIntentsFromDB, OrdersSave
<1> QED
  BY <1>1, <1>2, <1>3, <1>4, <1>5, Zenon DEF Data

\* Every step keeps the types.
LEMMA TypeNext == TypeInv /\ [Next]_vars => TypeInv'
<1> SUFFICES ASSUME TypeInv, [Next]_vars PROVE TypeInv'
  BY Zenon
<1>1. ASSUME NEW p \in Caller, CallerStep(p) PROVE TypeInv'
  <2>1. Moved(p) /\ Data'
    BY <1>1, CallerMoves, CallerData, Zenon
  <2>2. req' \in [Caller -> Req] /\ \A q \in Caller : Shape(req'[q])
    BY <2>1, Zenon DEF Moved, TypeInv, Types
  <2> QED
    BY <2>1, <2>2, Zenon DEF TypeInv, Types
<1>2. CASE Tick
  BY <1>2, DirectoryAssumption DEF Tick, TypeInv, Types, Data
<1>3. CASE Restart
  <2>1. Data'
    BY <1>3, DirectoryAssumption DEF Restart, TypeInv, Types, Data, NoTrades, NoIntents
  <2>2. req' \in [Caller -> Req] /\ \A q \in Caller : Shape(req'[q])
    BY <1>3, IdleType, Zenon DEF Restart
  <2> QED
    BY <2>1, <2>2, Zenon DEF TypeInv, Types
<1>4. CASE UNCHANGED vars
  BY <1>4, Zenon DEF vars, clockVars, TypeInv, Types, Data
<1> QED
  BY <1>1, <1>2, <1>3, <1>4, Zenon DEF Next, CallerStep

LEMMA TypeInit == Init => TypeInv
<1> SUFFICES ASSUME Init PROVE TypeInv
  BY Zenon
<1>1. Data
  BY DirectoryAssumption DEF Init, Data, NoTrades, NoIntents
<1>2. req \in [Caller -> Req] /\ \A q \in Caller : Shape(req[q])
  BY IdleType, Zenon DEF Init
<1> QED
  BY <1>1, <1>2, Zenon DEF TypeInv, Types

\* The store's maps and tables and every request hold values of their kinds,
\* and AllTrades answers from the table with no more than one page, for any number of
\* callers and strikes and any bounds.
THEOREM DirectoryTypes == Spec => []TypeOK
<1>1. TypeInv => TypeOK
  <2> SUFFICES ASSUME TypeInv PROVE TypeOK
    BY Zenon
  <2>1. ASSUME NEW p \in Caller
        PROVE  LET r == req[p] IN
               /\ r.pc \in PC
               /\ r.op \in {"DEPLOY", "CLOSE", "STATUS", "ORDERS"} => r.uid \in Uid
               /\ r.pc \in {"append", "insert", "execute"} => r.id \in IntentId
               /\ r.pc \in {"saveDb", "update", "updateDb", "cache", "plan"}
                    => r.tr \in Trade
               /\ r.tries \in 0..MaxChunkRetries
               /\ r.pc = "listSave" /\ r.batch # {} =>
                    /\ {e[1] : e \in r.batch} \subseteq r.answer
                    /\ Cardinality(r.answer) <= Page
               /\ r.answer \subseteq Uid /\ r.before \subseteq Uid
    <3>1. req[p] \in Req /\ Shape(req[p])
      BY Zenon DEF TypeInv, Types
    <3>2. /\ req[p].pc \in PC /\ req[p].tries \in 0..MaxChunkRetries
          /\ req[p].answer \subseteq Uid /\ req[p].before \subseteq Uid
      BY <3>1, Zenon DEF Req
    <3> QED
      BY <3>1, <3>2 DEF Shape, Fits, PageOK, InHand, Idle
  <2> QED
    BY <2>1, Zenon DEF TypeOK, TypeInv, Types, Data
<1> QED
  BY <1>1, TypeInit, TypeNext, PTL DEF Spec

-----------------------------------------------------------------------------
(* Listings *)

-----------------------------------------------------------------------------
(* Listings *)

\* Memory forgets no trade while the process runs.
LEMMA KnownGrows ==
    ASSUME TypeInv, NEW p \in Caller
    PROVE  /\ CallerStep(p) => Known(trades) \subseteq Known(trades')
           /\ \A u \in Uid, t \in Trade : SaveInMemory(p, u, t) => u \in Known(trades')
<1>1. ASSUME NEW u \in Uid, NEW t \in Trade, SaveInMemory(p, u, t)
      PROVE  Known(trades) \subseteq Known(trades') /\ u \in Known(trades')
  BY <1>1, Names, Zenon DEF SaveInMemory, Known, TypeInv, Types, Data
<1> QED
  BY <1>1, CopiesEffect, Zenon

\* A caller's step keeps the invariant of its own request, and tells only of
\* trades in memory.
LEMMA OwnList ==
    ASSUME TypeInv, ListInv, NEW p \in Caller, CallerStep(p)
    PROVE  ListOK(req[p])' /\ shown' \subseteq Known(trades')
<1> DEFINE r == req[p]
           n == req'[p]
           K == Known(trades)
           L == Known(trades')
<1> /\ ListOK(r) /\ shown \subseteq K /\ K \subseteq L
    /\ \A u \in Uid, t \in Trade : SaveInMemory(p, u, t) => u \in L
  BY KnownGrows, Zenon DEF ListInv
<1>a. ListOK(r)' <=>
         /\ Holds(n) => n.uid \in L
         /\ n.pc = "listDb" => n.before = {} /\ n.answer = {}
         /\ n.pc = "listSave" =>
              /\ n.before \subseteq n.answer
              /\ n.answer \subseteq L \cup {e[1] : e \in n.batch}
  BY Zenon DEF ListOK, Holds
<1> SUFFICES ListOK(r)' /\ shown' \subseteq L
  BY Zenon
<1> HIDE DEF n, K, L
<1>b. n = Idle => ListOK(r)'
  BY <1>a DEF Idle, Holds, InHand
<1>1. CASE Deploy(p)
  <2> n.pc = "saveDb" /\ n.uid \in L /\ shown' = shown
    BY <1>1, DeployEffect, Zenon DEF n, Deploy
  <2> QED
    BY <1>a, Zenon
<1>2. CASE SaveDb(p) \/ Append(p) \/ Insert(p) \/ Execute(p) \/ Update(p) \/ UpdateDb(p)
             \/ Plan(p)
  <2> /\ r.pc \in InHand \ {"cache"}
      /\ \/ n = Idle /\ shown' = shown \cup {r.uid}
         \/ /\ n.pc \in {"append", "insert", "execute", "update", "updateDb"}
            /\ n.uid = r.uid /\ shown' = shown
    BY <1>2, OrderEffect, Zenon DEF n
  <2> r.uid \in K
    BY Zenon DEF ListOK, Holds, K
  <2> QED
    BY <1>a, <1>b, Zenon
<1>3. CASE LoadTrade(p)
  <2> /\ n.uid \in Uid /\ n.op \in {"CLOSE", "STATUS"}
      /\ \/ trades[n.uid] # NoTrade /\ n.pc \in {"plan", "orders"}
         \/ n.pc = "loadDb"
    BY <1>3, LoadTradeEffect, Zenon DEF n
  <2> shown' = shown
    BY <1>3, Zenon DEF LoadTrade
  <2> QED
    BY <1>a, Zenon DEF K, Known, Holds, InHand, Reading
<1>4. CASE loadTradeFromDB(p)
  <2> (n.pc = "cache" \/ n = Idle) /\ shown' = shown
    BY <1>4, LoadEffect, Zenon DEF n
  <2> QED
    BY <1>a, <1>b, Zenon DEF Holds, Reading
<1>5. CASE Cache(p)
  <2> n.pc \in {"plan", "orders"} /\ n.uid \in L /\ shown' = shown
    BY <1>5, LoadEffect, Zenon DEF n, Cache
  <2> QED
    BY <1>a, Zenon
<1>6. CASE AllTrades(p)
  <2> /\ n.before = shown
      /\ \/ n.pc = "listSave" /\ n.answer = K
         \/ n.pc = "listDb" /\ n.answer = {} /\ K = {}
    BY <1>6, AllTradesEffect, Zenon DEF n, K
  <2> n.op = "LIST" /\ shown' = shown
    BY <1>6, CallerMoves, Zenon DEF AllTrades, n, Moved, Shape, Fits
  <2> QED
    BY <1>a, Zenon DEF Holds, InHand
<1>7. CASE loadTradesFromDB(p)
  <2>1. /\ r.pc = "listDb" /\ n.pc = "listSave" /\ n.before = r.before
        /\ \/ n.batch = {<<u, db[u]>> : u \in n.answer}
           \/ n.batch = {} /\ n.answer = r.answer
    BY <1>7, PageEffect, Zenon DEF n
  <2>2. shown' = shown
    BY <1>7, Zenon DEF loadTradesFromDB
  <2>3. n.before = {} /\ r.answer = {}
    BY <2>1, Zenon DEF ListOK
  <2>4. n.answer \subseteq {e[1] : e \in n.batch}
    <3>1. n.batch = {<<u, db[u]>> : u \in n.answer}
             => \A u \in n.answer : <<u, db[u]>> \in n.batch /\ u = <<u, db[u]>>[1]
      BY Zenon
    <3> QED
      BY <2>1, <2>3, <3>1, Zenon
  <2> QED
    BY <1>a, <2>1, <2>2, <2>3, <2>4, Zenon DEF Holds, InHand, Reading
<1>8. CASE ListSave(p)
  <2>1. PICK u \in Uid, t \in Trade : /\ <<u, t>> \in r.batch /\ SaveInMemory(p, u, t)
                                      /\ n.batch = r.batch \ {<<u, t>>}
    BY <1>8, ListSaveEffect, Zenon DEF n
  <2>2. /\ r.pc = "listSave" /\ n.pc = "listSave"
        /\ n.before = r.before /\ n.answer = r.answer /\ shown' = shown
    BY <1>8, ListSaveEffect, Zenon DEF n, ListSave
  <2>3. n.answer \subseteq L \cup {f[1] : f \in n.batch}
    BY <2>1, <2>2 DEF ListOK, K
  <2> QED
    BY <1>a, <2>2, <2>3, Zenon DEF ListOK, Holds, InHand, Reading
<1>9. CASE ListAnswer(p)
  <2> n = Idle /\ shown' = shown \cup r.answer /\ r.answer \subseteq K
    BY <1>9, AnswerEffect, Zenon DEF n, ListOK, K
  <2> QED
    BY <1>b, Zenon
<1>10. CASE OpenOrders(p)
  <2> n.pc = "orders" /\ n.op = "ORDERS" /\ shown' = shown
    BY <1>10, OrdersEffect, Zenon DEF n, OpenOrders
  <2> QED
    BY <1>a, Zenon DEF Holds, InHand
<1>11. CASE LoadIntents(p) \/ loadIntentsFromDB(p) \/ OrdersSave(p) \/ OrdersAnswer(p)
  <2> /\ r.pc \in Reading
      /\ \/ n = Idle /\ shown' = shown \cup ToldOf(r)
         \/ /\ n.pc \in {"ordersDb", "ordersSave"} /\ n.op = r.op /\ n.uid = r.uid
            /\ shown' = shown
    BY <1>11, OrdersEffect, AnswerEffect, Zenon DEF n, Reading, loadIntentsFromDB, OrdersSave
  <2> ToldOf(r) \subseteq K /\ (r.op = "STATUS" => r.uid \in K)
    BY Zenon DEF ListOK, Holds, ToldOf, K
  <2> QED
    BY <1>a, <1>b, Zenon DEF Holds, InHand
<1> QED
  BY <1>1, <1>2, <1>3, <1>4, <1>5, <1>6, <1>7, <1>8, <1>9, <1>10, <1>11, Zenon
     DEF CallerStep

LEMMA ListNext == TypeInv /\ ListInv /\ [Next]_vars => ListInv'
<1> SUFFICES ASSUME TypeInv, ListInv, [Next]_vars PROVE ListInv'
  BY Zenon
<1>1. ASSUME NEW p \in Caller, CallerStep(p) PROVE ListInv'
  <2>1. Moved(p) /\ Known(trades) \subseteq Known(trades')
    BY <1>1, CallerMoves, KnownGrows, Zenon
  <2>2. ListOK(req[p])' /\ shown' \subseteq Known(trades')
    BY <1>1, OwnList, Zenon
  <2>3. ASSUME NEW q \in Caller, q # p PROVE ListOK(req[q])'
    <3>1. req'[q] = req[q] /\ ListOK(req[q])
      BY <2>1, <2>3, Zenon DEF Moved, TypeInv, Types, ListInv
    <3> QED
      BY <2>1, <3>1, Zenon DEF ListOK, Holds
  <2> QED
    BY <2>2, <2>3, Zenon DEF ListInv
<1>2. CASE Tick
  BY <1>2, Zenon DEF Tick, ListInv, ListOK, Holds
<1>3. CASE Restart
  BY <1>3, Zenon DEF Restart, ListInv, ListOK, Holds, Idle, InHand, Reading
<1>4. CASE UNCHANGED vars
  BY <1>4, Zenon DEF vars, ListInv, ListOK, Holds
<1> QED
  BY <1>1, <1>2, <1>3, <1>4, Zenon DEF Next, CallerStep

\* In one life of the gateway AllTrades omits no trade that a request that was
\* finished before the listing began had told of, for any number of callers
\* and trades and any page size.
THEOREM ListingIsMonotone == Spec => []MonotoneListing
<1>1. Init => ListInv
  BY DEF Init, ListInv, ListOK, Holds, Idle, InHand, Reading
<1>2. ListInv => MonotoneListing
  BY Zenon DEF ListInv, ListOK, MonotoneListing, At
<1> QED
  BY <1>1, <1>2, TypeInit, TypeNext, ListNext, PTL DEF Spec

-----------------------------------------------------------------------------
(* The cache *)

\* The others' part of the invariant: whoever writes a trade another caller
\* is half way through marks it as raced for.
LEMMA OthersCache ==
    ASSUME TypeInv, CacheInv, NEW p \in Caller, CallerStep(p),
           NEW q \in Caller, q # p
    PROVE  CacheOK(req[q])' /\ req'[q] = req[q]
<1> DEFINE r == req[q]
<1> Data /\ r \in Req /\ Shape(r) /\ CacheOK(r) /\ req'[q] = r
  BY CallerMoves, Zenon DEF TypeInv, Types, CacheInv, Moved
<1>0. /\ r.pc \in {"saveDb", "updateDb", "loadDb", "cache"} => r.uid \in Uid
      /\ r.pc = "listSave" => \A e \in r.batch : e[1] \in Uid
  BY Zenon DEF Shape, Fits, InHand, PageOK
<1>1. CASE trades' = trades /\ db' = db /\ raced' = raced
  BY <1>1, Zenon DEF CacheOK
<1>2. ASSUME NEW u \in Uid, NEW t \in Trade, SaveInMemory(p, u, t), db' = db
      PROVE  CacheOK(req[q])'
  <2>1. /\ raced \subseteq raced' /\ (HalfWay(q, u) => u \in raced')
        /\ \A v \in Uid : v # u => trades'[v] = trades[v]
    BY <1>2, Zenon DEF SaveInMemory, Data
  <2>2. /\ r.pc \in {"saveDb", "updateDb", "loadDb", "cache"} /\ r.uid = u => u \in raced'
        /\ r.pc = "listDb" => u \in raced'
        /\ r.pc = "listSave" => \A e \in r.batch : e[1] = u => u \in raced'
    BY <2>1, Zenon DEF HalfWay, At
  <2> QED
    BY <1>0, <1>2, <2>1, <2>2, Zenon DEF CacheOK
<1>3. ASSUME SaveDb(p) \/ UpdateDb(p), trades' = trades,
             req[p].uid \in Uid, req[p].tr \in Trade,
             upsertTrade(req[p].uid, req[p].tr)
      PROVE  CacheOK(req[q])'
  <2> DEFINE u == req[p].uid
  <2>1. raced \subseteq raced' /\ (\A v \in Uid : v # u => db'[v] = db[v])
    BY <1>3, Zenon DEF upsertTrade, Data
  <2>2. trades[u] # NoTrade \/ u \in raced
    BY <1>3, Names, Zenon DEF CacheInv, CacheOK, SaveDb, UpdateDb, At
  <2> HIDE DEF u
  <2> QED
    BY <1>0, <1>3, <2>1, <2>2, Zenon DEF CacheOK
<1> QED
  BY <1>1, <1>2, <1>3, CopiesEffect, Zenon

\* What a request half way through a trade is, in terms of the request alone.
Midway(r, u) ==
    \/ r.pc = "listDb"
    \/ r.pc = "listSave" /\ \E e \in r.batch : e[1] = u
    \/ r.pc \in {"loadDb", "cache", "saveDb", "updateDb"} /\ r.uid = u

\* A trade whose copies agree, or that is known to be in the making.
Current(p, u) ==
    \/ trades[u] = NoTrade \/ trades[u] = db[u] \/ u \in raced
    \/ Midway(req[p], u)

\* A caller that ends its part leaves the two copies alike, and what it goes
\* on with is as its next step expects it.
LEMMA OwnCache ==
    ASSUME TypeInv, CacheInv, NEW p \in Caller, CallerStep(p)
    PROVE  /\ CacheOK(req[p])'
           /\ \A u \in Uid : Current(p, u) => Current(p, u)'
<1> DEFINE r == req[p]
           n == req'[p]
           Ready == /\ n.pc \in {"saveDb", "updateDb"} => trades'[n.uid] = n.tr \/ n.uid \in raced'
                    /\ n.pc \in {"loadDb", "cache"} => trades'[n.uid] = NoTrade \/ n.uid \in raced'
                    /\ n.pc = "cache" => n.tr = db'[n.uid] \/ n.uid \in raced'
                    /\ n.pc = "listDb" => \A u \in Uid : trades'[u] = NoTrade \/ u \in raced'
                    /\ n.pc = "listSave" => \A e \in n.batch :
                         e[1] \in raced' \/ (trades'[e[1]] = NoTrade /\ e[2] = db'[e[1]])
           Agree(u) == \/ trades'[u] = NoTrade \/ trades'[u] = db'[u] \/ u \in raced'
                       \/ Midway(n, u)
           Still == \A u \in Uid : Current(p, u) => Agree(u)
           Busy == {"saveDb", "updateDb", "loadDb", "cache", "listDb", "listSave"}
<1> CacheOK(r) /\ trades \in [Uid -> Trade \cup {NoTrade}] /\ db \in [Uid -> Trade \cup {NoTrade}]
  BY Zenon DEF CacheInv, TypeInv, Types, Data
<1> SUFFICES Ready /\ Still
  BY Zenon DEF CacheOK, Current, Midway
<1> HIDE DEF n, Ready, Agree, Still
<1>a. CASE /\ trades' = trades /\ db' = db /\ raced' = raced
           /\ n.pc \notin Busy /\ r.pc \notin Busy
  BY <1>a, Zenon DEF Ready, Still, Agree, Current, Midway
<1>b. ASSUME NEW u \in Uid, NEW t \in Trade, SaveInMemory(p, u, t)
      PROVE  /\ raced \subseteq raced' /\ trades'[u] = t
             /\ \A v \in Uid : v # u => trades'[v] = trades[v]
  BY <1>b, Zenon DEF SaveInMemory
<1>1. CASE Append(p) \/ Insert(p) \/ Execute(p) \/ Plan(p)
  <2> trades' = trades /\ db' = db /\ raced' = raced /\ r.pc \notin Busy
    BY <1>1, Zenon DEF Append, Insert, Execute, Plan, At
  <2> ~ Update(p)
    BY <1>1, Zenon DEF Append, Insert, Execute, Plan, Update, At
  <2> n.pc \notin Busy
    BY <1>1, OrderEffect DEF n, Idle
  <2> QED
    BY <1>a, Zenon
<1>2. CASE OpenOrders(p) \/ LoadIntents(p) \/ loadIntentsFromDB(p) \/ OrdersSave(p)
             \/ OrdersAnswer(p)
  <2> trades' = trades /\ db' = db /\ raced' = raced /\ r.pc \notin Busy
    BY <1>2, Zenon
    DEF OpenOrders, LoadIntents, Begin, At, loadIntentsFromDB, OrdersSave, OrdersAnswer
  <2> n.pc \notin Busy
    BY <1>2, OrdersEffect, AnswerEffect DEF n, Idle
  <2> QED
    BY <1>a, Zenon
<1>3. CASE Deploy(p)
  <2> db' = db
    BY <1>3, Zenon DEF Deploy
  <2> /\ r.pc = "idle" /\ n.pc = "saveDb"
      /\ n.uid \in Uid /\ n.tr \in Trade /\ SaveInMemory(p, n.uid, n.tr)
    BY <1>3, DeployEffect DEF n, Idle
  <2> QED
    BY <1>b, Zenon DEF Ready, Still, Agree, Current, Midway
<1>4. CASE Update(p)
  <2> /\ r.pc = "update" /\ n.pc = "updateDb" /\ n.uid = r.uid /\ n.tr = r.tr /\ db' = db
      /\ SaveInMemory(p, r.uid, r.tr) /\ r.uid \in Uid /\ r.tr \in Trade
    BY <1>4, OnwardEffect, OrderEffect, Zenon DEF n, Same, Update, At
  <2> QED
    BY <1>b, Zenon DEF Ready, Still, Agree, Current, Midway
<1>5. CASE SaveDb(p) \/ UpdateDb(p)
  <2> /\ r.pc \in {"saveDb", "updateDb"} /\ trades' = trades
      /\ upsertTrade(r.uid, r.tr) /\ r.uid \in Uid
    BY <1>5, OrderEffect, Zenon DEF SaveDb, UpdateDb, At
  <2> ~ Update(p)
    BY Zenon DEF Update, At
  <2> n.pc \notin Busy
    BY <1>5, OrderEffect DEF n, Idle
  <2> trades[r.uid] = r.tr \/ r.uid \in raced
    BY Zenon DEF CacheOK
  <2> /\ raced \subseteq raced'
      /\ r.uid \in raced' \/ db'[r.uid] = r.tr
      /\ \A v \in Uid : v # r.uid => db'[v] = db[v]
    BY Zenon DEF upsertTrade
  <2> QED
    BY Zenon DEF Ready, Still, Agree, Current, Midway
<1>6. CASE LoadTrade(p)
  <2> trades' = trades /\ db' = db /\ raced' = raced
    BY <1>6, Zenon DEF LoadTrade
  <2> /\ r.pc = "idle"
      /\ n.pc \in {"plan", "orders"} \/ (trades[n.uid] = NoTrade /\ n.pc = "loadDb")
    BY <1>6, LoadTradeEffect DEF n, Idle
  <2> QED
    BY Zenon DEF Ready, Still, Agree, Current, Midway
<1>7. CASE loadTradeFromDB(p)
  <2> /\ trades' = trades /\ db' = db /\ raced' = raced /\ r.pc = "loadDb"
      /\ n.pc = "idle" \/ (n.pc = "cache" /\ n.uid = r.uid /\ n.tr = db[r.uid])
    BY <1>7, LoadEffect DEF n, Idle, loadTradeFromDB
  <2> trades[r.uid] = NoTrade \/ r.uid \in raced
    BY Zenon DEF CacheOK
  <2> QED
    BY Zenon DEF Ready, Still, Agree, Current, Midway
<1>8. CASE Cache(p)
  <2> /\ r.pc = "cache" /\ SaveInMemory(p, r.uid, r.tr) /\ r.uid \in Uid /\ r.tr \in Trade
      /\ db' = db /\ n.pc \in {"plan", "orders"}
    BY <1>8, LoadEffect, Zenon DEF n, Cache
  <2> r.tr = db[r.uid] \/ r.uid \in raced
    BY Zenon DEF CacheOK
  <2> QED
    BY <1>b DEF Ready, Still, Agree, Current, Midway
<1>9. CASE AllTrades(p)
  <2> /\ trades' = trades /\ db' = db /\ raced' = raced
      /\ r.pc = "idle" /\ n.batch = {}
      /\ n.pc = "listSave" \/ (n.pc = "listDb" /\ Known(trades) = {})
    BY <1>9, AllTradesEffect DEF n, Idle, AllTrades
  <2> QED
    BY Zenon DEF Ready, Still, Agree, Current, Midway, Known
<1>10. CASE loadTradesFromDB(p)
  <2>1. /\ trades' = trades /\ db' = db /\ raced' = raced
        /\ r.pc = "listDb" /\ n.pc = "listSave"
        /\ n.batch = {<<u, db[u]>> : u \in n.answer} \/ n.batch = {}
    BY <1>10, PageEffect, Zenon DEF n, loadTradesFromDB
  <2>2. \A u \in Uid : trades[u] = NoTrade \/ u \in raced
    BY <2>1, Zenon DEF CacheOK
  <2>3. n.batch \subseteq Uid \X Trade
    BY <1>10, <2>1, CallerMoves, Zenon DEF n, Moved, Shape, Fits, PageOK
  <2>4. \A e \in n.batch : e[1] \in Uid /\ e[2] = db[e[1]]
    BY <2>1, <2>3
  <2> QED
    BY <2>1, <2>2, <2>4, Zenon DEF Ready, Still, Agree
<1>11. CASE ListSave(p)
  <2>1. PICK u \in Uid, t \in Trade : /\ <<u, t>> \in r.batch /\ SaveInMemory(p, u, t)
                                      /\ n.batch = r.batch \ {<<u, t>>}
    BY <1>11, ListSaveEffect, Zenon DEF n
  <2>2. r.pc = "listSave" /\ n.pc = "listSave" /\ PageOK(r) /\ db' = db
    BY <1>11, ListSaveEffect, Zenon DEF n, ListSave
  <2>3. u \in raced \/ t = db[u]
    BY <2>1, <2>2, Zenon DEF CacheOK
  <2>4. \A f \in r.batch : f[1] \in Uid /\ (f[1] = u => f = <<u, t>>)
    BY <2>1, <2>2, Zenon DEF PageOK
  <2>5. Ready
    <3>1. \A f \in n.batch : f \in r.batch /\ f[1] # u /\ f[1] \in Uid
      BY <2>1, <2>4, Zenon
    <3> QED
      BY <1>b, <2>1, <2>2, <3>1, Zenon DEF Ready, CacheOK
  <2>6. Still
    <3>1. ASSUME NEW v \in Uid, v # u, Midway(r, v) PROVE Midway(n, v)
      BY <2>1, <2>2, <3>1 DEF Midway
    <3> QED
      BY <1>b, <2>1, <2>2, <2>3, <3>1, Zenon DEF Still, Agree, Current
  <2> QED
    BY <2>5, <2>6, Zenon
<1>12. CASE ListAnswer(p)
  <2> /\ trades' = trades /\ db' = db /\ raced' = raced /\ r.pc = "listSave" /\ r.batch = {}
      /\ n.pc = "idle"
    BY <1>12, AnswerEffect DEF ListAnswer, n, Idle
  <2> QED
    BY Zenon DEF Ready, Still, Agree, Current, Midway
<1> QED
  BY <1>1, <1>2, <1>3, <1>4, <1>5, <1>6, <1>7, <1>8, <1>9, <1>10, <1>11, <1>12, Zenon DEF CallerStep

LEMMA CacheNext == TypeInv /\ CacheInv /\ [Next]_vars => CacheInv'
<1> SUFFICES ASSUME TypeInv, CacheInv, [Next]_vars PROVE CacheInv'
  BY Zenon
<1>1. ASSUME NEW p \in Caller, CallerStep(p) PROVE CacheInv'
  <2>1. ASSUME NEW q \in Caller PROVE CacheOK(req[q])'
    BY <1>1, OwnCache, OthersCache, Zenon
  <2>2. ASSUME NEW u \in Known(trades)'
        PROVE  (trades[u] = db[u] \/ u \in raced \/ \E q \in Caller : HalfWay(q, u))'
    <3>1. u \in Uid /\ trades'[u] # NoTrade
      BY Zenon DEF Known
    <3>2. ASSUME NEW q \in Caller, q # p, HalfWay(q, u) PROVE HalfWay(q, u)'
      <4>1. req'[q] = req[q]
        BY <1>1, <3>2, OthersCache, Zenon
      <4> QED
        BY <3>2, <4>1, Zenon DEF HalfWay, At
    <3>3. Current(p, u) \/ \E q \in Caller \ {p} : HalfWay(q, u)
      BY <3>1, Zenon DEF CacheInv, CacheCurrent, Current, Known, Midway, HalfWay, At
    <3>4. CASE Current(p, u)
      <4>1. Current(p, u)'
        BY <1>1, <3>1, <3>4, OwnCache, Zenon
      <4>2. Midway(req[p], u)' => HalfWay(p, u)'
        BY Zenon DEF Midway, HalfWay, At
      <4> QED
        BY <3>1, <4>1, <4>2, Zenon DEF Current
    <3> QED
      BY <3>2, <3>3, <3>4, Zenon
  <2> QED
    BY <2>1, <2>2, Zenon DEF CacheInv, CacheCurrent
<1>2. CASE Tick
  BY <1>2 DEF Tick, CacheInv, CacheCurrent, CacheOK, HalfWay, Known, At
<1>3. CASE Restart
  <2>1. Known(trades)' = {}
    BY <1>3, Zenon DEF Restart, Known, NoTrades
  <2>2. \A q \in Caller : CacheOK(req[q])'
    BY <1>3, Zenon DEF Restart, CacheOK, Idle
  <2> QED
    BY <2>1, <2>2, Zenon DEF CacheInv, CacheCurrent
<1>4. CASE UNCHANGED vars
  BY <1>4 DEF vars, CacheInv, CacheCurrent, CacheOK, HalfWay, Known, At
<1> QED
  BY <1>1, <1>2, <1>3, <1>4, Zenon DEF Next, CallerStep

\* The trade MemoryStore answers with is the one in the table, for every trade
\* that nobody is half way through: the two part only when a statement is
\* lost or one caller caches a trade another is between reading and writing,
\* for any number of callers, trades, restarts and lost statements.
THEOREM CacheIsCurrent == Spec => []CacheCurrent
<1>1. Init => CacheInv
  BY DEF Init, CacheInv, CacheCurrent, CacheOK, Known, NoTrades, Idle
<1>2. CacheInv => CacheCurrent
  BY Zenon DEF CacheInv
<1> QED
  BY <1>1, <1>2, TypeInit, TypeNext, CacheNext, PTL DEF Spec

-----------------------------------------------------------------------------
(* The lists of orders *)

\* Within a life of the gateway appends are only added, so an order that may be
\* in the table keeps that reason.
LEMMA SentGrows ==
    ASSUME TypeInv, NEW p \in Caller, CallerStep(p)
    PROVE  /\ restarts' = restarts /\ \A i \in IntentId : sent'[i] >= sent[i]
           /\ \A i \in IntentId : FromTable(i) => FromTable(i)'
<1>1. sent \in [IntentId -> Nat] /\ restarts' = restarts
  BY ClockEffect, Zenon DEF TypeInv, Types, Data
<1>2. \A i \in IntentId : sent'[i] >= sent[i]
  BY <1>1, ListsEffect
<1>3. sent' \in [IntentId -> Nat]
  BY CallerData, Zenon DEF Data
<1> QED
  BY <1>1, <1>2, <1>3 DEF FromTable

\* The others' part: whoever adds to a list that another caller is loading
\* marks the trade.
LEMMA OthersLoad ==
    ASSUME TypeInv, OrdersInv, NEW p \in Caller, CallerStep(p),
           NEW q \in Caller, q # p
    PROVE  LoadOK(req[q])'
<1> DEFINE r == req[q]
<1> r \in Req /\ Shape(r) /\ LoadOK(r) /\ req'[q] = r /\ Data
  BY CallerMoves, Zenon DEF TypeInv, Types, OrdersInv, Moved
<1>1. sent' \in [IntentId -> Nat]
  BY CallerData, Zenon DEF Data
<1>3. \/ intents' = intents /\ overlap' = overlap
      \/ \E u \in Uid, i \in IntentId : AppendInMemory(p, u, i)
  BY ListsEffect, Zenon
<1>4. ASSUME r.pc \in {"ordersDb", "ordersSave"}
      PROVE  \/ r.uid \in overlap'
             \/ r.uid \notin overlap /\ intents'[r.uid] = intents[r.uid]
  <2>1. r.uid \in Uid
    BY <1>4, Zenon DEF Shape, Fits, Reading
  <2>2. ASSUME NEW u \in Uid, NEW i \in IntentId, AppendInMemory(p, u, i)
        PROVE  /\ overlap \subseteq overlap' /\ (r.uid = u => u \in overlap')
               /\ \A v \in Uid : v # u => intents'[v] = intents[v]
    BY <1>4, <2>2, Zenon DEF AppendInMemory, Data
  <2> QED
    BY <1>3, <2>1, <2>2, Zenon
<1>5. r.pc = "insert" => sent'[r.id] > 0
  <2>1. r.pc = "insert" => r.id \in IntentId
    BY Zenon DEF Shape, Fits, InHand
  <2> QED
    BY <1>1, <2>1, SentGrows DEF LoadOK, Data
<1>6. r.pc = "ordersSave" => r.batch \subseteq IntentId
  BY Zenon DEF Shape, Fits, Idle
<1> QED
  BY <1>4, <1>5, <1>6, SentGrows, Zenon DEF LoadOK

\* A caller goes on to load a list only if it is empty, and adds to it the rows
\* of the table, each once.
LEMMA OwnLoad ==
    ASSUME TypeInv, OrdersInv, NEW p \in Caller, CallerStep(p)
    PROVE  LoadOK(req[p])'
<1> DEFINE r == req[p]
           n == req'[p]
           Ready == /\ n.pc = "insert" => sent'[n.id] > 0
                    /\ n.pc = "ordersDb" =>
                         n.uid \in overlap' \/ \A i \in IntentId : intents'[n.uid][i] = 0
                    /\ n.pc = "ordersSave" => \A i \in n.batch :
                         /\ FromTable(i)'
                         /\ n.uid \in overlap' \/ intents'[n.uid][i] = 0
<1> Data /\ r \in Req /\ Shape(r) /\ LoadOK(r)
  BY Zenon DEF TypeInv, Types, OrdersInv
<1> SUFFICES Ready
  BY Zenon DEF LoadOK
<1> HIDE DEF n
<1>1. CASE Append(p)
  <2>1. n.pc = "insert" /\ n.id = r.id /\ r.id \in IntentId
    BY <1>1, OnwardEffect, Zenon DEF n, Same, Append, At, Shape, Fits, InHand
  <2>2. sent' = [sent EXCEPT ![r.id] = @ + 1]
    BY <1>1, Zenon DEF Append
  <2> QED
    BY <2>1, <2>2 DEF Data
<1>2. CASE LoadIntents(p)
  <2>1. r.uid \in Uid /\ intents' = intents
    BY <1>2, OrdersEffect, Zenon DEF LoadIntents
  <2>2. \/ n.pc = "idle"
        \/ /\ n.pc = "ordersDb" /\ n.uid = r.uid
           /\ \A i \in IntentId : ~ intents[r.uid][i] > 0
    BY <1>2, OrdersEffect DEF n, Idle
  <2> QED
    BY <2>1, <2>2 DEF Data
<1>3. CASE loadIntentsFromDB(p)
  <2>1. /\ r.pc = "ordersDb" /\ r.uid \in Uid
        /\ intents' = intents /\ overlap' = overlap /\ sent' = sent /\ restarts' = restarts
    BY <1>3, OrdersEffect, Zenon DEF loadIntentsFromDB, clockVars
  <2>2. /\ n.pc = "ordersSave" /\ n.uid = r.uid
        /\ \A i \in n.batch : i \in IntentId /\ orders[i].trade = r.uid
    BY <1>3, OrdersEffect, Zenon DEF n
  <2>3. \A i \in n.batch : orders[i] # NoRow
    BY <2>1, <2>2, Names DEF NoRow
  <2>4. \A i \in n.batch : FromTable(i)'
    BY <2>1, <2>2, <2>3, Zenon DEF OrdersInv, FromTable
  <2> QED
    BY <2>1, <2>2, <2>4, Zenon DEF LoadOK
<1>4. CASE OrdersSave(p)
  <2>1. PICK i \in IntentId : /\ i \in r.batch /\ AppendInMemory(p, r.uid, i)
                              /\ n.batch = r.batch \ {i}
    BY <1>4, OrdersEffect, Zenon DEF n
  <2>2. /\ r.pc = "ordersSave" /\ n.pc = "ordersSave" /\ n.uid = r.uid
        /\ r.uid \in Uid /\ r.batch \subseteq IntentId
    BY <1>4, OrdersEffect, Zenon DEF n, Shape, Fits, Reading, Idle
  <2>3. sent' = sent /\ restarts' = restarts
    BY <1>4, Zenon DEF OrdersSave, clockVars
  <2>4. /\ overlap \subseteq overlap'
        /\ \A j \in IntentId : j # i => intents'[r.uid][j] = intents[r.uid][j]
    BY <2>1, <2>2, Zenon DEF AppendInMemory, Data
  <2> QED
    BY <2>1, <2>2, <2>3, <2>4, Zenon DEF LoadOK, FromTable
<1>5. CASE n.pc \notin {"insert", "ordersDb", "ordersSave"}
  BY <1>5, Zenon
<1>6. n.pc \notin {"insert", "ordersDb", "ordersSave"}
        \/ Append(p) \/ LoadIntents(p) \/ loadIntentsFromDB(p) \/ OrdersSave(p)
  <2>1. Deploy(p) \/ SaveDb(p) \/ Insert(p) \/ Execute(p) \/ Update(p) \/ UpdateDb(p)
          \/ Plan(p) => n.pc \notin {"insert", "ordersDb", "ordersSave"} \/ Append(p)
    BY DeployEffect, OrderEffect DEF n, Idle
  <2>2. LoadTrade(p) \/ loadTradeFromDB(p) \/ Cache(p)
          => n.pc \notin {"insert", "ordersDb", "ordersSave"}
    BY LoadTradeEffect, LoadEffect DEF n, Idle
  <2>3. OpenOrders(p) \/ OrdersAnswer(p) => n.pc \notin {"insert", "ordersDb", "ordersSave"}
    BY OrdersEffect, AnswerEffect DEF n, Idle
  <2>4. AllTrades(p) \/ loadTradesFromDB(p) \/ ListSave(p) \/ ListAnswer(p)
          => n.pc \notin {"insert", "ordersDb", "ordersSave"}
    BY AllTradesEffect, PageEffect, ListSaveEffect, AnswerEffect DEF n, Idle
  <2> QED
    BY <2>1, <2>2, <2>3, <2>4, Zenon DEF CallerStep
<1> QED
  BY <1>1, <1>2, <1>3, <1>4, <1>5, <1>6, Zenon

LEMMA OrdersNext == TypeInv /\ OrdersInv /\ [Next]_vars => OrdersInv'
<1> SUFFICES ASSUME TypeInv, OrdersInv, [Next]_vars PROVE OrdersInv'
  BY Zenon
<1>0. Data
  BY Zenon DEF TypeInv, Types
<1>1. ASSUME NEW p \in Caller, CallerStep(p) PROVE OrdersInv'
  <2>1. \A q \in Caller : LoadOK(req[q])'
    BY <1>1, OwnLoad, OthersLoad, Zenon
  <2>2. \A i \in IntentId : orders'[i] # NoRow => FromTable(i)'
    <3>1. ASSUME req[p].pc = "insert", req[p].id \in IntentId PROVE FromTable(req[p].id)
      BY <3>1, Zenon DEF OrdersInv, LoadOK, FromTable
    <3> QED
      BY <1>1, <3>1, RowsEffect, SentGrows, Zenon DEF OrdersInv
  <2>3. NoExtraIntent'
    <3>1. CASE intents' = intents /\ overlap' = overlap /\ sent' = sent
      BY <1>1, <3>1, ClockEffect, Zenon DEF NoExtraIntent, OrdersInv
    <3>2. ASSUME NEW i \in IntentId, req[p].uid \in Uid,
                 AppendInMemory(p, req[p].uid, i), Append(p),
                 sent' = [sent EXCEPT ![i] = @ + 1]
          PROVE  NoExtraIntent'
      <4>1. /\ intents' = [intents EXCEPT ![req[p].uid][i] = @ + 1]
            /\ overlap \subseteq overlap' /\ restarts' = restarts
        BY <1>1, <3>2, ClockEffect, Zenon DEF AppendInMemory
      <4> QED
        BY <1>0, <3>2, <4>1 DEF NoExtraIntent, OrdersInv, Data
    <3>3. ASSUME NEW i \in IntentId, req[p].uid \in Uid,
                 AppendInMemory(p, req[p].uid, i), OrdersSave(p), i \in req[p].batch,
                 sent' = sent
          PROVE  NoExtraIntent'
      <4>1. /\ intents' = [intents EXCEPT ![req[p].uid][i] = @ + 1]
            /\ overlap \subseteq overlap' /\ restarts' = restarts
        BY <1>1, <3>3, ClockEffect, Zenon DEF AppendInMemory
      <4>2. FromTable(i) /\ (req[p].uid \in overlap \/ intents[req[p].uid][i] = 0)
        BY <3>3, Zenon DEF OrdersInv, LoadOK, OrdersSave, At
      <4> QED
        BY <1>0, <3>3, <4>1, <4>2 DEF NoExtraIntent, OrdersInv, FromTable, Data
    <3> QED
      BY <1>1, <3>1, <3>2, <3>3, ListsEffect, Zenon
  <2> QED
    BY <2>1, <2>2, <2>3, Zenon DEF OrdersInv
<1>2. CASE Tick
  BY <1>2, Zenon DEF Tick, OrdersInv, NoExtraIntent, LoadOK, FromTable
<1>3. CASE Restart
  <2>1. restarts' > 0 /\ restarts' \in Int
    BY <1>0, <1>3, DirectoryAssumption DEF Restart, Data
  <2>2. NoExtraIntent'
    BY <1>3, <2>1 DEF Restart, NoExtraIntent, NoIntents
  <2>3. \A i \in IntentId : FromTable(i)'
    BY <2>1, Zenon DEF FromTable
  <2>4. \A q \in Caller : LoadOK(req[q])'
    BY <1>3, Zenon DEF Restart, LoadOK, Idle
  <2> QED
    BY <2>2, <2>3, <2>4, Zenon DEF OrdersInv
<1>4. CASE UNCHANGED vars
  BY <1>4, Zenon DEF vars, clockVars, OrdersInv, NoExtraIntent, LoadOK, FromTable
<1> QED
  BY <1>1, <1>2, <1>3, <1>4, Zenon DEF Next, CallerStep

\* LoadIntents never lists an order more often than it was appended in this
\* life of the gateway, plus once for the rows an earlier life left in the
\* table, unless two callers added to the list while one was loading it; for
\* any number of callers, trades, restarts and lost statements.
THEOREM ListsHoldNoExtra == Spec => []NoExtraIntent
<1>1. Init => OrdersInv
  BY DEF Init, OrdersInv, NoExtraIntent, LoadOK, NoIntents, Idle
<1>2. OrdersInv => NoExtraIntent
  BY Zenon DEF OrdersInv
<1> QED
  BY <1>1, <1>2, TypeInit, TypeNext, OrdersNext, PTL DEF Spec

=============================================================================
