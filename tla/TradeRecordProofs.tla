-------------------------- MODULE TradeRecordProofs --------------------------
(***************************************************************************)
(* Type correctness of ExecutionGateway, for any number of build orders,   *)
(* chunks and requests of any kind running at once, any order quantity and *)
(* any bounds, and three results on the records of a trade that need no    *)
(* more: the cached and the stored trade only part through a lost write or *)
(* two writes that overlap, a SquareOff panics only if another one was     *)
(* faster, and the orders table records no fill the broker does not have.  *)
(***************************************************************************)
EXTENDS ExecutionGateway, FiniteSetTheorems, TLAPS

-----------------------------------------------------------------------------
(* Types of the operators *)

\* Counting the units of finitely many natural numbers gives one.
LEMMA TotalType ==
    ASSUME NEW S, IsFiniteSet(S), NEW f, \A i \in S : f[i] \in Nat
    PROVE  Total(S, f) \in Nat
<1> DEFINE Units(i) == {<<i, k>> : k \in 1..f[i]}
           U == {Units(i) : i \in S}
           g == [i \in S |-> Units(i)]
<1>1. g \in Surjection(S, U)
  BY ZenonT(30) DEF Surjection
<1>2. IsFiniteSet(U)
  BY <1>1, FS_Surjection, Zenon
<1>3. ASSUME NEW i \in S PROVE IsFiniteSet(Units(i))
  <2>1. IsFiniteSet({i})
    BY FS_Singleton, ZenonT(30)
  <2>2. f[i] \in Nat
    BY Zenon
  <2>3. IsFiniteSet(1..f[i])
    BY <2>2, FS_Interval
  <2>4. IsFiniteSet({i} \X (1..f[i]))
    BY <2>1, <2>3, FS_Product, ZenonT(30)
  <2>5. Units(i) \in SUBSET ({i} \X (1..f[i]))
    OBVIOUS
  <2> QED
    BY <2>4, <2>5, FS_Subset, Zenon
<1>4. IsFiniteSet(UNION U)
  BY <1>2, <1>3, FS_UNION, ZenonT(30)
<1> QED
  BY <1>4, FS_CardinalityType, Zenon DEF Total

\* The recorded position of a leg is an integer.
LEMMA NetType ==
    ASSUME NEW table \in [OrderId -> OrderRow], NEW l \in Legs
    PROVE  NetPosition(table, l) \in Int
<1> DEFINE filled == [i \in OrderId |-> table[i].filled]
<1>1. ASSUME NEW side PROVE Total(FilledRows(table, l, side), filled) \in Nat
  <2>1. FilledRows(table, l, side) \in SUBSET OrderId
    BY Zenon DEF FilledRows
  <2>2. IsFiniteSet(FilledRows(table, l, side))
    BY <2>1, FS_Subset, StoreAssumption, Zenon
  <2>3. \A i \in FilledRows(table, l, side) : filled[i] \in Nat
    BY <2>1, Zenon DEF OrderRow
  <2> HIDE DEF filled
  <2> QED
    BY <2>2, <2>3, TotalType, Zenon
<1>2. Total(FilledRows(table, l, "BUY"), filled) \in Nat
  BY <1>1, Zenon
<1>3. Total(FilledRows(table, l, "SELL"), filled) \in Nat
  BY <1>1, Zenon
<1> QED
  BY <1>2, <1>3 DEF NetPosition

\* PartialSquareOff scales a quantity to a quantity.
LEMMA ScaledType ==
    ASSUME NEW q \in Nat, NEW percent \in 1..100
    PROVE  Scaled(q, percent) \in Nat
<1>1. q * (100 - percent) \in Nat
  BY 100 - percent \in Nat
<1> DEFINE n == q * (100 - percent)
<1>2. 2 * q * (100 - percent) = 2 * n
  OBVIOUS
<1> HIDE DEF n
<1>3. (2 * n + 100) \div 200 \in Nat
  BY <1>1 DEF n
<1> QED
  BY <1>2, <1>3, Zenon DEF Scaled

\* A new trade holds the quantities of its build.
LEMMA NewTradeType == NewTrade \in StoredTrade
<1>1. ASSUME NEW l \in Legs
      PROVE  OrderQty * Cardinality({n \in BuildOrder : LegOf[n] = l}) \in Nat
  <2>1. IsFiniteSet(BuildOrder)
    BY FS_Interval, GatewayAssumption DEF BuildOrder
  <2>2. {n \in BuildOrder : LegOf[n] = l} \in SUBSET BuildOrder
    BY Zenon
  <2>3. Cardinality({n \in BuildOrder : LegOf[n] = l}) \in Nat
    BY <2>1, <2>2, FS_Subset, FS_CardinalityType, Zenon
  <2> QED
    BY <2>3, GatewayAssumption
<1> QED
  BY <1>1, Zenon DEF NewTrade, StoredTrade, TradeStatus

\* A quantity without its sign.
LEMMA AbsType ==
    ASSUME NEW n \in Int
    PROVE  Abs(n) \in Nat
  BY DEF Abs

\* What the executors return is a result for the quantity asked for.
LEMMA OutcomeType ==
    ASSUME NEW q \in Nat, NEW r \in Outcomes(q)
    PROVE  /\ r.status \in AllAnswers /\ r.filled \in Nat /\ r.open \in Nat
           /\ r.status # "ERR" => r \in Outcome
           /\ Unaccounted(r) \in Nat
           /\ r.filled + r.open <= q
           /\ r.status = "FILLED" => r.filled = q
           /\ r.status \in {"ERR", "REJECTED", "CANCELLED"}
                 => r.filled + r.open = Unaccounted(r)
  BY AnswersAssumption DEF Outcomes, Outcome, Consistent, Unaccounted, AllAnswers

-----------------------------------------------------------------------------
(* Types of the store's and the broker's steps *)

\* upsertTrade stores a trade or loses it.
LEMMA UpsertType ==
    ASSUME StoreTypeOK, NEW t \in StoredTrade, upsertTrade(t)
    PROVE  StoreTypeOK'
  BY StoreAssumption DEF StoreTypeOK, upsertTrade, StoredTrade

\* SaveTrade's memory half stores a trade.
LEMMA SaveType ==
    ASSUME StoreTypeOK, NEW t \in StoredTrade, saveToMemory(t)
    PROVE  StoreTypeOK'
  BY Zenon DEF StoreTypeOK, saveToMemory

\* insertOrderIntent adds well-formed rows, and counts the lost ones.
LEMMA InsertType ==
    ASSUME StoreTypeOK, NEW new, DOMAIN new \subseteq OrderId,
           \A i \in DOMAIN new : new[i] \in OrderRow,
           insertOrderIntents(new)
    PROVE  StoreTypeOK'
<1>1. PICK lost \in SUBSET DOMAIN new :
         /\ faults + Cardinality(lost) <= MaxFaults
         /\ faults' = faults + Cardinality(lost)
         /\ rows' = [i \in OrderId |->
                       IF i \in DOMAIN new \ lost /\ ~Exists(i)
                       THEN new[i] ELSE rows[i]]
  BY Zenon DEF insertOrderIntents
<1>2. Cardinality(lost) \in Nat
  BY FS_Subset, FS_CardinalityType, StoreAssumption, Zenon
<1>3. faults' \in 0..MaxFaults
  BY <1>1, <1>2, StoreAssumption DEF StoreTypeOK
<1>4. rows' \in [OrderId -> OrderRow]
  BY <1>1, Zenon DEF StoreTypeOK
<1> QED
  BY <1>3, <1>4, Zenon DEF StoreTypeOK, insertOrderIntents

\* MarkOrderExecution leaves well-formed rows.
LEMMA MarkType ==
    ASSUME StoreTypeOK, NEW id, NEW status \in OrderStatus, NEW filled \in Nat,
           MarkOrderExecution(id, status, filled)
    PROVE  StoreTypeOK'
<1>1. rows' \in [OrderId -> OrderRow]
  BY Zenon DEF StoreTypeOK, MarkOrderExecution, OrderRow
<1>2. faults' \in 0..MaxFaults
  BY StoreAssumption DEF StoreTypeOK, MarkOrderExecution
<1> QED
  BY <1>1, <1>2, Zenon DEF StoreTypeOK, MarkOrderExecution

\* A call to the broker adds to its quantities.
LEMMA ExecuteType ==
    ASSUME BrokerTypeOK, NEW x \in Ticket, NEW q \in Nat, NEW r \in Outcomes(q),
           ExecuteOrderIntent(x, r)
    PROVE  BrokerTypeOK'
  BY OutcomeType DEF BrokerTypeOK, ExecuteOrderIntent

-----------------------------------------------------------------------------
(* Type correctness *)

\* Tickets, ids and processes are what the constants say.
LEMMA TicketTypes ==
    /\ Deployer \in Process
    /\ \A p \in Request : p \in Process /\ p # Deployer
    /\ \A n \in BuildOrder : BuildTicket(n) \in Ticket /\ BuildId(n) \in OrderId
    /\ \A p \in Request, l \in Legs : LegTicket(p, l) \in Ticket
    /\ OrderQty \in Nat /\ OrderQty > 0
    /\ \A n \in BuildOrder : LegOf[n] \in Legs
  BY GatewayAssumption
     DEF Process, AllTickets, AllIds, Legs

\* The gateway starts well-typed.
LEMMA InitType == Init => TypeOK
<1> SUFFICES ASSUME Init PROVE TypeOK
  BY Zenon
<1>1. NoTrade \in StoredTrade
  BY Zenon DEF NoTrade, StoredTrade, TradeStatus
<1>2. NoRow \in OrderRow
  BY Zenon DEF NoRow, OrderRow, OrderStatus, Legs, Sides
<1>3. StoreTypeOK
  BY <1>1, <1>2, StoreAssumption DEF Init, StoreInit, StoreTypeOK, TradeStatus
<1>4. BrokerTypeOK
  BY Zenon DEF Init, BrokerInit, BrokerTypeOK
<1>5. NoOutcome \in Outcome
  BY Zenon DEF NoOutcome, Outcome, AllAnswers
<1>6. /\ chunk \in Nat /\ attempt \in 1..MaxChunkRetries /\ sec \in 0..MaxSec
      /\ crashes \in 0..MaxCrashes /\ want \in [Request -> [Legs -> Int]]
  BY GatewayAssumption DEF Init, MaxChunkRetries
<1>7. /\ pc \in [Process -> BuildPC \cup RequestPC]
      /\ kind \in [Request -> AllKinds]
      /\ lead \in [Request -> Legs]
      /\ newStatus \in [Request -> TradeStatus]
  BY Zenon DEF Init, BuildPC, AllKinds, Legs, TradeStatus
<1>8. /\ allFilled \in [Request -> BOOLEAN] /\ runtime \in BOOLEAN
      /\ stopped \in BOOLEAN /\ raced \in BOOLEAN
      /\ undisturbed \in [Request -> BOOLEAN]
  BY ZenonT(30) DEF Init
<1>9. /\ tr \in [Process -> StoredTrade] /\ res \in [Process -> Outcome]
      /\ ids \in [Request -> [Legs -> OrderId \cup {NoId}]]
      /\ legs \in [Request -> SUBSET Legs]
  BY <1>1, <1>5, Zenon DEF Init
<1>10. /\ todo \subseteq BuildOrder /\ nextRetry \subseteq BuildOrder
       /\ verdict \in {"ACTIVE", "PENDING_FILL", "FAILED"}
  BY Zenon DEF Init
<1> QED
  BY <1>3, <1>4, <1>6, <1>7, <1>8, <1>9, <1>10, Zenon DEF TypeOK

\* A trade with a new status is a trade.
LEMMA WithStatusType ==
    ASSUME NEW t \in StoredTrade, NEW s \in TradeStatus
    PROVE  WithStatus(t, s) \in StoredTrade
  BY Zenon DEF WithStatus, StoredTrade

\* A step that writes the memory half of a trade.
LEMMA UpdateMemType ==
    ASSUME TypeOK, NEW p \in Process, NEW t \in StoredTrade,
           NEW next \in BuildPC \cup RequestPC, UpdateMem(p, t, next)
    PROVE  TypeOK'
<1>1. StoreTypeOK'
  BY SaveType, Zenon DEF TypeOK, UpdateMem
<1>2. BrokerTypeOK'
  BY Zenon DEF TypeOK, UpdateMem, BrokerTypeOK, brokerVars
<1>3. raced' \in BOOLEAN
  BY Zenon DEF UpdateMem
<1> QED
  BY <1>1, <1>2, <1>3, Zenon
     DEF TypeOK, UpdateMem, Goto, buildVars, planVars

\* A step that writes the database half.
LEMMA UpdateDbType ==
    ASSUME TypeOK, NEW p \in Process, NEW next \in BuildPC \cup RequestPC,
           UpdateDb(p, next)
    PROVE  TypeOK'
<1>1. StoreTypeOK'
  BY UpsertType, Zenon DEF TypeOK, UpdateDb
<1>2. BrokerTypeOK'
  BY Zenon DEF TypeOK, UpdateDb, BrokerTypeOK, brokerVars
<1> QED
  BY <1>1, <1>2, Zenon
     DEF TypeOK, UpdateDb, Goto, buildVars, planVars, restVars

\* A step that only moves on.
LEMMA MoveType ==
    ASSUME TypeOK, NEW p \in Process, NEW next \in BuildPC \cup RequestPC,
           Move(p, next)
    PROVE  TypeOK'
<1>1. StoreTypeOK' /\ BrokerTypeOK'
  BY Zenon DEF TypeOK, Move, StoreTypeOK, storeVars, BrokerTypeOK, brokerVars
<1> QED
  BY <1>1, Zenon DEF TypeOK, Move, Goto, buildVars, planVars, restVars

\* The steps of DeployStraddle keep the types.
LEMMA DeployType == TypeOK /\ DeployStep => TypeOK'
<1> SUFFICES ASSUME TypeOK, DeployStep PROVE TypeOK'
  BY Zenon
<1> USE TicketTypes
<1>1. CASE DeployStraddle
  BY <1>1, UpdateMemType, NewTradeType, Zenon DEF DeployStraddle, BuildPC
<1>2. CASE DeploySaveDb
  <2>1. StoreTypeOK' /\ BrokerTypeOK'
    BY <1>2, UpsertType, Zenon DEF TypeOK, DeploySaveDb, BrokerTypeOK, brokerVars
  <2>2. pc' \in [Process -> BuildPC \cup RequestPC]
    BY <1>2, ZenonT(30) DEF TypeOK, DeploySaveDb, Goto, BuildPC
  <2>3. chunk' \in Nat /\ todo' \subseteq BuildOrder
    BY <1>2, SMTT(30) DEF TypeOK, DeploySaveDb, ChunkOrders
  <2> QED
    BY <1>2, <2>1, <2>2, <2>3, Zenon DEF TypeOK, DeploySaveDb, planVars, restVars
<1>3. CASE BuildAppendIntent
  <2>1. PICK n \in todo :
           insertOrderIntents([i \in {BuildId(n)} |->
                                 CreatedRow(LegOf[n], "SELL", OrderQty)])
    BY <1>3, ZenonT(30) DEF BuildAppendIntent
  <2>2. n \in BuildOrder
    BY Zenon DEF TypeOK
  <2>3. CreatedRow(LegOf[n], "SELL", OrderQty) \in OrderRow
    BY <2>2, Zenon DEF CreatedRow, OrderRow, Sides, OrderStatus
  <2>4. StoreTypeOK'
    BY <2>1, <2>2, <2>3, InsertType, ZenonT(30) DEF TypeOK
  <2>5. BrokerTypeOK' /\ pc' \in [Process -> BuildPC \cup RequestPC]
    BY <1>3, Zenon DEF TypeOK, BuildAppendIntent, BrokerTypeOK, brokerVars, Goto,
                BuildPC
  <2> QED
    BY <1>3, <2>4, <2>5, Zenon
       DEF TypeOK, BuildAppendIntent, buildVars, planVars, restVars
<1>4. CASE BuildExecute
  <2>1. PICK n \in todo, r \in Outcomes(OrderQty) :
           /\ IsNext(n)
           /\ ExecuteOrderIntent(BuildTicket(n), r)
           /\ \/ /\ r.status = "ERR"
                 /\ todo' = todo \ {n}
                 /\ nextRetry' = nextRetry \cup {n}
                 /\ Goto(Deployer, "append")
                 /\ UNCHANGED res
              \/ /\ r.status # "ERR"
                 /\ res' = [res EXCEPT ![Deployer] = r]
                 /\ Goto(Deployer, "record")
                 /\ UNCHANGED <<todo, nextRetry>>
    BY <1>4, Zenon DEF BuildExecute
  <2>2. n \in BuildOrder
    BY Zenon DEF TypeOK
  <2>3. BrokerTypeOK'
    BY <2>1, <2>2, ExecuteType, Zenon DEF TypeOK
  <2>4. pc' \in [Process -> BuildPC \cup RequestPC]
    BY <2>1, Zenon DEF TypeOK, Goto, BuildPC
  <2>5. r.status # "ERR" => r \in Outcome
    BY OutcomeType, Zenon
  <2>6. res' \in [Process -> Outcome]
    BY <2>1, <2>5, Zenon DEF TypeOK
  <2>7. todo' \subseteq BuildOrder /\ nextRetry' \subseteq BuildOrder
    BY <2>1, <2>2, Zenon DEF TypeOK
  <2>8. StoreTypeOK'
    BY <1>4, Zenon DEF TypeOK, BuildExecute, StoreTypeOK, storeVars
  <2> QED
    BY <1>4, <2>3, <2>4, <2>6, <2>7, <2>8, Zenon
       DEF TypeOK, BuildExecute, planVars, restVars
<1>5. CASE BuildRecord
  <2>1. PICK n \in todo :
           MarkOrderExecution(BuildId(n), res[Deployer].status,
                              res[Deployer].filled)
    BY <1>5, Zenon DEF BuildRecord
  <2>2. /\ res[Deployer].status \in OrderStatus
        /\ res[Deployer].filled \in Nat
    BY Zenon DEF TypeOK, Outcome, AllAnswers, OrderStatus
  <2>3. StoreTypeOK'
    BY <2>1, <2>2, MarkType, Zenon DEF TypeOK
  <2>4. /\ pc' \in [Process -> BuildPC \cup RequestPC]
        /\ todo' \subseteq BuildOrder /\ nextRetry' \subseteq BuildOrder
        /\ verdict' \in {"ACTIVE", "PENDING_FILL", "FAILED"}
    BY <1>5, ZenonT(30) DEF TypeOK, BuildRecord, Goto, BuildPC
  <2>5. res' \in [Process -> Outcome]
    BY <1>5, Zenon DEF TypeOK, BuildRecord, NoOutcome, Outcome, AllAnswers
  <2>6. undisturbed' \in [Request -> BOOLEAN]
    BY <1>5, Zenon DEF BuildRecord, Disturb
  <2>7. BrokerTypeOK'
    BY <1>5, Zenon DEF TypeOK, BuildRecord, BrokerTypeOK, brokerVars
  <2> QED
    BY <1>5, <2>3, <2>4, <2>5, <2>6, <2>7, Zenon
       DEF TypeOK, BuildRecord, planVars, restVars
<1>6. CASE BuildRound
  <2>1. StoreTypeOK' /\ BrokerTypeOK'
    BY <1>6, Zenon DEF TypeOK, BuildRound, StoreTypeOK, storeVars, BrokerTypeOK,
                brokerVars
  <2>2. /\ chunk' \in Nat /\ attempt' \in 1..MaxChunkRetries
    BY <1>6, SMTT(30) DEF TypeOK, BuildRound, NextAttempt, MaxChunkRetries
  <2>3. /\ pc' \in [Process -> BuildPC \cup RequestPC]
        /\ todo' \subseteq BuildOrder /\ nextRetry' \subseteq BuildOrder
        /\ verdict' \in {"ACTIVE", "PENDING_FILL", "FAILED"}
    BY <1>6, ZenonT(30) DEF TypeOK, BuildRound, Goto, BuildPC, ChunkOrders
  <2> QED
    BY <1>6, <2>1, <2>2, <2>3, Zenon
       DEF TypeOK, BuildRound, planVars, restVars
<1>7. CASE DeployFinishMem
  <2>1. WithStatus(tr[Deployer], verdict) \in StoredTrade
    BY WithStatusType, Zenon DEF TypeOK, TradeStatus
  <2> QED
    BY <1>7, <2>1, UpdateMemType, Zenon DEF DeployFinishMem, BuildPC
<1>8. CASE DeployFinishDb
  BY <1>8, UpdateDbType, Zenon DEF DeployFinishDb, BuildPC
<1>9. CASE StartRuntime
  <2>1. StoreTypeOK' /\ BrokerTypeOK'
    BY <1>9, Zenon DEF TypeOK, StartRuntime, StoreTypeOK, storeVars, BrokerTypeOK,
                brokerVars
  <2>2. runtime' \in BOOLEAN /\ stopped' \in BOOLEAN
    BY <1>9, ZenonT(30) DEF TypeOK, StartRuntime
  <2>3. pc' \in [Process -> BuildPC \cup RequestPC]
    BY <1>9, Zenon DEF TypeOK, StartRuntime, Goto, BuildPC
  <2> QED
    BY <1>9, <2>1, <2>2, <2>3, ZenonT(30)
       DEF TypeOK, StartRuntime, buildVars, planVars, restVars
<1> QED
  BY <1>1, <1>2, <1>3, <1>4, <1>5, <1>6, <1>7, <1>8, <1>9, Zenon DEF DeployStep

\* Storing the intents of a plan, whose ids name their leg.
LEMMA AppendType ==
    ASSUME TypeOK, NEW p \in Request, NEW q \in [Legs -> Int],
           NEW idOf \in [Legs -> OrderId], \A l \in Legs : idOf[l][2] = l,
           AppendIntents(p, q, idOf)
    PROVE  StoreTypeOK' /\ ids' \in [Request -> [Legs -> OrderId \cup {NoId}]]
<1> DEFINE new == [i \in {idOf[l] : l \in Traded(q)} |->
                     CreatedRow(i[2], SideOf(q[i[2]]), Abs(q[i[2]]))]
<1>1. DOMAIN new \subseteq OrderId
  BY Zenon DEF Traded
<1>2. ASSUME NEW i \in DOMAIN new PROVE new[i] \in OrderRow
  <2>1. PICK l \in Legs : i = idOf[l]
    BY Zenon DEF Traded
  <2>2. i[2] \in Legs /\ q[i[2]] \in Int
    BY <2>1, Zenon
  <2>3. Abs(q[i[2]]) \in Nat /\ SideOf(q[i[2]]) \in Sides
    BY <2>2, SMTT(30) DEF Abs, SideOf, Sides
  <2> QED
    BY <2>2, <2>3, Zenon DEF CreatedRow, OrderRow, OrderStatus
<1>3. insertOrderIntents(new)
  BY Zenon DEF AppendIntents
<1>4. StoreTypeOK
  BY Zenon DEF TypeOK
<1> HIDE DEF new
<1>5. StoreTypeOK'
  BY <1>1, <1>2, <1>3, <1>4, InsertType, Zenon
<1>6. ids' \in [Request -> [Legs -> OrderId \cup {NoId}]]
  BY ZenonT(30) DEF AppendIntents, TypeOK
<1> QED
  BY <1>5, <1>6, Zenon

-----------------------------------------------------------------------------
(* Chunks, tickets and the broker's numbers *)

\* The last order is in the last chunk, so no chunk lies beyond it.
LEMMA ChunkBounds ==
    /\ NumChunks \in Nat /\ 1 <= NumChunks
    /\ \A n \in BuildOrder : ChunkOf[n] \in Nat /\ 1 <= ChunkOf[n]
                               /\ ChunkOf[n] <= NumChunks
<1>1. NumOrders \in BuildOrder
  BY GatewayAssumption DEF BuildOrder
<1>2. NumChunks \in Nat \ {0}
  BY <1>1, GatewayAssumption, Zenon DEF NumChunks
<1>3. ASSUME NEW n \in BuildOrder
      PROVE  ChunkOf[n] \in Nat /\ 1 <= ChunkOf[n] /\ ChunkOf[n] <= NumChunks
  <2>1. n <= NumOrders
    BY GatewayAssumption DEF BuildOrder
  <2>2. ChunkOf[n] \in Nat \ {0}
    BY GatewayAssumption, Zenon
  <2>3. ChunkOf[n] <= ChunkOf[NumOrders]
    BY <1>1, <2>1, GatewayAssumption, Zenon
  <2> QED
    BY <2>2, <2>3 DEF NumChunks
<1> QED
  BY <1>2, <1>3

\* The first round of the build starts with every order of the first chunk.
LEMMA FirstChunk ==
    /\ 1 <= NumChunks
    /\ \A n \in BuildOrder : ~(ChunkOf[n] < 1)
    /\ ChunkOrders(1) \subseteq BuildOrder
<1>1. 1 <= NumChunks /\ \A n \in BuildOrder : ~(ChunkOf[n] < 1)
  BY ChunkBounds
<1>2. ChunkOrders(1) \subseteq BuildOrder
  BY ZenonT(30) DEF ChunkOrders
<1> QED
  BY <1>1, <1>2, Zenon

\* The broker's numbers for build orders, as numbers.
LEMMA BuildNumbers ==
    ASSUME TypeOK
    PROVE  \A n \in BuildOrder : /\ fill[BuildTicket(n)] \in Nat
                                 /\ open[BuildTicket(n)] \in Nat
                                 /\ extra[BuildTicket(n)] \in Nat
  BY TicketTypes, Zenon DEF TypeOK, BrokerTypeOK

\* No two orders share a ticket.
LEMMA TicketsDiffer ==
    /\ \A m, n : BuildTicket(m) = BuildTicket(n) => m = n
    /\ \A p \in Request : \A l, n : LegTicket(p, l) # BuildTicket(n)
    /\ \A p, q, k, l : LegTicket(p, k) = LegTicket(q, l) => p = q /\ k = l
  BY GatewayAssumption, Zenon DEF BuildTicket, LegTicket

\* At most one order is the next.
LEMMA NextUnique ==
    ASSUME TypeOK, NEW m, NEW n, IsNext(m), IsNext(n)
    PROVE  m = n
  BY GatewayAssumption DEF IsNext, TypeOK, BuildOrder

\* A call for build order n changes that order and no other.
LEMMA BuildCall ==
    ASSUME TypeOK, NEW n \in BuildOrder, NEW r \in Outcomes(OrderQty),
           ExecuteOrderIntent(BuildTicket(n), r)
    PROVE  /\ fill'[BuildTicket(n)] = fill[BuildTicket(n)] + r.filled
           /\ open'[BuildTicket(n)] = open[BuildTicket(n)] + r.open
           /\ extra'[BuildTicket(n)] = extra[BuildTicket(n)] + Unaccounted(r)
           /\ \A m \in BuildOrder \ {n} :
                 /\ fill'[BuildTicket(m)] = fill[BuildTicket(m)]
                 /\ open'[BuildTicket(m)] = open[BuildTicket(m)]
                 /\ extra'[BuildTicket(m)] = extra[BuildTicket(m)]
  BY TicketTypes, TicketsDiffer, Zenon DEF TypeOK, BrokerTypeOK, ExecuteOrderIntent

-----------------------------------------------------------------------------
(* The steps of the requests, and the theorem *)

\* The steps of SquareOff keep the types.
LEMMA SquareOffType ==
    ASSUME TypeOK, NEW p \in Request, SquareOffStep(p)
    PROVE  TypeOK'
<1> USE TicketTypes
<1>1. CASE SquareOffRead(p)
  <2> DEFINE q == [l \in Legs |-> -NetPosition(rows, l)]
  <2>1. q \in [Legs -> Int]
    <3>1. rows \in [OrderId -> OrderRow]
      BY Zenon DEF TypeOK, StoreTypeOK
    <3>2. \A l \in Legs : NetPosition(rows, l) \in Int
      BY <3>1, NetType, Zenon
    <3>3. \A l \in Legs : -NetPosition(rows, l) \in Int
      BY <3>2, SMTT(30)
    <3> QED
      BY <3>3, Zenon
  <2>2. /\ want' = [want EXCEPT ![p] = q]
        /\ legs' = [legs EXCEPT ![p] = Traded(q)]
        /\ \E l \in Traded(q) : lead' = [lead EXCEPT ![p] = l]
    BY <1>1, ZenonT(30) DEF SquareOffRead
  <2> HIDE DEF q
  <2>3. want' \in [Request -> [Legs -> Int]]
    BY <2>1, <2>2, Zenon DEF TypeOK
  <2>4. legs' \in [Request -> SUBSET Legs] /\ lead' \in [Request -> Legs]
    BY <2>2 DEF TypeOK, Traded
  <2>5. pc' \in [Process -> BuildPC \cup RequestPC]
    BY <1>1, Zenon DEF TypeOK, SquareOffRead, Goto, RequestPC
  <2>6. undisturbed' \in [Request -> BOOLEAN]
    BY <1>1, Zenon DEF TypeOK, SquareOffRead
  <2>7. StoreTypeOK' /\ BrokerTypeOK'
    BY <1>1, Zenon
       DEF TypeOK, SquareOffRead, StoreTypeOK, storeVars, BrokerTypeOK,
                brokerVars
  <2> QED
    BY <1>1, <2>3, <2>4, <2>5, <2>6, <2>7, Zenon
       DEF TypeOK, SquareOffRead, buildVars, restVars
<1>2. CASE SquareOffInsert(p)
  <2> DEFINE idOf == [l \in Legs |->
                        SqfId(l, sec, Position(want[p], lead[p], l))]
  <2>1. ASSUME NEW l \in Legs PROVE idOf[l] \in OrderId /\ idOf[l][2] = l
    BY GatewayAssumption, SMTT(30) DEF TypeOK, AllIds, SqfId, Position
  <2>2. AppendIntents(p, want[p], idOf)
    BY <1>2, ZenonT(30) DEF SquareOffInsert
  <2>3. undisturbed' = [undisturbed EXCEPT ![p] =
                          @ /\ \A l \in Traded(want[p]) : ~Exists(idOf[l])]
    BY <1>2, ZenonT(30) DEF SquareOffInsert
  <2>4. want[p] \in [Legs -> Int] /\ idOf \in [Legs -> OrderId]
    BY <2>1, ZenonT(30) DEF TypeOK
  <2> HIDE DEF idOf
  <2>5. StoreTypeOK' /\ ids' \in [Request -> [Legs -> OrderId \cup {NoId}]]
    BY <2>1, <2>2, <2>4, AppendType, ZenonT(30)
  <2>6. undisturbed' \in [Request -> BOOLEAN]
    BY <2>3, Zenon DEF TypeOK
  <2>7. pc' \in [Process -> BuildPC \cup RequestPC] /\ BrokerTypeOK'
    BY <1>2, Zenon DEF TypeOK, SquareOffInsert, Goto, RequestPC, BrokerTypeOK,
                brokerVars
  <2> QED
    BY <1>2, <2>5, <2>6, <2>7, Zenon
       DEF TypeOK, SquareOffInsert, buildVars, restVars
<1>3. CASE SquaringOffMem(p)
  <2>1. WithStatus(tr[p], "SQUARING_OFF") \in StoredTrade
    BY WithStatusType, Zenon DEF TypeOK, TradeStatus
  <2> QED
    BY <1>3, <2>1, UpdateMemType, Zenon DEF SquaringOffMem, RequestPC
<1>4. CASE SquaringOffDb(p)
  BY <1>4, UpdateDbType, Zenon DEF SquaringOffDb, RequestPC
<1>5. CASE RuntimeLoad(p)
  BY <1>5, MoveType, Zenon DEF RuntimeLoad, RequestPC
<1>6. CASE RuntimeStop(p)
  <2>1. StoreTypeOK' /\ BrokerTypeOK'
    BY <1>6, Zenon DEF TypeOK, RuntimeStop, StoreTypeOK, storeVars, BrokerTypeOK,
                brokerVars
  <2>2. runtime' \in BOOLEAN /\ stopped' \in BOOLEAN
    BY <1>6, ZenonT(30) DEF TypeOK, RuntimeStop
  <2>3. pc' \in [Process -> BuildPC \cup RequestPC]
    BY <1>6, Zenon DEF TypeOK, RuntimeStop, Goto, RequestPC
  <2> QED
    BY <1>6, <2>1, <2>2, <2>3, Zenon
       DEF TypeOK, RuntimeStop, buildVars, planVars, restVars
<1>7. CASE NotExecuted(p)
  BY <1>7, MoveType, Zenon DEF NotExecuted, RequestPC
<1>8. CASE ExecuteLeg(p)
  <2>1. PICK l \in legs[p] : \E r \in Outcomes(Abs(want[p][l])) :
           /\ ExecuteOrderIntent(LegTicket(p, l), r)
           /\ \/ /\ r.status = "ERR"
                 /\ Goto(p, "done")
                 /\ UNCHANGED res
              \/ /\ r.status # "ERR"
                 /\ res' = [res EXCEPT ![p] = r]
                 /\ Goto(p, "record")
    BY <1>8, ZenonT(30) DEF ExecuteLeg
  <2>2. PICK r \in Outcomes(Abs(want[p][l])) :
           /\ ExecuteOrderIntent(LegTicket(p, l), r)
           /\ \/ /\ r.status = "ERR"
                 /\ Goto(p, "done")
                 /\ UNCHANGED res
              \/ /\ r.status # "ERR"
                 /\ res' = [res EXCEPT ![p] = r]
                 /\ Goto(p, "record")
    BY <2>1, ZenonT(30)
  <2>3. l \in Legs /\ want[p][l] \in Int
    BY SMTT(30) DEF TypeOK
  <2>4. Abs(want[p][l]) \in Nat
    BY <2>3, AbsType, Zenon
  <2>5. BrokerTypeOK'
    BY <2>2, <2>3, <2>4, ExecuteType, Zenon DEF TypeOK
  <2>6. r.status # "ERR" => r \in Outcome
    BY <2>4, OutcomeType, ZenonT(30)
  <2>7. res' \in [Process -> Outcome]
    <3>1. res \in [Process -> Outcome]
      BY ZenonT(30) DEF TypeOK
    <3> QED
      BY <2>2, <2>6, <3>1, Zenon
  <2>8. pc' \in [Process -> BuildPC \cup RequestPC]
    BY <2>2, ZenonT(30) DEF TypeOK, Goto, RequestPC
  <2>9. StoreTypeOK'
    BY <1>8, Zenon DEF TypeOK, ExecuteLeg, StoreTypeOK, storeVars
  <2> QED
    BY <1>8, <2>5, <2>7, <2>8, <2>9, Zenon
       DEF TypeOK, ExecuteLeg, buildVars, planVars, restVars
<1>9. CASE RecordLeg(p)
  <2>1. PICK l \in legs[p] :
           /\ MarkOrderExecution(ids[p][l], res[p].status, res[p].filled)
           /\ legs' = [legs EXCEPT ![p] = @ \ {l}]
    BY <1>9, ZenonT(30) DEF RecordLeg
  <2>2. res[p].status \in OrderStatus /\ res[p].filled \in Nat
    BY Zenon DEF TypeOK, Outcome, AllAnswers, OrderStatus
  <2>3. StoreTypeOK'
    BY <2>1, <2>2, MarkType, Zenon DEF TypeOK
  <2>4. legs' \in [Request -> SUBSET Legs]
    BY <2>1, Zenon DEF TypeOK
  <2>5. allFilled' \in [Request -> BOOLEAN]
    BY <1>9, Zenon DEF TypeOK, RecordLeg, SqfFilled
  <2>6. pc' \in [Process -> BuildPC \cup RequestPC]
    BY <1>9, Zenon DEF TypeOK, RecordLeg, Goto, AfterLeg, RequestPC
  <2>7. res' \in [Process -> Outcome]
    BY <1>9, Zenon DEF TypeOK, RecordLeg, NoOutcome, Outcome, AllAnswers
  <2>8. undisturbed' \in [Request -> BOOLEAN]
    BY <1>9, ZenonT(30) DEF RecordLeg, Disturb
  <2>9. BrokerTypeOK'
    BY <1>9, Zenon DEF TypeOK, RecordLeg, BrokerTypeOK, brokerVars
  <2> QED
    BY <1>9, <2>3, <2>4, <2>5, <2>6, <2>7, <2>8, <2>9, Zenon
       DEF TypeOK, RecordLeg, buildVars, restVars
<1>10. CASE CloseMem(p)
  <2>1. WithStatus(tr[p], "CLOSED") \in StoredTrade
    BY WithStatusType, Zenon DEF TypeOK, TradeStatus
  <2> QED
    BY <1>10, <2>1, UpdateMemType, Zenon DEF CloseMem, RequestPC
<1>11. CASE CloseDb(p)
  BY <1>11, UpdateDbType, Zenon DEF CloseDb, RequestPC
<1> QED
  BY <1>1, <1>2, <1>3, <1>4, <1>5, <1>6, <1>7, <1>8, <1>9, <1>10, <1>11, Zenon
     DEF SquareOffStep

\* The steps of every request keep the types.
LEMMA RequestType ==
    ASSUME TypeOK, NEW p \in Request, RequestStep(p)
    PROVE  TypeOK'
<1> USE TicketTypes
<1>1. CASE RequestLoad(p)
  <2>1. LoadTrade \in StoredTrade
    BY Zenon DEF TypeOK, StoreTypeOK, LoadTrade
  <2>2. tr' \in [Process -> StoredTrade]
    BY <1>1, <2>1, Zenon DEF TypeOK, RequestLoad
  <2>3. kind' \in [Request -> AllKinds]
    BY <1>1, GatewayAssumption, Zenon DEF TypeOK, RequestLoad
  <2>4. pc' \in [Process -> BuildPC \cup RequestPC]
    BY <1>1, Zenon DEF TypeOK, RequestLoad, Goto, RequestPC
  <2>5. StoreTypeOK' /\ BrokerTypeOK'
    BY <1>1, Zenon DEF TypeOK, RequestLoad, StoreTypeOK, storeVars, BrokerTypeOK,
                brokerVars
  <2> QED
    BY <1>1, <2>2, <2>3, <2>4, <2>5, ZenonT(30)
       DEF TypeOK, RequestLoad, buildVars, planVars, restVars
<1>2. CASE CacheFill(p)
  <2>1. tr[p] \in StoredTrade
    BY Zenon DEF TypeOK
  <2> QED
    BY <1>2, <2>1, UpdateMemType, Zenon DEF CacheFill, RequestPC
<1>3. CASE ReadOnly(p) \/ Refuse(p)
  BY <1>3, MoveType, Zenon DEF ReadOnly, Refuse, RequestPC
<1>4. CASE SquareOffStep(p)
  BY <1>4, SquareOffType, Zenon
<1>5. CASE PartialMem(p)
  <2>1. PICK percent \in Percents :
           UpdateMem(p, [status |-> "PARTIAL",
                         qty |-> [l \in Legs |-> Scaled(tr[p].qty[l], percent)]],
                     "partialDb")
    BY <1>5, ZenonT(30) DEF PartialMem
  <2>2. ASSUME NEW l \in Legs PROVE Scaled(tr[p].qty[l], percent) \in Nat
    <3>1. tr[p].qty[l] \in Nat
      BY DEF TypeOK, StoredTrade
    <3>2. percent \in 1..100
      BY GatewayAssumption, Zenon
    <3> QED
      BY <3>1, <3>2, ScaledType, ZenonT(30)
  <2>3. [status |-> "PARTIAL",
         qty |-> [l \in Legs |-> Scaled(tr[p].qty[l], percent)]] \in StoredTrade
    BY <2>2, Zenon DEF StoredTrade, TradeStatus
  <2> QED
    BY <2>1, <2>3, UpdateMemType, ZenonT(30) DEF RequestPC
<1>6. CASE PartialDb(p)
  BY <1>6, UpdateDbType, Zenon DEF PartialDb, RequestPC
<1>7. CASE HedgeInsert(p)
  <2> DEFINE idOf == [l \in Legs |-> HedgeId(l, sec)]
  <2>1. PICK q \in [Legs -> {OrderQty, -OrderQty}] :
           /\ want' = [want EXCEPT ![p] = q]
           /\ AppendIntents(p, q, idOf)
    BY <1>7, ZenonT(30) DEF HedgeInsert
  <2>2. q \in [Legs -> Int]
    OBVIOUS
  <2>3. ASSUME NEW l \in Legs PROVE idOf[l] \in OrderId /\ idOf[l][2] = l
    BY GatewayAssumption DEF TypeOK, AllIds, HedgeId
  <2>4. idOf \in [Legs -> OrderId]
    BY <2>3, ZenonT(30)
  <2> HIDE DEF idOf
  <2>5. StoreTypeOK' /\ ids' \in [Request -> [Legs -> OrderId \cup {NoId}]]
    BY <2>1, <2>2, <2>3, <2>4, AppendType, ZenonT(30)
  <2>6. want' \in [Request -> [Legs -> Int]]
    BY <2>1, <2>2, Zenon DEF TypeOK
  <2>7. legs' \in [Request -> SUBSET Legs] /\ lead' \in [Request -> Legs]
    BY <1>7, Zenon DEF TypeOK, HedgeInsert, Legs
  <2>8. pc' \in [Process -> BuildPC \cup RequestPC] /\ BrokerTypeOK'
    BY <1>7, Zenon
       DEF TypeOK, HedgeInsert, Goto, RequestPC, BrokerTypeOK, brokerVars
  <2> QED
    BY <1>7, <2>5, <2>6, <2>7, <2>8, Zenon
       DEF TypeOK, HedgeInsert, buildVars, restVars
<1>8. CASE ManualPlan(p)
  <2>1. tr[p].qty \in [Legs -> Int]
    BY SMTT(30) DEF TypeOK, StoredTrade
  <2>2. want' \in [Request -> [Legs -> Int]]
    BY <1>8, <2>1, ZenonT(30) DEF TypeOK, ManualPlan
  <2>3. legs' \in [Request -> SUBSET Legs]
    <3>1. Traded(tr[p].qty) \subseteq Legs
      BY ZenonT(30) DEF Traded
    <3> QED
      BY <1>8, <3>1, ZenonT(30) DEF TypeOK, ManualPlan
  <2>4. pc' \in [Process -> BuildPC \cup RequestPC]
    BY <1>8, ZenonT(30) DEF TypeOK, ManualPlan, Goto, RequestPC
  <2>5. StoreTypeOK' /\ BrokerTypeOK'
    BY <1>8, ZenonT(30)
       DEF TypeOK, ManualPlan, StoreTypeOK, storeVars, BrokerTypeOK,
                brokerVars
  <2> QED
    BY <1>8, <2>2, <2>3, <2>4, <2>5, ZenonT(30)
       DEF TypeOK, ManualPlan, buildVars, restVars
<1>9. CASE ManualExecute(p)
  <2>1. PICK l \in legs[p] : \E r \in Outcomes(Abs(want[p][l])) :
           /\ ExecuteOrderIntent(LegTicket(p, l), r)
           /\ legs' = [legs EXCEPT ![p] = @ \ {l}]
    BY <1>9, ZenonT(30) DEF ManualExecute
  <2>2. l \in Legs /\ want[p][l] \in Int
    BY SMTT(30) DEF TypeOK
  <2>3. Abs(want[p][l]) \in Nat
    BY <2>2, AbsType, ZenonT(30)
  <2>4. BrokerTypeOK'
    BY <2>1, <2>2, <2>3, ExecuteType, Zenon DEF TypeOK
  <2>5. legs' \in [Request -> SUBSET Legs]
    BY <2>1, SMTT(30) DEF TypeOK
  <2>6. pc' \in [Process -> BuildPC \cup RequestPC] /\ StoreTypeOK'
    BY <1>9, Zenon
       DEF TypeOK, ManualExecute, Goto, RequestPC, StoreTypeOK, storeVars
  <2> QED
    BY <1>9, <2>4, <2>5, <2>6, Zenon
       DEF TypeOK, ManualExecute, buildVars, restVars
<1>10. CASE RefreshRead(p)
  <2>1. deriveTradeStatusFromBuildCounts(BuildCounts) \in TradeStatus
    BY Zenon DEF deriveTradeStatusFromBuildCounts, TradeStatus
  <2>2. newStatus' \in [Request -> TradeStatus]
    BY <1>10, <2>1, Zenon DEF TypeOK, RefreshRead
  <2>3. kind' \in [Request -> AllKinds]
    BY <1>10, Zenon DEF TypeOK, RefreshRead, AllKinds
  <2>4. pc' \in [Process -> BuildPC \cup RequestPC]
    BY <1>10, Zenon DEF TypeOK, RefreshRead, Goto, RequestPC
  <2>5. StoreTypeOK' /\ BrokerTypeOK'
    BY <1>10, Zenon
       DEF TypeOK, RefreshRead, StoreTypeOK, storeVars, BrokerTypeOK,
                 brokerVars
  <2> QED
    BY <1>10, <2>2, <2>3, <2>4, <2>5, ZenonT(30)
       DEF TypeOK, RefreshRead, buildVars, planVars
<1>11. CASE RefreshWrite(p)
  <2>1. StoreTypeOK'
    BY <1>11, StoreAssumption, SMTT(30) DEF TypeOK, RefreshWrite, StoreTypeOK
  <2>2. pc' \in [Process -> BuildPC \cup RequestPC] /\ BrokerTypeOK'
    BY <1>11, Zenon DEF TypeOK, RefreshWrite, Goto, RequestPC, BrokerTypeOK, brokerVars
  <2> QED
    BY <1>11, <2>1, <2>2, Zenon
       DEF TypeOK, RefreshWrite, buildVars, planVars, restVars
<1> QED
  BY <1>1, <1>2, <1>3, <1>4, <1>5, <1>6, <1>7, <1>8, <1>9, <1>10, <1>11, Zenon
     DEF RequestStep

\* The type invariant is inductive.
LEMMA TypeNext == TypeOK /\ [Next]_vars => TypeOK'
<1> SUFFICES ASSUME TypeOK, [Next]_vars PROVE TypeOK'
  BY Zenon
<1>1. CASE DeployStep
  BY <1>1, DeployType, Zenon
<1>2. ASSUME NEW p \in Request, RequestStep(p) PROVE TypeOK'
  BY <1>2, RequestType, Zenon
<1>3. ASSUME NEW x \in Ticket, Market(x) PROVE TypeOK'
  <2>1. BrokerTypeOK'
    BY <1>3 DEF TypeOK, Market, BrokerTypeOK, BrokerTrade, BrokerDrop
  <2>2. StoreTypeOK'
    BY <1>3, Zenon DEF TypeOK, Market, StoreTypeOK, storeVars
  <2> QED
    BY <1>3, <2>1, <2>2, Zenon DEF TypeOK, Market, buildVars, planVars, restVars
<1>4. ASSUME NEW x \in Ticket, Reconcile(x) PROVE TypeOK'
  <2> DEFINE i == TicketId(x)
             s == RowStatus(fill[x], rows[i].qty, open[x])
             f == IF fill[x] < rows[i].qty THEN fill[x] ELSE rows[i].qty
  <2>1. /\ i \in OrderId
        /\ rows' = [rows EXCEPT ![i].status = s, ![i].filled = f]
    BY <1>4, Zenon DEF Reconcile
  <2>2. s \in OrderStatus
    BY Zenon DEF RowStatus, OrderStatus
  <2>3. f \in Nat
    BY <2>1, Zenon DEF TypeOK, StoreTypeOK, BrokerTypeOK, OrderRow
  <2> HIDE DEF i, s, f
  <2>4. rows' \in [OrderId -> OrderRow]
    <3>1. rows \in [OrderId -> OrderRow]
      BY Zenon DEF TypeOK, StoreTypeOK
    <3>2. ASSUME NEW j \in OrderId PROVE rows'[j] \in OrderRow
      BY <2>1, <2>2, <2>3, <3>1, ZenonT(30) DEF OrderRow
    <3> QED
      BY <2>1, <3>1, <3>2, Zenon
  <2>5. StoreTypeOK' /\ BrokerTypeOK'
    BY <1>4, <2>4, Zenon DEF TypeOK, Reconcile, StoreTypeOK, BrokerTypeOK, brokerVars
  <2>6. undisturbed' \in [Request -> BOOLEAN]
    BY <1>4, Zenon DEF Reconcile, Disturb
  <2> QED
    BY <1>4, <2>5, <2>6, Zenon DEF TypeOK, Reconcile, buildVars, planVars, restVars
<1>5. CASE Tick
  <2>1. sec' \in 0..MaxSec
    BY <1>5, GatewayAssumption, SMTT(30) DEF TypeOK, Tick
  <2>2. StoreTypeOK' /\ BrokerTypeOK'
    BY <1>5, Zenon
       DEF TypeOK, Tick, StoreTypeOK, storeVars, BrokerTypeOK, brokerVars
  <2> QED
    BY <1>5, <2>1, <2>2, Zenon DEF TypeOK, Tick, buildVars, planVars
<1>6. CASE Crash
  <2>1. NoTrade \in StoredTrade /\ NoOutcome \in Outcome
    BY Zenon
       DEF NoTrade, StoredTrade, TradeStatus, NoOutcome, Outcome, AllAnswers
  <2>2. StoreTypeOK' /\ BrokerTypeOK'
    BY <1>6, <2>1, Zenon DEF TypeOK, Crash, restartStore, StoreTypeOK, BrokerTypeOK,
                      brokerVars
  <2>3. /\ tr' \in [Process -> StoredTrade] /\ res' \in [Process -> Outcome]
    BY <1>6, <2>1, Zenon DEF Crash
  <2>4. pc' \in [Process -> BuildPC \cup RequestPC]
    BY <1>6, Zenon DEF TypeOK, Crash, BuildPC
  <2>5. /\ crashes' \in 0..MaxCrashes /\ chunk' \in Nat
        /\ attempt' \in 1..MaxChunkRetries
    BY <1>6, GatewayAssumption DEF TypeOK, Crash, MaxChunkRetries
  <2>6. /\ runtime' \in BOOLEAN /\ stopped' \in BOOLEAN
        /\ todo' \subseteq BuildOrder /\ nextRetry' \subseteq BuildOrder
    BY <1>6, ZenonT(30) DEF Crash
  <2> QED
    BY <1>6, <2>2, <2>3, <2>4, <2>5, <2>6, Zenon DEF TypeOK, Crash, planVars
<1>7. CASE UNCHANGED vars
  <2>1. StoreTypeOK' /\ BrokerTypeOK'
    BY <1>7, Zenon DEF TypeOK, vars, StoreTypeOK, storeVars, BrokerTypeOK, brokerVars
  <2> QED
    BY <1>7, <2>1, Zenon DEF TypeOK, vars, buildVars, planVars, restVars
<1> QED
  BY <1>1, <1>2, <1>3, <1>4, <1>5, <1>6, <1>7, Zenon DEF Next, Idle

\* Every variable of the gateway, its store and its broker keeps its type.
THEOREM TypeCorrect == Spec => []TypeOK
  BY InitType, TypeNext, PTL DEF Spec

-----------------------------------------------------------------------------
(* The two copies of the trade *)

WritingPC == {"saveDb", "finishDb", "sqDb", "closeDb", "partialDb"}
Writing(p) == pc[p] \in WritingPC

\* As long as no write is lost and no two overlap: the writer's trade is the
\* one in memory, a trade read for the cache is the stored one and memory is
\* still empty, and with no writer memory is empty or what is stored.
DurableInv ==
    (faults = 0 /\ ~raced) =>
       /\ \A p \in Process : Writing(p) => mem = tr[p] /\ mem # NoTrade
       /\ \A p \in Process : pc[p] = "cache" => mem = NoTrade /\ tr[p] = cfg
       /\ (\A p \in Process : ~Writing(p)) => mem \in {NoTrade, cfg}

\* A step of p that starts no write, ends none and fills no cache.
Neutral(p) ==
    /\ mem' = mem /\ cfg' = cfg /\ tr' = tr /\ raced' = raced
    /\ faults' = 0 => faults = 0
    /\ ~HalfWay(p) /\ pc'[p] \notin WritingPC \cup {"cache"}
    /\ \A q \in Process \ {p} : pc'[q] = pc[q]

\* A neutral step changes nothing the invariant speaks of.
LEMMA NeutralInv ==
    ASSUME DurableInv, NEW p \in Process, Neutral(p)
    PROVE  DurableInv'
<1>1. /\ \A q \in Process : Writing(q)' <=> Writing(q)
      /\ \A q \in Process : pc'[q] = "cache" <=> pc[q] = "cache"
  BY Zenon DEF Neutral, Writing, WritingPC, HalfWay
<1> QED
  BY <1>1, Zenon DEF Neutral, DurableInv

\* UpdateTrade's memory half opens a write: nobody else is half way, or the
\* writes overlap.
LEMMA UpdateMemDurable ==
    ASSUME TypeOK, DurableInv, NEW p \in Process, NEW t, t # NoTrade,
           NEW next \in WritingPC, UpdateMem(p, t, next)
    PROVE  DurableInv'
<1>1. /\ mem' = t /\ tr'[p] = t /\ pc'[p] = next
      /\ \A q \in Process \ {p} : pc'[q] = pc[q]
      /\ ~raced' => \A q \in Process \ {p} : ~HalfWay(q)
  BY ZenonT(30) DEF UpdateMem, saveToMemory, Goto, TypeOK
<1>2. ~raced' => \A q \in Process \ {p} : ~Writing(q)' /\ pc'[q] # "cache"
  BY <1>1, Zenon DEF HalfWay, Writing, WritingPC
<1>3. pc'[p] # "cache" /\ Writing(p)'
  BY <1>1, Zenon DEF Writing, WritingPC
<1> QED
  BY <1>1, <1>2, <1>3, Zenon DEF DurableInv

\* The database half ends the write with memory and table alike.
LEMMA UpdateDbDurable ==
    ASSUME TypeOK, DurableInv, NEW p \in Process, Writing(p),
           upsertTrade(tr[p]), tr' = tr, raced' = raced,
           pc'[p] \notin WritingPC \cup {"cache"},
           \A q \in Process \ {p} : pc'[q] = pc[q]
    PROVE  DurableInv'
<1> SUFFICES ASSUME faults' = 0, ~raced'
             PROVE  /\ \A q \in Process : Writing(q)' => mem' = tr'[q] /\ mem' # NoTrade
                    /\ \A q \in Process : pc'[q] = "cache"
                                             => mem' = NoTrade /\ tr'[q] = cfg'
                    /\ (\A q \in Process : ~Writing(q)') => mem' \in {NoTrade, cfg'}
  BY Zenon DEF DurableInv
<1>1. faults \in Nat
  BY DEF TypeOK, StoreTypeOK
<1>2. faults = 0 /\ cfg' = tr[p] /\ mem' = mem
  BY <1>1 DEF upsertTrade
<1>3. mem = tr[p] /\ mem # NoTrade
  BY <1>2, Zenon DEF DurableInv
<1>4. \A q \in Process : pc[q] # "cache"
  BY <1>2, <1>3, Zenon DEF DurableInv
<1>5. \A q \in Process : Writing(q)' => Writing(q)
  BY Zenon DEF Writing
<1> QED
  BY <1>2, <1>3, <1>4, <1>5, Zenon DEF DurableInv

\* Faults only add up.
LEMMA InsertFaults ==
    ASSUME TypeOK, NEW new, DOMAIN new \subseteq OrderId, insertOrderIntents(new),
           faults' = 0
    PROVE  faults = 0
<1>1. PICK lost \in SUBSET DOMAIN new : faults' = faults + Cardinality(lost)
  BY Zenon DEF insertOrderIntents
<1>2. Cardinality(lost) \in Nat
  BY FS_Subset, FS_CardinalityType, StoreAssumption, Zenon
<1>3. faults \in Nat
  BY DEF TypeOK, StoreTypeOK
<1> QED
  BY <1>1, <1>2, <1>3

\* The same of MarkOrderExecution.
LEMMA MarkFaults ==
    ASSUME TypeOK, NEW id, NEW s, NEW f, MarkOrderExecution(id, s, f),
           faults' = 0
    PROVE  faults = 0
  BY DEF TypeOK, StoreTypeOK, MarkOrderExecution

\* A trade with a status is a trade.
LEMMA StatusIsTrade ==
    /\ \A t \in StoredTrade : \A s : s # "NONE" => WithStatus(t, s) # NoTrade
    /\ \A s, q : s # "NONE" => [status |-> s, qty |-> q] # NoTrade
<1>1. ASSUME NEW t \in StoredTrade, NEW s, s # "NONE"
      PROVE  WithStatus(t, s) # NoTrade
  <2>1. WithStatus(t, s).status = s
    BY Zenon DEF WithStatus, StoredTrade
  <2> QED
    BY <1>1, <2>1 DEF NoTrade
<1>2. ASSUME NEW s, NEW q, s # "NONE" PROVE [status |-> s, qty |-> q] # NoTrade
  <2>1. [status |-> s, qty |-> q].status = s
    BY Zenon
  <2> QED
    BY <1>2, <2>1, Zenon DEF NoTrade
<1> QED
  BY <1>1, <1>2, Zenon

\* The steps of DeployStraddle.
LEMMA DeployDurable ==
    ASSUME TypeOK, DurableInv, DeployStep
    PROVE  DurableInv'
<1> USE TicketTypes
<1>0. /\ tr[Deployer] \in StoredTrade /\ verdict # "NONE"
      /\ \A next : pc' = [pc EXCEPT ![Deployer] = next]
                      => /\ pc'[Deployer] = next
                         /\ \A q \in Process \ {Deployer} : pc'[q] = pc[q]
  BY Zenon DEF TypeOK
<1>1. CASE DeployStraddle
  <2>1. NewTrade # NoTrade
    BY StatusIsTrade, Zenon DEF NewTrade
  <2> QED
    BY <1>1, <2>1, UpdateMemDurable, Zenon DEF DeployStraddle, WritingPC
<1>2. CASE DeployFinishMem
  <2>1. WithStatus(tr[Deployer], verdict) # NoTrade
    BY <1>0, StatusIsTrade, Zenon
  <2> QED
    BY <1>2, <2>1, UpdateMemDurable, Zenon DEF DeployFinishMem, WritingPC
<1>3. CASE DeploySaveDb \/ DeployFinishDb
  <2>1. /\ upsertTrade(tr[Deployer]) /\ tr' = tr /\ raced' = raced
        /\ pc[Deployer] \in WritingPC
        /\ pc'[Deployer] \notin WritingPC \cup {"cache"}
        /\ \A q \in Process \ {Deployer} : pc'[q] = pc[q]
    BY <1>0, <1>3, Zenon DEF DeploySaveDb, DeployFinishDb, UpdateDb, Goto, At, restVars,
                      WritingPC
  <2> QED
    BY <2>1, UpdateDbDurable, Zenon DEF Writing
<1>4. CASE BuildAppendIntent
  <2>1. PICK n \in todo :
           insertOrderIntents([i \in {BuildId(n)} |->
                                  CreatedRow(LegOf[n], "SELL", OrderQty)])
    BY <1>4, ZenonT(30) DEF BuildAppendIntent
  <2>2. n \in BuildOrder
    BY Zenon DEF TypeOK
  <2>3. DOMAIN [i \in {BuildId(n)} |-> CreatedRow(LegOf[n], "SELL", OrderQty)]
           \subseteq OrderId
    BY <2>2, Zenon
  <2>4. faults' = 0 => faults = 0
    BY <2>1, <2>3, InsertFaults, Zenon
  <2>5. mem' = mem /\ cfg' = cfg
    BY <2>1, Zenon DEF insertOrderIntents
  <2>6. Neutral(Deployer)
    BY <1>0, <1>4, <2>4, <2>5, Zenon
       DEF BuildAppendIntent, Goto, At, HalfWay, WritingPC, Neutral, restVars
  <2> QED
    BY <2>6, NeutralInv, Zenon
<1>5. CASE BuildRecord
  <2>1. PICK n \in todo : MarkOrderExecution(BuildId(n), res[Deployer].status,
                                             res[Deployer].filled)
    BY <1>5, Zenon DEF BuildRecord
  <2>2. (faults' = 0 => faults = 0) /\ mem' = mem /\ cfg' = cfg
    BY <2>1, MarkFaults, ZenonT(30) DEF MarkOrderExecution
  <2>3. pc'[Deployer] \in {"append", "finishMem"}
        /\ \A q \in Process \ {Deployer} : pc'[q] = pc[q]
    BY <1>0, <1>5, Zenon DEF BuildRecord, Goto
  <2>4. tr' = tr /\ raced' = raced /\ pc[Deployer] = "record"
    BY <1>5, Zenon DEF BuildRecord, restVars, At
  <2>5. Neutral(Deployer)
    BY <2>2, <2>3, <2>4, Zenon DEF HalfWay, WritingPC, Neutral
  <2> QED
    BY <2>5, NeutralInv, Zenon
<1>6. CASE BuildExecute \/ BuildRound \/ StartRuntime
  <2>1. Neutral(Deployer)
    BY <1>0, <1>6, ZenonT(30)
       DEF BuildExecute, BuildRound, StartRuntime, Goto, At, HalfWay,
                      WritingPC, Neutral, restVars, storeVars
  <2> QED
    BY <2>1, NeutralInv, Zenon
<1> QED
  BY <1>1, <1>2, <1>3, <1>4, <1>5, <1>6, Zenon DEF DeployStep

\* Storing the intents of a plan.
LEMMA AppendFaults ==
    ASSUME TypeOK, NEW p \in Request, NEW q, NEW idOf \in [Legs -> OrderId],
           AppendIntents(p, q, idOf)
    PROVE  (faults' = 0 => faults = 0) /\ mem' = mem /\ cfg' = cfg
<1> DEFINE new == [i \in {idOf[l] : l \in Traded(q)} |->
                     CreatedRow(i[2], SideOf(q[i[2]]), Abs(q[i[2]]))]
<1>1. insertOrderIntents(new)
  BY Zenon DEF AppendIntents
<1>2. DOMAIN new \subseteq OrderId
  BY Zenon DEF Traded
<1> HIDE DEF new
<1>3. faults' = 0 => faults = 0
  BY <1>1, <1>2, InsertFaults, Zenon
<1> QED
  BY <1>1, <1>3, Zenon DEF insertOrderIntents

\* The steps of a request.
LEMMA RequestDurable ==
    ASSUME TypeOK, DurableInv, NEW p \in Request, RequestStep(p)
    PROVE  DurableInv'
<1> USE TicketTypes
<1>0. /\ tr[p] \in StoredTrade
      /\ \A next : pc' = [pc EXCEPT ![p] = next]
                      => /\ pc'[p] = next
                         /\ \A q \in Process \ {p} : pc'[q] = pc[q]
  BY Zenon DEF TypeOK
<1>1. CASE RequestLoad(p)
  <2>1. /\ mem' = mem /\ cfg' = cfg /\ raced' = raced /\ faults' = faults
        /\ tr'[p] = LoadTrade /\ pc[p] = "idle"
        /\ pc'[p] = (IF mem # NoTrade THEN "loaded"
                     ELSE IF cfg # NoTrade THEN "cache" ELSE "done")
        /\ \A q \in Process \ {p} : pc'[q] = pc[q] /\ tr'[q] = tr[q]
    BY <1>0, <1>1, Zenon
       DEF RequestLoad, storeVars, restVars, Goto, At, TypeOK
  <2>2. \A q \in Process : Writing(q)' <=> q # p /\ Writing(q)
    BY <2>1, Zenon DEF Writing, WritingPC
  <2>3. ~Writing(p)
    BY <2>1, Zenon DEF Writing, WritingPC
  <2>4. pc'[p] = "cache" => mem' = NoTrade /\ tr'[p] = cfg'
    BY <2>1, Zenon DEF LoadTrade
  <2>5. \A q \in Process \ {p} : pc'[q] = "cache" <=> pc[q] = "cache"
    BY <2>1, Zenon
  <2> QED
    BY <2>1, <2>2, <2>3, <2>4, <2>5, Zenon DEF DurableInv
<1>2. CASE CacheFill(p)
  <2>1. /\ mem' = tr[p] /\ cfg' = cfg /\ faults' = faults
        /\ pc[p] = "cache" /\ pc'[p] = "loaded"
        /\ \A q \in Process \ {p} : pc'[q] = pc[q]
        /\ ~raced' => ~raced /\ \A q \in Process \ {p} : ~HalfWay(q)
    BY <1>0, <1>2, ZenonT(30) DEF CacheFill, UpdateMem, saveToMemory, Goto, At
  <2>2. ~raced' => \A q \in Process : ~Writing(q)' /\ pc'[q] # "cache"
    BY <2>1, Zenon DEF Writing, WritingPC, HalfWay
  <2>3. faults' = 0 /\ ~raced' => mem' = cfg'
    BY <2>1, Zenon DEF DurableInv
  <2> QED
    BY <2>2, <2>3, Zenon DEF DurableInv
<1>3. CASE SquaringOffMem(p)
  <2>1. WithStatus(tr[p], "SQUARING_OFF") # NoTrade
    BY <1>0, StatusIsTrade, Zenon
  <2> QED
    BY <1>3, <2>1, UpdateMemDurable, Zenon DEF SquaringOffMem, WritingPC
<1>4. CASE CloseMem(p)
  <2>1. WithStatus(tr[p], "CLOSED") # NoTrade
    BY <1>0, StatusIsTrade, Zenon
  <2> QED
    BY <1>4, <2>1, UpdateMemDurable, Zenon DEF CloseMem, WritingPC
<1>5. CASE PartialMem(p)
  <2>1. PICK percent \in Percents :
           UpdateMem(p, [status |-> "PARTIAL",
                         qty |-> [l \in Legs |-> Scaled(tr[p].qty[l], percent)]],
                     "partialDb")
    BY <1>5, Zenon DEF PartialMem
  <2>2. [status |-> "PARTIAL",
         qty |-> [l \in Legs |-> Scaled(tr[p].qty[l], percent)]] # NoTrade
    BY StatusIsTrade, Zenon
  <2>3. "partialDb" \in WritingPC
    BY Zenon DEF WritingPC
  <2> QED
    BY <2>1, <2>2, <2>3, UpdateMemDurable, Zenon
<1>6. CASE SquaringOffDb(p) \/ CloseDb(p) \/ PartialDb(p)
  <2>1. /\ upsertTrade(tr[p]) /\ tr' = tr /\ raced' = raced
        /\ pc[p] \in WritingPC
        /\ pc'[p] \notin WritingPC \cup {"cache"}
        /\ \A q \in Process \ {p} : pc'[q] = pc[q]
    <3>1. /\ upsertTrade(tr[p]) /\ tr' = tr /\ raced' = raced
          /\ \/ pc[p] = "sqDb" /\ pc' = [pc EXCEPT ![p] = "rtLoad"]
             \/ pc[p] \in {"closeDb", "partialDb"} /\ pc' = [pc EXCEPT ![p] = "done"]
      BY <1>6, Zenon DEF SquaringOffDb, CloseDb, PartialDb, UpdateDb, Goto, At, restVars
    <3>2. pc[p] \in WritingPC
      BY <3>1, Zenon DEF WritingPC
    <3>3. "rtLoad" \notin WritingPC \union {"cache"} /\ "done" \notin WritingPC \union {"cache"}
      BY Zenon DEF WritingPC
    <3>4. pc'[p] \in {"rtLoad", "done"} /\ \A q \in Process \ {p} : pc'[q] = pc[q]
      BY <1>0, <3>1, Zenon
    <3> QED
      BY <3>1, <3>2, <3>3, <3>4, Zenon
  <2> QED
    BY <2>1, UpdateDbDurable, Zenon DEF Writing
<1>7. CASE SquareOffInsert(p)
  <2> DEFINE idOf == [l \in Legs |->
                        SqfId(l, sec, Position(want[p], lead[p], l))]
  <2>1. idOf \in [Legs -> OrderId]
    <3>1. sec \in 0..MaxSec
      BY Zenon DEF TypeOK
    <3> QED
      BY <3>1, GatewayAssumption, SMTT(30) DEF AllIds, SqfId, Position
  <2>2. AppendIntents(p, want[p], idOf)
    BY <1>7, ZenonT(30) DEF SquareOffInsert
  <2> HIDE DEF idOf
  <2>3. (faults' = 0 => faults = 0) /\ mem' = mem /\ cfg' = cfg
    BY <2>1, <2>2, AppendFaults, Zenon
  <2>4. Neutral(p)
    BY <1>0, <1>7, <2>3, Zenon DEF SquareOffInsert, Goto, At, HalfWay, WritingPC,
                            Neutral, restVars
  <2> QED
    BY <2>4, NeutralInv, Zenon
<1>8. CASE HedgeInsert(p)
  <2> DEFINE idOf == [l \in Legs |-> HedgeId(l, sec)]
  <2>1. idOf \in [Legs -> OrderId]
    BY GatewayAssumption DEF TypeOK, AllIds, HedgeId
  <2>2. PICK q \in [Legs -> {OrderQty, -OrderQty}] : AppendIntents(p, q, idOf)
    BY <1>8, ZenonT(30) DEF HedgeInsert
  <2> HIDE DEF idOf
  <2>3. (faults' = 0 => faults = 0) /\ mem' = mem /\ cfg' = cfg
    BY <2>1, <2>2, AppendFaults, Zenon
  <2>4. Neutral(p)
    BY <1>0, <1>8, <2>3, Zenon
       DEF HedgeInsert, Goto, At, HalfWay, WritingPC, Neutral,
                            restVars
  <2> QED
    BY <2>4, NeutralInv, Zenon
<1>9. CASE RecordLeg(p)
  <2>1. PICK l \in legs[p] :
           MarkOrderExecution(ids[p][l], res[p].status, res[p].filled)
    BY <1>9, Zenon DEF RecordLeg
  <2>2. (faults' = 0 => faults = 0) /\ mem' = mem /\ cfg' = cfg
    BY <2>1, MarkFaults, ZenonT(30) DEF MarkOrderExecution
  <2>3. pc'[p] \in {"execute", "closeMem", "done"}
        /\ \A q \in Process \ {p} : pc'[q] = pc[q]
    BY <1>0, <1>9, ZenonT(30) DEF RecordLeg, Goto, AfterLeg
  <2>4. tr' = tr /\ raced' = raced /\ pc[p] = "record"
    BY <1>9, ZenonT(30) DEF RecordLeg, restVars, At
  <2>5. Neutral(p)
    BY <2>2, <2>3, <2>4, ZenonT(30) DEF HalfWay, WritingPC, Neutral
  <2> QED
    BY <2>5, NeutralInv, Zenon
<1>10. CASE ReadOnly(p) \/ Refuse(p) \/ SquareOffRead(p) \/ RuntimeLoad(p)
            \/ RuntimeStop(p) \/ NotExecuted(p) \/ ExecuteLeg(p)
            \/ ManualPlan(p) \/ ManualExecute(p)
  <2>1. Neutral(p)
    BY <1>0, <1>10, ZenonT(30)
       DEF ReadOnly, Refuse, SquareOffRead, RuntimeLoad, RuntimeStop,
                       NotExecuted, ExecuteLeg, ManualPlan, ManualExecute, Move,
                       Goto, At, HalfWay, WritingPC, Neutral, restVars, storeVars
  <2> QED
    BY <2>1, NeutralInv, Zenon
<1>11. CASE RefreshRead(p) \/ RefreshWrite(p)
  <2>1. faults' = 0 => faults = 0
    BY <1>11, SMTT(30)
       DEF RefreshRead, RefreshWrite, storeVars, TypeOK, StoreTypeOK
  <2>2. Neutral(p)
    BY <1>0, <1>11, <2>1, ZenonT(30)
       DEF RefreshRead, RefreshWrite, Goto, At, HalfWay,
                             WritingPC, Neutral, restVars, storeVars
  <2> QED
    BY <2>2, NeutralInv, Zenon
<1> QED
  BY <1>1, <1>2, <1>3, <1>4, <1>5, <1>6, <1>7, <1>8, <1>9, <1>10, <1>11, Zenon
     DEF RequestStep, SquareOffStep

\* The invariant of the store is inductive.
LEMMA DurableNext == TypeOK /\ DurableInv /\ [Next]_vars => DurableInv'
<1> SUFFICES ASSUME TypeOK, DurableInv, [Next]_vars PROVE DurableInv'
  BY Zenon
<1>1. CASE DeployStep
  BY <1>1, DeployDurable, Zenon
<1>2. ASSUME NEW p \in Request, RequestStep(p) PROVE DurableInv'
  BY <1>2, RequestDurable, Zenon
<1>3. CASE Tick \/ UNCHANGED vars \/ \E x \in Ticket : Market(x) \/ Reconcile(x)
  <2>1. /\ mem' = mem /\ cfg' = cfg /\ tr' = tr /\ raced' = raced
        /\ faults' = faults /\ pc' = pc
    BY <1>3, ZenonT(30) DEF Tick, Market, Reconcile, vars, storeVars, restVars
  <2> QED
    BY <2>1, Zenon DEF DurableInv, Writing
<1>4. CASE Crash
  <2>1. \A p \in Process : pc'[p] \in {"idle", "done"}
    BY <1>4, Zenon DEF Crash
  <2>2. mem' = NoTrade
    BY <1>4, Zenon DEF Crash, restartStore
  <2> QED
    BY <2>1, <2>2, Zenon DEF DurableInv, Writing, WritingPC
<1> QED
  BY <1>1, <1>2, <1>3, <1>4, Zenon DEF Next, Idle

\* Whenever no write is under way the cached trade is the stored one, unless
\* a database write was lost or two writes of the trade overlapped.
THEOREM DurableCorrect == Spec => []MemoryIsDurable
<1>1. Init => DurableInv
  BY Zenon DEF Init, StoreInit, DurableInv, Writing, WritingPC
<1>2. DurableInv => MemoryIsDurable
  BY Zenon DEF DurableInv, MemoryIsDurable, HalfWay, Writing, WritingPC
<1> QED
  BY <1>1, <1>2, DurableNext, TypeCorrect, PTL DEF Spec

-----------------------------------------------------------------------------
(* What the steps of others leave alone *)

Undisturbed(p) ==
    /\ pc'[p] = pc[p] /\ kind'[p] = kind[p] /\ res'[p] = res[p]
    /\ want'[p] = want[p] /\ legs'[p] = legs[p] /\ lead'[p] = lead[p]
    /\ allFilled'[p] = allFilled[p]

\* A step of another process leaves a request's locals alone.
LEMMA OthersKeep ==
    ASSUME TypeOK, [Next]_vars, NEW p \in Request, ~RequestStep(p), ~Crash
    PROVE  Undisturbed(p)
<1> USE TicketTypes
<1>1. CASE DeployStep
  <2>1. \A next : pc' = [pc EXCEPT ![Deployer] = next] => pc'[p] = pc[p]
    BY Zenon DEF TypeOK
  <2>2. \A r : res' = [res EXCEPT ![Deployer] = r] => res'[p] = res[p]
    BY Zenon DEF TypeOK
  <2>3. CASE BuildExecute \/ BuildRecord \/ BuildRound
    BY <2>1, <2>2, <2>3, ZenonT(30)
       DEF BuildExecute, BuildRecord, BuildRound, Goto,
                            Undisturbed, planVars
  <2>4. CASE DeployStraddle \/ DeploySaveDb \/ BuildAppendIntent
             \/ DeployFinishMem \/ DeployFinishDb \/ StartRuntime
    BY <2>1, <2>4, ZenonT(30)
       DEF DeployStraddle, DeploySaveDb, BuildAppendIntent,
                      DeployFinishMem, DeployFinishDb, StartRuntime,
                      UpdateMem, UpdateDb, Goto, Undisturbed, planVars
  <2> QED
    BY <1>1, <2>3, <2>4, Zenon DEF DeployStep
<1>2. ASSUME NEW q \in Request, q # p, RequestStep(q) PROVE Undisturbed(p)
  <2>1. \A next : pc' = [pc EXCEPT ![q] = next] => pc'[p] = pc[p]
    BY <1>2, Zenon DEF TypeOK
  <2>2. \A r : res' = [res EXCEPT ![q] = r] => res'[p] = res[p]
    BY <1>2, Zenon DEF TypeOK
  <2>3. \A k : kind' = [kind EXCEPT ![q] = k] => kind'[p] = kind[p]
    BY <1>2, Zenon DEF TypeOK
  <2>4. \A w : want' = [want EXCEPT ![q] = w] => want'[p] = want[p]
    BY <1>2, Zenon DEF TypeOK
  <2>5. \A w : legs' = [legs EXCEPT ![q] = w] => legs'[p] = legs[p]
    BY <1>2, Zenon DEF TypeOK
  <2>6. \A l : lead' = [lead EXCEPT ![q] = l] => lead'[p] = lead[p]
    BY <1>2, Zenon DEF TypeOK
  <2>7. \A a : allFilled' = [allFilled EXCEPT ![q] = a]
                  => allFilled'[p] = allFilled[p]
    BY <1>2, Zenon DEF TypeOK
  <2>8. CASE RequestLoad(q) \/ RefreshRead(q) \/ RefreshWrite(q)
    BY <2>1, <2>3, <2>8, Zenon
       DEF RequestLoad, RefreshRead, RefreshWrite, Goto,
                            Undisturbed, planVars
  <2>9. CASE CacheFill(q) \/ ReadOnly(q) \/ Refuse(q) \/ RuntimeLoad(q)
             \/ RuntimeStop(q) \/ NotExecuted(q)
    BY <2>1, <2>9, Zenon
       DEF CacheFill, ReadOnly, Refuse, RuntimeLoad, RuntimeStop,
                      NotExecuted, UpdateMem, Move, Goto, Undisturbed, planVars
  <2>10. CASE SquareOffRead(q) \/ SquareOffInsert(q)
    BY <2>1, <2>4, <2>5, <2>6, <2>10, ZenonT(30)
       DEF SquareOffRead, SquareOffInsert, Goto,
                                         Undisturbed
  <2>11. CASE SquaringOffMem(q) \/ SquaringOffDb(q) \/ CloseMem(q)
              \/ CloseDb(q) \/ PartialMem(q) \/ PartialDb(q)
    BY <2>1, <2>11, ZenonT(30)
       DEF SquaringOffMem, SquaringOffDb, CloseMem, CloseDb,
                       PartialMem, PartialDb, UpdateMem, UpdateDb, Goto,
                       Undisturbed, planVars
  <2>12. CASE ExecuteLeg(q)
    BY <2>1, <2>2, <2>12, Zenon DEF ExecuteLeg, Goto, Undisturbed, planVars
  <2>13. CASE RecordLeg(q)
    BY <2>1, <2>2, <2>5, <2>7, <2>13, ZenonT(30)
       DEF RecordLeg, Goto, Undisturbed
  <2>14. CASE HedgeInsert(q)
    BY <2>1, <2>4, <2>5, <2>6, <2>14, ZenonT(30)
       DEF HedgeInsert, Goto, Undisturbed
  <2>15. CASE ManualPlan(q) \/ ManualExecute(q)
    BY <2>1, <2>4, <2>5, <2>15, Zenon DEF ManualPlan, ManualExecute, Goto, Undisturbed
  <2> QED
    BY <1>2, <2>8, <2>9, <2>10, <2>11, <2>12, <2>13, <2>14, <2>15, Zenon
       DEF RequestStep, SquareOffStep
<1>3. CASE Tick \/ UNCHANGED vars \/ \E x \in Ticket : Market(x) \/ Reconcile(x)
  BY <1>3, ZenonT(30) DEF Tick, Market, Reconcile, vars, planVars, Undisturbed
<1> QED
  BY <1>1, <1>2, <1>3, Zenon DEF Next, Idle

\* After a restart no request is under way.
LEMMA CrashEnds ==
    ASSUME TypeOK, Crash, NEW p \in Request
    PROVE  /\ pc'[p] = (IF pc[p] = "idle" THEN "idle" ELSE "done")
           /\ want'[p] = want[p] /\ kind'[p] = kind[p]
  BY TicketTypes, Zenon DEF Crash, planVars

\* The state of the build is left alone.
SameBroker(n) == /\ fill'[BuildTicket(n)] = fill[BuildTicket(n)]
                 /\ open'[BuildTicket(n)] = open[BuildTicket(n)]
                 /\ extra'[BuildTicket(n)] = extra[BuildTicket(n)]
BuildFrame ==
    /\ pc'[Deployer] = pc[Deployer]
    /\ res'[Deployer] = res[Deployer]
    /\ UNCHANGED buildVars
    /\ \A n \in BuildOrder : SameBroker(n)

\* Requests leave it alone.
LEMMA RequestFrame ==
    ASSUME TypeOK, NEW p \in Request, RequestStep(p)
    PROVE  BuildFrame
<1> USE TicketTypes
<1>1. ASSUME NEW next, pc' = [pc EXCEPT ![p] = next]
      PROVE  pc'[Deployer] = pc[Deployer]
  BY <1>1, Zenon DEF TypeOK
<1>2. ASSUME NEW r, res' = [res EXCEPT ![p] = r]
      PROVE  res'[Deployer] = res[Deployer]
  BY <1>2, Zenon DEF TypeOK
<1>3. ASSUME NEW l \in Legs, NEW r, ExecuteOrderIntent(LegTicket(p, l), r),
             NEW n \in BuildOrder
      PROVE  SameBroker(n)
  BY <1>3, TicketsDiffer, Zenon DEF TypeOK, BrokerTypeOK, ExecuteOrderIntent, SameBroker
<1>4. legs[p] \subseteq Legs
  BY Zenon DEF TypeOK
<1>5. ASSUME NEW next, pc' = [pc EXCEPT ![p] = next],
             UNCHANGED <<brokerVars, buildVars>>,
             res'[Deployer] = res[Deployer]
      PROVE  BuildFrame
  BY <1>1, <1>5, ZenonT(30) DEF BuildFrame, SameBroker, brokerVars
<1>6. CASE ExecuteLeg(p)
  BY <1>1, <1>2, <1>3, <1>4, <1>6, ZenonT(30) DEF ExecuteLeg, Goto, BuildFrame
<1>7. CASE ManualExecute(p)
  BY <1>1, <1>3, <1>4, <1>7, ZenonT(30) DEF ManualExecute, Goto, BuildFrame
<1>8. CASE RecordLeg(p)
  BY <1>2, <1>5, <1>8, ZenonT(30) DEF RecordLeg, Goto
<1>9. CASE RequestLoad(p) \/ CacheFill(p) \/ ReadOnly(p) \/ Refuse(p)
  BY <1>5, <1>9, ZenonT(30)
     DEF RequestLoad, CacheFill, ReadOnly, Refuse, UpdateMem, Move, Goto
<1>10. CASE SquareOffRead(p) \/ SquareOffInsert(p) \/ HedgeInsert(p)
            \/ ManualPlan(p)
  BY <1>5, <1>10, ZenonT(30)
     DEF SquareOffRead, SquareOffInsert, HedgeInsert, ManualPlan, Goto
<1>11. CASE SquaringOffMem(p) \/ SquaringOffDb(p) \/ CloseMem(p) \/ CloseDb(p)
            \/ PartialMem(p) \/ PartialDb(p)
  BY <1>5, <1>11, ZenonT(30)
     DEF SquaringOffMem, SquaringOffDb, CloseMem, CloseDb, PartialMem,
         PartialDb, UpdateMem, UpdateDb, Goto
<1>12. CASE RuntimeLoad(p) \/ RuntimeStop(p) \/ NotExecuted(p)
  BY <1>5, <1>12, ZenonT(30) DEF RuntimeLoad, RuntimeStop, NotExecuted, Move, Goto
<1>13. CASE RefreshRead(p) \/ RefreshWrite(p)
  BY <1>5, <1>13, ZenonT(30) DEF RefreshRead, RefreshWrite, Goto
<1> QED
  BY <1>6, <1>7, <1>8, <1>9, <1>10, <1>11, <1>12, <1>13, ZenonT(30)
     DEF RequestStep, SquareOffStep

\* What has traded at the broker has traded.
LEMMA FillGrows ==
    ASSUME TypeOK, [Next]_vars
    PROVE  \A x \in Ticket :
              fill[x] \in Nat /\ fill'[x] \in Nat /\ fill'[x] >= fill[x]
<1> USE TicketTypes
<1>1. \A x \in Ticket : fill[x] \in Nat
  BY Zenon DEF TypeOK, BrokerTypeOK
<1>2. ASSUME NEW x \in Ticket, NEW q \in Nat, NEW r \in Outcomes(q),
             ExecuteOrderIntent(x, r)
      PROVE  \A y \in Ticket : fill'[y] \in Nat /\ fill'[y] >= fill[y]
  <2>1. r.filled \in Nat
    BY OutcomeType, Zenon
  <2> QED
    BY <1>1, <1>2, <2>1, SMTT(30) DEF ExecuteOrderIntent, TypeOK, BrokerTypeOK
<1>3. ASSUME NEW p \in Request, NEW l \in legs[p]
      PROVE  LegTicket(p, l) \in Ticket /\ Abs(want[p][l]) \in Nat
  <2>1. l \in Legs /\ want[p][l] \in Int
    BY DEF TypeOK
  <2> QED
    BY <2>1, AbsType, Zenon
<1>4. CASE DeployStep
  <2>1. CASE BuildExecute
    <3>1. PICK n \in todo, r \in Outcomes(OrderQty) :
             ExecuteOrderIntent(BuildTicket(n), r)
      BY <2>1, Zenon DEF BuildExecute
    <3>2. n \in BuildOrder
      BY Zenon DEF TypeOK
    <3> QED
      BY <1>1, <1>2, <3>1, <3>2, Zenon
  <2>2. CASE ~BuildExecute
    <3>1. fill' = fill
      BY <1>4, <2>2, ZenonT(30)
         DEF DeployStep, DeployStraddle, DeploySaveDb, BuildAppendIntent,
             BuildRecord, BuildRound, DeployFinishMem, DeployFinishDb,
             StartRuntime, UpdateMem, UpdateDb, brokerVars
    <3> QED
      BY <1>1, <3>1, SMTT(30)
  <2> QED
    BY <2>1, <2>2, Zenon
<1>5. ASSUME NEW p \in Request, RequestStep(p)
      PROVE  \A x \in Ticket : fill'[x] \in Nat /\ fill'[x] >= fill[x]
  <2>1. CASE ExecuteLeg(p) \/ ManualExecute(p)
    <3>1. PICK l \in legs[p] : \E r \in Outcomes(Abs(want[p][l])) :
             ExecuteOrderIntent(LegTicket(p, l), r)
      BY <2>1, Zenon DEF ExecuteLeg, ManualExecute
    <3>2. PICK r \in Outcomes(Abs(want[p][l])) :
             ExecuteOrderIntent(LegTicket(p, l), r)
      BY <3>1, Zenon
    <3> QED
      BY <1>2, <1>3, <3>2, Zenon
  <2>2. CASE ~(ExecuteLeg(p) \/ ManualExecute(p))
    <3>1. fill' = fill
      BY <1>5, <2>2, ZenonT(30)
         DEF RequestStep, SquareOffStep, RequestLoad, CacheFill, ReadOnly,
             Refuse, SquareOffRead, SquareOffInsert, SquaringOffMem,
             SquaringOffDb, RuntimeLoad, RuntimeStop, NotExecuted, RecordLeg,
             CloseMem, CloseDb, PartialMem, PartialDb, HedgeInsert, ManualPlan,
             RefreshRead, RefreshWrite, UpdateMem, UpdateDb, Move, brokerVars
    <3> QED
      BY <1>1, <3>1, SMTT(30)
  <2> QED
    BY <2>1, <2>2, Zenon
<1>6. ASSUME NEW x \in Ticket, Market(x)
      PROVE  \A y \in Ticket : fill'[y] \in Nat /\ fill'[y] >= fill[y]
  <2>1. CASE BrokerTrade(x)
    BY <1>1, <2>1 DEF BrokerTrade, TypeOK, BrokerTypeOK
  <2>2. CASE BrokerDrop(x)
    BY <1>1, <2>2, SMTT(30) DEF BrokerDrop
  <2> QED
    BY <1>6, <2>1, <2>2, Zenon DEF Market
<1>7. CASE (\E x \in Ticket : Reconcile(x)) \/ Tick \/ Crash \/ UNCHANGED vars
  <2>1. fill' = fill
    BY <1>7, ZenonT(30) DEF Reconcile, Tick, Crash, vars, brokerVars
  <2> QED
    BY <1>1, <2>1, SMTT(30)
<1> QED
  BY <1>1, <1>4, <1>5, <1>6, <1>7, Zenon DEF Next, Idle

\* At most one leg is next.
LEMMA NextLegUnique ==
    ASSUME TypeOK, NEW p \in Request, NEW k, NextLeg(p, k),
           NEW l, NextLeg(p, l)
    PROVE  k = l
<1>1. legs[p] \subseteq Legs /\ lead[p] \in Legs
  BY Zenon DEF TypeOK
<1> QED
  BY <1>1 DEF NextLeg, Legs

-----------------------------------------------------------------------------
(* Two square-offs and one StopCh *)

StoppingPC == {"insert", "sqMem", "sqDb", "rtLoad", "rtStop", "panic"}
AheadPC == {"done", "panic", "gate", "execute", "record", "closeMem", "closeDb"}

\* A square-off that is past the stop of the runtime.
Ahead(q) == kind[q] = "SQF" /\ pc[q] \in AheadPC

\* Only square-off stops the runtime, and a closed StopCh has somebody who
\* closed it, who is past that.
RaceInv ==
    /\ \A p \in Request : pc[p] \in StoppingPC => kind[p] = "SQF"
    /\ stopped => \E q \in Request : Ahead(q)
    /\ PanicOnlyByRace

\* A step of a request on its way to the stop of the runtime, and past it.
LEMMA StopSteps ==
    ASSUME TypeOK, NEW p \in Request, RequestStep(p), pc[p] \in StoppingPC => kind[p] = "SQF"
    PROVE  /\ pc'[p] \in StoppingPC => kind'[p] = "SQF"
           /\ Ahead(p) => Ahead(p)'
           /\ stopped' = stopped \/ (pc[p] = "rtStop" /\ pc'[p] = "gate")
           /\ kind[p] = "SQF" /\ pc[p] = "rtStop" => kind'[p] = "SQF"
           /\ pc'[p] = "panic" => pc[p] = "rtStop" /\ stopped
<1> USE TicketTypes DEF TypeOK
<1>g. \A next : Goto(p, next) => pc'[p] = next
  BY Zenon DEF Goto
<1> USE DEF At, Ahead
<1>1. CASE RequestLoad(p) \/ RefreshRead(p)
  <2>1. pc[p] = "idle" /\ stopped' = stopped /\ pc'[p] \in {"loaded", "cache", "done", "refreshDb"}
    BY <1>1, <1>g, Zenon DEF RequestLoad, RefreshRead
  <2> QED
    BY <2>1 DEF StoppingPC, AheadPC
<1>2. CASE CacheFill(p) \/ ReadOnly(p) \/ Refuse(p) \/ PartialMem(p) \/ PartialDb(p)
           \/ HedgeInsert(p) \/ ManualPlan(p) \/ RefreshWrite(p)
  <2>1. /\ pc[p] \in {"cache", "loaded", "partialDb", "refreshDb"} /\ stopped' = stopped
        /\ pc'[p] \in {"loaded", "done", "partialDb", "gate", "execute"}
    BY <1>2, <1>g, ZenonT(30)
       DEF CacheFill, ReadOnly, Refuse, PartialMem, PartialDb, HedgeInsert, ManualPlan,
           RefreshWrite, UpdateMem, UpdateDb, Move
  <2> QED
    BY <2>1 DEF StoppingPC, AheadPC
<1>3. CASE SquareOffRead(p)
  <2>1. /\ pc[p] = "loaded" /\ kind' = kind /\ kind[p] = "SQF" /\ stopped' = stopped
        /\ pc'[p] = "insert"
    BY <1>3, <1>g, Zenon DEF SquareOffRead
  <2> QED
    BY <2>1 DEF StoppingPC, AheadPC
<1>4. CASE SquareOffInsert(p) \/ SquaringOffMem(p) \/ SquaringOffDb(p) \/ RuntimeLoad(p)
  <2>1. /\ pc[p] \in {"insert", "sqMem", "sqDb", "rtLoad"} /\ kind' = kind /\ stopped' = stopped
        /\ pc'[p] \in {"sqMem", "sqDb", "rtLoad", "rtStop", "gate"}
    BY <1>4, <1>g, ZenonT(30)
       DEF SquareOffInsert, SquaringOffMem, SquaringOffDb, RuntimeLoad, UpdateMem, UpdateDb, Move
  <2> QED
    BY <2>1 DEF StoppingPC, AheadPC
<1>5. CASE RuntimeStop(p)
  <2>1. /\ pc[p] = "rtStop" /\ kind' = kind
        /\ \/ stopped /\ pc'[p] = "panic" /\ stopped' = stopped
           \/ ~stopped /\ pc'[p] = "gate"
    BY <1>5, <1>g, Zenon DEF RuntimeStop
  <2> QED
    BY <2>1, Zenon DEF StoppingPC, AheadPC
<1>6. CASE NotExecuted(p) \/ ExecuteLeg(p) \/ RecordLeg(p) \/ CloseMem(p) \/ CloseDb(p)
           \/ ManualExecute(p)
  <2>1. /\ pc[p] \in {"gate", "execute", "record", "closeMem", "closeDb"} /\ kind' = kind
        /\ stopped' = stopped
        /\ pc'[p] \in {"done", "record", "execute", "closeMem", "closeDb"}
    BY <1>6, <1>g, ZenonT(30)
       DEF NotExecuted, ExecuteLeg, RecordLeg, AfterLeg, CloseMem, CloseDb, ManualExecute,
           UpdateMem, UpdateDb, Move
  <2> QED
    BY <2>1 DEF StoppingPC, AheadPC
<1> QED
  BY <1>1, <1>2, <1>3, <1>4, <1>5, <1>6, Zenon DEF RequestStep, SquareOffStep

\* Nobody but a square-off closes StopCh.
LEMMA StoppedBy ==
    ASSUME TypeOK, [Next]_vars, \A p \in Request : ~RequestStep(p)
    PROVE  stopped' => stopped
<1>1. CASE DeployStep
  BY <1>1, ZenonT(30)
     DEF DeployStep, DeployStraddle, DeploySaveDb, BuildAppendIntent, BuildExecute,
         BuildRecord, BuildRound, DeployFinishMem, DeployFinishDb, StartRuntime,
         UpdateMem, UpdateDb
<1>2. CASE Crash
  BY <1>2, Zenon DEF Crash
<1>3. CASE Tick \/ UNCHANGED vars \/ \E x \in Ticket : Market(x) \/ Reconcile(x)
  BY <1>3, Zenon DEF Tick, Market, Reconcile, vars
<1> QED
  BY <1>1, <1>2, <1>3, Zenon DEF Next, Idle

\* Every step keeps the stop of the runtime with the SquareOff that made it.
LEMMA RaceNext == TypeOK /\ RaceInv /\ [Next]_vars => RaceInv'
<1> SUFFICES ASSUME TypeOK, RaceInv, [Next]_vars PROVE RaceInv'
  BY Zenon
<1>1. ASSUME NEW p \in Request
      PROVE  /\ pc'[p] \in StoppingPC => kind'[p] = "SQF"
             /\ Ahead(p) => Ahead(p)'
             /\ pc'[p] = "panic" => pc[p] = "panic" \/ (pc[p] = "rtStop" /\ stopped)
  <2>1. CASE RequestStep(p)
    BY <2>1, StopSteps, Zenon DEF RaceInv
  <2>2. CASE Crash
    BY <2>2, CrashEnds, Zenon DEF StoppingPC, AheadPC, Ahead
  <2>3. CASE ~RequestStep(p) /\ ~Crash
    BY <2>3, OthersKeep, Zenon DEF Undisturbed, RaceInv, Ahead
  <2> QED
    BY <2>1, <2>2, <2>3, Zenon
<1>2. ASSUME stopped' PROVE \E q \in Request : Ahead(q)'
  <2>1. CASE stopped
    BY <1>1, <2>1, Zenon DEF RaceInv
  <2>2. CASE ~stopped
    <3>1. PICK p \in Request : RequestStep(p)
      BY <1>2, <2>2, StoppedBy, Zenon
    <3>2. pc[p] = "rtStop" /\ pc'[p] = "gate" /\ kind'[p] = "SQF"
      BY <1>2, <2>2, <3>1, StopSteps, Zenon DEF RaceInv, StoppingPC
    <3> QED
      BY <3>2, Zenon DEF Ahead, AheadPC
  <2> QED
    BY <2>1, <2>2, Zenon
<1>3. ASSUME NEW p \in Request, pc'[p] = "panic"
      PROVE  \E q \in Request \ {p} : Ahead(q)'
  <2>1. \E q \in Request \ {p} : Ahead(q)
    <3>1. CASE pc[p] = "panic"
      BY <3>1, Zenon DEF RaceInv, PanicOnlyByRace, Ahead, AheadPC, Finished, At
    <3>2. CASE pc[p] = "rtStop" /\ stopped
      BY <3>2, Zenon DEF RaceInv, Ahead, AheadPC
    <3> QED
      BY <1>1, <1>3, <3>1, <3>2, Zenon
  <2> QED
    BY <1>1, <2>1, Zenon
<1>4. PanicOnlyByRace'
  BY <1>3, Zenon DEF PanicOnlyByRace, Ahead, AheadPC, Finished, At
<1> QED
  BY <1>1, <1>2, <1>4, Zenon DEF RaceInv

\* A SquareOff panics on its trade's StopCh only if another SquareOff of the
\* trade got there first, however many run at once and whenever the gateway
\* restarts.
THEOREM OnlyRacesPanic == Spec => []PanicOnlyByRace
<1>1. Init => RaceInv
  BY TicketTypes, Zenon DEF Init, RaceInv, StoppingPC, PanicOnlyByRace, At, Process
<1>2. RaceInv => PanicOnlyByRace
  BY Zenon DEF RaceInv
<1> QED
  BY <1>1, <1>2, RaceNext, TypeCorrect, PTL DEF Spec

-----------------------------------------------------------------------------
(* What the orders table records *)

\* The rows MarkOrderExecution changes.
LEMMA MarkRows ==
    ASSUME TypeOK, NEW id, NEW s, NEW f, MarkOrderExecution(id, s, f),
           NEW i \in OrderId, rows'[i] # rows[i]
    PROVE  i = id /\ rows'[i].status = s /\ rows'[i].filled = f
<1>1. rows \in [OrderId -> OrderRow]
  BY Zenon DEF TypeOK, StoreTypeOK
<1>2. rows' = [rows EXCEPT ![id].status = s, ![id].filled = f]
  BY Zenon DEF MarkOrderExecution
<1>3. i = id
  BY <1>1, <1>2
<1> QED
  BY <1>1, <1>2, <1>3 DEF OrderRow

\* The rows insertOrderIntent changes: the new ones.
LEMMA InsertRows ==
    ASSUME NEW new, insertOrderIntents(new), NEW i \in OrderId, rows'[i] # rows[i]
    PROVE  i \in DOMAIN new /\ rows[i].status = "NONE" /\ rows'[i] = new[i]
  BY Zenon DEF insertOrderIntents, Exists

\* A row is changed by the insertion of a new order, by the record of a result or
\* by a reconciliation.
Inserted(i) ==
    rows[i].status = "NONE" /\ rows'[i].status = "CREATED" /\ rows'[i].filled = 0
BuildRecorded(i) ==
    \E n \in todo :
       /\ BuildRecord /\ IsNext(n) /\ i = BuildId(n)
       /\ rows'[i].status = res[Deployer].status
       /\ rows'[i].filled = res[Deployer].filled
LegRecorded(i) ==
    \E p \in Request : \E l \in legs[p] :
       /\ RecordLeg(p) /\ NextLeg(p, l) /\ i = ids[p][l]
       /\ rows'[i].filled = res[p].filled
Reconciled(i) ==
    \E x \in Ticket :
       /\ Reconcile(x) /\ i = TicketId(x) /\ rows[i].status \in {"OPEN", "PARTIALLY_FILLED"}
       /\ rows'[i].filled <= fill[x]

\* There is no other way to change a row.
LEMMA RowChange ==
    ASSUME TypeOK, [Next]_vars, NEW i \in OrderId, rows'[i] # rows[i]
    PROVE  Inserted(i) \/ BuildRecorded(i) \/ LegRecorded(i) \/ Reconciled(i)
<1>1. CASE BuildAppendIntent
  <2>1. PICK n \in todo :
           insertOrderIntents([j \in {BuildId(n)} |-> CreatedRow(LegOf[n], "SELL", OrderQty)])
    BY <1>1, Zenon DEF BuildAppendIntent
  <2> DEFINE new == [j \in {BuildId(n)} |-> CreatedRow(LegOf[n], "SELL", OrderQty)]
  <2>2. i \in DOMAIN new /\ rows[i].status = "NONE" /\ rows'[i] = new[i]
    BY <2>1, InsertRows, Zenon
  <2>3. rows'[i] = CreatedRow(LegOf[n], "SELL", OrderQty)
    BY <2>2, Zenon
  <2> QED
    BY <2>2, <2>3 DEF Inserted, CreatedRow
<1>2. CASE BuildRecord
  <2>1. PICK n \in todo : IsNext(n) /\ MarkOrderExecution(BuildId(n), res[Deployer].status,
                                                          res[Deployer].filled)
    BY <1>2, Zenon DEF BuildRecord
  <2>2. /\ i = BuildId(n) /\ rows'[i].status = res[Deployer].status
        /\ rows'[i].filled = res[Deployer].filled
    BY <2>1, MarkRows, ZenonT(30)
  <2> QED
    BY <1>2, <2>1, <2>2, Zenon DEF BuildRecorded
<1>3. CASE DeployStep /\ ~BuildAppendIntent /\ ~BuildRecord
  BY <1>3, ZenonT(30)
     DEF DeployStep, DeployStraddle, DeploySaveDb, BuildExecute, BuildRound, DeployFinishMem,
         DeployFinishDb, StartRuntime, UpdateMem, UpdateDb, saveToMemory, upsertTrade, storeVars
<1>4. ASSUME NEW p \in Request, RequestStep(p)
      PROVE  Inserted(i) \/ LegRecorded(i)
  <2>1. CASE SquareOffInsert(p) \/ HedgeInsert(p)
    <3>1. PICK q, idOf : AppendIntents(p, q, idOf)
      BY <2>1, Zenon DEF SquareOffInsert, HedgeInsert
    <3> DEFINE new == [j \in {idOf[l] : l \in Traded(q)} |->
                         CreatedRow(j[2], SideOf(q[j[2]]), Abs(q[j[2]]))]
    <3>2. insertOrderIntents(new)
      BY <3>1, Zenon DEF AppendIntents
    <3>3. i \in DOMAIN new /\ rows[i].status = "NONE" /\ rows'[i] = new[i]
      BY <3>2, InsertRows, Zenon
    <3>4. rows'[i] = CreatedRow(i[2], SideOf(q[i[2]]), Abs(q[i[2]]))
      BY <3>3, Zenon
    <3> QED
      BY <3>3, <3>4 DEF Inserted, CreatedRow
  <2>2. CASE RecordLeg(p)
    <3>1. PICK l \in legs[p] :
             NextLeg(p, l) /\ MarkOrderExecution(ids[p][l], res[p].status, res[p].filled)
      BY <2>2, Zenon DEF RecordLeg
    <3>2. PICK id, st, f : /\ id = ids[p][l] /\ f = res[p].filled
                           /\ MarkOrderExecution(id, st, f)
      BY <3>1, Zenon
    <3>3. MarkOrderExecution(id, st, f)
      BY <3>2, Zenon
    <3>4. i = id /\ rows'[i].status = st /\ rows'[i].filled = f
      BY <3>3, MarkRows, Zenon
    <3> QED
      BY <2>2, <3>1, <3>2, <3>4, Zenon DEF LegRecorded
  <2>3. CASE ~(SquareOffInsert(p) \/ HedgeInsert(p) \/ RecordLeg(p))
    BY <1>4, <2>3, ZenonT(30)
       DEF RequestStep, SquareOffStep, RequestLoad, CacheFill, ReadOnly, Refuse, SquareOffRead,
           SquaringOffMem, SquaringOffDb, RuntimeLoad, RuntimeStop, NotExecuted, ExecuteLeg,
           CloseMem, CloseDb, PartialMem, PartialDb, ManualPlan, ManualExecute, RefreshRead,
           RefreshWrite, UpdateMem, UpdateDb, Move, saveToMemory, upsertTrade, storeVars
  <2> QED
    BY <2>1, <2>2, <2>3, Zenon
<1>5. ASSUME NEW x \in Ticket, Reconcile(x)
      PROVE  Reconciled(i)
  <2> DEFINE j == TicketId(x)
  <2>1. /\ j \in OrderId /\ rows[j].status \in {"OPEN", "PARTIALLY_FILLED"}
        /\ rows' = [rows EXCEPT ![j].status = RowStatus(fill[x], rows[j].qty, open[x]),
                                ![j].filled = IF fill[x] < rows[j].qty THEN fill[x]
                                              ELSE rows[j].qty]
    BY <1>5, Zenon DEF Reconcile
  <2>2. rows \in [OrderId -> OrderRow] /\ fill[x] \in Nat
    BY Zenon DEF TypeOK, StoreTypeOK, BrokerTypeOK
  <2> HIDE DEF j
  <2>3. i = j /\ rows[j].qty \in Nat
    BY <2>1, <2>2 DEF OrderRow
  <2>4. rows'[i].filled = IF fill[x] < rows[j].qty THEN fill[x] ELSE rows[j].qty
    BY <2>1, <2>2, <2>3 DEF OrderRow
  <2>5. rows'[i].filled <= fill[x]
    BY <2>2, <2>3, <2>4
  <2> QED
    BY <1>5, <2>1, <2>3, <2>5, Zenon DEF Reconciled, j
<1>6. CASE (\E x \in Ticket : Market(x)) \/ Tick \/ Crash \/ UNCHANGED vars
  BY <1>6, Zenon DEF Market, Tick, Crash, restartStore, vars, storeVars
<1> QED
  BY <1>1, <1>2, <1>3, <1>4, <1>5, <1>6, Zenon DEF Next, Idle

-----------------------------------------------------------------------------
(* The ids of a request's orders *)

\* A request has ids only once it has stored its orders, and they are of its own
\* kind.
PlanningPC == {"idle", "cache", "loaded", "insert"}
IdInv ==
    \A p \in Request, l \in Legs :
       /\ pc[p] \in PlanningPC => ids[p][l] = NoId
       /\ \A n \in BuildOrder : ids[p][l] # BuildId(n)

\* No two kinds of order share an id, and NoId is no order's.
LEMMA IdKinds ==
    /\ NoId \notin OrderId
    /\ \A n \in BuildOrder : NoId # BuildId(n)
    /\ \A n \in BuildOrder : \A l, s, k : SqfId(l, s, k) # BuildId(n) /\ HedgeId(l, s) # BuildId(n)
  BY GatewayAssumption DEF AllIds, NoId, BuildId, SqfId, HedgeId

\* A request gets its ids once, when it stores its orders.
LEMMA IdsOnce ==
    ASSUME TypeOK, IdInv, [Next]_vars, NEW p \in Request, NEW l \in Legs
    PROVE  /\ ids'[p][l] # ids[p][l] =>
                 ids[p][l] = NoId /\ pc'[p] \notin PlanningPC
                   /\ \A n \in BuildOrder : ids'[p][l] # BuildId(n)
           /\ pc'[p] \in PlanningPC => pc[p] \in PlanningPC
<1> USE TicketTypes
<1>1. \A next : Goto(p, next) => pc'[p] = next
  BY Zenon DEF Goto, TypeOK
<1>2. \A f : ids' = [ids EXCEPT ![p] = f] => ids'[p] = f
  BY Zenon DEF TypeOK
<1>3. CASE SquareOffInsert(p)
  <2>1. PICK k \in [Legs -> Nat] : ids' = [ids EXCEPT ![p] = [m \in Legs |-> SqfId(m, sec, k[m])]]
    <3> DEFINE k == [m \in Legs |-> Position(want[p], lead[p], m)]
    <3>1. k \in [Legs -> Nat]
      BY DEF Position
    <3>2. ids' = [ids EXCEPT ![p] = [m \in Legs |-> SqfId(m, sec, k[m])]]
      BY <1>3, Zenon DEF SquareOffInsert, AppendIntents
    <3> HIDE DEF k
    <3> QED
      BY <3>1, <3>2, Zenon
  <2>2. ids'[p][l] = SqfId(l, sec, k[l])
    BY <1>2, <2>1, Zenon
  <2>3. pc[p] = "insert" /\ pc'[p] = "sqMem"
    BY <1>1, <1>3, Zenon DEF SquareOffInsert, At
  <2> QED
    BY <2>2, <2>3, IdKinds, Zenon DEF IdInv, PlanningPC
<1>4. CASE HedgeInsert(p)
  <2>1. ids' = [ids EXCEPT ![p] = [m \in Legs |-> HedgeId(m, sec)]]
    BY <1>4, Zenon DEF HedgeInsert, AppendIntents
  <2>2. ids'[p][l] = HedgeId(l, sec)
    BY <1>2, <2>1, Zenon
  <2>3. pc[p] = "loaded" /\ pc'[p] = "gate"
    BY <1>1, <1>4, Zenon DEF HedgeInsert, At
  <2> QED
    BY <2>2, <2>3, IdKinds, Zenon DEF IdInv, PlanningPC
<1>5. CASE RequestStep(p) /\ ~SquareOffInsert(p) /\ ~HedgeInsert(p)
  <2>1. ids' = ids
    BY <1>5, ZenonT(30)
       DEF RequestStep, SquareOffStep, RequestLoad, CacheFill, ReadOnly, Refuse, SquareOffRead,
           SquaringOffMem, SquaringOffDb, RuntimeLoad, RuntimeStop, NotExecuted, ExecuteLeg,
           RecordLeg, CloseMem, CloseDb, PartialMem, PartialDb, ManualPlan, ManualExecute,
           RefreshRead, RefreshWrite, UpdateMem, UpdateDb, Move, planVars
  <2>2. CASE RequestLoad(p) \/ CacheFill(p) \/ SquareOffRead(p)
    BY <2>1, <2>2, Zenon DEF RequestLoad, CacheFill, UpdateMem, SquareOffRead, At, PlanningPC
  <2>3. CASE ~(RequestLoad(p) \/ CacheFill(p) \/ SquareOffRead(p))
    <3>1. pc'[p] \notin PlanningPC
      BY <1>1, <1>5, <2>3, ZenonT(30)
         DEF RequestStep, SquareOffStep, ReadOnly, Refuse,
             SquaringOffMem, SquaringOffDb, RuntimeLoad, RuntimeStop, NotExecuted, ExecuteLeg,
             RecordLeg, AfterLeg, CloseMem, CloseDb, PartialMem, PartialDb, ManualPlan,
             ManualExecute, RefreshRead, RefreshWrite, UpdateMem, UpdateDb, Move, PlanningPC
    <3> QED
      BY <2>1, <3>1, Zenon
  <2> QED
    BY <2>2, <2>3, Zenon
<1>6. CASE Crash
  BY <1>6, CrashEnds, Zenon DEF Crash, planVars, PlanningPC
<1>7. CASE ~RequestStep(p) /\ ~Crash
  <2>1. pc'[p] = pc[p]
    BY <1>7, OthersKeep, Zenon DEF Undisturbed
  <2>2. ids'[p] = ids[p]
    <3>1. ASSUME NEW q \in Request, RequestStep(q) PROVE ids'[p] = ids[p]
      <4>1. q # p
        BY <1>7, <3>1, Zenon
      <4>2. \A f : ids' = [ids EXCEPT ![q] = f] => ids'[p] = ids[p]
        BY <4>1, Zenon DEF TypeOK
      <4>3. CASE SquareOffInsert(q) \/ HedgeInsert(q)
        BY <4>2, <4>3, Zenon DEF SquareOffInsert, HedgeInsert, AppendIntents
      <4>4. CASE ~(SquareOffInsert(q) \/ HedgeInsert(q))
        BY <3>1, <4>4, ZenonT(30)
           DEF RequestStep, SquareOffStep, RequestLoad, CacheFill, ReadOnly, Refuse, SquareOffRead,
               SquaringOffMem, SquaringOffDb, RuntimeLoad, RuntimeStop, NotExecuted, ExecuteLeg,
               RecordLeg, CloseMem, CloseDb, PartialMem, PartialDb, ManualPlan, ManualExecute,
               RefreshRead, RefreshWrite, UpdateMem, UpdateDb, Move, planVars
      <4> QED
        BY <4>3, <4>4, Zenon
    <3>2. CASE DeployStep
      BY <3>2, ZenonT(30)
         DEF DeployStep, DeployStraddle, DeploySaveDb, BuildAppendIntent, BuildExecute,
             BuildRecord, BuildRound, DeployFinishMem, DeployFinishDb, StartRuntime, UpdateMem,
             UpdateDb, planVars
    <3>3. CASE Tick \/ UNCHANGED vars \/ \E x \in Ticket : Market(x) \/ Reconcile(x)
      BY <3>3, ZenonT(30) DEF Tick, Market, Reconcile, vars, planVars
    <3> QED
      BY <1>7, <3>1, <3>2, <3>3, Zenon DEF Next, Idle
  <2> QED
    BY <2>1, <2>2, Zenon
<1> QED
  BY <1>3, <1>4, <1>5, <1>6, <1>7, Zenon

-----------------------------------------------------------------------------
(* No fill without a trade *)

\* A result that waits to be recorded is covered by what has traded, and so is
\* every recorded fill.
DeployResultInv ==
    At(Deployer, "record") =>
       \A n \in todo : IsNext(n) => res[Deployer].filled <= fill[BuildTicket(n)]
LegResultInv(p) ==
    At(p, "record") =>
       \A l \in legs[p] : NextLeg(p, l) => res[p].filled <= fill[LegTicket(p, l)]
FillInv ==
    /\ NoPhantomFill /\ IdInv
    /\ DeployResultInv /\ \A p \in Request : LegResultInv(p)

\* At the start nothing is recorded and nothing waits to be.
LEMMA FillInit == Init => FillInv
<1> SUFFICES ASSUME Init PROVE FillInv
  OBVIOUS
<1>1. \A i \in OrderId : rows[i].filled = 0
  BY DEF Init, StoreInit, NoRow
<1>2. \A p \in Process : pc[p] = "idle"
  BY Zenon DEF Init
<1>3. \A p \in Request, l \in Legs : ids[p][l] = NoId
  BY Zenon DEF Init
<1>4. NoPhantomFill
  BY <1>1 DEF NoPhantomFill, FillCovered
<1>5. IdInv
  BY <1>3, IdKinds, Zenon DEF IdInv
<1> QED
  BY <1>2, <1>4, <1>5, TicketTypes, Zenon DEF FillInv, DeployResultInv, LegResultInv, At

\* The outcome of a build call has traded before it is recorded.
LEMMA DeployResultNext ==
    ASSUME TypeOK, DeployResultInv, [Next]_vars
    PROVE  DeployResultInv'
<1> USE TicketTypes
<1>1. res[Deployer].filled \in Nat
  BY DEF TypeOK, Outcome
<1>2. todo \subseteq BuildOrder
  BY Zenon DEF TypeOK
<1>3. ASSUME pc'[Deployer] = pc[Deployer], res'[Deployer] = res[Deployer], todo' = todo
      PROVE  DeployResultInv'
  <2>1. \A n \in BuildOrder : /\ fill[BuildTicket(n)] \in Nat /\ fill'[BuildTicket(n)] \in Nat
                              /\ fill'[BuildTicket(n)] >= fill[BuildTicket(n)]
    BY FillGrows, Zenon
  <2>2. \A n \in todo : res[Deployer].filled <= fill[BuildTicket(n)]
                          => res[Deployer].filled <= fill'[BuildTicket(n)]
    BY <1>1, <1>2, <2>1
  <2>3. \A n : IsNext(n)' <=> IsNext(n)
    BY <1>3, Zenon DEF IsNext
  <2> QED
    BY <1>3, <2>2, <2>3, Zenon DEF DeployResultInv, At
<1>4. CASE BuildExecute
  <2>1. PICK n \in todo, r \in Outcomes(OrderQty) :
           /\ IsNext(n)
           /\ ExecuteOrderIntent(BuildTicket(n), r)
           /\ \/ r.status = "ERR" /\ Goto(Deployer, "append")
              \/ /\ res' = [res EXCEPT ![Deployer] = r]
                 /\ todo' = todo
    BY <1>4, Zenon DEF BuildExecute
  <2>2. CASE Goto(Deployer, "append")
    BY <2>2, Zenon DEF Goto, TypeOK, DeployResultInv, At
  <2>3. CASE res' = [res EXCEPT ![Deployer] = r] /\ todo' = todo
    <3>1. res'[Deployer] = r
      BY <2>3, Zenon DEF TypeOK
    <3>2. r.filled \in Nat
      BY OutcomeType, GatewayAssumption, Zenon
    <3>3. fill'[BuildTicket(n)] = fill[BuildTicket(n)] + r.filled /\ fill[BuildTicket(n)] \in Nat
      BY <1>2, <2>1, BuildCall, BuildNumbers, Zenon
    <3>4. r.filled <= fill'[BuildTicket(n)]
      BY <3>2, <3>3
    <3>5. \A m : IsNext(m)' => m = n
      BY <2>1, <2>3, NextUnique, Zenon DEF IsNext
    <3> QED
      BY <3>1, <3>4, <3>5, Zenon DEF DeployResultInv
  <2> QED
    BY <2>1, <2>2, <2>3, Zenon
<1>5. CASE DeployStep /\ ~BuildExecute
  <2>1. \A next : Goto(Deployer, next) => pc'[Deployer] = next
    BY Zenon DEF Goto, TypeOK
  <2>2. pc'[Deployer] # "record" \/ (pc' = pc /\ pc[Deployer] = "append")
    BY <1>5, <2>1, ZenonT(30)
       DEF DeployStep, DeployStraddle, DeploySaveDb, BuildAppendIntent, BuildRecord, BuildRound,
           DeployFinishMem, DeployFinishDb, StartRuntime, UpdateMem, UpdateDb, At
  <2> QED
    BY <2>2, Zenon DEF DeployResultInv, At
<1>6. ASSUME NEW p \in Request, RequestStep(p) PROVE DeployResultInv'
  BY <1>3, <1>6, RequestFrame, Zenon DEF BuildFrame, buildVars
<1>7. CASE Crash
  BY <1>7, Zenon DEF Crash, DeployResultInv, At
<1>8. CASE Tick \/ UNCHANGED vars \/ \E x \in Ticket : Market(x) \/ Reconcile(x)
  BY <1>3, <1>8, ZenonT(30) DEF Tick, Market, Reconcile, vars, buildVars
<1> QED
  BY <1>4, <1>5, <1>6, <1>7, <1>8, Zenon DEF Next, Idle

\* The same for the orders of a request.
LEMMA LegResultNext ==
    ASSUME TypeOK, [Next]_vars, NEW p \in Request, LegResultInv(p)
    PROVE  LegResultInv(p)'
<1> USE TicketTypes
<1>1. CASE ExecuteLeg(p)
  <2>0. PICK l \in legs[p] : \E r \in Outcomes(Abs(want[p][l])) :
           /\ NextLeg(p, l)
           /\ ExecuteOrderIntent(LegTicket(p, l), r)
           /\ Goto(p, "done") \/ res' = [res EXCEPT ![p] = r]
    BY <1>1, Zenon DEF ExecuteLeg
  <2>1. PICK r \in Outcomes(Abs(want[p][l])) :
           /\ NextLeg(p, l)
           /\ ExecuteOrderIntent(LegTicket(p, l), r)
           /\ Goto(p, "done") \/ res' = [res EXCEPT ![p] = r]
    BY <2>0, Zenon
  <2>2. CASE Goto(p, "done")
    BY <2>2, Zenon DEF Goto, TypeOK, LegResultInv, At
  <2>3. CASE res' = [res EXCEPT ![p] = r]
    <3>1. res'[p] = r
      BY <2>3, Zenon DEF TypeOK
    <3>2. l \in Legs /\ want[p][l] \in Int
      BY SMTT(30) DEF TypeOK
    <3>3. r.filled \in Nat
      BY <2>1, <3>2, AbsType, OutcomeType, Zenon
    <3>4. /\ fill[LegTicket(p, l)] \in Nat
          /\ fill'[LegTicket(p, l)] = fill[LegTicket(p, l)] + r.filled
      <4>1. fill \in [Ticket -> Nat]
        BY ZenonT(30) DEF TypeOK, BrokerTypeOK
      <4> QED
        BY <2>1, <3>2, <4>1, Zenon DEF ExecuteOrderIntent
    <3>5. r.filled <= fill'[LegTicket(p, l)]
      BY <3>3, <3>4
    <3>6. legs' = legs /\ lead' = lead
      BY <1>1, Zenon DEF ExecuteLeg, planVars
    <3>7. \A k : NextLeg(p, k)' => k = l
      BY <2>1, <3>6, NextLegUnique, Zenon DEF NextLeg
    <3> QED
      BY <3>1, <3>5, <3>7, Zenon DEF LegResultInv
  <2> QED
    BY <2>1, <2>2, <2>3, Zenon
<1>2. CASE RequestStep(p) /\ ~ExecuteLeg(p)
  <2>1. \A next : Goto(p, next) => pc'[p] = next
    BY Zenon DEF Goto, TypeOK
  <2>2. pc'[p] # "record"
    BY <1>2, <2>1, ZenonT(30)
       DEF RequestStep, SquareOffStep, RequestLoad, CacheFill, ReadOnly, Refuse, SquareOffRead,
           SquareOffInsert, SquaringOffMem, SquaringOffDb, RuntimeLoad, RuntimeStop, NotExecuted,
           RecordLeg, AfterLeg, CloseMem, CloseDb, PartialMem, PartialDb, HedgeInsert, ManualPlan,
           ManualExecute, RefreshRead, RefreshWrite, UpdateMem, UpdateDb, Move
  <2> QED
    BY <2>2, Zenon DEF LegResultInv, At
<1>3. CASE Crash
  BY <1>3, CrashEnds, Zenon DEF LegResultInv, At
<1>4. CASE ~RequestStep(p) /\ ~Crash
  <2>1. Undisturbed(p)
    BY <1>4, OthersKeep, Zenon
  <2>2. \A l \in Legs : /\ fill[LegTicket(p, l)] \in Nat /\ fill'[LegTicket(p, l)] \in Nat
                        /\ fill'[LegTicket(p, l)] >= fill[LegTicket(p, l)]
    BY FillGrows, Zenon
  <2>3. res[p].filled \in Nat /\ legs[p] \subseteq Legs
    BY DEF TypeOK, Outcome
  <2>4. \A l \in legs[p] : res[p].filled <= fill[LegTicket(p, l)]
                             => res[p].filled <= fill'[LegTicket(p, l)]
    BY <2>2, <2>3
  <2>5. \A l : NextLeg(p, l)' <=> NextLeg(p, l)
    BY <2>1, Zenon DEF NextLeg, Undisturbed
  <2> QED
    BY <2>1, <2>4, <2>5, Zenon DEF LegResultInv, At, Undisturbed
<1> QED
  BY <1>1, <1>2, <1>3, <1>4, Zenon

\* A ticket keeps its order's id.
LEMMA TicketIdStays ==
    ASSUME TypeOK, IdInv, [Next]_vars, NEW x \in Ticket, TicketId(x) \in OrderId
    PROVE  TicketId(x)' = TicketId(x)
<1>1. CASE \E n \in BuildOrder : x = BuildTicket(n)
  BY <1>1 DEF BuildTicket, TicketId
<1>2. ASSUME NEW p \in Request, NEW l \in Legs, x = LegTicket(p, l)
      PROVE  TicketId(x)' = TicketId(x)
  <2>1. x[1] = p /\ x[2] = l /\ p # Deployer
    BY <1>2, GatewayAssumption DEF LegTicket
  <2>2. ids[p][l] \in OrderId
    BY <2>1, Zenon DEF TicketId
  <2>3. ids'[p][l] = ids[p][l]
    BY <2>2, IdsOnce, IdKinds, Zenon
  <2> QED
    BY <2>1, <2>3, Zenon DEF TicketId
<1> QED
  BY <1>1, <1>2, GatewayAssumption DEF AllTickets

\* Every change of a row leaves its fill covered by the trades of an order.
LEMMA PhantomNext ==
    ASSUME TypeOK, TypeOK', FillInv, [Next]_vars
    PROVE  NoPhantomFill'
<1> USE TicketTypes
<1> SUFFICES ASSUME NEW i \in OrderId, rows'[i].filled > 0
             PROVE  \E x \in Ticket : TicketId(x)' = i /\ rows'[i].filled <= fill'[x]
  BY Zenon DEF NoPhantomFill, FillCovered
<1>1. rows'[i].filled \in Nat /\ rows[i].filled \in Nat
  BY DEF TypeOK, StoreTypeOK, OrderRow
<1>2. ASSUME NEW x \in Ticket, TicketId(x) = i, rows'[i].filled <= fill[x]
      PROVE  \E y \in Ticket : TicketId(y)' = i /\ rows'[i].filled <= fill'[y]
  <2>1. TicketId(x)' = i
    BY <1>2, TicketIdStays, Zenon DEF FillInv
  <2>2. fill[x] \in Nat /\ fill'[x] \in Nat /\ fill'[x] >= fill[x]
    BY FillGrows, Zenon
  <2>3. rows'[i].filled <= fill'[x]
    BY <1>1, <1>2, <2>2
  <2> QED
    BY <2>1, <2>3, Zenon
<1>3. CASE rows'[i] = rows[i]
  BY <1>2, <1>3, Zenon DEF FillInv, NoPhantomFill, FillCovered
<1>4. CASE Inserted(i)
  BY <1>4 DEF Inserted
<1>5. CASE BuildRecorded(i)
  <2>1. PICK n \in todo : /\ BuildRecord /\ IsNext(n) /\ i = BuildId(n)
                          /\ rows'[i].filled = res[Deployer].filled
    BY <1>5, Zenon DEF BuildRecorded
  <2>2. n \in BuildOrder /\ res[Deployer].filled <= fill[BuildTicket(n)]
    BY <2>1, Zenon DEF TypeOK, FillInv, DeployResultInv, BuildRecord
  <2>3. TicketId(BuildTicket(n)) = i
    BY <2>1 DEF TicketId, BuildTicket
  <2> QED
    BY <1>2, <2>1, <2>2, <2>3, Zenon
<1>6. CASE LegRecorded(i)
  <2>1. PICK p \in Request, l \in Legs :
           /\ RecordLeg(p) /\ l \in legs[p] /\ NextLeg(p, l) /\ i = ids[p][l]
           /\ rows'[i].filled = res[p].filled
    BY <1>6, Zenon DEF LegRecorded, TypeOK
  <2>2. res[p].filled <= fill[LegTicket(p, l)]
    BY <2>1, Zenon DEF FillInv, LegResultInv, RecordLeg
  <2>3. TicketId(LegTicket(p, l)) = i
    BY <2>1, GatewayAssumption DEF TicketId, LegTicket
  <2> QED
    BY <1>2, <2>1, <2>2, <2>3, Zenon
<1>7. CASE Reconciled(i)
  BY <1>2, <1>7, Zenon DEF Reconciled
<1> QED
  BY <1>3, <1>4, <1>5, <1>6, <1>7, RowChange, Zenon

\* Every step keeps all of it.
LEMMA FillNext == TypeOK /\ TypeOK' /\ FillInv /\ [Next]_vars => FillInv'
<1> SUFFICES ASSUME TypeOK, TypeOK', FillInv, [Next]_vars PROVE FillInv'
  OBVIOUS
<1>1. IdInv'
  BY IdsOnce, Zenon DEF FillInv, IdInv
<1>2. DeployResultInv' /\ \A p \in Request : LegResultInv(p)'
  BY DeployResultNext, LegResultNext, Zenon DEF FillInv
<1>3. NoPhantomFill'
  BY PhantomNext, Zenon
<1> QED
  BY <1>1, <1>2, <1>3, Zenon DEF FillInv

\* The orders table records no fill that the broker does not have: whatever the
\* retries, the lost writes, the restarts and the order ids that two requests of
\* one second share, a filled_qty is covered by the trades of an order with that
\* intent_id.
THEOREM FillsCovered == Spec => []FillInv
<1>1. TypeOK /\ TypeOK' /\ FillInv /\ [Next]_vars => FillInv'
  BY FillNext, Zenon
<1> QED
  BY <1>1, FillInit, TypeCorrect, PTL DEF Spec
=============================================================================
