--------------------------- MODULE GreeksoftProofs ---------------------------
(***************************************************************************)
(* What the way to the Greeksoft broker guarantees for any number of       *)
(* orders, accounts and token file versions: one login of an account, one  *)
(* instrument for a token, reports that stay true, and calls that make a   *)
(* bounded number of look-ups and end with one result.                     *)
(*                                                                         *)
(* Each is the consequence of an invariant of its own.  The login rests on *)
(* who holds the factory's lock, the instrument on the map never changing  *)
(* once loaded, the report on the broker never taking a trade, a rejection *)
(* or a cancellation back.                                                 *)
(***************************************************************************)
EXTENDS GreeksoftOrders, TLAPS

Types ==
    /\ greekExecutors \subseteq Account /\ logins \in [Account -> Nat]
    /\ file \in Nat
    /\ DOMAIN pc = Order /\ DOMAIN result = Order /\ DOMAIN sent = Order
    /\ DOMAIN atBroker = Order
    /\ traded \in [Order -> 0..Quantity]

LoggingIn(o) == pc[o] \in {"session", "jlogin", "flags"}

\* Whoever logs in holds the lock, and for an account without an executor; an
\* account has been logged in exactly if it has an executor.
LoginInv ==
    /\ \A o \in Order : LoggingIn(o) => greekMu = o /\ AccountOf[o] \notin greekExecutors
    /\ \A a \in Account : logins[a] = IF a \in greekExecutors THEN 1 ELSE 0

\* What was sent was mapped by the map in memory.
MapInv ==
    \A o \in Order : sent[o] # None =>
        gtokenMap # -1 /\ sent[o] = <<TokenOf[o], gtokenMap>>

IInv == Types /\ LoginInv /\ MapInv /\ ReportStaysTrue

LEMMA InitIInv == Init => IInv
<1> SUFFICES ASSUME Init PROVE IInv
  BY Zenon
<1> USE GreeksoftAssumption
<1>1. Types
  BY DEF Init, Types
<1>2. LoginInv
  BY Zenon DEF Init, LoginInv, LoggingIn
<1>3. MapInv
  BY Zenon DEF Init, MapInv
<1>4. ReportStaysTrue
  BY Zenon DEF Init, ReportStaysTrue
<1> QED BY <1>1, <1>2, <1>3, <1>4, Zenon DEF IInv

LEMMA StepTypes == Types /\ [Next]_vars => Types'
<1> SUFFICES ASSUME Types, [Next]_vars PROVE Types'
  BY Zenon
<1> USE GreeksoftAssumption DEF Types
<1>1. ASSUME NEW o \in Order, Request(o) \/ getSessionToken(o) \/ jloginNew(o)
      PROVE  Types'
  BY <1>1, Zenon DEF Request, getSessionToken, jloginNew, factory, call, broker
<1>2. ASSUME NEW o \in Order, Factory(o) \/ LoginFails(o)
      PROVE  Types'
  BY <1>2, Zenon DEF Factory, LoginFails, Return, factory, call, broker
<1>3. ASSUME NEW o \in Order, PerformFullLogin(o)
      PROVE  Types'
  BY <1>3 DEF PerformFullLogin, factory, call, broker
<1>4. ASSUME NEW o \in Order, MapOrderIntent(o)
      PROVE  Types'
  BY <1>4, Zenon DEF MapOrderIntent, factory, broker
<1>5. ASSUME NEW o \in Order, PlaceFails(o)
      PROVE  Types'
  BY <1>5, Zenon DEF PlaceFails, Arrives, Return, factory
<1>6. ASSUME NEW o \in Order, NEW id, PlaceOrder(o, id)
      PROVE  Types'
  BY <1>6, Zenon DEF PlaceOrder, Arrives, Return, factory
<1>7. ASSUME NEW o \in Order, Found(o) \/ NotFound(o)
      PROVE  Types'
  BY <1>7, Zenon DEF Found, NotFound, Return, factory, broker
<1>8. CASE TokenFileWritten
  BY <1>8 DEF TokenFileWritten, factory, call, broker
<1>9. ASSUME NEW o \in Order, NEW f, Lists(o, f)
      PROVE  Types'
  BY <1>9, Zenon DEF Lists, factory, call
<1>10. ASSUME NEW o \in Order, NEW q \in 1..Quantity, Trades(o, q)
       PROVE  Types'
  BY <1>10 DEF Trades, factory, call
<1>11. ASSUME NEW o \in Order, NEW how, Ends(o, how)
       PROVE  Types'
  BY <1>11, Zenon DEF Ends, factory, call
<1>12. CASE UNCHANGED vars
  BY <1>12, Zenon DEF vars
<1> QED
  BY <1>1, <1>2, <1>3, <1>4, <1>5, <1>6, <1>7, <1>8, <1>9, <1>10, <1>11, <1>12, Zenon
  DEF Next, Step

\* The lock, the executors and the logins are the factory's alone: every other
\* step leaves them, and takes no request into a login.
LEMMA StepLogin == Types /\ LoginInv /\ [Next]_vars => LoginInv'
<1> SUFFICES ASSUME Types, LoginInv, [Next]_vars PROVE LoginInv'
  BY Zenon
<1> USE GreeksoftAssumption DEF Types, LoginInv, LoggingIn
<1>1. ASSUME NEW o \in Order, Request(o) \/ getSessionToken(o) \/ jloginNew(o)
      PROVE  LoginInv'
  BY <1>1, Zenon DEF Request, getSessionToken, jloginNew, factory
<1>2. ASSUME NEW o \in Order, Factory(o)
      PROVE  LoginInv'
  BY <1>2, Zenon DEF Factory, Return
<1>3. ASSUME NEW o \in Order, LoginFails(o)
      PROVE  LoginInv'
  BY <1>3, Zenon DEF LoginFails, Return
<1>4. ASSUME NEW o \in Order, PerformFullLogin(o)
      PROVE  LoginInv'
  BY <1>4 DEF PerformFullLogin
<1>5. ASSUME NEW o \in Order, MapOrderIntent(o)
      PROVE  LoginInv'
  BY <1>5, Zenon DEF MapOrderIntent, factory
<1>6. ASSUME NEW o \in Order, PlaceFails(o)
      PROVE  LoginInv'
  BY <1>6, Zenon DEF PlaceFails, Return, factory
<1>7. ASSUME NEW o \in Order, NEW id, PlaceOrder(o, id)
      PROVE  LoginInv'
  BY <1>7, Zenon DEF PlaceOrder, Return, factory
<1>8. ASSUME NEW o \in Order, Found(o) \/ NotFound(o)
      PROVE  LoginInv'
  BY <1>8, Zenon DEF Found, NotFound, Return, factory
<1>9. ASSUME UNCHANGED <<pc, factory>>
      PROVE  LoginInv'
  BY <1>9, Zenon DEF factory
<1> QED
  BY <1>1, <1>2, <1>3, <1>4, <1>5, <1>6, <1>7, <1>8, <1>9, Zenon
  DEF Next, Step, TokenFileWritten, Lists, Trades, Ends, vars, factory

LEMMA StepMap == Types /\ MapInv /\ [Next]_vars => MapInv'
<1> SUFFICES ASSUME Types, MapInv, [Next]_vars PROVE MapInv'
  BY Zenon
<1> USE DEF Types, MapInv
<1>1. ASSUME NEW o \in Order, MapOrderIntent(o)
      PROVE  MapInv'
  BY <1>1 DEF MapOrderIntent, loadGreeksoftTokenMapOnce
<1>2. ASSUME UNCHANGED <<gtokenMap, sent>>
      PROVE  MapInv'
  BY <1>2, Zenon
<1> QED
  BY <1>1, <1>2, Zenon
  DEF Next, Step, Request, Factory, getSessionToken, jloginNew, LoginFails,
      PerformFullLogin, PlaceFails, PlaceOrder, Found, NotFound,
      TokenFileWritten, Lists, Trades, Ends, vars, call

\* What the order book shows, and ExecuteOrderIntent makes of it, is true when
\* it is read.
LEMMA ConfirmedIsTrue ==
    ASSUME Types, NEW o \in Order, Confirmed(o).reason = "CONFIRMED"
    PROVE  /\ Confirmed(o).filled \in 0..traded[o]
           /\ Confirmed(o).status = "FILLED" => traded[o] = Quantity
           /\ Confirmed(o).status = "REJECTED" => atBroker[o] = "rejected"
           /\ Confirmed(o).status = "CANCELLED" => atBroker[o] = "cancelled"
<1> DEFINE s == normalizeGreeksoftOrderStatus(OrderStatus(o))
<1>1. traded[o] \in 0..Quantity /\ Quantity \in Nat \ {0}
  BY GreeksoftAssumption, Zenon DEF Types
<1>2. filledQty(o) \in {0, traded[o]}
  BY Zenon DEF filledQty
<1>3. OrderStatus(o) # ""
  BY Zenon DEF Confirmed, Sent
<1>4. Confirmed(o) = [status |-> ExecutionStatus(o, s), filled |-> filledQty(o),
                      pending |-> pendingQty(o), reason |-> "CONFIRMED"]
  BY <1>3, Zenon DEF Confirmed
<1>5. /\ s = "FILLED" => traded[o] = Quantity
      /\ s = "REJECTED" => atBroker[o] = "rejected"
      /\ s = "CANCELLED" => atBroker[o] = "cancelled"
  BY <1>1, <1>3, Zenon DEF normalizeGreeksoftOrderStatus, OrderStatus
<1> HIDE DEF s
<1>6. /\ ExecutionStatus(o, s) = "FILLED" => traded[o] = Quantity
      /\ ExecutionStatus(o, s) = "REJECTED" => atBroker[o] = "rejected"
      /\ ExecutionStatus(o, s) = "CANCELLED" => atBroker[o] = "cancelled"
  BY <1>1, <1>2, <1>5 DEF ExecutionStatus
<1> QED BY <1>1, <1>2, <1>4, <1>6

LEMMA StepReport == Types /\ ReportStaysTrue /\ [Next]_vars => ReportStaysTrue'
<1> SUFFICES ASSUME Types, ReportStaysTrue, [Next]_vars,
                    NEW p \in Order, pc'[p] = "done", result'[p].reason = "CONFIRMED"
             PROVE  /\ result'[p].filled \in 0..traded'[p]
                    /\ result'[p].status = "FILLED" => traded'[p] = Quantity
                    /\ result'[p].status = "REJECTED" => atBroker'[p] = "rejected"
                    /\ result'[p].status = "CANCELLED" => atBroker'[p] = "cancelled"
  BY Zenon DEF ReportStaysTrue
<1> DEFINE Goal == /\ result'[p].filled \in 0..traded'[p]
                   /\ result'[p].status = "FILLED" => traded'[p] = Quantity
                   /\ result'[p].status = "REJECTED" => atBroker'[p] = "rejected"
                   /\ result'[p].status = "CANCELLED" => atBroker'[p] = "cancelled"
<1>a. traded[p] \in 0..Quantity /\ Quantity \in Nat \ {0}
  BY GreeksoftAssumption, Zenon DEF Types
<1>1. ASSUME pc[p] = "done", result'[p] = result[p], traded'[p] = traded[p],
             atBroker'[p] = atBroker[p]
      PROVE  Goal
  BY <1>1, Zenon DEF ReportStaysTrue
<1>2. ASSUME NEW o \in Order, pc[o] # "done", pc'[o] # "done",
             pc' = [pc EXCEPT ![o] = pc'[o]], UNCHANGED <<result, traded, atBroker>>
      PROVE  Goal
  BY <1>2, <1>1, Zenon DEF Types
<1>3. ASSUME NEW o \in Order, pc[o] # "done", Return(o, Failed),
             traded' = traded,
             UNCHANGED atBroker \/ Arrives(o)
      PROVE  Goal
  BY <1>3, <1>1, Zenon DEF Types, Return, Failed, Arrives
<1>4. ASSUME NEW o \in Order, Request(o) \/ getSessionToken(o) \/ jloginNew(o)
                              \/ PerformFullLogin(o) \/ MapOrderIntent(o)
      PROVE  Goal
  BY <1>4, <1>2, Zenon DEF Types, Request, getSessionToken, jloginNew, PerformFullLogin,
                    MapOrderIntent, call, broker
<1>5. ASSUME NEW o \in Order, Factory(o)
      PROVE  Goal
  BY <1>5, <1>2, <1>3, Zenon DEF Types, Factory, broker
<1>6. ASSUME NEW o \in Order, LoginFails(o) \/ PlaceFails(o)
      PROVE  Goal
  BY <1>6, <1>3, Zenon DEF LoginFails, PlaceFails, broker
<1>7. ASSUME NEW o \in Order, NEW id, PlaceOrder(o, id)
      PROVE  Goal
  BY <1>7, <1>1 DEF Types, PlaceOrder, Return, Arrives
<1>8. ASSUME NEW o \in Order, Found(o)
      PROVE  Goal
  <2>1. pc[o] = "wait" /\ Return(o, Confirmed(o)) /\ UNCHANGED <<traded, atBroker>>
    BY <1>8, Zenon DEF Found, broker
  <2>2. CASE p = o
    <3>1. result'[p] = Confirmed(p)
      BY <2>1, <2>2, Zenon DEF Return, Types
    <3> QED BY <2>1, <3>1, ConfirmedIsTrue, Zenon
  <2>3. CASE p # o
    BY <2>1, <2>3, <1>1, Zenon DEF Return, Types
  <2> QED BY <2>2, <2>3, Zenon
<1>9. ASSUME NEW o \in Order, NotFound(o)
      PROVE  Goal
  BY <1>9, <1>1 DEF Types, NotFound, Return, Sent, broker
<1>10. ASSUME NEW o \in Order, NEW q \in 1..Quantity, Trades(o, q)
       PROVE  Goal
  <2>1. /\ pc' = pc /\ result' = result /\ atBroker' = atBroker
        /\ traded[o] + q <= Quantity /\ traded' = [traded EXCEPT ![o] = @ + q]
    BY <1>10, Zenon DEF Trades, call
  <2>2. traded'[p] >= traded[p] /\ (traded'[p] # traded[p] => traded[p] < Quantity)
    BY <1>a, <2>1 DEF Types
  <2>3. traded'[p] \in Nat
    BY <1>a, <2>1 DEF Types
  <2>4. CASE traded'[p] = traded[p]
    BY <2>1, <2>4, <1>1, Zenon
  <2>5. CASE traded'[p] # traded[p]
    <3>1. /\ result[p].filled \in 0..traded[p]
          /\ result[p].status # "FILLED"
          /\ result[p].status = "REJECTED" => atBroker[p] = "rejected"
          /\ result[p].status = "CANCELLED" => atBroker[p] = "cancelled"
      BY <1>a, <2>1, <2>2, <2>5 DEF ReportStaysTrue
    <3> QED BY <1>a, <2>1, <2>2, <2>3, <3>1
  <2> QED BY <2>4, <2>5, Zenon
<1>11. ASSUME NEW o \in Order, NEW how \in {"rejected", "cancelled"}, Ends(o, how)
       PROVE  Goal
  BY <1>11, <1>a, Zenon DEF Ends, call, Types, ReportStaysTrue
<1>12. ASSUME UNCHANGED <<pc, result, traded, atBroker>>
       PROVE  Goal
  BY <1>12, <1>1, Zenon
<1> QED
  BY <1>4, <1>5, <1>6, <1>7, <1>8, <1>9, <1>10, <1>11, <1>12, Zenon
  DEF Next, Step, TokenFileWritten, Lists, vars, call, broker

LEMMA Inductive == Spec => []IInv
<1>1. IInv /\ [Next]_vars => IInv'
  BY StepTypes, StepLogin, StepMap, StepReport, Zenon DEF IInv
<1> QED BY InitIInv, <1>1, PTL DEF Spec

\* NewExecutorFactory logs an account in at most once, whatever the number of
\* requests that ask for its executor at the same time.
THEOREM LoggedInOnce == Spec => []OneLogin
<1>1. IInv => OneLogin
  BY DEF IInv, Types, LoginInv, OneLogin
<1> QED BY Inductive, <1>1, PTL

\* MapOrderIntent sends two orders of one token to one instrument of the
\* broker, however often the token file is replaced.
THEOREM OneInstrument == Spec => []SameTokenSameInstrument
<1>1. IInv => SameTokenSameInstrument
  BY Zenon DEF IInv, MapInv, SameTokenSameInstrument
<1> QED BY Inductive, <1>1, PTL

\* What ExecuteOrderIntent reports from the order book stays true of the order.
THEOREM ReportsStayTrue == Spec => []ReportStaysTrue
<1>1. IInv => ReportStaysTrue
  BY Zenon DEF IInv
<1> QED BY Inductive, <1>1, PTL

-----------------------------------------------------------------------------
(* Types, the look-ups and the results *)

\* A request that is not over has no result and may look once more.
CallInv ==
    /\ file \in 0..MaxVersion /\ gtokenMap \in -1..MaxVersion
    /\ pc \in [Order -> {"idle", "factory", "session", "jlogin", "flags", "map",
                         "place", "wait", "done"}]
    /\ greekMu \in Order \union {None}
    /\ tries \in [Order -> 0..Attempts]
    /\ \A o \in Order : IF pc[o] = "done" THEN result[o] \in Result
                        ELSE result[o] = None /\ tries[o] < Attempts
    /\ row \in [Order -> RowForm \union {"unlisted"}]

\* What the order book gives is a result.
LEMMA ConfirmedIsResult == ASSUME Types, NEW o \in Order PROVE Confirmed(o) \in Result
<1> DEFINE s == normalizeGreeksoftOrderStatus(OrderStatus(o))
           Status == {"ERROR", "SUBMITTED", "OPEN", "PARTIALLY_FILLED", "FILLED",
                      "CANCELLED", "REJECTED"}
<1>1. /\ traded[o] \in 0..Quantity /\ Quantity \in Nat
      /\ Quantity - traded[o] \in 0..Quantity /\ 0 \in 0..Quantity
  BY GreeksoftAssumption DEF Types
<1>2. filledQty(o) \in 0..Quantity /\ pendingQty(o) \in 0..Quantity
  BY <1>1, Zenon DEF filledQty, pendingQty
<1>3. OrderStatus(o) \in {"", "RMS REJECTED", "CANCELED", "TRADED", "PENDING NEW", "PARTIAL"}
  BY DEF OrderStatus
<1>4. s \in Status
  BY <1>3 DEF normalizeGreeksoftOrderStatus
<1> HIDE DEF s
<1>5. ExecutionStatus(o, s) \in Status
  BY <1>4, Zenon DEF ExecutionStatus
<1>6. Sent \in Result
  BY <1>1 DEF Sent, Result
<1>7. [status |-> ExecutionStatus(o, s), filled |-> filledQty(o), pending |-> pendingQty(o),
       reason |-> "CONFIRMED"] \in Result
  BY <1>2, <1>5 DEF Result
<1> QED
  BY <1>6, <1>7, Zenon DEF Confirmed, s

LEMMA StepCall == Types /\ CallInv /\ [Next]_vars => CallInv'
<1> SUFFICES ASSUME Types, CallInv, [Next]_vars PROVE CallInv'
  BY Zenon
<1> DEFINE PC == {"idle", "factory", "session", "jlogin", "flags", "map", "place", "wait", "done"}
           Shared == /\ file \in 0..MaxVersion /\ gtokenMap \in -1..MaxVersion
                     /\ greekMu \in Order \union {None}
                     /\ row \in [Order -> RowForm \union {"unlisted"}]
           Own(o) == IF pc[o] = "done" THEN result[o] \in Result
                     ELSE result[o] = None /\ tries[o] < Attempts
           Calls == /\ pc \in [Order -> PC] /\ tries \in [Order -> 0..Attempts]
                    /\ \A o \in Order : Own(o)
<1>0. Shared /\ Calls /\ DOMAIN result = Order
  BY Zenon DEF CallInv, Types
<1> SUFFICES Shared' /\ Calls'
  BY Zenon DEF CallInv
<1>r. Failed \in Result /\ Sent \in Result
  BY GreeksoftAssumption DEF Failed, Sent, Result
\* A step of a call that goes on,
<1>a. ASSUME NEW o \in Order, NEW s \in PC \ {"done"}, pc[o] # "done",
             pc' = [pc EXCEPT ![o] = s], UNCHANGED <<result, tries>>
      PROVE  Calls'
  BY <1>0, <1>a, Zenon
\* and one that ends it.
<1>b. ASSUME NEW o \in Order, NEW r \in Result, Return(o, r), tries' \in [Order -> 0..Attempts],
             \A p \in Order : p # o => tries'[p] = tries[p]
      PROVE  Calls'
  BY <1>0, <1>b, Zenon DEF Return
<1>1. ASSUME NEW o \in Order, Request(o) \/ getSessionToken(o) \/ jloginNew(o)
      PROVE  Shared' /\ Calls'
  BY <1>0, <1>1, <1>a, Zenon DEF Request, getSessionToken, jloginNew, factory, call, broker
<1>2. ASSUME NEW o \in Order, Factory(o) PROVE Shared' /\ Calls'
  <2>1. Shared' /\ UNCHANGED tries /\ pc[o] = "factory"
    BY <1>0, <1>2, Zenon DEF Factory, broker
  <2>2. CASE Return(o, Failed)
    BY <1>0, <1>b, <1>r, <2>1, <2>2, Zenon
  <2>3. CASE (pc' = [pc EXCEPT ![o] = "map"] \/ pc' = [pc EXCEPT ![o] = "session"])
             /\ UNCHANGED result
    BY <1>a, <2>1, <2>3, Zenon
  <2> QED
    BY <1>2, <2>1, <2>2, <2>3, Zenon DEF Factory
<1>3. ASSUME NEW o \in Order, LoginFails(o) PROVE Shared' /\ Calls'
  BY <1>0, <1>3, <1>b, <1>r, Zenon DEF LoginFails, broker
<1>4. ASSUME NEW o \in Order, PerformFullLogin(o) PROVE Shared' /\ Calls'
  BY <1>0, <1>4, <1>a, Zenon DEF PerformFullLogin, call, broker
<1>5. ASSUME NEW o \in Order, MapOrderIntent(o) PROVE Shared' /\ Calls'
  <2>1. gtokenMap' \in -1..MaxVersion
    BY <1>0, <1>5, GreeksoftAssumption DEF MapOrderIntent, loadGreeksoftTokenMapOnce
  <2> QED
    BY <1>0, <1>5, <1>a, <2>1, Zenon DEF MapOrderIntent, factory, broker
<1>6. ASSUME NEW o \in Order, PlaceFails(o) PROVE Shared' /\ Calls'
  BY <1>0, <1>6, <1>b, <1>r, Zenon DEF PlaceFails, factory
<1>7. ASSUME NEW o \in Order, NEW id, PlaceOrder(o, id) PROVE Shared' /\ Calls'
  <2> DEFINE r == [status |-> "REJECTED", filled |-> 0, pending |-> 0, reason |-> "NO_ORDER_ID"]
  <2>1. Shared' /\ UNCHANGED tries /\ pc[o] = "place"
    BY <1>0, <1>7, Zenon DEF PlaceOrder, factory
  <2>2. r \in Result
    BY GreeksoftAssumption DEF Result
  <2>3. Return(o, r) \/ (pc' = [pc EXCEPT ![o] = "wait"] /\ UNCHANGED result)
    BY <1>7, Zenon DEF PlaceOrder
  <2> HIDE DEF r
  <2> QED
    BY <1>0, <1>a, <1>b, <2>1, <2>2, <2>3, Zenon
<1>8. ASSUME NEW o \in Order, Found(o) PROVE Shared' /\ Calls'
  BY <1>0, <1>8, <1>b, ConfirmedIsResult, Zenon DEF Found, factory, broker
<1>9. ASSUME NEW o \in Order, NotFound(o) PROVE Shared' /\ Calls'
  <2>1. Shared' /\ pc[o] = "wait" /\ tries' = [tries EXCEPT ![o] = @ + 1] /\ tries[o] < Attempts
    BY <1>0, <1>9, Zenon DEF NotFound, factory, broker
  <2>2. tries' \in [Order -> 0..Attempts] /\ \A p \in Order : p # o => tries'[p] = tries[p]
    BY <1>0, <2>1, GreeksoftAssumption
  <2>3. CASE tries[o] + 1 = Attempts
    BY <1>9, <1>b, <1>r, <2>1, <2>2, <2>3, Zenon DEF NotFound
  <2>4. CASE tries[o] + 1 # Attempts
    <3>1. UNCHANGED <<pc, result>>
      BY <1>9, <2>4, Zenon DEF NotFound
    <3>2. tries'[o] < Attempts
      BY <1>0, <2>1, <2>4, GreeksoftAssumption
    <3> QED
      BY <1>0, <2>1, <2>2, <3>1, <3>2, Zenon
  <2> QED
    BY <2>3, <2>4, Zenon
<1>10. CASE TokenFileWritten
  <2>1. file' \in 0..MaxVersion
    BY <1>0, <1>10, GreeksoftAssumption DEF TokenFileWritten
  <2> QED
    BY <1>0, <1>10, <2>1, Zenon DEF TokenFileWritten, factory, call, broker
<1>11. ASSUME NEW o \in Order, NEW f \in RowForm, Lists(o, f) PROVE Shared' /\ Calls'
  <2>1. row' \in [Order -> RowForm \union {"unlisted"}]
    BY <1>0, <1>11, Zenon DEF Lists
  <2> QED
    BY <1>0, <1>11, <2>1, Zenon DEF Lists, factory, call
<1>12. ASSUME NEW o \in Order, NEW q, NEW how, Trades(o, q) \/ Ends(o, how)
       PROVE  Shared' /\ Calls'
  BY <1>0, <1>12, Zenon DEF Trades, Ends, factory, call
<1>13. CASE UNCHANGED vars
  BY <1>0, <1>13, Zenon DEF vars
<1> QED
  BY <1>1, <1>2, <1>3, <1>4, <1>5, <1>6, <1>7, <1>8, <1>9, <1>10, <1>11, <1>12, <1>13, Zenon
  DEF Next, Step

\* ExecuteOrderIntent makes at most Attempts look-ups and has returned a result
\* exactly when its request is over; the factory's lock and the map it uses are
\* of their kind.
THEOREM RequestsAreBounded == Spec => []TypeOK
<1>1. Init => CallInv /\ configured \in BOOLEAN
  <2> SUFFICES ASSUME Init PROVE CallInv /\ configured \in BOOLEAN
    BY Zenon
  <2>1. file \in 0..MaxVersion /\ gtokenMap \in -1..MaxVersion /\ tries \in [Order -> 0..Attempts]
    BY GreeksoftAssumption DEF Init
  <2>2. 0 < Attempts
    BY GreeksoftAssumption
  <2> QED
    BY <2>1, <2>2, Zenon DEF Init, CallInv
<1>2. IInv /\ CallInv /\ configured \in BOOLEAN /\ [Next]_vars
         => CallInv' /\ (configured \in BOOLEAN)'
  <2> SUFFICES ASSUME IInv, CallInv, configured \in BOOLEAN, [Next]_vars
               PROVE  CallInv' /\ configured' \in BOOLEAN
    BY Zenon
  <2>1. configured' = configured
    BY Zenon DEF Next, Step, Request, Factory, getSessionToken, jloginNew, LoginFails,
       PerformFullLogin, MapOrderIntent, PlaceFails, PlaceOrder, Found, NotFound,
       TokenFileWritten, Lists, Trades, Ends, vars
  <2> QED
    BY <2>1, StepCall, Zenon DEF IInv
<1>3. IInv /\ CallInv /\ configured \in BOOLEAN => TypeOK
  <2> SUFFICES ASSUME IInv, CallInv, configured \in BOOLEAN PROVE TypeOK
    BY Zenon
  <2>1. \A o \in Order : result[o] \in Result <=> pc[o] = "done"
    BY GreeksoftAssumption, Zenon DEF CallInv
  <2> QED
    BY <2>1, Zenon DEF IInv, Types, CallInv, TypeOK
<1> QED
  BY Inductive, <1>1, <1>2, <1>3, PTL DEF Spec
=============================================================================
