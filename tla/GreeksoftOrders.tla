--------------------------- MODULE GreeksoftOrders ---------------------------
(***************************************************************************)
(* The execution gateway's way to the Greeksoft broker: the factory that   *)
(* logs an account in, the token map, and Executor.ExecuteOrderIntent with *)
(* its wait for the order book.                                            *)
(*                                                                         *)
(* Requests run concurrently, one goroutine each; a request asks the       *)
(* factory for its account's executor and executes one order.  The callers *)
(* pass context.Background(), so the context tests never end a wait.       *)
(* Intents reach the executor with a symbol and a positive token and       *)
(* quantity (the chunker and the square-off refuse others).                *)
(*                                                                         *)
(* A token map is written as its version: 0 is the empty map, which leaves *)
(* a token as it is; the file is version 0 while it does not exist.  The   *)
(* candidate paths are one file.                                           *)
(***************************************************************************)
EXTENDS Integers, FiniteSets

CONSTANTS
    Order,          \* the orders, one per request
    Account,        \* Greeksoft accounts
    AccountOf,      \* account of an order
    TokenOf,        \* intent.Token of an order
    Quantity,       \* intent.Quantity
    Attempts,       \* order book look-ups (8 in the code)
    MaxVersion,     \* bound: versions of the token file
    None            \* no holder of the lock, no result

VARIABLES
    configured,     \* the GREEK_* settings are complete
    greekMu,        \* the order whose request holds the factory's lock
    greekExecutors, \* accounts with an executor
    logins,         \* history: completed logins of an account
    file,           \* version of the token file
    gtokenMap,      \* version loaded, -1 before gtokenOnce ran
    pc,             \* where a request is
    tries,          \* order book look-ups made
    result,         \* what ExecuteOrderIntent returned
    sent,           \* gtoken sent, as the pair of token and map version
    orderID,        \* form of the id in the broker's answer
    atBroker,       \* "absent", "live", "rejected", "cancelled"
    traded,         \* quantity traded
    row             \* form of the order's row in the book, "unlisted" if none

vars == <<configured, greekMu, greekExecutors, logins, file, gtokenMap, pc,
          tries, result, sent, orderID, atBroker, traded, row>>

factory == <<greekMu, greekExecutors, logins>>
broker == <<atBroker, traded, row>>
call == <<tries, result, sent, orderID>>

\* What ExecuteOrderIntent returns.
Result == [status : {"ERROR", "SUBMITTED", "OPEN", "PARTIALLY_FILLED", "FILLED",
                     "CANCELLED", "REJECTED"},
           filled : 0..Quantity, pending : 0..Quantity,
           reason : {"ERROR", "NO_ORDER_ID", "SENT", "CONFIRMED"}]

ASSUME GreeksoftAssumption ==
    /\ AccountOf \in [Order -> Account]
    /\ Quantity \in Nat \ {0} /\ Attempts \in Nat \ {0} /\ MaxVersion \in Nat
    /\ None \notin Order /\ None \notin Result

-----------------------------------------------------------------------------
(* The factory: one lock over look-up, login and registration *)

Request(o) ==
    /\ pc[o] = "idle"
    /\ pc' = [pc EXCEPT ![o] = "factory"]
    /\ UNCHANGED <<configured, factory, file, gtokenMap, call, broker>>

Return(o, r) ==
    /\ pc' = [pc EXCEPT ![o] = "done"]
    /\ result' = [result EXCEPT ![o] = r]

Failed == [status |-> "ERROR", filled |-> 0, pending |-> 0, reason |-> "ERROR"]

\* Looks the executor up before it takes the lock.
FactoryUnlocked(o) ==
    /\ pc[o] = "factory"
    /\ CASE AccountOf[o] \in greekExecutors ->
              pc' = [pc EXCEPT ![o] = "map"] /\ UNCHANGED result
         [] AccountOf[o] \notin greekExecutors /\ ~configured -> Return(o, Failed)
         [] OTHER -> pc' = [pc EXCEPT ![o] = "session"] /\ UNCHANGED result
    /\ UNCHANGED <<configured, factory, file, gtokenMap, tries, sent, orderID, broker>>

Factory(o) ==
    /\ pc[o] = "factory" /\ greekMu = None
    /\ \/ /\ AccountOf[o] \in greekExecutors
          /\ pc' = [pc EXCEPT ![o] = "map"]
          /\ UNCHANGED <<greekMu, result>>
       \/ /\ AccountOf[o] \notin greekExecutors /\ ~configured
          /\ Return(o, Failed)
          /\ UNCHANGED greekMu
       \/ /\ AccountOf[o] \notin greekExecutors /\ configured
          /\ greekMu' = o
          /\ pc' = [pc EXCEPT ![o] = "session"]
          /\ UNCHANGED result
    /\ UNCHANGED <<configured, greekExecutors, logins, file, gtokenMap, tries,
                   sent, orderID, broker>>

getSessionToken(o) ==
    /\ pc[o] = "session"
    /\ pc' = [pc EXCEPT ![o] = "jlogin"]
    /\ UNCHANGED <<configured, factory, file, gtokenMap, call, broker>>

jloginNew(o) ==
    /\ pc[o] = "jlogin"
    /\ pc' = [pc EXCEPT ![o] = "flags"]
    /\ UNCHANGED <<configured, factory, file, gtokenMap, call, broker>>

\* A failed login returns without giving the lock back.
LoginFailsLocked(o) ==
    /\ pc[o] \in {"session", "jlogin"}
    /\ Return(o, Failed)
    /\ UNCHANGED <<configured, factory, file, gtokenMap, tries, sent, orderID, broker>>

LoginFails(o) ==
    /\ pc[o] \in {"session", "jlogin"}
    /\ Return(o, Failed)
    /\ greekMu' = None
    /\ UNCHANGED <<configured, greekExecutors, logins, file, gtokenMap, tries,
                   sent, orderID, broker>>

\* getFlagValues may fail: the values of jloginNew serve instead.
PerformFullLogin(o) ==
    /\ pc[o] = "flags"
    /\ logins' = [logins EXCEPT ![AccountOf[o]] = @ + 1]
    /\ greekExecutors' = greekExecutors \union {AccountOf[o]}
    /\ greekMu' = None
    /\ pc' = [pc EXCEPT ![o] = "map"]
    /\ UNCHANGED <<configured, file, gtokenMap, call, broker>>

-----------------------------------------------------------------------------
(* The token map, loaded by the first order of the process *)

\* Reads the file for every order.
ReloadMap == gtokenMap' = file

loadGreeksoftTokenMapOnce ==
    gtokenMap' = IF gtokenMap = -1 THEN file ELSE gtokenMap

\* MapOrderIntent: a token the map does not know is sent as it is.
MapOrderIntent(o) ==
    /\ pc[o] = "map"
    /\ loadGreeksoftTokenMapOnce
    /\ sent' = [sent EXCEPT ![o] = <<TokenOf[o], gtokenMap'>>]
    /\ pc' = [pc EXCEPT ![o] = "place"]
    /\ UNCHANGED <<configured, factory, file, tries, result, orderID, broker>>

\* External: the market data gateway replaces the token file.
TokenFileWritten ==
    /\ file < MaxVersion
    /\ file' = file + 1
    /\ UNCHANGED <<configured, factory, gtokenMap, pc, call, broker>>

-----------------------------------------------------------------------------
(* PlaceOrder *)

Arrives(o) == atBroker' = [atBroker EXCEPT ![o] = "live"]

\* The request fails, is refused, or is accepted and its answer lost.
PlaceFails(o) ==
    /\ pc[o] = "place"
    /\ Return(o, Failed)
    /\ Arrives(o) \/ UNCHANGED atBroker
    /\ UNCHANGED <<configured, factory, file, gtokenMap, tries, sent, orderID,
                   traded, row>>

\* Answered without an error code.  An answer without an id, whether or not
\* the broker took the order, is reported as a rejection at once; an id that is
\* a JSON number of seven digits or more is written by %v with an exponent.
PlaceOrder(o, id) ==
    /\ pc[o] = "place"
    /\ Arrives(o) \/ (id = "none" /\ UNCHANGED atBroker)
    /\ orderID' = [orderID EXCEPT ![o] = id]
    /\ IF id = "none"
       THEN Return(o, [status |-> "REJECTED", filled |-> 0, pending |-> 0,
                       reason |-> "NO_ORDER_ID"])
       ELSE pc' = [pc EXCEPT ![o] = "wait"] /\ UNCHANGED result
    /\ UNCHANGED <<configured, factory, file, gtokenMap, tries, sent, traded, row>>

-----------------------------------------------------------------------------
(* The broker (external): it lists, trades, rejects and cancels orders.    *)
(* A row may lack its status, its quantities or only its pending quantity. *)

RowForm == {"full", "nostatus", "noqty", "nopending"}

Lists(o, f) ==
    /\ atBroker[o] # "absent" /\ row[o] = "unlisted"
    /\ row' = [row EXCEPT ![o] = f]
    /\ UNCHANGED <<configured, factory, file, gtokenMap, pc, call, atBroker, traded>>

Trades(o, q) ==
    /\ atBroker[o] = "live" /\ traded[o] + q <= Quantity
    /\ traded' = [traded EXCEPT ![o] = @ + q]
    /\ UNCHANGED <<configured, factory, file, gtokenMap, pc, call, atBroker, row>>

Ends(o, how) ==
    /\ atBroker[o] = "live" /\ traded[o] < Quantity
    /\ how = "rejected" => traded[o] = 0
    /\ atBroker' = [atBroker EXCEPT ![o] = how]
    /\ UNCHANGED <<configured, factory, file, gtokenMap, pc, call, traded, row>>

\* The row's status, in one of the spellings normalizeGreeksoftOrderStatus knows.
OrderStatus(o) ==
    CASE row[o] = "nostatus" -> ""
      [] atBroker[o] = "rejected" -> "RMS REJECTED"
      [] atBroker[o] = "cancelled" -> "CANCELED"
      [] traded[o] = Quantity -> "TRADED"
      [] traded[o] = 0 -> "PENDING NEW"
      [] OTHER -> "PARTIAL"

-----------------------------------------------------------------------------
(* The wait for the order book *)

normalizeGreeksoftOrderStatus(s) ==
    CASE s = "" -> "SUBMITTED"
      [] s = "RMS REJECTED" -> "REJECTED"
      [] s = "TRADED" -> "FILLED"
      [] s = "CANCELED" -> "CANCELLED"
      [] s = "PARTIAL" -> "PARTIALLY_FILLED"
      [] s = "PENDING NEW" -> "OPEN"
      [] OTHER -> s

\* normalizeGreeksoftOrderID writes a number without an exponent, so it never
\* equals the id extractOrderID made of a number.
mapHasOrderID(o) == row[o] # "unlisted" /\ orderID[o] = "text"

\* Fields that are missing read as zero.
filledQty(o) == IF row[o] = "noqty" THEN 0 ELSE traded[o]

pendingQty(o) == IF row[o] = "full" THEN Quantity - traded[o] ELSE 0

\* Takes an order with nothing pending as filled, whatever it traded.
NothingPending(o, status) ==
    IF filledQty(o) > 0 /\ status \notin {"REJECTED", "CANCELLED"}
    THEN IF pendingQty(o) = 0 THEN "FILLED" ELSE "PARTIALLY_FILLED"
    ELSE status

ExecutionStatus(o, status) ==
    IF filledQty(o) > 0 /\ status \notin {"REJECTED", "CANCELLED"}
    THEN IF pendingQty(o) = 0 /\ filledQty(o) >= Quantity
         THEN "FILLED" ELSE "PARTIALLY_FILLED"
    ELSE status

\* The result the placement made, kept when the book shows no row of the
\* order, or one without a status.
Sent == [status |-> "SUBMITTED", filled |-> 0, pending |-> 0, reason |-> "SENT"]

\* What is returned once the book shows the order.
Confirmed(o) ==
    IF OrderStatus(o) = "" THEN Sent
    ELSE [status |-> ExecutionStatus(o, normalizeGreeksoftOrderStatus(OrderStatus(o))),
          filled |-> filledQty(o), pending |-> pendingQty(o), reason |-> "CONFIRMED"]

\* One look-up that shows the order.
Found(o) ==
    /\ pc[o] = "wait" /\ mapHasOrderID(o)
    /\ Return(o, Confirmed(o))
    /\ UNCHANGED <<configured, factory, file, gtokenMap, tries, sent, orderID, broker>>

\* Looks once more than it may.
OneMore(o) ==
    /\ pc[o] = "wait"
    /\ tries' = [tries EXCEPT ![o] = @ + 1]
    /\ IF tries[o] = Attempts
       THEN Return(o, Sent)
       ELSE UNCHANGED <<pc, result>>
    /\ UNCHANGED <<configured, factory, file, gtokenMap, sent, orderID, broker>>

\* One look-up that fails, or does not show it; after the last the order is
\* returned as sent.
NotFound(o) ==
    /\ pc[o] = "wait"
    /\ tries' = [tries EXCEPT ![o] = @ + 1]
    /\ IF tries[o] + 1 = Attempts
       THEN Return(o, Sent)
       ELSE UNCHANGED <<pc, result>>
    /\ UNCHANGED <<configured, factory, file, gtokenMap, sent, orderID, broker>>

-----------------------------------------------------------------------------
Init ==
    /\ configured \in BOOLEAN
    /\ greekMu = None /\ greekExecutors = {} /\ logins = [a \in Account |-> 0]
    /\ file = 0 /\ gtokenMap = -1
    /\ pc = [o \in Order |-> "idle"] /\ tries = [o \in Order |-> 0]
    /\ result = [o \in Order |-> None] /\ sent = [o \in Order |-> None]
    /\ orderID = [o \in Order |-> "none"]
    /\ atBroker = [o \in Order |-> "absent"] /\ traded = [o \in Order |-> 0]
    /\ row = [o \in Order |-> "unlisted"]

Step(o) ==
    \/ Factory(o) \/ getSessionToken(o) \/ jloginNew(o) \/ LoginFails(o)
    \/ PerformFullLogin(o) \/ MapOrderIntent(o) \/ PlaceFails(o)
    \/ \E id \in {"none", "text", "number"} : PlaceOrder(o, id)
    \/ Found(o) \/ NotFound(o)

Next ==
    \/ \E o \in Order : Request(o) \/ Step(o)
    \/ TokenFileWritten
    \/ \E o \in Order, f \in RowForm : Lists(o, f)
    \/ \E o \in Order, q \in 1..Quantity : Trades(o, q)
    \/ \E o \in Order, how \in {"rejected", "cancelled"} : Ends(o, how)

Spec == Init /\ [][Next]_vars

\* Every HTTP request ends (the client's timeout is 30 s) and a sleeping
\* goroutine wakes, so a request that can take a step takes one.
FairSpec == Spec /\ \A o \in Order : WF_vars(Step(o))

-----------------------------------------------------------------------------
\* Types; at most Attempts look-ups are made, and a request has a result
\* exactly when it is over.
TypeOK ==
    /\ configured \in BOOLEAN /\ greekExecutors \subseteq Account
    /\ file \in 0..MaxVersion /\ gtokenMap \in -1..MaxVersion
    /\ pc \in [Order -> {"idle", "factory", "session", "jlogin", "flags", "map",
                         "place", "wait", "done"}]
    /\ greekMu \in Order \union {None}
    /\ \A o \in Order : result[o] \in Result <=> pc[o] = "done"
    /\ tries \in [Order -> 0..Attempts] /\ traded \in [Order -> 0..Quantity]
    /\ row \in [Order -> RowForm \union {"unlisted"}]

\* An account is logged in once, however many of its orders arrive while
\* nobody is logged in: the factory's lock covers the look-up and the login.
OneLogin == \A a \in Account : logins[a] <= 1

\* What ExecuteOrderIntent reports from the order book stays true of the
\* order, whatever the broker does next: it reports no more than has traded,
\* FILLED only when all has, and REJECTED or CANCELLED only of an order that
\* is so.
ReportStaysTrue ==
    \A o \in Order : pc[o] = "done" /\ result[o].reason = "CONFIRMED" =>
        /\ result[o].filled \in 0..traded[o]
        /\ result[o].status = "FILLED" => traded[o] = Quantity
        /\ result[o].status = "REJECTED" => atBroker[o] = "rejected"
        /\ result[o].status = "CANCELLED" => atBroker[o] = "cancelled"

\* Two orders of one token go to one instrument of the broker while the
\* process lives, even if the token file is replaced between them: a
\* square-off closes what the build opened.  gtokenOnce gives it.
SameTokenSameInstrument ==
    \A o, p \in Order :
        TokenOf[o] = TokenOf[p] /\ sent[o] # None /\ sent[p] # None => sent[o] = sent[p]

\* Every request ends: the waits for the lock, the login and the order book
\* are bounded.
RequestEnds == \A o \in Order : pc[o] = "factory" ~> pc[o] = "done"
=============================================================================
