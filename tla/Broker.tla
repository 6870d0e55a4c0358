------------------------------- MODULE Broker -------------------------------
(***************************************************************************)
(* The broker behind the gateway's Executor interface, and what the        *)
(* executors (the XTS, GREEKSOFT and simulated ones) report of it.         *)
(*                                                                         *)
(* A ticket is one order the gateway decided to place; a retry places the  *)
(* same ticket again.  The broker's own truth is kept per ticket, in       *)
(* quantities:                                                             *)
(*                                                                         *)
(*   fill   traded so far                                                  *)
(*   open   live in the market and not traded yet                          *)
(*   extra  history variable: the part of fill + open that stems from      *)
(*          calls the executor reported as an error or as cancelled        *)
(***************************************************************************)
EXTENDS Integers

CONSTANTS Ticket,
          Answers     \* the answers the broker gives in this instance

AllAnswers == {"ERR", "REJECTED", "CANCELLED", "FILLED", "OPEN",
               "PARTIALLY_FILLED"}

ASSUME AnswersAssumption == Answers \subseteq AllAnswers

VARIABLES fill, open, extra

brokerVars == <<fill, open, extra>>

BrokerTypeOK ==
    /\ fill \in [Ticket -> Nat]
    /\ open \in [Ticket -> Nat]
    /\ extra \in [Ticket -> Nat]

BrokerInit ==
    /\ fill = [x \in Ticket |-> 0]
    /\ open = [x \in Ticket |-> 0]
    /\ extra = [x \in Ticket |-> 0]

\* What one ExecuteOrderIntent call for quantity q can come back with, and
\* what it left at the broker.  ERR is the call's error return: the request
\* may have failed before or after the broker accepted the order.  A
\* CANCELLED order may have traded in part.  REJECTED is taken at its word, also
\* where the GREEKSOFT executor says so of an answer without an order id.
Consistent(r, q) ==
    \/ r.status = "ERR" /\ r.filled = 0 /\ r.open \in {0, q}
    \/ r.status = "REJECTED" /\ r.filled = 0 /\ r.open = 0
    \/ r.status = "CANCELLED" /\ r.filled < q /\ r.open = 0
    \/ r.status = "FILLED" /\ q > 0 /\ r.filled = q /\ r.open = 0
    \/ r.status = "OPEN" /\ q > 0 /\ r.filled = 0 /\ r.open = q
    \/ r.status = "PARTIALLY_FILLED" /\ r.filled > 0 /\ r.open > 0
          /\ r.filled + r.open = q

Outcomes(q) ==
    {r \in [status: Answers, filled: 0..q, open: 0..q] : Consistent(r, q)}

\* What a caller holds on to: the result of a call without an error.
Outcome == [status: AllAnswers \ {"ERR"}, filled: Nat, open: Nat]
NoOutcome == [status |-> "REJECTED", filled |-> 0, open |-> 0]

\* The quantity a call leaves behind that its report does not admit to.
Unaccounted(r) ==
    IF r.status = "ERR" THEN r.open
    ELSE IF r.status = "CANCELLED" THEN r.filled ELSE 0

\* ExecuteOrderIntent on ticket x with outcome r.
ExecuteOrderIntent(x, r) ==
    /\ fill' = [fill EXCEPT ![x] = @ + r.filled]
    /\ open' = [open EXCEPT ![x] = @ + r.open]
    /\ extra' = [extra EXCEPT ![x] = @ + Unaccounted(r)]

\* A live order trades one more unit, whoever is watching.
BrokerTrade(x) ==
    /\ open[x] > 0
    /\ open' = [open EXCEPT ![x] = @ - 1]
    /\ fill' = [fill EXCEPT ![x] = @ + 1]
    /\ UNCHANGED extra

\* The exchange drops what is left of a live order.
BrokerDrop(x) ==
    /\ open[x] > 0
    /\ open' = [open EXCEPT ![x] = 0]
    /\ UNCHANGED <<fill, extra>>
=============================================================================
