--------------------------- MODULE PositionViews ----------------------------
(***************************************************************************)
(* The position of a trade is computed from its rows of the orders table   *)
(* in three places, each with a loop of its own: the dashboard's           *)
(* ExecutionSummary, SquareOffPlan, and the orders that SquareOff really   *)
(* sends (createSQFIntentsFromFilledNetPosition).  The loops are operators *)
(* here, and the table grows as the handlers make it grow.                 *)
(*                                                                         *)
(* A leg stands for the key symbol|leg_type|token of the three maps: the   *)
(* intent stored in raw_broker_request always holds all three.  Averages   *)
(* are fractions <<numerator, denominator>>.                               *)
(***************************************************************************)
EXTENDS Integers, Sequences, FiniteSets, SequencesExt

CONSTANTS Leg,
          Quantity,     \* quantities of orders other than square-off's
          Price,        \* average fill prices
          LotSize,      \* lot_size of the trade's config
          MaxOrders     \* bound: rows of the trade

ViewsAssumption ==
    /\ Quantity \subseteq Nat \ {0} /\ Price \subseteq Nat \ {0}
    /\ LotSize \in Nat \ {0} /\ MaxOrders \in Nat

VARIABLE rows    \* SELECT ... WHERE trade_uid = $1 ORDER BY created_at, id

Side == {"BUY", "SELL"}
Status == {"CREATED", "OPEN", "PARTIALLY_FILLED", "FILLED", "REJECTED"}

Abs(n) == IF n < 0 THEN -n ELSE n
Signed(side, q) == IF side = "SELL" THEN -q ELSE q
Same(a, b) == a[1] * b[2] = b[1] * a[2]

-----------------------------------------------------------------------------
(* ExecutionSummary *)

classifyOrderLifecycle(status) ==
    CASE status = "FILLED" -> "FILLED_OK"
      [] status \in {"OPEN", "PARTIALLY_FILLED"} -> "NOT_FILLED_YET"
      [] status = "REJECTED" -> "TERMINAL_FAIL"
      [] OTHER -> "UNKNOWN"

\* The rows that count, in all three loops.
Counts(o) == o.filled > 0 /\ o.status = "FILLED"

\* One row into the running position of a leg: the average of the position
\* before, weighted with its size, and of the row.
AddToPosition(pos, o) ==
    LET old == Abs(pos.net)
        new == old + o.filled
    IN  [net |-> pos.net + Signed(o.side, o.filled),
         avg |-> <<pos.avg[1] * old + o.price * o.filled * pos.avg[2],
                   pos.avg[2] * new>>]

OfLeg(table, leg) == SelectSeq(table, LAMBDA o : o.leg = leg)

Position(table, leg) ==
    FoldLeft(AddToPosition, [net |-> 0, avg |-> <<0, 1>>],
             SelectSeq(OfLeg(table, leg), LAMBDA o : Counts(o)))

ExecutionSummary(table) ==
    [positions |-> {[leg |-> l] @@ Position(table, l) :
                      l \in {k \in Leg : Position(table, k).net # 0}},
     counts |-> [c \in {"FILLED_OK", "NOT_FILLED_YET", "TERMINAL_FAIL",
                        "UNKNOWN"} |->
                   Len(SelectSeq(table, LAMBDA o :
                         classifyOrderLifecycle(o.status) = c))]]

-----------------------------------------------------------------------------
(* SquareOffPlan *)

Unweighted(acc, o) ==
    [net |-> acc.net + Signed(o.side, o.filled),
     value |-> acc.value + o.price,
     abs |-> acc.abs + o.filled]
Accumulate(acc, o) ==
    [net |-> acc.net + Signed(o.side, o.filled),
     value |-> acc.value + o.filled * o.price,
     abs |-> acc.abs + o.filled]

Accumulator(table, leg) ==
    FoldLeft(Accumulate, [net |-> 0, value |-> 0, abs |-> 0],
             SelectSeq(OfLeg(table, leg), LAMBDA o : Counts(o)))

CloseSide(net) == IF net < 0 THEN "BUY" ELSE "SELL"

SquareOffPlan(table) ==
    {LET a == Accumulator(table, l)
         q == Abs(a.net)
     IN  [leg |-> l, net |-> a.net, avg |-> <<a.value, a.abs>>,
          side |-> CloseSide(a.net), qty |-> q, lots |-> q \div LotSize,
          warning |-> q % LotSize # 0] :
       l \in {k \in Leg : Accumulator(table, k).net # 0}}

-----------------------------------------------------------------------------
(* createSQFIntentsFromFilledNetPosition *)

AddToNet(pos, o) ==
    [NetQty |-> pos.NetQty + Signed(o.side, o.filled),
     AvgPrice |-> pos.AvgPrice + o.price * o.filled,
     AbsQtySeen |-> pos.AbsQtySeen + o.filled]

sqfNetPosition(table, leg) ==
    FoldLeft(AddToNet, [NetQty |-> 0, AvgPrice |-> 0, AbsQtySeen |-> 0],
             SelectSeq(OfLeg(table, leg), LAMBDA o : Counts(o)))

SQFIntents(table) ==
    {LET pos == sqfNetPosition(table, l)
     IN  [leg |-> l, side |-> CloseSide(pos.NetQty), qty |-> Abs(pos.NetQty),
          expected |-> <<pos.AvgPrice, pos.AbsQtySeen>>] :
       l \in {k \in Leg : sqfNetPosition(table, k).NetQty # 0}}

-----------------------------------------------------------------------------
(* The table *)

NewRow(leg, side, q) ==
    [leg |-> leg, side |-> side, qty |-> q, status |-> "CREATED",
     filled |-> 0, price |-> 0]

\* Every row is an order of a leg, filled up to its quantity and priced once
\* it is filled.
TypeOK ==
    /\ Len(rows) <= MaxOrders
    /\ \A i \in DOMAIN rows :
         LET o == rows[i] IN
         /\ o.leg \in Leg /\ o.side \in Side /\ o.status \in Status
         /\ o.qty > 0 /\ o.filled \in 0..o.qty
         /\ (o.filled > 0) = (o.price > 0)

Init == rows = <<>>

\* A build or a hedge order is recorded.
Insert ==
    /\ Len(rows) < MaxOrders
    /\ \E l \in Leg, s \in Side, q \in Quantity :
         rows' = Append(rows, NewRow(l, s, q))

\* SquareOff records the orders that close the position.
SquareOff ==
    LET new == SQFIntents(rows) IN
    /\ new # {}
    /\ Len(rows) + Cardinality(new) <= MaxOrders
    /\ \E order \in SetToSeqs(new) :
         rows' = rows \o [i \in DOMAIN order |->
                            NewRow(order[i].leg, order[i].side, order[i].qty)]

\* MarkOrderExecution with a report of the broker, for an order still live.
Mark ==
    \E i \in DOMAIN rows :
      /\ rows[i].status \notin {"FILLED", "REJECTED"}
      /\ \/ \E p \in Price :
              rows' = [rows EXCEPT ![i].status = "FILLED",
                                   ![i].filled = rows[i].qty, ![i].price = p]
         \/ \E f \in 1..(rows[i].qty - 1), p \in Price :
              /\ f > rows[i].filled
              /\ rows' = [rows EXCEPT ![i].status = "PARTIALLY_FILLED",
                                      ![i].filled = f, ![i].price = p]
         \/ /\ rows[i].status = "CREATED"
            /\ \E s \in {"OPEN", "REJECTED"} :
                 rows' = [rows EXCEPT ![i].status = s]

Next == Insert \/ SquareOff \/ Mark
Spec == Init /\ [][Next]_rows

-----------------------------------------------------------------------------
(* Properties *)

\* The three loops see one position: the legs and net quantities of the
\* summary are those of the plan, and the plan ("returns the opposite orders
\* required to close") lists the very orders SquareOff creates, at the price
\* it expects.
ViewsAgree ==
    LET plan == SquareOffPlan(rows) IN
    /\ {[leg |-> p.leg, net |-> p.net] : p \in ExecutionSummary(rows).positions}
         = {[leg |-> p.leg, net |-> p.net] : p \in plan}
    /\ {[leg |-> p.leg, side |-> p.side, qty |-> p.qty, expected |-> p.avg] :
          p \in plan} = SQFIntents(rows)

\* Once every order SquareOff creates now is filled, at whatever prices,
\* nothing is left to square off in any of the views.
SquareOffCloses ==
    LET new == SetToSeq(SQFIntents(rows)) IN
    \A prices \in [DOMAIN new -> Price] :
      LET after == rows \o [i \in DOMAIN new |->
                      [NewRow(new[i].leg, new[i].side, new[i].qty)
                         EXCEPT !.status = "FILLED", !.filled = new[i].qty,
                                !.price = prices[i]]]
      IN  /\ ExecutionSummary(after).positions = {}
          /\ SquareOffPlan(after) = {}
          /\ SQFIntents(after) = {}

\* The average price of an open position lies between the cheapest and the
\* dearest fill of its leg, in the summary and in the plan.
AverageWithinFills ==
    \A p \in ExecutionSummary(rows).positions \cup SquareOffPlan(rows) :
      LET fills == {rows[i].price : i \in {j \in DOMAIN rows :
                       rows[j].leg = p.leg /\ Counts(rows[j])}}
      IN  /\ p.avg[2] > 0
          /\ \E f \in fills : f * p.avg[2] <= p.avg[1]
          /\ \E f \in fills : p.avg[1] <= f * p.avg[2]

\* While a leg has been traded in one direction only, the dashboard's average
\* is the plan's.  (Afterwards they part: the summary forgets a position that
\* was closed, the plan averages over all fills.)
SameAverageOneWay ==
    \A p \in ExecutionSummary(rows).positions, q \in SquareOffPlan(rows) :
      /\ p.leg = q.leg
      /\ \A i, j \in DOMAIN rows :
           /\ rows[i].leg = p.leg /\ Counts(rows[i])
           /\ rows[j].leg = p.leg /\ Counts(rows[j])
           => rows[i].side = rows[j].side
      => Same(p.avg, q.avg)
=============================================================================
