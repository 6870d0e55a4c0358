----------------------------- MODULE TradeStore -----------------------------
(***************************************************************************)
(* The trade store of the execution gateway: PostgresBackedStore, a        *)
(* MemoryStore in front of two PostgreSQL tables.                          *)
(*                                                                         *)
(*   mem    the cached trade (MemoryStore.trades); lost on a restart       *)
(*   col    the column trades.status                                       *)
(*   cfg    the JSON document trades.config, a whole trade                 *)
(*   rows   the table orders, keyed by intent_id                           *)
(*                                                                         *)
(* Every trade write goes to memory first and then to the database, and a  *)
(* database error is logged and swallowed, so the two may part.  The       *)
(* operators below are the store's methods as action fragments: the        *)
(* modules that use the store put them into the steps of their handlers.   *)
(* One trade is modelled; trades share nothing but the orders table.       *)
(***************************************************************************)
EXTENDS Integers, FiniteSets

CONSTANTS OrderId,     \* the intent_ids that may occur
          MaxFaults    \* bound: how many database writes may be lost

ASSUME StoreAssumption == IsFiniteSet(OrderId) /\ MaxFaults \in Nat

Legs == {"CE", "PE"}
Sides == {"BUY", "SELL"}

TradeStatus == {"NONE", "BUILDING", "ACTIVE", "PENDING_FILL", "FAILED",
                "SQUARING_OFF", "PARTIAL", "CLOSED"}

\* SUBMITTED is folded into OPEN and SUCCESS into FILLED: no code treats
\* the members of either pair differently.
OrderStatus == {"NONE", "CREATED", "OPEN", "PARTIALLY_FILLED", "FILLED",
                "REJECTED", "CANCELLED"}

\* qty holds CEQty and PEQty.
StoredTrade == [status: TradeStatus, qty: [Legs -> Nat]]
NoTrade == [status |-> "NONE", qty |-> [l \in Legs |-> 0]]

OrderRow == [leg: Legs, side: Sides, qty: Nat, filled: Nat,
             status: OrderStatus]
NoRow == [leg |-> "CE", side |-> "BUY", qty |-> 0, filled |-> 0,
          status |-> "NONE"]

VARIABLES mem, col, cfg, rows,
          faults        \* database writes lost so far

storeVars == <<mem, col, cfg, rows, faults>>

StoreTypeOK ==
    /\ mem \in StoredTrade
    /\ col \in TradeStatus
    /\ cfg \in StoredTrade
    /\ rows \in [OrderId -> OrderRow]
    /\ faults \in 0..MaxFaults

StoreInit ==
    /\ mem = NoTrade
    /\ col = "NONE"
    /\ cfg = NoTrade
    /\ rows = [i \in OrderId |-> NoRow]
    /\ faults = 0

-----------------------------------------------------------------------------
(* Trades *)

\* What LoadTrade returns: the cached trade, else the one hydrated from the
\* database.  The status inside the JSON document wins over the column.
LoadTrade == IF mem # NoTrade THEN mem ELSE cfg

\* The statement of upsertTrade either writes column and document together
\* or is lost.
upsertTrade(t) ==
    /\ \/ /\ cfg' = t
          /\ col' = t.status
          /\ UNCHANGED faults
       \/ /\ faults < MaxFaults
          /\ faults' = faults + 1
          /\ UNCHANGED <<cfg, col>>
    /\ UNCHANGED <<mem, rows>>

\* SaveTrade, UpdateTrade and the cache fill of LoadTrade, as far as memory
\* goes.
saveToMemory(t) ==
    /\ mem' = t
    /\ UNCHANGED <<col, cfg, rows, faults>>

-----------------------------------------------------------------------------
(* Orders *)

FilledRow(leg, side, qty) ==
    [leg |-> leg, side |-> side, qty |-> qty, filled |-> qty,
     status |-> "CREATED"]
CreatedRow(leg, side, qty) ==
    [leg |-> leg, side |-> side, qty |-> qty, filled |-> 0,
     status |-> "CREATED"]

Exists(id) == rows[id].status # "NONE"

\* insertOrderIntent for each id of new (a function from ids to rows):
\* ON CONFLICT (intent_id) DO NOTHING keeps the row that is there.  The
\* inserts of the ids in lost fail and are swallowed.
insertOrderIntents(new) ==
    /\ \E lost \in SUBSET DOMAIN new :
         /\ faults + Cardinality(lost) <= MaxFaults
         /\ faults' = faults + Cardinality(lost)
         /\ rows' = [i \in OrderId |->
                       IF i \in DOMAIN new \ lost /\ ~Exists(i)
                       THEN new[i] ELSE rows[i]]
    /\ UNCHANGED <<mem, col, cfg>>

\* MarkOrderExecution: UPDATE ... WHERE intent_id = id, which touches no row
\* when the insert was lost.
MarkOrderExecution(id, status, filled) ==
    /\ \/ /\ rows' = IF Exists(id)
                     THEN [rows EXCEPT ![id].status = status,
                                       ![id].filled = filled]
                     ELSE rows
          /\ UNCHANGED faults
       \/ /\ faults < MaxFaults
          /\ faults' = faults + 1
          /\ UNCHANGED rows
    /\ UNCHANGED <<mem, col, cfg>>

\* The sum of f[i] over i in S, counted unit by unit.
Total(S, f) == Cardinality(UNION {{<<i, k>> : k \in 1..f[i]} : i \in S})

\* The net position createSQFIntentsFromFilledNetPosition sums up from the
\* rows: only FILLED rows count, SELL is negative.
FilledRows(table, leg, side) ==
    {i \in OrderId : /\ table[i].leg = leg
                     /\ table[i].side = side
                     /\ table[i].status = "FILLED"}

Unsigned(table, leg) ==
    LET filled == [i \in OrderId |-> table[i].filled] IN
    Total(FilledRows(table, leg, "BUY"), filled)
      + Total(FilledRows(table, leg, "SELL"), filled)
NetPosition(table, leg) ==
    LET filled == [i \in OrderId |-> table[i].filled] IN
    Total(FilledRows(table, leg, "BUY"), filled)
      - Total(FilledRows(table, leg, "SELL"), filled)

\* A restart forgets the memory and keeps the tables.
restartStore ==
    /\ mem' = NoTrade
    /\ UNCHANGED <<col, cfg, rows, faults>>
=============================================================================
