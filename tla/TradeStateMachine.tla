-------------------------- MODULE TradeStateMachine --------------------------
(***************************************************************************)
(* The trade worker: TradeStateMachine, driven by TradeWorker::run, and    *)
(* the exchange its intents reach.                                         *)
(*                                                                         *)
(* The machine emits the intents of one chunk, waits for all of them to be *)
(* filled, and goes on to the next.  Every three seconds it re-emits what  *)
(* is pending: as a modification if it knows the exchange order id, else   *)
(* as a new order.  Order updates arrive late, repeatedly and in any       *)
(* order.                                                                  *)
(***************************************************************************)
EXTENDS Naturals, FiniteSets

CONSTANTS
    NumIntents,     \* intents, numbered in the order they are emitted
    ChunkOf,        \* chunk of each intent
    CancelStatus,   \* the word the order updates use for a cancelled order
    MaxChases       \* bound: rounds of re-emission

Intent == 1..NumIntents
NumChunks == ChunkOf[NumIntents]
ChunkFromZero(c) == {i - 1 : i \in {j \in Intent : ChunkOf[j] = c}}
ChunkIntents(c) == {i \in Intent : ChunkOf[i] = c}
TradeState == {"INIT", "BUILDING", "CHASING", "ACTIVE", "CLOSED"}
Status == {"OPEN", "FILLED", "REJECTED", CancelStatus}

ASSUME WorkerAssumption ==
    /\ NumIntents \in Nat \ {0}
    /\ ChunkOf \in [Intent -> Nat \ {0}]
    /\ \A m, n \in Intent : m <= n => ChunkOf[m] <= ChunkOf[n]
    /\ \A c \in 1..NumChunks : ChunkIntents(c) # {}
    /\ CancelStatus \in {"CANCELED", "CANCELLED"}
    /\ MaxChases \in Nat

VARIABLES
    state, current,     \* m_state, and m_current_chunk_idx + 1
    pending,            \* keys of m_pending_intents
    exchangeIds,        \* keys of m_exchange_order_ids
    chases,             \* m_chase_attempts
    late,               \* have 3 seconds passed since m_chunk_start_time?
    live, fills,        \* exchange: live and filled orders of each intent
    updates             \* order updates under way

machineVars == <<state, current, pending, exchangeIds, chases, late>>
vars == <<machineVars, live, fills, updates>>

Update == [intent: Intent, status: Status]

\* Every variable holds a value of its kind.
TypeOK ==
    /\ state \in TradeState
    /\ current \in 1..(NumChunks + 1)
    /\ pending \subseteq Intent
    /\ exchangeIds \subseteq Intent
    /\ chases \in 0..MaxChases
    /\ late \in BOOLEAN
    /\ live \in [Intent -> Nat]
    /\ fills \in [Intent -> Nat]
    /\ updates \subseteq Update

Init ==
    /\ state = "INIT"
    /\ current = 1
    /\ pending = {}
    /\ exchangeIds = {}
    /\ chases = 0
    /\ late = FALSE
    /\ live = [i \in Intent |-> 0]
    /\ fills = [i \in Intent |-> 0]
    /\ updates = {}

-----------------------------------------------------------------------------
(* The machine *)

\* emit_intent_to_gateway without an exchange order id: a new order each.
EmitNew(S) == live' = [i \in Intent |-> IF i \in S THEN live[i] + 1
                                        ELSE live[i]]

execute_current_chunk(c) ==
    /\ pending' = ChunkIntents(c)
    /\ EmitNew(ChunkIntents(c))
    /\ late' = FALSE

\* The worker loop deploys in INIT only, and the allocation has at least one
\* lot of each leg.
on_command_deploy ==
    /\ state = "INIT"
    /\ state' = "BUILDING"
    /\ execute_current_chunk(1)
    /\ UNCHANGED <<current, exchangeIds, chases, fills, updates>>

\* on_timer_tick after the timeout: escalate_and_chase.
AllPending == pending
WithoutId == pending \ exchangeIds
on_timer_tick ==
    /\ state \in {"BUILDING", "CHASING"}
    /\ late
    /\ pending # {}
    /\ chases < MaxChases
    /\ state' = "CHASING"
    /\ chases' = chases + 1
    /\ late' = FALSE
    /\ EmitNew(WithoutId)
    /\ UNCHANGED <<current, pending, exchangeIds, fills, updates>>

AnyFinal(s) == s \in {"FILLED", "REJECTED", "CANCELED"}
IsFilled(s) == s = "FILLED"
IsFatal(s) == s \in {"REJECTED", "CANCELED"}

\* A fill of the last pending intent releases the next chunk, or ends the
\* build.
ChunkFilled ==
    /\ current' = current + 1
    /\ \/ /\ current >= NumChunks
          /\ state' = "ACTIVE"
          /\ pending' = {}
          /\ UNCHANGED <<live, late>>
       \/ /\ current < NumChunks
          /\ state' = "BUILDING"
          /\ execute_current_chunk(current + 1)

\* on_order_update.  An update of an intent that is not pending is dropped;
\* any other may bring the exchange order id.  The message may be delivered
\* again later.
on_order_update(u) ==
    /\ u \in updates
    /\ updates' \in {updates, updates \ {u}}
    /\ UNCHANGED <<chases, fills>>
    /\ \/ /\ u.intent \notin pending
          /\ UNCHANGED <<state, current, pending, exchangeIds, late, live>>
       \/ /\ u.intent \in pending
          /\ exchangeIds' \in {exchangeIds, exchangeIds \cup {u.intent}}
          /\ \/ /\ IsFilled(u.status)
                /\ \/ /\ pending # {u.intent}
                      /\ pending' = pending \ {u.intent}
                      /\ UNCHANGED <<state, current, late, live>>
                   \/ /\ pending = {u.intent}
                      /\ ChunkFilled
             \/ /\ IsFatal(u.status)
                /\ state' = "CLOSED"
                /\ pending' = {}
                /\ UNCHANGED <<current, late, live>>
             \/ /\ ~IsFilled(u.status) /\ ~IsFatal(u.status)
                /\ UNCHANGED <<state, current, pending, late, live>>

-----------------------------------------------------------------------------
(* The exchange and the clock *)

Notify(i, s) == updates' = updates \cup {[intent |-> i, status |-> s]}

Acknowledge(i) ==
    /\ live[i] > 0
    /\ Notify(i, "OPEN")
    /\ UNCHANGED <<machineVars, live, fills>>

Fill(i) ==
    /\ live[i] > 0
    /\ live' = [live EXCEPT ![i] = @ - 1]
    /\ fills' = [fills EXCEPT ![i] = @ + 1]
    /\ Notify(i, "FILLED")
    /\ UNCHANGED machineVars

Refuse(i) ==
    /\ live[i] > 0
    /\ live' = [live EXCEPT ![i] = @ - 1]
    /\ \E s \in {"REJECTED", CancelStatus} : Notify(i, s)
    /\ UNCHANGED <<machineVars, fills>>

Tick ==
    /\ state \in {"BUILDING", "CHASING"}
    /\ ~late
    /\ late' = TRUE
    /\ UNCHANGED <<state, current, pending, exchangeIds, chases, live, fills,
                   updates>>

\* The worker spins on in ACTIVE and CLOSED, and when the bound on chases is
\* reached; nothing changes any more.
Spin ==
    /\ \/ state \in {"ACTIVE", "CLOSED"}
       \/ late /\ chases = MaxChases
    /\ UNCHANGED vars

Next ==
    \/ on_command_deploy
    \/ on_timer_tick
    \/ \E u \in Update : on_order_update(u)
    \/ \E i \in Intent : Acknowledge(i) \/ Fill(i) \/ Refuse(i)
    \/ Tick
    \/ Spin

Spec == Init /\ [][Next]_vars

-----------------------------------------------------------------------------
(* Correctness *)

\* The worker builds as promised: it releases a chunk only when the one
\* before is filled at the exchange, is ACTIVE only when everything is
\* filled, and never leaves ACTIVE or CLOSED, whatever updates are repeated,
\* late or lost.
Phase ==
    CASE state = "INIT" -> "idle"
      [] state \in {"BUILDING", "CHASING"} -> "building"
      [] state = "ACTIVE" -> "built"
      [] state = "CLOSED" -> "failed"
Promise == INSTANCE BuildPromise
             WITH Orders <- Intent, Chunk <- ChunkOf, phase <- Phase,
                  traded <- {i \in Intent : fills[i] > 0}
KeepsPromise == Promise!Spec

\* Once the exchange order id of an intent is known no further order is
\* placed for it: chasing modifies the order that is there, and no later
\* chunk emits the intent again.
KnownIsNotReplaced ==
    [][\A i \in exchangeIds : live'[i] <= live[i]]_vars

\* The canonical order states name a cancelled order CANCELLED; the build
\* ends when an update says that a pending order is cancelled.
\* It does not hold: see the disagreements in the README.
CancelledEndsBuild ==
    [][\A u \in updates :
          /\ u.status = CancelStatus
          /\ u.intent \in pending
          /\ on_order_update(u)
          => state' = "CLOSED"]_vars
=============================================================================
