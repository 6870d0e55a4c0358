----------------------- MODULE TradeStateMachineProofs -----------------------
(***************************************************************************)
(* Proofs about TradeStateMachine, for any number of intents, any division *)
(* into chunks and any bound on the chases: the machine keeps BuildPromise *)
(* and never places a second order for an intent it can modify.            *)
(***************************************************************************)
EXTENDS TradeStateMachine, TLAPS

Building == state \in {"BUILDING", "CHASING"}

\* Nothing has happened before the deploy command.
Untouched ==
    state = "INIT" => /\ current = 1
                      /\ pending = {}
                      /\ exchangeIds = {}
                      /\ updates = {}
                      /\ \A i \in Intent : live[i] = 0 /\ fills[i] = 0

\* Only intents of the chunks up to the current one have reached the
\* exchange, and only they have an exchange order id; the pending ones belong
\* to the current chunk, and there are some only while the machine builds.
Released ==
    /\ \A i \in Intent : live[i] > 0 => ChunkOf[i] <= current
    /\ \A i \in exchangeIds : ChunkOf[i] <= current
    /\ \A i \in pending : ChunkOf[i] = current
    /\ pending # {} => Building

\* Fills that are reported, or that the machine has acted on, did happen.
Truthful ==
    /\ \A u \in updates : u.status = "FILLED" => fills[u.intent] > 0
    /\ \A i \in Intent : ChunkOf[i] < current => fills[i] > 0
    /\ Building => \A i \in Intent : ChunkOf[i] = current /\ i \notin pending
                                        => fills[i] > 0
    /\ state = "ACTIVE" => \A i \in Intent : fills[i] > 0
    /\ Building => current <= NumChunks

IInv == TypeOK /\ Untouched /\ Released /\ Truthful

-----------------------------------------------------------------------------
\* The last intent is in the last chunk, so no chunk lies beyond it.
LEMMA ChunkBounds ==
    /\ NumChunks \in Nat \ {0}
    /\ \A i \in Intent : ChunkOf[i] \in Nat /\ 1 <= ChunkOf[i]
                           /\ ChunkOf[i] <= NumChunks
<1>1. NumIntents \in Intent
  BY WorkerAssumption DEF Intent
<1>2. NumChunks \in Nat \ {0}
  BY <1>1, WorkerAssumption, Zenon DEF NumChunks
<1>3. ASSUME NEW i \in Intent
      PROVE  ChunkOf[i] \in Nat /\ 1 <= ChunkOf[i] /\ ChunkOf[i] <= NumChunks
  <2>1. i <= NumIntents
    BY WorkerAssumption DEF Intent
  <2>2. ChunkOf[i] \in Nat \ {0}
    BY WorkerAssumption, Zenon
  <2>3. ChunkOf[i] <= ChunkOf[NumIntents]
    BY <1>1, <2>1, WorkerAssumption, Zenon
  <2> QED
    BY <2>2, <2>3 DEF NumChunks
<1> QED
  BY <1>2, <1>3, Zenon

\* The machine starts in its invariant.
LEMMA InitInv == Init => IInv
<1> SUFFICES ASSUME Init PROVE IInv
  BY Zenon
<1>1. TypeOK
  <2>1. late \in BOOLEAN
    BY Zenon DEF Init
  <2>2. chases \in 0..MaxChases /\ current \in 1..(NumChunks + 1)
    BY ChunkBounds, WorkerAssumption DEF Init
  <2> QED
    BY <2>1, <2>2, Zenon DEF Init, TypeOK, TradeState
<1>2. Untouched
  BY Zenon DEF Init, Untouched
<1>3. Released
  BY DEF Init, Released, Building
<1>4. Truthful
  BY ChunkBounds DEF Init, Truthful, Building
<1> QED
  BY <1>1, <1>2, <1>3, <1>4, Zenon DEF IInv

\* Releasing a chunk, from the deploy command or from the last fill of the
\* chunk before.
LEMMA EmitType ==
    ASSUME live \in [Intent -> Nat], NEW S, EmitNew(S)
    PROVE  /\ live' \in [Intent -> Nat]
           /\ \A i \in Intent : i \notin S => live'[i] = live[i]
           /\ \A i \in Intent : i \in S => live'[i] = live[i] + 1
BY DEF EmitNew

\* on_command_deploy keeps the invariant.
LEMMA DeployInv == IInv /\ on_command_deploy => IInv'
<1> SUFFICES ASSUME IInv, on_command_deploy PROVE IInv'
  BY Zenon
<1> USE DEF IInv, on_command_deploy, execute_current_chunk, ChunkIntents
<1>0. /\ live' \in [Intent -> Nat]
      /\ \A i \in Intent : i \notin ChunkIntents(1) => live'[i] = live[i]
  BY EmitType, Zenon DEF TypeOK
<1>1. TypeOK'
  BY <1>0, Zenon DEF TypeOK, TradeState
<1>2. Untouched'
  BY Zenon DEF Untouched
<1>3. Released'
  BY <1>0 DEF Released, Untouched, TypeOK, Building
<1>4. Truthful'
  BY ChunkBounds DEF Truthful, Untouched, TypeOK, Building
<1> QED
  BY <1>1, <1>2, <1>3, <1>4, Zenon

\* on_timer_tick, and the chase it starts, keeps the invariant.
LEMMA TimerInv == IInv /\ on_timer_tick => IInv'
<1> SUFFICES ASSUME IInv, on_timer_tick PROVE IInv'
  BY Zenon
<1> USE DEF IInv, on_timer_tick, WithoutId
<1>0. /\ live' \in [Intent -> Nat]
      /\ \A i \in Intent : i \notin pending => live'[i] = live[i]
  BY EmitType, Zenon DEF TypeOK
<1>1. TypeOK'
  <2>1. late' \in BOOLEAN
    BY Zenon
  <2>2. chases' \in 0..MaxChases
    BY WorkerAssumption DEF TypeOK
  <2> QED
    BY <1>0, <2>1, <2>2, Zenon DEF TypeOK, TradeState
<1>2. Untouched'
  BY Zenon DEF Untouched
<1>3. Released'
  BY <1>0, ChunkBounds DEF Released, TypeOK, Building
<1>4. Truthful'
  BY Zenon DEF Truthful, TypeOK, Building
<1> QED
  BY <1>1, <1>2, <1>3, <1>4, Zenon

\* The fill that completes a chunk: every intent of the chunk has traded.
LEMMA ChunkFilledInv ==
    ASSUME IInv, NEW u \in updates, u.intent \in pending, IsFilled(u.status),
           pending = {u.intent}, ChunkFilled, Building,
           exchangeIds' \in {exchangeIds, exchangeIds \cup {u.intent}},
           updates' \in {updates, updates \ {u}},
           UNCHANGED <<chases, fills>>
    PROVE  IInv'
<1> USE DEF IInv
<1>1. /\ fills \in [Intent -> Nat]
      /\ current \in Nat
      /\ fills[u.intent] > 0
      /\ \A i \in Intent : ChunkOf[i] <= current => fills[i] > 0
  BY ChunkBounds DEF Truthful, Building, IsFilled, TypeOK
<1>2. updates' \subseteq updates /\ exchangeIds' \subseteq Intent
  BY Zenon DEF TypeOK
<1>3. \A i \in exchangeIds' : ChunkOf[i] <= current
  BY ChunkBounds DEF Released, TypeOK
<1>4. CASE /\ current >= NumChunks
           /\ state' = "ACTIVE"
           /\ pending' = {}
           /\ UNCHANGED <<live, late>>
  <2>1. current' = current + 1
    BY Zenon DEF ChunkFilled
  <2>2. \A i \in Intent : fills[i] > 0
    BY <1>1, <1>4, ChunkBounds
  <2>3. current = NumChunks
    BY <1>4, <1>1, ChunkBounds DEF Truthful
  <2>4. TypeOK'
    <3>1. current' \in 1..(NumChunks + 1)
      BY <2>1, <2>3, ChunkBounds
    <3> QED
      BY <3>1, <1>2, <1>4, Zenon DEF TypeOK, TradeState
  <2>5. Untouched'
    BY <1>4, Zenon DEF Untouched
  <2>6. Released'
    BY <1>1, <1>3, <1>4, <2>1, ChunkBounds DEF Released, TypeOK
  <2>7. Truthful'
    BY <1>2, <1>4, <2>2, Zenon DEF Truthful, Building, TypeOK
  <2> QED
    BY <2>4, <2>5, <2>6, <2>7, Zenon
<1>5. CASE /\ current < NumChunks
           /\ state' = "BUILDING"
           /\ execute_current_chunk(current + 1)
  <2>1. /\ current' = current + 1
        /\ pending' = ChunkIntents(current + 1)
        /\ late' = FALSE
    BY <1>5, Zenon DEF ChunkFilled, execute_current_chunk
  <2>2. /\ live' \in [Intent -> Nat]
        /\ \A i \in Intent : i \notin ChunkIntents(current + 1)
                               => live'[i] = live[i]
    BY <1>5, EmitType, Zenon DEF execute_current_chunk, TypeOK
  <2>3. TypeOK'
    <3>1. current' \in 1..(NumChunks + 1)
      BY <2>1, <1>1, <1>5, ChunkBounds
    <3>2. late' \in BOOLEAN
      BY <2>1, Zenon
    <3> QED
      BY <3>1, <3>2, <2>1, <2>2, <1>2, <1>5, Zenon DEF TypeOK, TradeState, ChunkIntents
  <2>4. Untouched'
    BY <1>5, Zenon DEF Untouched
  <2>5. Released'
    BY <1>1, <1>3, <1>5, <2>1, <2>2, ChunkBounds
       DEF Released, TypeOK, ChunkIntents, Building
  <2>6. Truthful'
    BY <1>1, <1>2, <1>5, <2>1, ChunkBounds
       DEF Truthful, Building, TypeOK, ChunkIntents
  <2> QED
    BY <2>3, <2>4, <2>5, <2>6, Zenon
<1> QED
  BY <1>4, <1>5, Zenon DEF ChunkFilled

\* on_order_update keeps the invariant, whatever the update says.
LEMMA UpdateInv ==
    ASSUME IInv, NEW u \in Update, on_order_update(u)
    PROVE  IInv'
<1> USE DEF IInv
<1>1. /\ u \in updates
      /\ updates' \in {updates, updates \ {u}}
      /\ UNCHANGED <<chases, fills>>
  BY Zenon DEF on_order_update
<1>2. updates' \subseteq updates
  BY <1>1, Zenon
<1>3. CASE /\ u.intent \notin pending
           /\ UNCHANGED <<state, current, pending, exchangeIds, late, live>>
  BY <1>1, <1>2, <1>3, Zenon DEF TypeOK, Untouched, Released, Truthful, Building
<1>4. ASSUME u.intent \in pending,
             exchangeIds' \in {exchangeIds, exchangeIds \cup {u.intent}}
      PROVE  /\ Building
             /\ exchangeIds' \subseteq Intent
             /\ \A i \in exchangeIds' : ChunkOf[i] <= current
  BY <1>4, ChunkBounds DEF Released, TypeOK
<1>5. ASSUME u.intent \in pending,
             exchangeIds' \in {exchangeIds, exchangeIds \cup {u.intent}},
             IsFilled(u.status),
             pending' = pending \ {u.intent},
             UNCHANGED <<state, current, late, live>>
      PROVE  IInv'
  <2>1. fills[u.intent] > 0
    BY <1>1, <1>5, Zenon DEF Truthful, IsFilled
  <2>2. TypeOK'
    BY <1>1, <1>2, <1>4, <1>5, Zenon DEF TypeOK
  <2>3. Untouched' /\ Released'
    BY <1>1, <1>4, <1>5, Zenon DEF Untouched, Released, Building
  <2>4. Truthful'
    BY <1>1, <1>2, <1>5, <2>1, Zenon DEF Truthful, Building
  <2> QED
    BY <2>2, <2>3, <2>4, Zenon
<1>6. ASSUME u.intent \in pending,
             exchangeIds' \in {exchangeIds, exchangeIds \cup {u.intent}},
             state' = "CLOSED",
             pending' = {},
             UNCHANGED <<current, late, live>>
      PROVE  IInv'
  <2>1. TypeOK'
    BY <1>1, <1>2, <1>4, <1>6, Zenon DEF TypeOK, TradeState
  <2>2. Untouched' /\ Released'
    BY <1>1, <1>4, <1>6, Zenon DEF Untouched, Released, Building
  <2>3. Truthful'
    BY <1>1, <1>2, <1>6, Zenon DEF Truthful, Building
  <2> QED
    BY <2>1, <2>2, <2>3, Zenon
<1>7. ASSUME u.intent \in pending,
             exchangeIds' \in {exchangeIds, exchangeIds \cup {u.intent}},
             UNCHANGED <<state, current, pending, late, live>>
      PROVE  IInv'
  <2>1. TypeOK'
    BY <1>1, <1>2, <1>4, <1>7, Zenon DEF TypeOK
  <2>2. Untouched' /\ Released'
    BY <1>1, <1>4, <1>7, Zenon DEF Untouched, Released, Building
  <2>3. Truthful'
    BY <1>1, <1>2, <1>7, Zenon DEF Truthful, Building
  <2> QED
    BY <2>1, <2>2, <2>3, Zenon
<1> QED
  BY <1>1, <1>3, <1>4, <1>5, <1>6, <1>7, ChunkFilledInv, Zenon DEF on_order_update

\* The exchange keeps the invariant.
LEMMA ExchangeInv ==
    ASSUME IInv, NEW i \in Intent, Acknowledge(i) \/ Fill(i) \/ Refuse(i)
    PROVE  IInv'
<1> USE DEF IInv
<1>1. ASSUME NEW s \in Status PROVE [intent |-> i, status |-> s] \in Update
  BY Zenon DEF Update
<1>2. CASE Acknowledge(i)
  <2>1. updates' = updates \cup {[intent |-> i, status |-> "OPEN"]}
    BY <1>2, Zenon DEF Acknowledge, Notify
  <2>2. TypeOK'
    BY <1>1, <1>2, <2>1, Zenon DEF Acknowledge, TypeOK, machineVars, Status
  <2>3. Untouched' /\ Released'
    BY <1>2 DEF Acknowledge, Untouched, Released, machineVars, Building
  <2>4. Truthful'
    BY <1>2, <2>1 DEF Acknowledge, Truthful, machineVars, Building
  <2> QED
    BY <2>2, <2>3, <2>4, Zenon
<1>3. CASE Fill(i)
  <2>1. /\ updates' = updates \cup {[intent |-> i, status |-> "FILLED"]}
        /\ live[i] > 0
        /\ live' = [live EXCEPT ![i] = live[i] - 1]
        /\ fills' = [fills EXCEPT ![i] = fills[i] + 1]
        /\ UNCHANGED machineVars
    BY <1>3, Zenon DEF Fill, Notify
  <2>2. /\ live' \in [Intent -> Nat]
        /\ fills' \in [Intent -> Nat]
        /\ \A j \in Intent : live'[j] > 0 => live[j] > 0
        /\ \A j \in Intent : fills[j] > 0 => fills'[j] > 0
        /\ fills'[i] > 0
    BY <2>1 DEF TypeOK
  <2>3. TypeOK'
    BY <1>1, <2>1, <2>2, Zenon DEF TypeOK, machineVars, Status
  <2>4. Untouched' /\ Released'
    BY <2>1, <2>2 DEF Untouched, Released, machineVars, Building
  <2>5. Truthful'
    <3>1. \A u \in updates : u.intent \in Intent
      BY Zenon DEF TypeOK, Update
    <3> QED
      BY <2>1, <2>2, <3>1 DEF Truthful, machineVars, Building
  <2> QED
    BY <2>3, <2>4, <2>5, Zenon
<1>4. CASE Refuse(i)
  <2>1. PICK s \in {"REJECTED", CancelStatus} :
          updates' = updates \cup {[intent |-> i, status |-> s]}
    BY <1>4, Zenon DEF Refuse, Notify
  <2>2. /\ live[i] > 0
        /\ live' = [live EXCEPT ![i] = live[i] - 1]
        /\ UNCHANGED <<machineVars, fills>>
    BY <1>4, Zenon DEF Refuse
  <2>3. /\ live' \in [Intent -> Nat]
        /\ \A j \in Intent : live'[j] > 0 => live[j] > 0
    BY <2>2 DEF TypeOK
  <2>4. TypeOK'
    BY <1>1, <2>1, <2>2, <2>3, Zenon DEF TypeOK, machineVars, Status
  <2>5. Untouched' /\ Released'
    BY <2>2, <2>3 DEF Untouched, Released, machineVars, Building
  <2>6. Truthful'
    BY <2>1, <2>2, WorkerAssumption DEF Truthful, machineVars, Building
  <2> QED
    BY <2>4, <2>5, <2>6, Zenon
<1> QED
  BY <1>2, <1>3, <1>4, Zenon

\* The invariant is inductive.
LEMMA NextInv == IInv /\ [Next]_vars => IInv'
<1> SUFFICES ASSUME IInv, [Next]_vars PROVE IInv'
  BY Zenon
<1>1. CASE on_command_deploy
  BY <1>1, DeployInv, Zenon
<1>2. CASE on_timer_tick
  BY <1>2, TimerInv, Zenon
<1>3. CASE \E u \in Update : on_order_update(u)
  BY <1>3, UpdateInv, Zenon
<1>4. CASE \E i \in Intent : Acknowledge(i) \/ Fill(i) \/ Refuse(i)
  BY <1>4, ExchangeInv, Zenon
<1>5. CASE Tick
  <2>1. late' \in BOOLEAN
    BY <1>5, Zenon DEF Tick
  <2> QED
    BY <1>5, <2>1, Zenon
       DEF Tick, IInv, TypeOK, Untouched, Released, Truthful, Building
<1>6. CASE UNCHANGED vars
  BY <1>6, Zenon DEF vars, machineVars, IInv, TypeOK, Untouched, Released, Truthful,
              Building
<1> QED
  BY <1>1, <1>2, <1>3, <1>4, <1>5, <1>6, Zenon DEF Next, Spin

\* The variables of the machine keep their types, and the invariant that the
\* other theorems rest on holds: what the machine believes about fills is
\* true, and nothing of a later chunk has been emitted.
THEOREM Invariance == Spec => [](TypeOK /\ IInv)
<1>1. IInv => TypeOK
  BY Zenon DEF IInv
<1> QED
  BY <1>1, InitInv, NextInv, PTL DEF Spec

-----------------------------------------------------------------------------
(* The machine keeps the promise *)

\* The machine starts where the promise does.
LEMMA PromiseInit == Init => Promise!Init
BY DEF Init, Promise!Init, Phase

TradedNow == {i \in Intent : fills[i] > 0}

\* Updates never change what has traded; they move the phase only as the
\* promise allows.
LEMMA PromiseUpdate ==
    ASSUME IInv, NEW u \in Update, on_order_update(u)
    PROVE  [Promise!Next]_(Promise!promiseVars)
<1> USE DEF IInv, Phase
<1>1. u \in updates /\ TradedNow' = TradedNow
  BY Zenon DEF on_order_update, TradedNow
<1>2. CASE state' = state
  BY <1>1, <1>2, Zenon DEF Promise!promiseVars, TradedNow
<1>3. CASE u.intent \in pending /\ IsFatal(u.status) /\ state' = "CLOSED"
  <2>1. Building
    BY <1>3, Zenon DEF Released
  <2> QED
    BY <1>1, <1>3, <2>1, Zenon DEF Promise!Next, Promise!GiveUp, Building, TradedNow
<1>4. CASE u.intent \in pending /\ IsFilled(u.status)
             /\ pending = {u.intent} /\ ChunkFilled
  <2>1. Building
    BY <1>4, Zenon DEF Released
  <2>2. \A i \in Intent : ChunkOf[i] <= current => fills[i] > 0
    BY <1>1, <1>4, <2>1, ChunkBounds DEF Truthful, TypeOK, IsFilled
  <2>3. CASE current >= NumChunks /\ state' = "ACTIVE"
    <3>1. TradedNow = Intent
      BY <2>2, <2>3, ChunkBounds DEF TypeOK, TradedNow
    <3> QED
      BY <1>1, <2>1, <2>3, <3>1, Zenon
         DEF Promise!Next, Promise!Complete, Building, TradedNow
  <2>4. CASE state' = "BUILDING"
    BY <1>1, <2>1, <2>4, Zenon DEF Promise!promiseVars, Building, TradedNow
  <2> QED
    BY <1>4, <2>3, <2>4, Zenon DEF ChunkFilled
<1> QED
  BY <1>2, <1>3, <1>4, Zenon DEF on_order_update

\* Every step is a step of the promise, or none.
LEMMA PromiseNext ==
    IInv /\ [Next]_vars => [Promise!Next]_(Promise!promiseVars)
<1> SUFFICES ASSUME IInv, [Next]_vars
             PROVE  [Promise!Next]_(Promise!promiseVars)
  BY Zenon
<1> USE DEF IInv, Phase
<1>1. CASE on_command_deploy
  BY <1>1, Zenon DEF on_command_deploy, Promise!Next, Promise!Start
<1>2. CASE on_timer_tick
  BY <1>2, Zenon DEF on_timer_tick, Promise!promiseVars
<1>3. CASE \E u \in Update : on_order_update(u)
  BY <1>3, PromiseUpdate, Zenon
<1>4. ASSUME NEW i \in Intent, Acknowledge(i) \/ Refuse(i)
      PROVE  UNCHANGED Promise!promiseVars
  BY <1>4, Zenon DEF Acknowledge, Refuse, machineVars, Promise!promiseVars
<1>5. ASSUME NEW i \in Intent, Fill(i)
      PROVE  Promise!Trade(i)
  <2>1. live[i] > 0 /\ state' = state
    BY <1>5, Zenon DEF Fill, machineVars
  <2>2. state # "INIT" /\ ChunkOf[i] <= current
    BY <2>1 DEF Untouched, Released, TypeOK
  <2>3. Promise!Earlier(i) \subseteq TradedNow
    BY <2>2, ChunkBounds DEF Promise!Earlier, TradedNow, Truthful, TypeOK
  <2>4. TradedNow' = TradedNow \cup {i}
    BY <1>5 DEF Fill, TradedNow, TypeOK
  <2>5. state \in TradeState
    BY Zenon DEF TypeOK
  <2> QED
    BY <2>1, <2>2, <2>3, <2>4, <2>5, Zenon DEF Promise!Trade, TradedNow, TradeState
<1>6. CASE Tick \/ UNCHANGED vars
  BY <1>6, Zenon DEF Tick, vars, machineVars, Promise!promiseVars
<1> QED
  BY <1>1, <1>2, <1>3, <1>4, <1>5, <1>6, Zenon DEF Next, Spin, Promise!Next

\* The trade worker implements BuildPromise: chunks in order, ACTIVE only
\* when everything has traded, ACTIVE and CLOSED final.
THEOREM WorkerKeepsPromise == Spec => KeepsPromise
<1>1. Init /\ [][Next]_vars => []IInv
  BY InitInv, NextInv, PTL
<1> QED
  BY <1>1, PromiseInit, PromiseNext, PTL DEF Spec, KeepsPromise, Promise!Spec

-----------------------------------------------------------------------------
(* No second order where a modification will do *)

\* No step emits a new order for an intent whose order id is known.
LEMMA KnownStep ==
    IInv /\ [Next]_vars => \A i \in exchangeIds : live'[i] <= live[i]
<1> SUFFICES ASSUME IInv, [Next]_vars, NEW i \in exchangeIds
             PROVE  live'[i] <= live[i]
  BY Zenon
<1> USE DEF IInv
<1>0. /\ i \in Intent
      /\ live \in [Intent -> Nat]
      /\ ChunkOf[i] <= current
      /\ ChunkOf[i] \in Nat
      /\ current \in Nat
  BY ChunkBounds DEF TypeOK, Released
<1>1. CASE on_command_deploy
  BY <1>1, Zenon DEF on_command_deploy, Untouched
<1>2. CASE on_timer_tick
  BY <1>0, <1>2, EmitType DEF on_timer_tick, WithoutId
<1>3. ASSUME NEW u \in Update, on_order_update(u)
      PROVE  live'[i] <= live[i]
  <2>1. CASE UNCHANGED live
    BY <1>0, <2>1
  <2>2. CASE execute_current_chunk(current + 1)
    <3>1. i \notin ChunkIntents(current + 1)
      BY <1>0 DEF ChunkIntents
    <3> QED
      BY <1>0, <2>2, <3>1, EmitType DEF execute_current_chunk
  <2> QED
    BY <1>3, <2>1, <2>2, Zenon DEF on_order_update, ChunkFilled
<1>4. ASSUME NEW j \in Intent, Acknowledge(j) \/ Fill(j) \/ Refuse(j)
      PROVE  live'[i] <= live[i]
  BY <1>0, <1>4 DEF Acknowledge, Fill, Refuse
<1>5. CASE Tick \/ UNCHANGED vars
  BY <1>0, <1>5 DEF Tick, vars
<1> QED
  BY <1>1, <1>2, <1>3, <1>4, <1>5, Zenon DEF Next, Spin

\* Once the exchange order id of an intent is known, no step places another
\* order for it.
THEOREM KnownNotReplaced == Spec => KnownIsNotReplaced
<1>1. Init /\ [][Next]_vars => []IInv
  BY InitInv, NextInv, PTL
<1> QED
  BY <1>1, KnownStep, PTL DEF Spec, KnownIsNotReplaced
=============================================================================
