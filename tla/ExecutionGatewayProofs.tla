----------------------- MODULE ExecutionGatewayProofs -----------------------
(***************************************************************************)
(* The inductive invariant of executeBuild, among all the other handlers   *)
(* of ExecutionGateway, and what it is for: the bound on exposure, an      *)
(* ACTIVE trade is a built one, and executeBuild implements the promise of *)
(* a chunked build.  Then the one of square-off: a trade is CLOSED only    *)
(* when a SquareOff has traded out.  At last the rows of the build: one    *)
(* that says FILLED is final.                                              *)
(***************************************************************************)
EXTENDS TradeRecordProofs

-----------------------------------------------------------------------------
(* The inductive invariant of the build *)

Filled(n) == fill[BuildTicket(n)] >= OrderQty
Exposure(n) == fill[BuildTicket(n)] + open[BuildTicket(n)]

NotYet == pc[Deployer] \in {"idle", "saveDb"}
Working == pc[Deployer] \in {"append", "execute", "record"}

\* The orders of the current round belong to the current chunk.  Orders of
\* earlier chunks, and those of this chunk that are in neither list, are
\* filled.
RoundInv ==
    Working =>
       /\ chunk <= NumChunks
       /\ todo \subseteq ChunkOrders(chunk)
       /\ nextRetry \subseteq ChunkOrders(chunk)
       /\ todo \cap nextRetry = {}
       /\ \A n \in BuildOrder : ChunkOf[n] < chunk => Filled(n)
       /\ \A n \in ChunkOrders(chunk) :
             n \notin todo \cup nextRetry => Filled(n)

\* The order whose outcome waits to be recorded is filled if the outcome
\* says so.
ResultInv ==
    pc[Deployer] = "record" =>
       /\ res[Deployer].status # "ERR"
       /\ BuildFilled(res[Deployer].status)
             => \A n \in todo : IsNext(n) => Filled(n)

\* Nothing of a chunk reached the broker before the earlier chunks traded.
ChunkInv ==
    \A n \in BuildOrder : Exposure(n) > 0 =>
       \A e \in BuildOrder : ChunkOf[e] < ChunkOf[n] => Filled(e)

\* DeployStraddle decides for ACTIVE only on a complete build.
VerdictInv ==
    /\ verdict = "ACTIVE" => Built
    /\ NotYet \/ Working => verdict = "FAILED"

\* Orders that have to be placed, again or for the first time, have nothing
\* at the broker but what earlier calls did not account for.
Outstanding(n) ==
    \/ NotYet
    \/ Working /\ (ChunkOf[n] > chunk \/ n \in nextRetry)
    \/ pc[Deployer] \in {"append", "execute"} /\ n \in todo
    \/ pc[Deployer] = "record" /\ n \in todo
          /\ (~IsNext(n) \/ BuildRetryable(res[Deployer].status))

ExposureInv ==
    /\ \A n \in BuildOrder : Outstanding(n) =>
          Exposure(n) <= extra[BuildTicket(n)]
    /\ \A n \in BuildOrder : Exposure(n) <= OrderQty + extra[BuildTicket(n)]

\* Before the first order goes out the broker has nothing, and there is
\* nothing to retry.
UntouchedInv ==
    NotYet => nextRetry = {} /\ \A n \in BuildOrder : Exposure(n) = 0

BuildInv ==
    /\ RoundInv /\ ResultInv /\ ChunkInv /\ VerdictInv /\ ExposureInv
    /\ UntouchedInv

-----------------------------------------------------------------------------
(* What the steps do to the build orders *)

\* The invariant of the build only speaks of that state.
LEMMA FrameInv ==
    ASSUME TypeOK, BuildInv, BuildFrame
    PROVE  BuildInv'
<1>1. /\ \A n \in BuildOrder : Filled(n)' <=> Filled(n)
      /\ \A n \in BuildOrder : Exposure(n)' = Exposure(n)
      /\ \A n \in BuildOrder : extra'[BuildTicket(n)] = extra[BuildTicket(n)]
  BY Zenon DEF BuildFrame, SameBroker, Filled, Exposure
<1>2. /\ Working' <=> Working
      /\ NotYet' <=> NotYet
      /\ Built' <=> Built
  BY <1>1, Zenon DEF BuildFrame, Working, NotYet, Built, Filled
<1>3. /\ chunk' = chunk /\ todo' = todo /\ nextRetry' = nextRetry
      /\ verdict' = verdict
      /\ pc'[Deployer] = pc[Deployer] /\ res'[Deployer] = res[Deployer]
  BY Zenon DEF BuildFrame, buildVars
<1>4. \A n \in BuildOrder : /\ Outstanding(n)' <=> Outstanding(n)
                            /\ IsNext(n)' <=> IsNext(n)
  BY <1>2, <1>3, Zenon DEF Outstanding, IsNext
<1>5. RoundInv'
  BY <1>1, <1>2, <1>3, Zenon DEF BuildInv, RoundInv, ChunkOrders
<1>6. ResultInv'
  BY <1>1, <1>3, <1>4, Zenon DEF TypeOK, BuildInv, ResultInv
<1>7. ChunkInv' /\ VerdictInv' /\ UntouchedInv'
  BY <1>1, <1>2, <1>3, Zenon DEF BuildInv, ChunkInv, VerdictInv, UntouchedInv
<1>8. ExposureInv'
  BY <1>1, <1>4, Zenon DEF BuildInv, ExposureInv
<1> QED
  BY <1>5, <1>6, <1>7, <1>8, Zenon DEF BuildInv

-----------------------------------------------------------------------------
(* The build keeps its invariant *)

\* Before the build there is nothing at the broker.
LEMMA BuildInit == Init => BuildInv
<1> SUFFICES ASSUME Init PROVE BuildInv
  BY Zenon
<1>1. \A n \in BuildOrder : Exposure(n) = 0 /\ extra[BuildTicket(n)] = 0
  BY TicketTypes DEF Init, BrokerInit, Exposure
<1>2. pc[Deployer] = "idle" /\ verdict = "FAILED" /\ nextRetry = {}
  BY TicketTypes, Zenon DEF Init
<1> QED
  BY <1>1, <1>2, TicketTypes
     DEF BuildInv, RoundInv, ResultInv, ChunkInv, VerdictInv, ExposureInv,
         UntouchedInv, Working, NotYet

\* Placing a build order adds to that order alone, and what an error or a
\* cancellation leaves behind counts as extra.
LEMMA ExecuteBuildInv ==
    ASSUME TypeOK, BuildInv, BuildExecute
    PROVE  BuildInv'
<1>1. PICK n \in todo, r \in Outcomes(OrderQty) :
         /\ IsNext(n)
         /\ ExecuteOrderIntent(BuildTicket(n), r)
         /\ \/ /\ r.status = "ERR"
               /\ todo' = todo \ {n}
               /\ nextRetry' = nextRetry \cup {n}
               /\ Goto(Deployer, "append")
               /\ UNCHANGED res
            \/ /\ r.status # "ERR"
               /\ res' = [res EXCEPT ![Deployer] = r]
               /\ Goto(Deployer, "record")
               /\ UNCHANGED <<todo, nextRetry>>
  BY Zenon DEF BuildExecute
<1>2. n \in BuildOrder
  BY Zenon DEF TypeOK
<1>3. pc[Deployer] = "execute" /\ chunk' = chunk /\ verdict' = verdict
  BY Zenon DEF BuildExecute, At
<1>4. \/ r.status = "ERR" /\ pc'[Deployer] = "append"
      \/ r.status # "ERR" /\ pc'[Deployer] = "record" /\ res'[Deployer] = r
  BY <1>1, TicketTypes, Zenon DEF Goto, TypeOK
<1>5. /\ fill'[BuildTicket(n)] = fill[BuildTicket(n)] + r.filled
      /\ open'[BuildTicket(n)] = open[BuildTicket(n)] + r.open
      /\ extra'[BuildTicket(n)] = extra[BuildTicket(n)] + Unaccounted(r)
      /\ \A m \in BuildOrder \ {n} :
            /\ fill'[BuildTicket(m)] = fill[BuildTicket(m)]
            /\ open'[BuildTicket(m)] = open[BuildTicket(m)]
            /\ extra'[BuildTicket(m)] = extra[BuildTicket(m)]
  BY <1>1, <1>2, BuildCall, Zenon
<1>6. /\ r.status \in AllAnswers /\ r.filled \in Nat /\ r.open \in Nat
      /\ Unaccounted(r) \in Nat
      /\ r.filled + r.open <= OrderQty
      /\ r.status = "FILLED" => r.filled = OrderQty
      /\ r.status \in {"ERR", "REJECTED", "CANCELLED"}
            => r.filled + r.open = Unaccounted(r)
  BY <1>1, OutcomeType, TicketTypes, Zenon
<1>7. \A m \in BuildOrder : Filled(m) => Filled(m)'
  BY <1>2, <1>5, <1>6, BuildNumbers, TicketTypes, SMTT(30) DEF Filled
<1>8. Working /\ Working' /\ ~NotYet' /\ chunk <= NumChunks
  BY <1>3, <1>4, Zenon DEF Working, NotYet, BuildInv, RoundInv
<1>9. RoundInv'
  BY <1>1, <1>2, <1>3, <1>7, <1>8, Zenon
     DEF BuildInv, RoundInv, ChunkOrders, TypeOK
<1>10. ResultInv'
  <2>1. BuildFilled(r.status) => Filled(n)'
    BY <1>2, <1>5, <1>6, BuildNumbers, TicketTypes DEF BuildFilled, Filled
  <2>2. pc'[Deployer] = "record" => \A m \in todo' : IsNext(m)' => m = n
    BY <1>1, <1>4, NextUnique, Zenon DEF IsNext
  <2> QED
    BY <1>4, <2>1, <2>2, Zenon DEF ResultInv
<1>11. ChunkInv'
  <2>1. \A e \in BuildOrder : ChunkOf[e] < ChunkOf[n] => Filled(e)
    BY <1>8, Zenon DEF BuildInv, RoundInv, ChunkOrders
  <2>2. \A m \in BuildOrder \ {n} : Exposure(m)' = Exposure(m)
    BY <1>5, Zenon DEF Exposure
  <2> QED
    BY <1>7, <2>1, <2>2, Zenon DEF BuildInv, ChunkInv
<1>12. VerdictInv'
  BY <1>3, <1>8, Zenon DEF BuildInv, VerdictInv
<1>13. ExposureInv'
  <2>1. \A m \in BuildOrder \ {n} :
           Exposure(m)' = Exposure(m) /\ (Outstanding(m)' => Outstanding(m))
    BY <1>1, <1>3, <1>4, <1>5, Zenon
       DEF Exposure, Outstanding, Working, NotYet
  <2>2. Exposure(n) <= extra[BuildTicket(n)]
    BY <1>2, <1>3, Zenon DEF BuildInv, ExposureInv, Outstanding
  <2>3. Exposure(n)' <= OrderQty + extra'[BuildTicket(n)]
    BY <1>2, <1>5, <1>6, <2>2, BuildNumbers, TicketTypes, SMTT(30) DEF Exposure
  <2>4. Outstanding(n)' => r.status \in {"ERR", "REJECTED", "CANCELLED"}
    <3>1. n \notin nextRetry /\ ~(ChunkOf[n] > chunk)
      BY <1>2, <1>8, ChunkBounds DEF BuildInv, RoundInv, ChunkOrders, TypeOK
    <3>2. pc'[Deployer] = "record" => IsNext(n)'
      BY <1>1, <1>4, Zenon DEF IsNext
    <3> QED
      BY <1>1, <1>3, <1>4, <3>1, <3>2, Zenon
         DEF Outstanding, NotYet, Working, BuildRetryable
  <2>5. Outstanding(n)' => Exposure(n)' <= extra'[BuildTicket(n)]
    BY <1>2, <1>5, <1>6, <2>2, <2>4, BuildNumbers, SMTT(30) DEF Exposure
  <2> QED
    BY <1>5, <2>1, <2>3, <2>5, Zenon DEF BuildInv, ExposureInv
<1> QED
  BY <1>8, <1>9, <1>10, <1>11, <1>12, <1>13, Zenon DEF BuildInv, UntouchedInv

\* Steps of the deployer that do not reach the broker leave it alone.
LEMMA BrokerFrame ==
    ASSUME UNCHANGED brokerVars
    PROVE  /\ \A n \in BuildOrder : Filled(n)' <=> Filled(n)
           /\ \A n \in BuildOrder : Exposure(n)' = Exposure(n)
           /\ extra' = extra
           /\ Built' <=> Built
           /\ ChunkInv => ChunkInv'
  BY Zenon DEF brokerVars, Filled, Exposure, Built, ChunkInv

\* Recording an outcome takes the order off the round: as filled, to be
\* retried, or as the live order the build stops at.
LEMMA RecordBuildInv ==
    ASSUME TypeOK, BuildInv, BuildRecord
    PROVE  BuildInv'
<1>1. PICK n \in todo :
         /\ IsNext(n)
         /\ \/ /\ BuildFilled(res[Deployer].status)
               /\ todo' = todo \ {n}
               /\ Goto(Deployer, "append")
               /\ UNCHANGED <<nextRetry, verdict>>
            \/ /\ BuildRetryable(res[Deployer].status)
               /\ todo' = todo \ {n}
               /\ nextRetry' = nextRetry \cup {n}
               /\ Goto(Deployer, "append")
               /\ UNCHANGED verdict
            \/ /\ verdict' = "PENDING_FILL"
               /\ Goto(Deployer, "finishMem")
  BY Zenon DEF BuildRecord
<1>2. n \in BuildOrder
  BY Zenon DEF TypeOK
<1>3. pc[Deployer] = "record" /\ chunk' = chunk /\ UNCHANGED brokerVars
  BY Zenon DEF BuildRecord, At
<1>4. \/ /\ pc'[Deployer] = "append"
         /\ todo' = todo \ {n}
         /\ verdict' = verdict
         /\ \/ nextRetry' = nextRetry /\ BuildFilled(res[Deployer].status)
            \/ /\ nextRetry' = nextRetry \cup {n}
               /\ BuildRetryable(res[Deployer].status)
      \/ pc'[Deployer] = "finishMem" /\ verdict' = "PENDING_FILL"
  BY <1>1, TicketTypes, Zenon DEF Goto, TypeOK
<1>5. /\ \A m \in BuildOrder : Filled(m)' <=> Filled(m)
      /\ \A m \in BuildOrder : Exposure(m)' = Exposure(m)
      /\ extra' = extra
      /\ Built' <=> Built
      /\ ChunkInv'
  BY <1>3, BrokerFrame, Zenon DEF BuildInv
<1>6. BuildFilled(res[Deployer].status) => Filled(n)
  BY <1>1, <1>3, Zenon DEF BuildInv, ResultInv
<1>7. Working /\ ~NotYet'
  BY <1>3, <1>4, Zenon DEF Working, NotYet
<1>8. RoundInv'
  BY <1>2, <1>3, <1>4, <1>5, <1>6, <1>7, Zenon
     DEF BuildInv, RoundInv, ChunkOrders, TypeOK, Working
<1>9. ResultInv' /\ VerdictInv' /\ UntouchedInv'
  BY <1>4, <1>5, <1>7, Zenon
     DEF BuildInv, ResultInv, VerdictInv, UntouchedInv, Working
<1>10. ExposureInv'
  <2>1. ASSUME NEW m \in BuildOrder, Outstanding(m)' PROVE Outstanding(m)
    <3>1. m # n => ~IsNext(m)
      BY <1>1, NextUnique, Zenon
    <3> QED
      BY <1>1, <1>3, <1>4, <2>1, <3>1, Zenon DEF Outstanding, Working, NotYet
  <2> QED
    BY <1>5, <2>1, Zenon DEF BuildInv, ExposureInv
<1> QED
  BY <1>5, <1>8, <1>9, <1>10, Zenon DEF BuildInv

\* The end of a round loses no order: it retries all that failed, or goes on
\* with the chunk complete, or gives up.
LEMMA RoundBuildInv ==
    ASSUME TypeOK, BuildInv, BuildRound
    PROVE  BuildInv'
<1>1. /\ pc[Deployer] = "append" /\ todo = {} /\ nextRetry' = {}
      /\ UNCHANGED brokerVars
  BY Zenon DEF BuildRound, At
<1>2. \/ /\ pc' = pc /\ todo' = nextRetry /\ chunk' = chunk
         /\ verdict' = verdict
      \/ /\ pc'[Deployer] = "finishMem" /\ verdict' = "FAILED"
      \/ /\ pc' = pc /\ nextRetry = {} /\ chunk < NumChunks
         /\ chunk' = chunk + 1 /\ todo' = ChunkOrders(chunk + 1)
         /\ verdict' = verdict
      \/ /\ pc'[Deployer] = "finishMem" /\ verdict' = "ACTIVE"
         /\ nextRetry = {} /\ chunk = NumChunks
  BY TicketTypes, Zenon DEF BuildRound, Goto, TypeOK
<1>3. /\ \A m \in BuildOrder : Filled(m)' <=> Filled(m)
      /\ \A m \in BuildOrder : Exposure(m)' = Exposure(m)
      /\ extra' = extra
      /\ Built' <=> Built
      /\ ChunkInv'
  BY <1>1, BrokerFrame, Zenon DEF BuildInv
<1>4. /\ chunk <= NumChunks /\ nextRetry \subseteq ChunkOrders(chunk)
      /\ \A n \in BuildOrder : ChunkOf[n] < chunk => Filled(n)
      /\ \A n \in ChunkOrders(chunk) : n \notin nextRetry => Filled(n)
  BY <1>1, Zenon DEF BuildInv, RoundInv, Working
<1>5. chunk \in Nat /\ NumChunks \in Nat
  BY ChunkBounds, Zenon DEF TypeOK
<1>6. nextRetry = {} => \A n \in BuildOrder : ChunkOf[n] <= chunk => Filled(n)
  BY <1>4, <1>5, ChunkBounds DEF ChunkOrders
<1>7. verdict' = "ACTIVE" => Built
  <2>1. verdict = "FAILED"
    BY <1>1, Zenon DEF BuildInv, VerdictInv, Working
  <2>2. chunk = NumChunks /\ nextRetry = {} => \A n \in BuildOrder : Filled(n)
    BY <1>6, ChunkBounds, Zenon
  <2> QED
    BY <1>2, <2>1, <2>2, Zenon DEF Built, Filled
<1>8. RoundInv'
  <2>1. CASE todo' = nextRetry /\ chunk' = chunk
    BY <1>1, <1>3, <1>4, <2>1, Zenon DEF RoundInv, ChunkOrders
  <2>2. CASE /\ nextRetry = {} /\ chunk < NumChunks /\ chunk' = chunk + 1
             /\ todo' = ChunkOrders(chunk + 1)
    <3>1. \A n \in BuildOrder : ChunkOf[n] < chunk + 1 => Filled(n)
      BY <1>5, <1>6, <2>2, ChunkBounds
    <3>2. chunk + 1 <= NumChunks
      BY <1>5, <2>2
    <3> QED
      BY <1>1, <1>3, <2>2, <3>1, <3>2, Zenon DEF RoundInv, ChunkOrders
  <2>3. CASE pc'[Deployer] = "finishMem"
    BY <2>3, Zenon DEF RoundInv, Working
  <2> QED
    BY <1>2, <2>1, <2>2, <2>3, Zenon
<1>9. ResultInv' /\ UntouchedInv'
  BY <1>1, <1>2, Zenon DEF ResultInv, UntouchedInv, NotYet
<1>10. VerdictInv'
  BY <1>1, <1>2, <1>3, <1>7, Zenon DEF BuildInv, VerdictInv, Working, NotYet
<1>11. ExposureInv'
  <2>1. ASSUME NEW m \in BuildOrder, Outstanding(m)' PROVE Outstanding(m)
    <3>1. ChunkOf[m] > chunk + 1 => ChunkOf[m] > chunk
      BY <1>5, ChunkBounds
    <3>2. m \in ChunkOrders(chunk + 1) => ChunkOf[m] > chunk
      BY <1>5, ChunkBounds DEF ChunkOrders
    <3> QED
      BY <1>1, <1>2, <2>1, <3>1, <3>2, Zenon DEF Outstanding, Working, NotYet
  <2> QED
    BY <1>3, <2>1, Zenon DEF BuildInv, ExposureInv
<1> QED
  BY <1>3, <1>8, <1>9, <1>10, <1>11, Zenon DEF BuildInv

\* The steps of DeployStraddle keep the build's invariant.
LEMMA DeployBuildInv ==
    ASSUME TypeOK, BuildInv, DeployStep
    PROVE  BuildInv'
<1> USE TicketTypes
<1>1. CASE DeployStraddle \/ BuildAppendIntent
  <2>1. /\ UNCHANGED <<brokerVars, res, buildVars>>
        /\ \/ pc[Deployer] = "idle" /\ pc'[Deployer] = "saveDb"
           \/ pc[Deployer] = "append" /\ pc'[Deployer] = "execute"
    BY <1>1, Zenon
       DEF TypeOK, DeployStraddle, UpdateMem, BuildAppendIntent, Goto, At
  <2>2. /\ \A n \in BuildOrder : Filled(n)' <=> Filled(n)
        /\ \A n \in BuildOrder : Exposure(n)' = Exposure(n)
        /\ extra' = extra /\ (Built' <=> Built) /\ ChunkInv'
    BY <2>1, BrokerFrame, ZenonT(30) DEF BuildInv
  <2>3. /\ chunk' = chunk /\ todo' = todo /\ nextRetry' = nextRetry
        /\ verdict' = verdict
    BY <2>1, Zenon DEF buildVars
  <2>4. (Working' <=> Working) /\ (NotYet' <=> NotYet)
    BY <2>1, Zenon DEF Working, NotYet
  <2>5. \A n \in BuildOrder : Outstanding(n)' => Outstanding(n)
    BY <2>1, <2>3, <2>4, ZenonT(30) DEF Outstanding
  <2>6. RoundInv'
    BY <2>2, <2>3, <2>4, ZenonT(30) DEF BuildInv, RoundInv, ChunkOrders
  <2>7. ResultInv' /\ VerdictInv' /\ UntouchedInv'
    BY <2>1, <2>2, <2>3, <2>4, Zenon
       DEF BuildInv, ResultInv, VerdictInv, UntouchedInv
  <2>8. ExposureInv'
    BY <2>2, <2>5, Zenon DEF BuildInv, ExposureInv
  <2> QED
    BY <2>2, <2>6, <2>7, <2>8, Zenon DEF BuildInv
<1>2. CASE DeploySaveDb
  <2>1. /\ pc[Deployer] = "saveDb" /\ UNCHANGED <<brokerVars, nextRetry, verdict>>
        /\ \/ pc'[Deployer] = "done"
           \/ /\ pc'[Deployer] = "append" /\ chunk' = 1
              /\ todo' = ChunkOrders(1)
    BY <1>2, Zenon DEF TypeOK, DeploySaveDb, Goto, At
  <2>2. /\ \A n \in BuildOrder : Filled(n)' <=> Filled(n)
        /\ \A n \in BuildOrder : Exposure(n)' = Exposure(n)
        /\ extra' = extra /\ (Built' <=> Built) /\ ChunkInv'
    BY <2>1, BrokerFrame, ZenonT(30) DEF BuildInv
  <2>3. NotYet /\ nextRetry = {} /\ verdict = "FAILED"
    BY <2>1, ZenonT(30) DEF NotYet, BuildInv, UntouchedInv, VerdictInv
  <2>4. RoundInv'
    BY <2>1, <2>3, FirstChunk, ZenonT(30) DEF RoundInv, Working
  <2>5. ResultInv' /\ VerdictInv' /\ UntouchedInv'
    BY <2>1, <2>3, ZenonT(30) DEF ResultInv, VerdictInv, UntouchedInv, NotYet
  <2>6. ExposureInv'
    BY <2>2, <2>3, ZenonT(30) DEF BuildInv, ExposureInv, Outstanding
  <2> QED
    BY <2>2, <2>4, <2>5, <2>6, Zenon DEF BuildInv
<1>3. CASE BuildExecute
  BY <1>3, ExecuteBuildInv, Zenon
<1>4. CASE BuildRecord
  BY <1>4, RecordBuildInv, Zenon
<1>5. CASE BuildRound
  BY <1>5, RoundBuildInv, Zenon
<1>6. CASE DeployFinishMem \/ DeployFinishDb \/ StartRuntime
  <2>1. /\ UNCHANGED <<brokerVars, buildVars>>
        /\ pc'[Deployer] \in {"finishDb", "startRuntime", "done"}
    BY <1>6, ZenonT(30)
       DEF TypeOK, DeployFinishMem, DeployFinishDb, StartRuntime,
                UpdateMem, UpdateDb, Goto
  <2>2. /\ \A n \in BuildOrder : Exposure(n)' = Exposure(n)
        /\ extra' = extra /\ (Built' <=> Built) /\ ChunkInv'
    BY <2>1, BrokerFrame, Zenon DEF BuildInv
  <2>3. ~Working' /\ ~NotYet' /\ verdict' = verdict
    BY <2>1, Zenon DEF Working, NotYet, buildVars
  <2>4. \A n \in BuildOrder : ~Outstanding(n)'
    BY <2>1, <2>3, Zenon DEF Outstanding
  <2> QED
    BY <2>1, <2>2, <2>3, <2>4, ZenonT(30)
       DEF BuildInv, RoundInv, ResultInv, VerdictInv, UntouchedInv, ExposureInv
<1> QED
  BY <1>1, <1>2, <1>3, <1>4, <1>5, <1>6, Zenon DEF DeployStep

\* The market only turns open quantity into fills or drops it.
LEMMA MarketBuildInv ==
    ASSUME TypeOK, BuildInv, NEW x \in Ticket, Market(x)
    PROVE  BuildInv'
<1>0. fill \in [Ticket -> Nat] /\ open \in [Ticket -> Nat]
  BY ZenonT(30) DEF TypeOK, BrokerTypeOK
<1>1. /\ pc' = pc /\ res' = res /\ chunk' = chunk /\ todo' = todo
      /\ nextRetry' = nextRetry /\ verdict' = verdict /\ extra' = extra
  BY Zenon DEF Market, BrokerTrade, BrokerDrop, buildVars
<1>2. ASSUME NEW n \in BuildOrder
      PROVE  /\ Exposure(n) \in Nat /\ Exposure(n)' \in Nat
             /\ Exposure(n)' <= Exposure(n)
             /\ Filled(n) => Filled(n)'
             /\ extra[BuildTicket(n)] \in Nat
  <2> DEFINE t == BuildTicket(n)
  <2>1. t \in Ticket
    BY TicketTypes, Zenon
  <2> HIDE DEF t
  <2>2. fill[t] \in Nat /\ open[t] \in Nat /\ extra[t] \in Nat
    BY <2>1, Zenon DEF TypeOK, BrokerTypeOK
  <2>3. /\ fill'[t] \in Nat /\ open'[t] \in Nat
        /\ fill'[t] >= fill[t] /\ fill'[t] + open'[t] <= fill[t] + open[t]
    <3>1. CASE BrokerTrade(x)
      BY <3>1, <2>1, <2>2, <1>0, SMTT(30) DEF BrokerTrade
    <3>2. CASE BrokerDrop(x)
      BY <3>2, <2>1, <2>2, <1>0, SMTT(30) DEF BrokerDrop
    <3> QED
      BY <3>1, <3>2, Zenon DEF Market
  <2> QED
    BY <2>2, <2>3, GatewayAssumption DEF t, Exposure, Filled
<1>3. /\ (Working' <=> Working) /\ (NotYet' <=> NotYet)
      /\ \A n \in BuildOrder : Outstanding(n)' <=> Outstanding(n)
      /\ \A n \in todo : IsNext(n)' <=> IsNext(n)
  BY <1>1, Zenon DEF Working, NotYet, Outstanding, IsNext
<1>4. Built => Built'
  BY <1>2, Zenon DEF Built, Filled
<1>5. RoundInv'
  BY <1>1, <1>2, <1>3, Zenon DEF BuildInv, RoundInv, ChunkOrders
<1>6. ResultInv'
  BY <1>1, <1>2, <1>3, Zenon DEF TypeOK, BuildInv, ResultInv
<1>7. ChunkInv'
  BY <1>2 DEF BuildInv, ChunkInv
<1>8. VerdictInv'
  BY <1>1, <1>3, <1>4, Zenon DEF BuildInv, VerdictInv
<1>9. UntouchedInv'
  BY <1>1, <1>2, <1>3 DEF BuildInv, UntouchedInv
<1>10. ExposureInv'
  BY <1>1, <1>2, <1>3, TicketTypes, SMTT(30) DEF BuildInv, ExposureInv
<1> QED
  BY <1>5, <1>6, <1>7, <1>8, <1>9, <1>10, Zenon DEF BuildInv

\* A restart ends the build and changes nothing at the broker.
LEMMA CrashBuildInv ==
    ASSUME TypeOK, BuildInv, Crash
    PROVE  BuildInv'
<1>1. /\ UNCHANGED <<brokerVars, verdict>> /\ nextRetry' = {}
      /\ pc'[Deployer] = IF pc[Deployer] = "idle" THEN "idle" ELSE "done"
  BY TicketTypes, Zenon DEF Crash
<1>2. /\ \A n \in BuildOrder : Exposure(n)' = Exposure(n)
      /\ extra' = extra /\ (Built' <=> Built) /\ ChunkInv'
  BY <1>1, BrokerFrame, Zenon DEF BuildInv
<1>3. ~Working' /\ (NotYet' => NotYet)
  BY <1>1, Zenon DEF Working, NotYet
<1>4. \A n \in BuildOrder : Outstanding(n)' => Outstanding(n)
  BY <1>1, <1>3, Zenon DEF Outstanding
<1> QED
  BY <1>1, <1>2, <1>3, <1>4, ZenonT(30)
     DEF BuildInv, RoundInv, ResultInv, VerdictInv, UntouchedInv, ExposureInv

\* The build's invariant is inductive.
LEMMA BuildNext == TypeOK /\ BuildInv /\ [Next]_vars => BuildInv'
<1> SUFFICES ASSUME TypeOK, BuildInv, [Next]_vars PROVE BuildInv'
  BY Zenon
<1>1. CASE DeployStep
  BY <1>1, DeployBuildInv, Zenon
<1>2. ASSUME NEW p \in Request, RequestStep(p) PROVE BuildInv'
  BY <1>2, RequestFrame, FrameInv, Zenon
<1>3. ASSUME NEW x \in Ticket, Market(x) PROVE BuildInv'
  BY <1>3, MarketBuildInv, Zenon
<1>4. ASSUME NEW x \in Ticket, Reconcile(x) PROVE BuildInv'
  <2>1. BuildFrame
    BY <1>4, Zenon DEF Reconcile, BuildFrame, SameBroker, brokerVars
  <2> QED
    BY <2>1, FrameInv, Zenon
<1>5. CASE Tick
  <2>1. BuildFrame
    BY <1>5, Zenon DEF Tick, BuildFrame, SameBroker, brokerVars
  <2> QED
    BY <2>1, FrameInv, Zenon
<1>6. CASE Crash
  BY <1>6, CrashBuildInv, Zenon
<1>7. CASE UNCHANGED vars
  <2>1. BuildFrame
    BY <1>7, Zenon DEF vars, BuildFrame, SameBroker, brokerVars
  <2> QED
    BY <2>1, FrameInv, Zenon
<1> QED
  BY <1>1, <1>2, <1>3, <1>4, <1>5, <1>6, <1>7, Zenon DEF Next, Idle

\* The build's bookkeeping is right at every point of every interleaving.
THEOREM BuildCorrect == Spec => []BuildInv
<1>1. Init => BuildInv
  BY BuildInit, Zenon
<1>2. TypeOK /\ BuildInv /\ [Next]_vars => BuildInv'
  BY BuildNext, Zenon
<1> QED
  BY <1>1, <1>2, TypeCorrect, PTL DEF Spec

\* Retries never leave more of a build order at the broker than the order
\* asks for, beyond what came back as an error or as cancelled.
THEOREM ExposureBounded == Spec => []BuildExposureBound
<1>1. BuildInv => BuildExposureBound
  BY Zenon DEF BuildInv, ExposureInv, BuildExposureBound, Exposure
<1> QED
  BY <1>1, BuildCorrect, PTL

-----------------------------------------------------------------------------
(* ACTIVE *)

\* Only a complete build puts ACTIVE into a trade, wherever it is copied.
Somewhere(s) ==
    mem.status = s \/ cfg.status = s \/ \E p \in Process : tr[p].status = s
ActiveInv == Somewhere("ACTIVE") => Built

\* A complete build stays complete.
LEMMA BuiltStays ==
    ASSUME TypeOK, [Next]_vars, Built
    PROVE  Built'
<1>1. ASSUME NEW n \in BuildOrder
      PROVE  fill'[BuildTicket(n)] >= OrderQty
  <2>1. BuildTicket(n) \in Ticket /\ OrderQty \in Nat
    BY TicketTypes, Zenon
  <2>2. fill[BuildTicket(n)] >= OrderQty
    BY Zenon DEF Built
  <2> QED
    BY <2>1, <2>2, FillGrows
<1> QED
  BY <1>1, Zenon DEF Built

\* Writing a trade to memory puts no status anywhere but the trade's.
LEMMA UpdateMemSource ==
    ASSUME TypeOK, NEW p \in Process, NEW t, NEW next, UpdateMem(p, t, next),
           NEW s, Somewhere(s)'
    PROVE  Somewhere(s) \/ t.status = s
  BY Zenon DEF TypeOK, UpdateMem, saveToMemory, Somewhere

\* Writing it to the database copies it.
LEMMA UpsertSource ==
    ASSUME NEW p \in Process, upsertTrade(tr[p]), tr' = tr,
           NEW s, Somewhere(s)'
    PROVE  Somewhere(s)
  BY Zenon DEF upsertTrade, Somewhere

\* ACTIVE comes from DeployStraddle alone, and CLOSED from SquareOff.
LEMMA StatusSource ==
    ASSUME TypeOK, [Next]_vars, NEW s \in {"ACTIVE", "CLOSED"}, Somewhere(s)'
    PROVE  \/ Somewhere(s)
           \/ s = "ACTIVE" /\ At(Deployer, "finishMem") /\ verdict = "ACTIVE"
           \/ s = "CLOSED" /\ \E p \in Request : CloseMem(p)
<1> USE TicketTypes
<1>1. \A p \in Process : tr[p] \in StoredTrade
  BY Zenon DEF TypeOK
<1>2. \A t \in StoredTrade : \A z : WithStatus(t, z).status = z
  BY Zenon DEF WithStatus, StoredTrade
<1>3. CASE DeployStep
  <2>1. CASE DeployStraddle
    BY <2>1, UpdateMemSource DEF DeployStraddle, NewTrade
  <2>2. CASE DeployFinishMem
    <3>1. Somewhere(s) \/ verdict = s
      BY <1>1, <1>2, <2>2, UpdateMemSource, Zenon DEF DeployFinishMem
    <3> QED
      BY <2>2, <3>1, Zenon DEF DeployFinishMem, TypeOK
  <2>3. CASE DeploySaveDb \/ DeployFinishDb
    BY <2>3, UpsertSource, Zenon DEF DeploySaveDb, DeployFinishDb, UpdateDb
  <2>4. CASE BuildAppendIntent \/ BuildExecute \/ BuildRecord \/ BuildRound
             \/ StartRuntime
    <3>1. mem' = mem /\ cfg' = cfg /\ tr' = tr
      BY <2>4, ZenonT(30)
         DEF BuildAppendIntent, BuildExecute, BuildRecord, BuildRound,
                  StartRuntime, insertOrderIntents, MarkOrderExecution, storeVars
    <3> QED
      BY <3>1, Zenon DEF Somewhere
  <2> QED
    BY <1>3, <2>1, <2>2, <2>3, <2>4, Zenon DEF DeployStep
<1>4. ASSUME NEW p \in Request, RequestStep(p), ~CloseMem(p)
      PROVE  Somewhere(s)
  <2>1. CASE RequestLoad(p)
    <3>1. /\ mem' = mem /\ cfg' = cfg
          /\ \A q \in Process : tr'[q] \in {tr[q], mem, cfg}
      BY <2>1, Zenon DEF RequestLoad, LoadTrade, storeVars, TypeOK
    <3> QED
      BY <3>1, Zenon DEF Somewhere
  <2>2. CASE CacheFill(p)
    <3>1. Somewhere(s) \/ tr[p].status = s
      BY <2>2, UpdateMemSource, Zenon DEF CacheFill
    <3> QED
      BY <3>1, Zenon DEF Somewhere
  <2>3. CASE SquaringOffMem(p)
    BY <1>1, <1>2, <2>3, UpdateMemSource, Zenon DEF SquaringOffMem
  <2>4. CASE PartialMem(p)
    <3>1. PICK percent \in Percents :
             UpdateMem(p, [status |-> "PARTIAL",
                           qty |-> [l \in Legs |-> Scaled(tr[p].qty[l], percent)]],
                       "partialDb")
      BY <2>4, Zenon DEF PartialMem
    <3> QED
      BY <3>1, UpdateMemSource, SMTT(30)
  <2>5. CASE SquaringOffDb(p) \/ CloseDb(p) \/ PartialDb(p)
    BY <2>5, UpsertSource, Zenon DEF SquaringOffDb, CloseDb, PartialDb, UpdateDb
  <2>6. CASE ReadOnly(p) \/ Refuse(p) \/ SquareOffRead(p) \/ SquareOffInsert(p)
             \/ RuntimeLoad(p) \/ RuntimeStop(p) \/ NotExecuted(p)
             \/ ExecuteLeg(p) \/ RecordLeg(p) \/ HedgeInsert(p)
             \/ ManualPlan(p) \/ ManualExecute(p) \/ RefreshRead(p)
             \/ RefreshWrite(p)
    <3>1. mem' = mem /\ cfg' = cfg /\ tr' = tr
      BY <2>6, ZenonT(30)
         DEF ReadOnly, Refuse, SquareOffRead, SquareOffInsert, RuntimeLoad,
                  RuntimeStop, NotExecuted, ExecuteLeg, RecordLeg, HedgeInsert,
                  ManualPlan, ManualExecute, RefreshRead, RefreshWrite, Move,
                  AppendIntents, insertOrderIntents, MarkOrderExecution, storeVars
    <3> QED
      BY <3>1, Zenon DEF Somewhere
  <2> QED
    BY <1>4, <2>1, <2>2, <2>3, <2>4, <2>5, <2>6, Zenon DEF RequestStep, SquareOffStep
<1>5. CASE Tick \/ UNCHANGED vars \/ \E x \in Ticket : Market(x) \/ Reconcile(x)
  <2>1. mem' = mem /\ cfg' = cfg /\ tr' = tr
    BY <1>5, ZenonT(30) DEF Tick, Market, Reconcile, vars, storeVars
  <2> QED
    BY <2>1, Zenon DEF Somewhere
<1>6. CASE Crash
  BY <1>6, Zenon DEF Crash, restartStore, NoTrade, Somewhere
<1>7. ASSUME NEW p \in Request, CloseMem(p)
      PROVE  Somewhere(s) \/ s = "CLOSED"
  BY <1>1, <1>2, <1>7, UpdateMemSource, Zenon DEF CloseMem
<1> QED
  BY <1>3, <1>4, <1>5, <1>6, <1>7, Zenon DEF Next, Idle

\* A trade is ACTIVE only when its build is complete, whatever requests,
\* restarts and lost writes come in between.
THEOREM ActiveCorrect == Spec => []ActiveIsBuilt
<1>1. Init => ActiveInv
  BY DEF Init, StoreInit, NoTrade, ActiveInv, Somewhere
<1>2. TypeOK /\ BuildInv /\ ActiveInv /\ [Next]_vars => ActiveInv'
  <2> SUFFICES ASSUME TypeOK, BuildInv, ActiveInv, [Next]_vars,
                      Somewhere("ACTIVE")'
               PROVE  Built'
    BY Zenon DEF ActiveInv
  <2>1. Somewhere("ACTIVE") \/ verdict = "ACTIVE"
    BY StatusSource, Zenon
  <2>2. Built
    BY <2>1, Zenon DEF ActiveInv, BuildInv, VerdictInv
  <2> QED
    BY <2>2, BuiltStays, Zenon
<1>3. ActiveInv => ActiveIsBuilt
  BY Zenon DEF ActiveInv, Somewhere, ActiveIsBuilt
<1> QED
  BY <1>1, <1>2, <1>3, TypeCorrect, BuildCorrect, PTL DEF Spec

-----------------------------------------------------------------------------
(* The build implements the promise *)

\* One step completes at most one build order.
LEMMA OneOrder ==
    ASSUME TypeOK, [Next]_vars
    PROVE  \E n \in BuildOrder :
              \A m \in BuildOrder \ {n} :
                 fill'[BuildTicket(m)] = fill[BuildTicket(m)]
<1> USE TicketTypes
<1>0. PICK n0 \in BuildOrder : TRUE
  BY GatewayAssumption DEF BuildOrder
<1>1. CASE DeployStep
  <2>1. CASE BuildExecute
    <3>1. PICK n \in todo, r \in Outcomes(OrderQty) :
             ExecuteOrderIntent(BuildTicket(n), r)
      BY <2>1, Zenon DEF BuildExecute
    <3>2. n \in BuildOrder
      BY Zenon DEF TypeOK
    <3> QED
      BY <3>1, <3>2, BuildCall, Zenon
  <2>2. CASE ~BuildExecute
    <3>1. fill' = fill
      BY <1>1, <2>2, ZenonT(30)
         DEF DeployStep, DeployStraddle, DeploySaveDb, BuildAppendIntent,
             BuildRecord, BuildRound, DeployFinishMem, DeployFinishDb,
             StartRuntime, UpdateMem, UpdateDb, brokerVars
    <3> QED
      BY <1>0, <3>1, Zenon
  <2> QED
    BY <2>1, <2>2, Zenon
<1>2. ASSUME NEW p \in Request, RequestStep(p)
      PROVE  \A m \in BuildOrder : fill'[BuildTicket(m)] = fill[BuildTicket(m)]
  BY <1>2, RequestFrame, ZenonT(30) DEF BuildFrame, SameBroker
<1>3. ASSUME NEW x \in Ticket, Market(x)
      PROVE  \E n \in BuildOrder :
                \A m \in BuildOrder \ {n} :
                   fill'[BuildTicket(m)] = fill[BuildTicket(m)]
  <2>1. ASSUME NEW y \in Ticket, y # x PROVE fill'[y] = fill[y]
    BY <1>3, <2>1, Zenon
       DEF Market, BrokerTrade, BrokerDrop, TypeOK, BrokerTypeOK
  <2>2. CASE \E n \in BuildOrder : x = BuildTicket(n)
    BY <2>1, <2>2, TicketsDiffer, Zenon
  <2>3. CASE ~\E n \in BuildOrder : x = BuildTicket(n)
    BY <1>0, <2>1, <2>3, Zenon
  <2> QED
    BY <2>2, <2>3, Zenon
<1>4. CASE (\E x \in Ticket : Reconcile(x)) \/ Tick \/ Crash \/ UNCHANGED vars
  <2>1. fill' = fill
    BY <1>4, ZenonT(30) DEF Reconcile, Tick, Crash, vars, brokerVars
  <2> QED
    BY <1>0, <2>1, Zenon
<1> QED
  BY <1>0, <1>1, <1>2, <1>3, <1>4, Zenon DEF Next, Idle

TradedOrders == {n \in BuildOrder : fill[BuildTicket(n)] >= OrderQty}

\* An order that completes does so after the build has started and after the
\* chunks before its own.
LEMMA TradeInTurn ==
    ASSUME TypeOK, BuildInv, BuildInv', [Next]_vars, TypeOK',
           TradedOrders' # TradedOrders
    PROVE  \E n \in BuildOrder :
              /\ TradedOrders' = TradedOrders \cup {n}
              /\ \A e \in BuildOrder : ChunkOf[e] < ChunkOf[n]
                                          => e \in TradedOrders
              /\ ~NotYet'
<1> USE TicketTypes
<1>1. PICK n \in BuildOrder :
         \A m \in BuildOrder \ {n} :
            fill'[BuildTicket(m)] = fill[BuildTicket(m)]
  BY OneOrder, Zenon
<1>2. \A m \in BuildOrder \ {n} : m \in TradedOrders' <=> m \in TradedOrders
  BY <1>1, Zenon DEF TradedOrders
<1>3. n \in TradedOrders => n \in TradedOrders'
  <2>1. fill[BuildTicket(n)] >= OrderQty => fill'[BuildTicket(n)] >= OrderQty
    BY FillGrows
  <2> QED
    BY <2>1, Zenon DEF TradedOrders
<1>4. TradedOrders \subseteq BuildOrder /\ TradedOrders' \subseteq BuildOrder
  BY Zenon DEF TradedOrders
<1>5. n \in TradedOrders' /\ n \notin TradedOrders
  BY <1>2, <1>3, <1>4
<1>6. TradedOrders' = TradedOrders \cup {n}
  BY <1>2, <1>4, <1>5, Zenon
<1>7. Exposure(n)' > 0
  <2>1. fill'[BuildTicket(n)] >= OrderQty
    BY <1>5, Zenon DEF TradedOrders
  <2>2. fill'[BuildTicket(n)] \in Nat /\ open'[BuildTicket(n)] \in Nat
    BY Zenon DEF TypeOK, BrokerTypeOK
  <2> QED
    BY <2>1, <2>2 DEF Exposure
<1>8. ASSUME NEW e \in BuildOrder, ChunkOf[e] < ChunkOf[n]
      PROVE  e \in TradedOrders
  <2>1. Filled(e)'
    BY <1>7, <1>8, Zenon DEF BuildInv, ChunkInv
  <2>2. e # n
    BY <1>8, GatewayAssumption
  <2> QED
    BY <1>2, <2>1, <2>2, Zenon DEF TradedOrders, Filled
<1>9. ~NotYet'
  BY <1>7 DEF BuildInv, UntouchedInv
<1> QED
  BY <1>6, <1>8, <1>9, Zenon

\* How a step moves the phase of the build.
LEMMA PhaseStep ==
    ASSUME TypeOK, BuildInv, BuildInv', [Next]_vars
    PROVE  \/ BuildPhase' = BuildPhase
           \/ BuildPhase = "idle" /\ BuildPhase' = "building"
           \/ BuildPhase = "building" /\ BuildPhase' = "failed"
           \/ BuildPhase = "building" /\ BuildPhase' = "built" /\ Built'
<1> USE TicketTypes
<1>1. /\ verdict = "ACTIVE" => Built
      /\ (verdict = "ACTIVE" => Built)'
      /\ pc[Deployer] \in {"idle", "saveDb", "append", "execute", "record"}
            => verdict = "FAILED"
  BY Zenon DEF BuildInv, VerdictInv, NotYet, Working
<1>0. pc \in [Process -> BuildPC \cup RequestPC]
  BY Zenon DEF TypeOK
<1>2. CASE pc'[Deployer] = pc[Deployer] /\ verdict' = verdict
  BY <1>2, Zenon DEF BuildPhase, At
<1>3. CASE DeployStep
  <2>1. CASE DeployStraddle
    BY <1>0, <1>1, <2>1, Zenon
       DEF DeployStraddle, UpdateMem, buildVars, BuildPhase, Goto, At
  <2>2. CASE DeploySaveDb
    BY <1>0, <1>1, <2>2, Zenon DEF DeploySaveDb, BuildPhase, Goto, At
  <2>3. CASE BuildAppendIntent \/ BuildExecute
    BY <1>0, <1>1, <2>3, Zenon
       DEF BuildAppendIntent, BuildExecute, BuildPhase, Goto, At, buildVars
  <2>4. CASE BuildRecord
    BY <1>0, <1>1, <2>4, Zenon DEF BuildRecord, BuildPhase, Goto, At
  <2>5. CASE BuildRound
    BY <1>0, <1>1, <2>5, Zenon DEF BuildRound, BuildPhase, Goto, At
  <2>6. CASE DeployFinishMem \/ DeployFinishDb \/ StartRuntime
    BY <2>6, ZenonT(30)
       DEF DeployFinishMem, DeployFinishDb, StartRuntime, UpdateMem,
                UpdateDb, BuildPhase, Goto, At, TypeOK, buildVars
  <2> QED
    BY <1>3, <2>1, <2>2, <2>3, <2>4, <2>5, <2>6, ZenonT(30) DEF DeployStep
<1>4. ASSUME NEW p \in Request, RequestStep(p)
      PROVE  pc'[Deployer] = pc[Deployer] /\ verdict' = verdict
  BY <1>4, RequestFrame, ZenonT(30) DEF BuildFrame, buildVars
<1>5. CASE Tick \/ UNCHANGED vars \/ \E x \in Ticket : Market(x) \/ Reconcile(x)
  BY <1>2, <1>5, ZenonT(30) DEF Tick, Market, Reconcile, vars, buildVars
<1>6. CASE Crash
  BY <1>1, <1>6, Zenon DEF Crash, BuildPhase, At
<1> QED
  BY <1>2, <1>3, <1>4, <1>5, <1>6, Zenon DEF Next, Idle

\* A step that trades leaves the phase alone.
LEMMA FillKeepsPhase ==
    ASSUME TypeOK, BuildInv, [Next]_vars, fill' # fill
    PROVE  BuildPhase' = BuildPhase
<1> USE TicketTypes
<1>1. CASE DeployStep
  <2>1. BuildExecute
    BY <1>1, ZenonT(30)
       DEF DeployStep, DeployStraddle, DeploySaveDb, BuildAppendIntent,
                BuildRecord, BuildRound, DeployFinishMem, DeployFinishDb,
                StartRuntime, UpdateMem, UpdateDb, brokerVars
  <2>2. verdict = "FAILED"
    BY <2>1, Zenon DEF BuildExecute, At, BuildInv, VerdictInv, Working
  <2> QED
    BY <2>1, <2>2, Zenon DEF BuildExecute, BuildPhase, Goto, At, TypeOK
<1>2. ASSUME NEW p \in Request, RequestStep(p)
      PROVE  pc'[Deployer] = pc[Deployer] /\ verdict' = verdict
  BY <1>2, RequestFrame, ZenonT(30) DEF BuildFrame, buildVars
<1>3. ASSUME NEW x \in Ticket, Market(x)
      PROVE  pc'[Deployer] = pc[Deployer] /\ verdict' = verdict
  BY <1>3, Zenon DEF Market, buildVars
<1>4. ~((\E x \in Ticket : Reconcile(x)) \/ Tick \/ Crash \/ UNCHANGED vars)
  BY ZenonT(30) DEF Reconcile, Tick, Crash, vars, brokerVars
<1>5. CASE pc'[Deployer] = pc[Deployer] /\ verdict' = verdict
  BY <1>5, ZenonT(30) DEF BuildPhase, At
<1> QED
  BY <1>1, <1>2, <1>3, <1>4, <1>5, ZenonT(30) DEF Next, Idle

\* executeBuild, with its retries, and whatever runs beside it, implements
\* the chunk-by-chunk build that BuildPromise describes.
THEOREM GatewayKeepsPromise == Spec => KeepsPromise
<1>1. Init => Promise!Init
  <2> SUFFICES ASSUME Init PROVE Promise!Init
    BY Zenon
  <2>1. BuildPhase = "idle"
    BY TicketTypes, Zenon DEF Init, BuildPhase, At
  <2>2. {n \in BuildOrder : fill[BuildTicket(n)] >= OrderQty} = {}
    BY TicketTypes DEF Init, BrokerInit
  <2> QED
    BY <2>1, <2>2, Zenon DEF Promise!Init
<1>2. TypeOK /\ TypeOK' /\ BuildInv /\ BuildInv' /\ [Next]_vars
         => [Promise!Next]_Promise!promiseVars
  <2> SUFFICES ASSUME TypeOK, TypeOK', BuildInv, BuildInv', [Next]_vars
               PROVE  [Promise!Next]_Promise!promiseVars
    BY Zenon
  <2>1. CASE TradedOrders' = TradedOrders
    <3>1. Built' => TradedOrders = BuildOrder
      BY <2>1, Zenon DEF Built, TradedOrders
    <3> QED
      BY <2>1, <3>1, PhaseStep, Zenon
         DEF TradedOrders, Promise!Next, Promise!promiseVars, Promise!Start,
             Promise!Complete, Promise!GiveUp
  <2>2. CASE TradedOrders' # TradedOrders
    <3>1. PICK n \in BuildOrder :
             /\ TradedOrders' = TradedOrders \cup {n}
             /\ \A e \in BuildOrder : ChunkOf[e] < ChunkOf[n]
                                         => e \in TradedOrders
             /\ ~NotYet'
      BY <2>2, TradeInTurn, Zenon
    <3>2. BuildPhase # "idle" /\ BuildPhase' = BuildPhase
      <4>1. fill' # fill
        BY <2>2, Zenon DEF TradedOrders
      <4>2. BuildPhase' = BuildPhase
        BY <4>1, FillKeepsPhase, Zenon
      <4> QED
        BY <3>1, <4>2, Zenon DEF BuildPhase, NotYet, At
    <3>3. Promise!Trade(n)
      BY <3>1, <3>2, Zenon DEF TradedOrders, Promise!Trade, Promise!Earlier
    <3> QED
      BY <3>3, Zenon DEF Promise!Next
  <2> QED
    BY <2>1, <2>2, Zenon
<1> QED
  BY <1>1, <1>2, TypeCorrect, BuildCorrect, PTL
     DEF Spec, KeepsPromise, Promise!Spec

-----------------------------------------------------------------------------
(* The inductive invariant of square-off *)

Closing(p) == pc[p] \in {"closeMem", "closeDb"}
LegFilled(p, l) == fill[LegTicket(p, l)] >= Abs(want[p][l])
Executing(p) == kind[p] = "SQF" /\ pc[p] \in {"insert", "sqMem", "sqDb",
                   "rtLoad", "rtStop", "gate", "execute", "record"}

\* The legs that a square-off has behind it are filled as long as allFilled
\* says so, and so is the leg whose outcome waits to be recorded if that says
\* so.
LegsDone(p) ==
    /\ Traded(want[p]) # {}
    /\ allFilled[p] => \A l \in Traded(want[p]) \ legs[p] : LegFilled(p, l)
    /\ pc[p] = "record" /\ SqfFilled(res[p].status)
          => \A l \in legs[p] : NextLeg(p, l) => LegFilled(p, l)

\* Only square-off closes, and it has traded out by then.
RequestInv(p) ==
    /\ Executing(p) => LegsDone(p)
    /\ Closing(p) => TradedOut(p)

HasTradedOut == \E p \in Request :
                   TradedOut(p) /\ pc[p] \in {"closeMem", "closeDb", "done"}
ClosedInv == Somewhere("CLOSED") => HasTradedOut

SquareOffInv == (\A p \in Request : RequestInv(p)) /\ ClosedInv

-----------------------------------------------------------------------------
(* The steps of others *)

\* A leg that is filled stays filled.
LEMMA LegStays ==
    ASSUME TypeOK, [Next]_vars, NEW p \in Request, NEW l \in Legs,
           want'[p] = want[p], LegFilled(p, l)
    PROVE  LegFilled(p, l)'
<1>1. LegTicket(p, l) \in Ticket
  BY TicketTypes, Zenon
<1>2. Abs(want[p][l]) \in Int
  BY DEF TypeOK, Abs
<1>3. fill'[LegTicket(p, l)] >= fill[LegTicket(p, l)]
      /\ fill[LegTicket(p, l)] \in Nat /\ fill'[LegTicket(p, l)] \in Nat
  BY <1>1, FillGrows, Zenon
<1>4. fill[LegTicket(p, l)] >= Abs(want[p][l])
  BY Zenon DEF LegFilled
<1>5. Abs(want'[p][l]) = Abs(want[p][l])
  BY Zenon
<1> QED
  BY <1>2, <1>3, <1>4, <1>5 DEF LegFilled

\* A request that has traded out has, as long as its plan stands.
LEMMA TradedOutStays ==
    ASSUME TypeOK, [Next]_vars, NEW p \in Request, want'[p] = want[p],
           kind'[p] = kind[p], TradedOut(p)
    PROVE  TradedOut(p)'
<1>1. Traded(want'[p]) = Traded(want[p]) /\ Traded(want[p]) \subseteq Legs
  BY Zenon DEF Traded
<1>2. ASSUME NEW l \in Traded(want[p]) PROVE LegFilled(p, l)'
  BY <1>1, LegStays, Zenon DEF TradedOut, LegFilled
<1> QED
  BY <1>1, <1>2, Zenon DEF TradedOut, LegFilled

\* Steps of others keep what is known of a request.
LEMMA OthersInv ==
    ASSUME TypeOK, [Next]_vars, NEW p \in Request, Undisturbed(p), RequestInv(p)
    PROVE  RequestInv(p)'
<1>1. Traded(want'[p]) = Traded(want[p]) /\ Traded(want[p]) \subseteq Legs
  BY Zenon DEF Traded, Undisturbed
<1>2. (Executing(p)' <=> Executing(p)) /\ (Closing(p)' <=> Closing(p))
  BY Zenon DEF Executing, Closing, Undisturbed
<1>3. \A l \in Legs : LegFilled(p, l) => LegFilled(p, l)'
  BY LegStays, Zenon DEF Undisturbed
<1>4. \A l \in Legs : NextLeg(p, l)' <=> NextLeg(p, l)
  BY Zenon DEF NextLeg, Undisturbed
<1>5. legs[p] \subseteq Legs
  BY Zenon DEF TypeOK
<1>6. LegsDone(p) => LegsDone(p)'
  BY <1>1, <1>3, <1>4, <1>5, Zenon DEF LegsDone, Undisturbed
<1>7. TradedOut(p) => TradedOut(p)'
  BY TradedOutStays, Zenon DEF Undisturbed
<1> QED
  BY <1>2, <1>6, <1>7, Zenon DEF RequestInv

-----------------------------------------------------------------------------
(* The steps of a request itself *)

\* Steps that leave the plan alone and only move the request on.
LEMMA MovesOn ==
    ASSUME TypeOK, [Next]_vars, NEW p \in Request, RequestInv(p),
           want'[p] = want[p], legs'[p] = legs[p], allFilled'[p] = allFilled[p],
           kind'[p] = kind[p], pc'[p] # "record",
           Executing(p)' => Executing(p), Closing(p)' => Closing(p)
    PROVE  RequestInv(p)'
<1>1. Traded(want'[p]) = Traded(want[p]) /\ Traded(want[p]) \subseteq Legs
  BY Zenon DEF Traded
<1>2. \A l \in Legs : LegFilled(p, l) => LegFilled(p, l)'
  BY LegStays, Zenon
<1>3. LegsDone(p) => LegsDone(p)'
  BY <1>1, <1>2, ZenonT(30) DEF LegsDone
<1>4. TradedOut(p) => TradedOut(p)'
  BY TradedOutStays, Zenon
<1> QED
  BY <1>3, <1>4, Zenon DEF RequestInv

\* A call that comes back with a fill has filled its leg.
LEMMA ExecuteLegInv ==
    ASSUME TypeOK, [Next]_vars, NEW p \in Request, RequestInv(p), ExecuteLeg(p)
    PROVE  RequestInv(p)'
<1> USE TicketTypes
<1>1. PICK l \in legs[p] : \E r \in Outcomes(Abs(want[p][l])) :
         /\ NextLeg(p, l)
         /\ ExecuteOrderIntent(LegTicket(p, l), r)
         /\ \/ /\ r.status = "ERR"
               /\ Goto(p, "done")
               /\ UNCHANGED res
            \/ /\ r.status # "ERR"
               /\ res' = [res EXCEPT ![p] = r]
               /\ Goto(p, "record")
  BY Zenon DEF ExecuteLeg
<1>2. PICK r \in Outcomes(Abs(want[p][l])) :
         /\ NextLeg(p, l)
         /\ ExecuteOrderIntent(LegTicket(p, l), r)
         /\ \/ /\ r.status = "ERR"
               /\ Goto(p, "done")
               /\ UNCHANGED res
            \/ /\ r.status # "ERR"
               /\ res' = [res EXCEPT ![p] = r]
               /\ Goto(p, "record")
  BY <1>1, Zenon
<1>3. /\ want' = want /\ legs' = legs /\ allFilled' = allFilled
      /\ kind' = kind /\ lead' = lead
      /\ pc[p] \in {"gate", "execute"}
  BY Zenon DEF ExecuteLeg, planVars, At
<1>4. CASE r.status = "ERR"
  <2>1. pc'[p] = "done"
    BY <1>2, <1>4, Zenon DEF Goto, TypeOK
  <2> QED
    BY <2>1, Zenon DEF RequestInv, Executing, Closing
<1>5. CASE r.status # "ERR"
  <2>1. pc'[p] = "record" /\ res'[p] = r
    BY <1>2, <1>5, Zenon DEF Goto, TypeOK
  <2>2. l \in Legs /\ want[p][l] \in Int
    BY SMTT(30) DEF TypeOK
  <2>3. Abs(want[p][l]) \in Nat
    BY <2>2, AbsType, Zenon
  <2>4. r.filled \in Nat /\ (r.status = "FILLED" => r.filled = Abs(want[p][l]))
    BY <2>3, OutcomeType, Zenon
  <2>5. /\ fill[LegTicket(p, l)] \in Nat
        /\ fill'[LegTicket(p, l)] = fill[LegTicket(p, l)] + r.filled
    <3>1. fill \in [Ticket -> Nat]
      BY ZenonT(30) DEF TypeOK, BrokerTypeOK
    <3> QED
      BY <1>2, <2>2, <3>1, Zenon DEF ExecuteOrderIntent
  <2>6. r.status = "FILLED" => fill'[LegTicket(p, l)] >= Abs(want[p][l])
    BY <2>3, <2>4, <2>5, SMTT(30)
  <2>7. \A k \in legs[p] : NextLeg(p, k)' => k = l
    <3>1. \A k \in legs[p] : NextLeg(p, k)' => NextLeg(p, k)
      BY <1>3, Zenon DEF NextLeg
    <3> QED
      BY <1>2, <3>1, NextLegUnique, Zenon
  <2>8. SqfFilled(res'[p].status)
           => \A k \in legs'[p] : NextLeg(p, k)' => LegFilled(p, k)'
    BY <1>3, <2>1, <2>6, <2>7, Zenon DEF SqfFilled, LegFilled
  <2>9. Traded(want'[p]) = Traded(want[p]) /\ Traded(want[p]) \subseteq Legs
    BY <1>3, Zenon DEF Traded
  <2>10. \A k \in Legs : LegFilled(p, k) => LegFilled(p, k)'
    BY <1>3, LegStays, Zenon
  <2>11. Executing(p)' => Executing(p) /\ ~Closing(p)'
    BY <1>3, <2>1, Zenon DEF Executing, Closing
  <2>12. LegsDone(p) => LegsDone(p)'
    BY <1>3, <2>8, <2>9, <2>10, Zenon DEF LegsDone
  <2>13. ~Closing(p)'
    BY <2>1, Zenon DEF Closing
  <2> QED
    BY <2>11, <2>12, <2>13, ZenonT(30) DEF RequestInv
<1> QED
  BY <1>4, <1>5, Zenon

\* The recorded leg joins the legs behind it; after the last one, a square-off
\* goes on to close only if all of them are filled.
LEMMA RecordLegInv ==
    ASSUME TypeOK, [Next]_vars, NEW p \in Request, RequestInv(p), RecordLeg(p)
    PROVE  RequestInv(p)'
<1> USE TicketTypes
<1>1. PICK l \in legs[p] : NextLeg(p, l) /\ legs' = [legs EXCEPT ![p] = @ \ {l}]
  BY ZenonT(30) DEF RecordLeg
<1>2. /\ legs'[p] = legs[p] \ {l}
      /\ (allFilled'[p] <=> allFilled[p] /\ SqfFilled(res[p].status))
      /\ pc'[p] = AfterLeg(p, legs'[p], allFilled'[p])
      /\ pc[p] = "record" /\ want' = want /\ kind' = kind
  BY <1>1, ZenonT(30) DEF RecordLeg, TypeOK, Goto, At
<1>3. CASE kind[p] # "SQF"
  BY <1>2, <1>3, ZenonT(30) DEF RequestInv, Executing, Closing, AfterLeg
<1>4. CASE kind[p] = "SQF"
  <2>1. LegsDone(p)
    BY <1>2, <1>4, Zenon DEF RequestInv, Executing
  <2>2. Traded(want'[p]) = Traded(want[p]) /\ Traded(want[p]) \subseteq Legs
    BY <1>2, Zenon DEF Traded
  <2>3. allFilled'[p] => \A k \in Traded(want[p]) \ legs'[p] : LegFilled(p, k)
    BY <1>1, <1>2, <2>1, ZenonT(30) DEF LegsDone
  <2>4. \A k \in Legs : LegFilled(p, k) => LegFilled(p, k)'
    BY <1>2, LegStays, Zenon
  <2>5. allFilled'[p] => \A k \in Traded(want'[p]) \ legs'[p] : LegFilled(p, k)'
    BY <2>2, <2>3, <2>4, Zenon
  <2>6. CASE legs'[p] # {}
    <3>1. pc'[p] = "execute"
      BY <1>2, <2>6, ZenonT(30) DEF AfterLeg
    <3>2. LegsDone(p)'
      BY <2>1, <2>2, <2>5, <3>1, ZenonT(30) DEF LegsDone
    <3> QED
      BY <3>1, <3>2, Zenon DEF RequestInv, Closing
  <2>7. CASE legs'[p] = {} /\ allFilled'[p]
    <3>1. pc'[p] = "closeMem"
      BY <1>2, <1>4, <2>7, ZenonT(30) DEF AfterLeg
    <3>2. TradedOut(p)'
      BY <1>2, <1>4, <2>1, <2>2, <2>5, <2>7, ZenonT(30)
         DEF LegsDone, TradedOut, LegFilled
    <3> QED
      BY <3>1, <3>2, Zenon DEF RequestInv, Executing
  <2>8. CASE legs'[p] = {} /\ ~allFilled'[p]
    <3>1. pc'[p] = "done"
      BY <1>2, <2>8, Zenon DEF AfterLeg
    <3> QED
      BY <3>1, Zenon DEF RequestInv, Executing, Closing
  <2> QED
    BY <2>6, <2>7, <2>8, ZenonT(30)
<1> QED
  BY <1>3, <1>4, Zenon

\* Every step of a request keeps what is known of it.
LEMMA OwnInv ==
    ASSUME TypeOK, [Next]_vars, NEW p \in Request, RequestInv(p), RequestStep(p)
    PROVE  RequestInv(p)'
<1> USE TicketTypes
<1>1. \A next : pc' = [pc EXCEPT ![p] = next] => pc'[p] = next
  BY Zenon DEF TypeOK
<1>2. CASE ExecuteLeg(p)
  BY <1>2, ExecuteLegInv, Zenon
<1>3. CASE RecordLeg(p)
  BY <1>3, RecordLegInv, Zenon
<1>4. CASE SquareOffRead(p)
  <2> DEFINE q == [l \in Legs |-> -NetPosition(rows, l)]
  <2>1. /\ Traded(q) # {}
        /\ want'[p] = q /\ legs'[p] = Traded(q) /\ pc'[p] = "insert"
    BY <1>1, <1>4, ZenonT(30) DEF SquareOffRead, Goto, TypeOK
  <2> HIDE DEF q
  <2>2. LegsDone(p)'
    BY <2>1, ZenonT(30) DEF LegsDone
  <2> QED
    BY <2>1, <2>2, Zenon DEF RequestInv, Closing
<1>5. CASE SquareOffInsert(p) \/ SquaringOffMem(p) \/ SquaringOffDb(p)
           \/ RuntimeLoad(p) \/ RuntimeStop(p) \/ CloseMem(p)
  <2>1. /\ want' = want /\ legs' = legs /\ allFilled' = allFilled
        /\ kind' = kind
        /\ \/ /\ pc[p] \in {"insert", "sqMem", "sqDb", "rtLoad", "rtStop"}
              /\ pc'[p] \in {"sqMem", "sqDb", "rtLoad", "rtStop", "gate", "panic"}
           \/ pc[p] = "closeMem" /\ pc'[p] = "closeDb"
    BY <1>1, <1>5, ZenonT(30)
       DEF SquareOffInsert, SquaringOffMem, SquaringOffDb, RuntimeLoad,
                      RuntimeStop, CloseMem, UpdateMem, UpdateDb, Move, Goto, At,
                      planVars
  <2>2. /\ Executing(p)' => Executing(p)
        /\ Closing(p)' => Closing(p)
        /\ pc'[p] # "record"
    BY <2>1, ZenonT(30) DEF Executing, Closing
  <2> QED
    BY <2>1, <2>2, MovesOn, Zenon
<1>6. CASE RequestLoad(p) \/ CacheFill(p) \/ ReadOnly(p) \/ Refuse(p)
           \/ NotExecuted(p) \/ CloseDb(p) \/ PartialMem(p) \/ PartialDb(p)
           \/ RefreshRead(p) \/ RefreshWrite(p)
  <2>1. pc'[p] \in {"loaded", "cache", "done", "partialDb", "refreshDb"}
    BY <1>1, <1>6, ZenonT(30)
       DEF RequestLoad, CacheFill, ReadOnly, Refuse, NotExecuted,
                      CloseDb, PartialMem, PartialDb, RefreshRead, RefreshWrite,
                      UpdateMem, UpdateDb, Move, Goto
  <2> QED
    BY <2>1, ZenonT(30) DEF RequestInv, Executing, Closing
<1>7. CASE HedgeInsert(p) \/ ManualPlan(p) \/ ManualExecute(p)
  <2>1. /\ kind'[p] # "SQF"
        /\ pc'[p] \in {"gate", "execute", "done"}
    BY <1>1, <1>7, ZenonT(30) DEF HedgeInsert, ManualPlan, ManualExecute, Goto
  <2> QED
    BY <2>1, ZenonT(30) DEF RequestInv, Executing, Closing
<1> QED
  BY <1>2, <1>3, <1>4, <1>5, <1>6, <1>7, Zenon DEF RequestStep, SquareOffStep

\* A square-off that has traded out is there for good.
LEMMA HasTradedOutStays ==
    ASSUME TypeOK, [Next]_vars, HasTradedOut
    PROVE  HasTradedOut'
<1>1. PICK p \in Request :
         TradedOut(p) /\ pc[p] \in {"closeMem", "closeDb", "done"}
  BY Zenon DEF HasTradedOut
<1>2. /\ want'[p] = want[p] /\ kind'[p] = kind[p]
      /\ pc'[p] \in {"closeMem", "closeDb", "done"}
  <2>1. CASE RequestStep(p)
    <3>1. CloseMem(p) \/ CloseDb(p)
      BY <1>1, <2>1, ZenonT(30)
         DEF RequestStep, SquareOffStep, RequestLoad, CacheFill, ReadOnly,
             Refuse, SquareOffRead, SquareOffInsert, SquaringOffMem,
             SquaringOffDb, RuntimeLoad, RuntimeStop, NotExecuted, ExecuteLeg,
             RecordLeg, PartialMem, PartialDb, HedgeInsert, ManualPlan,
             ManualExecute, RefreshRead, RefreshWrite, At
    <3> QED
      BY <3>1, TicketTypes, Zenon
         DEF CloseMem, CloseDb, UpdateMem, UpdateDb, Goto,
                               planVars, TypeOK
  <2>2. CASE Crash
    BY <1>1, <2>2, CrashEnds, Zenon
  <2>3. CASE ~RequestStep(p) /\ ~Crash
    BY <1>1, <2>3, OthersKeep, Zenon DEF Undisturbed
  <2> QED
    BY <2>1, <2>2, <2>3, Zenon
<1>3. TradedOut(p)'
  BY <1>1, <1>2, TradedOutStays, Zenon
<1> QED
  BY <1>2, <1>3, Zenon DEF HasTradedOut

\* The invariant of square-off is inductive.
LEMMA SquareOffNext ==
    TypeOK /\ SquareOffInv /\ [Next]_vars => SquareOffInv'
<1> SUFFICES ASSUME TypeOK, SquareOffInv, [Next]_vars PROVE SquareOffInv'
  BY Zenon
<1>1. ASSUME NEW p \in Request PROVE RequestInv(p)'
  <2>1. CASE RequestStep(p)
    BY <2>1, OwnInv, Zenon DEF SquareOffInv
  <2>2. CASE Crash
    BY <2>2, CrashEnds, Zenon DEF RequestInv, Executing, Closing
  <2>3. CASE ~RequestStep(p) /\ ~Crash
    BY <2>3, OthersKeep, OthersInv, Zenon DEF SquareOffInv
  <2> QED
    BY <2>1, <2>2, <2>3, Zenon
<1>2. ASSUME Somewhere("CLOSED")' PROVE HasTradedOut'
  <2>1. Somewhere("CLOSED") \/ \E p \in Request : CloseMem(p)
    BY <1>2, StatusSource, Zenon
  <2>2. ASSUME NEW p \in Request, CloseMem(p) PROVE HasTradedOut
    BY <2>2, Zenon DEF CloseMem, At, SquareOffInv, RequestInv, Closing, HasTradedOut
  <2>3. HasTradedOut
    BY <2>1, <2>2, Zenon DEF SquareOffInv, ClosedInv
  <2> QED
    BY <2>3, HasTradedOutStays, Zenon
<1> QED
  BY <1>1, <1>2, Zenon DEF SquareOffInv, ClosedInv

\* A trade is CLOSED only if a SquareOff has bought back everything it set
\* out to, whatever else ran at the same time.
THEOREM ClosedCorrect == Spec => []ClosedIsTradedOut
<1>1. Init => SquareOffInv
  BY TicketTypes DEF Init, StoreInit, NoTrade, SquareOffInv, RequestInv,
                     Executing, Closing, ClosedInv, Somewhere
<1>2. SquareOffInv => ClosedIsTradedOut
  BY Zenon DEF SquareOffInv, ClosedInv, Somewhere, HasTradedOut, ClosedIsTradedOut
<1> QED
  BY <1>1, <1>2, SquareOffNext, TypeCorrect, PTL DEF Spec

-----------------------------------------------------------------------------
(* A filled build order is final *)

\* A build order that has still to be placed, or is being placed, has no row that
\* says it is live or filled.
ToPlace(n) ==
    \/ NotYet
    \/ Working /\ (n \in todo \cup nextRetry \/ chunk < ChunkOf[n])
Unplaced(n) ==
    ToPlace(n) => rows[BuildId(n)].status \notin {"OPEN", "PARTIALLY_FILLED", "FILLED"}
UnplacedInv == \A n \in BuildOrder : Unplaced(n)

\* Nothing but its own record takes an order off the list.
LEMMA StillToPlace ==
    ASSUME TypeOK, BuildInv, [Next]_vars, NEW n \in BuildOrder, ToPlace(n)'
    PROVE  ToPlace(n) /\ (BuildRecord /\ IsNext(n) => BuildRetryable(res[Deployer].status))
<1> USE TicketTypes
<1>0. BuildRecord => pc[Deployer] = "record"
  BY Zenon DEF BuildRecord, At
<1>1. \A next : Goto(Deployer, next) => pc'[Deployer] = next
  BY Zenon DEF Goto, TypeOK
<1>2. CASE DeployStraddle
  <2>1. NotYet /\ ~BuildRecord
    BY <1>0, <1>2 DEF DeployStraddle, At, NotYet
  <2> QED
    BY <2>1, Zenon DEF ToPlace
<1>3. CASE DeploySaveDb
  <2>1. NotYet /\ ~BuildRecord
    BY <1>0, <1>3 DEF DeploySaveDb, At, NotYet
  <2> QED
    BY <2>1, Zenon DEF ToPlace
<1>4. CASE BuildAppendIntent
  <2>1. pc[Deployer] = "append" /\ UNCHANGED buildVars /\ pc'[Deployer] = "execute"
    BY <1>1, <1>4, Zenon DEF BuildAppendIntent, At
  <2> QED
    BY <2>1, Zenon DEF ToPlace, Working, NotYet, BuildRecord, buildVars, At
<1>5. CASE BuildExecute
  <2>1. /\ pc[Deployer] = "execute" /\ chunk' = chunk
        /\ todo' \cup nextRetry' = todo \cup nextRetry
        /\ pc'[Deployer] \in {"append", "record"}
    BY <1>1, <1>5, ZenonT(30) DEF BuildExecute, At
  <2> QED
    BY <2>1, Zenon DEF ToPlace, Working, NotYet, BuildRecord, At
<1>6. CASE BuildRecord
  <2>1. PICK m \in todo :
           /\ IsNext(m)
           /\ \/ /\ todo' = todo \ {m} /\ nextRetry' = nextRetry
                 /\ Goto(Deployer, "append")
              \/ /\ BuildRetryable(res[Deployer].status)
                 /\ todo' = todo \ {m} /\ nextRetry' = nextRetry \cup {m}
                 /\ Goto(Deployer, "append")
              \/ Goto(Deployer, "finishMem")
    BY <1>6, Zenon DEF BuildRecord
  <2>2. pc[Deployer] = "record" /\ chunk' = chunk
    BY <1>6, Zenon DEF BuildRecord, At
  <2>3. Working' /\ ~NotYet' /\ Working
    BY <1>1, <2>1, <2>2, Zenon DEF Working, NotYet, ToPlace
  <2>4. todo' \cup nextRetry' \subseteq todo \cup nextRetry
    BY <1>1, <2>1, <2>3, Zenon DEF Working
  <2>5. ToPlace(n)
    BY <2>2, <2>3, <2>4, Zenon DEF ToPlace
  <2>6. ASSUME IsNext(n) PROVE BuildRetryable(res[Deployer].status)
    <3>1. n = m
      BY <2>1, <2>6, NextUnique, Zenon
    <3>2. n \notin nextRetry /\ n \in ChunkOrders(chunk)
      BY <2>1, <2>3, <3>1, Zenon DEF BuildInv, RoundInv
    <3>3. ~(chunk < ChunkOf[n])
      BY <3>2, GatewayAssumption DEF ChunkOrders, TypeOK
    <3>4. n \in todo' \cup nextRetry'
      BY <2>2, <2>3, <3>3, Zenon DEF ToPlace
    <3> QED
      BY <1>1, <2>1, <2>3, <3>1, <3>2, <3>4, Zenon DEF Working
  <2> QED
    BY <2>5, <2>6, Zenon
<1>7. CASE BuildRound
  <2>1. pc[Deployer] = "append"
    BY <1>7, Zenon DEF BuildRound, At
  <2>2. \/ todo' = nextRetry /\ nextRetry' = {} /\ chunk' = chunk
        \/ pc'[Deployer] = "finishMem"
        \/ nextRetry' = {} /\ chunk' = chunk + 1 /\ todo' = ChunkOrders(chunk + 1)
    BY <1>1, <1>7, Zenon DEF BuildRound
  <2>3. chunk' = chunk + 1 /\ todo' = ChunkOrders(chunk + 1) /\ nextRetry' = {}
          => (n \in todo' \cup nextRetry' \/ chunk' < ChunkOf[n] => chunk < ChunkOf[n])
    BY GatewayAssumption DEF ChunkOrders, TypeOK
  <2>4. Working /\ ~NotYet' /\ (Working' => pc'[Deployer] # "finishMem")
    <3>1. pc'[Deployer] \in {"append", "finishMem"}
      BY <1>1, <1>7, <2>1, Zenon DEF BuildRound
    <3> QED
      BY <2>1, <3>1 DEF Working, NotYet
  <2>5. n \in todo' \cup nextRetry' \/ chunk' < ChunkOf[n]
    BY <2>4, Zenon DEF ToPlace
  <2>6. n \in todo \cup nextRetry \/ chunk < ChunkOf[n]
    BY <2>2, <2>3, <2>4, <2>5, Zenon DEF ToPlace
  <2> QED
    BY <1>0, <2>1, <2>4, <2>6, Zenon DEF ToPlace
<1>8. CASE DeployFinishMem \/ DeployFinishDb \/ StartRuntime
  <2>1. pc'[Deployer] \in {"finishDb", "startRuntime", "done"}
    BY <1>1, <1>8, Zenon DEF DeployFinishMem, DeployFinishDb, StartRuntime, UpdateMem, UpdateDb
  <2> QED
    BY <2>1, Zenon DEF ToPlace, Working, NotYet
<1>9. CASE Crash
  <2>1. pc'[Deployer] = IF pc[Deployer] = "idle" THEN "idle" ELSE "done"
    BY <1>9, Zenon DEF Crash
  <2>2. pc[Deployer] = "idle"
    BY <2>1 DEF ToPlace, Working, NotYet
  <2> QED
    BY <1>0, <2>2 DEF ToPlace, NotYet
<1>10. ASSUME pc'[Deployer] = pc[Deployer], UNCHANGED buildVars
       PROVE  ToPlace(n)
  BY <1>10, Zenon DEF ToPlace, Working, NotYet, buildVars
<1>11. ASSUME NEW p \in Request, RequestStep(p)
       PROVE  ToPlace(n) /\ ~BuildRecord
  <2>1. BuildFrame
    BY <1>11, RequestFrame, Zenon
  <2>2. ~BuildRecord
    BY <1>1, <2>1, ZenonT(30) DEF BuildFrame, BuildRecord, At
  <2> QED
    BY <1>10, <2>1, <2>2, Zenon DEF BuildFrame
<1>12. CASE Tick \/ UNCHANGED vars \/ \E x \in Ticket : Market(x) \/ Reconcile(x)
  <2>1. pc' = pc /\ UNCHANGED buildVars
    BY <1>12, ZenonT(30) DEF Tick, Market, Reconcile, vars, buildVars
  <2>2. ~BuildRecord
    BY <1>1, <2>1, ZenonT(30) DEF BuildRecord, At
  <2> QED
    BY <1>10, <2>1, <2>2, Zenon
<1> QED
  BY <1>2, <1>3, <1>4, <1>5, <1>6, <1>7, <1>8, <1>9, <1>11, <1>12, Zenon
     DEF Next, Idle, DeployStep

\* The ids of the build orders differ from each other and are order ids.
LEMMA BuildIds ==
    /\ \A m, n \in BuildOrder : BuildId(m) = BuildId(n) => m = n
    /\ \A n \in BuildOrder : BuildId(n) \in OrderId
  BY GatewayAssumption DEF BuildId, AllIds

\* What may change the row of a build order.
LEMMA BuildRowChange ==
    ASSUME TypeOK, IdInv, [Next]_vars, NEW n \in BuildOrder,
           rows'[BuildId(n)] # rows[BuildId(n)]
    PROVE  \/ rows[BuildId(n)].status = "NONE" /\ rows'[BuildId(n)].status = "CREATED"
           \/ /\ BuildRecord /\ n \in todo /\ IsNext(n)
              /\ rows'[BuildId(n)].status = res[Deployer].status
           \/ rows[BuildId(n)].status \in {"OPEN", "PARTIALLY_FILLED"}
<1> DEFINE i == BuildId(n)
<1>1. i \in OrderId
  BY BuildIds, Zenon
<1>2. CASE Inserted(i)
  BY <1>2, Zenon DEF Inserted
<1>3. CASE BuildRecorded(i)
  <2>1. PICK m \in todo : /\ BuildRecord /\ IsNext(m) /\ i = BuildId(m)
                          /\ rows'[i].status = res[Deployer].status
    BY <1>3, Zenon DEF BuildRecorded
  <2>2. m = n
    BY <2>1, BuildIds, Zenon DEF TypeOK
  <2> QED
    BY <2>1, <2>2, Zenon
<1>4. ~LegRecorded(i)
  BY Zenon DEF LegRecorded, IdInv, TypeOK
<1>5. CASE Reconciled(i)
  BY <1>5, Zenon DEF Reconciled
<1> QED
  BY <1>1, <1>2, <1>3, <1>4, <1>5, RowChange, Zenon

\* An order yet to be placed keeps a row that is neither live nor filled.
LEMMA UnplacedNext ==
    TypeOK /\ BuildInv /\ IdInv /\ UnplacedInv /\ [Next]_vars => UnplacedInv'
<1> SUFFICES ASSUME TypeOK, BuildInv, IdInv, UnplacedInv, [Next]_vars,
                    NEW n \in BuildOrder, ToPlace(n)'
             PROVE  rows'[BuildId(n)].status \notin {"OPEN", "PARTIALLY_FILLED", "FILLED"}
  BY Zenon DEF UnplacedInv, Unplaced
<1>1. ToPlace(n) /\ (BuildRecord /\ IsNext(n) => BuildRetryable(res[Deployer].status))
  BY StillToPlace, Zenon
<1>2. rows[BuildId(n)].status \notin {"OPEN", "PARTIALLY_FILLED", "FILLED"}
  BY <1>1, Zenon DEF UnplacedInv, Unplaced
<1>3. CASE rows'[BuildId(n)] = rows[BuildId(n)]
  BY <1>2, <1>3, Zenon
<1>4. CASE rows'[BuildId(n)] # rows[BuildId(n)]
  <2>1. rows'[BuildId(n)].status = "CREATED" \/ BuildRetryable(rows'[BuildId(n)].status)
    BY <1>1, <1>2, <1>4, BuildRowChange, Zenon
  <2> QED
    BY <2>1 DEF BuildRetryable
<1> QED
  BY <1>3, <1>4, Zenon

\* Once the row of a build order says FILLED nothing changes it: no retry places
\* the order again, no reconciliation and no later request takes its id.
THEOREM FilledRowsFinal == Spec => FilledBuildRowIsFinal
<1>1. Init => UnplacedInv
  <2> SUFFICES ASSUME Init, NEW n \in BuildOrder PROVE rows[BuildId(n)].status = "NONE"
    BY DEF UnplacedInv, Unplaced
  <2>1. BuildId(n) \in OrderId
    BY BuildIds, Zenon
  <2> QED
    BY <2>1 DEF Init, StoreInit, NoRow
<1>2. TypeOK /\ BuildInv /\ FillInv /\ UnplacedInv /\ [Next]_vars => UnplacedInv'
  BY UnplacedNext, Zenon DEF FillInv
<1>3. ASSUME TypeOK, FillInv, UnplacedInv, [Next]_vars
      PROVE  [\A n \in BuildOrder : rows[BuildId(n)].status = "FILLED"
                => rows'[BuildId(n)] = rows[BuildId(n)]]_vars
  <2> SUFFICES ASSUME NEW n \in BuildOrder, rows[BuildId(n)].status = "FILLED",
                      rows'[BuildId(n)] # rows[BuildId(n)]
               PROVE  FALSE
    BY Zenon
  <2>1. BuildRecord /\ n \in todo
    BY <1>3, BuildRowChange DEF FillInv
  <2>2. ToPlace(n)
    BY <2>1, Zenon DEF BuildRecord, At, ToPlace, Working
  <2> QED
    BY <1>3, <2>2, Zenon DEF UnplacedInv, Unplaced
<1>4. TypeOK /\ FillInv /\ UnplacedInv /\ [Next]_vars
         => [\A n \in BuildOrder : rows[BuildId(n)].status = "FILLED"
                => rows'[BuildId(n)] = rows[BuildId(n)]]_vars
  BY <1>3, Zenon
<1> QED
  BY <1>1, <1>2, <1>4, TypeCorrect, BuildCorrect, FillsCovered, PTL
     DEF Spec, FilledBuildRowIsFinal

\* What the orders table says of fills is true: no filled_qty without the trades
\* that cover it, and no FILLED build row that anything overwrites.
THEOREM FillsCorrect == Spec => FillsTrue
<1>1. FillInv => \A i \in OrderId : FillCovered(i)
  BY Zenon DEF FillInv, NoPhantomFill
<1> QED
  BY <1>1, FillsCovered, FilledRowsFinal, PTL DEF FillsTrue
=============================================================================
