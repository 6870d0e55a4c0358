------------------------------ MODULE MCWorker ------------------------------
(***************************************************************************)
(* Small instances of TradeStateMachine: CE and PE in the first chunk, CE  *)
(* alone in the second.                                                    *)
(***************************************************************************)
EXTENDS TradeStateMachine

MCChunkOf == [i \in Intent |-> IF i <= 2 THEN 1 ELSE 2]
=============================================================================
