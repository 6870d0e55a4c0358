-------------------------- MODULE MCTradeDirectory --------------------------
(***************************************************************************)
(* Two callers in a gateway that restarts once, while a second passes, a   *)
(* statement is lost or a build order is placed again: two trades are      *)
(* deployed, under one uid or two, and a third request reads, lists or     *)
(* closes them in either life.                                             *)
(***************************************************************************)
EXTENDS TradeDirectory, TLC

\* Callers are not told apart.
Interchangeable == Permutations(Caller)

\* A bound: a behaviour in which a statement was lost is not followed once it
\* also has a build order placed again.
OneFailure == lost = 0 \/ \A p \in Caller : req[p].tries = 0
=============================================================================
