------------------------------ MODULE MCGateway ------------------------------
(***************************************************************************)
(* Small instances of ExecutionGateway.  A build of NumOrders orders is    *)
(* laid out as GenerateChunkedOrders lays out one lot per leg, with a      *)
(* second lot of CE when the delta neutral ratio asks for it: CE and PE in *)
(* the first chunk, CE alone in the second.                                *)
(***************************************************************************)
EXTENDS ExecutionGateway, TLC

MCLegOf == [n \in BuildOrder |-> IF n = 2 THEN "PE" ELSE "CE"]
MCChunkOf == [n \in BuildOrder |-> IF n <= 2 THEN 1 ELSE 2]
MCOrderId == AllIds
MCTicket == AllTickets

\* State constraint: requests come when DeployStraddle has returned.
AfterBuild == (\E p \in Request : Running(p)) => Finished(Deployer)
RequestSymmetry == Permutations(Request)

\* What the orders table says is true of the broker: no fill in it is invented,
\* the position it adds up to is the broker's once all is accounted for, and a
\* row of the build that says FILLED keeps saying so.
RecordsTrue == [](NoPhantomFill /\ BooksMatchBroker) /\ FilledBuildRowIsFinal

\* The recorded position is flat when a SquareOff closes the trade, and it is the
\* broker's once all is accounted for.
PositionsTrue == CloseIsFlat /\ BooksMatchBroker
=============================================================================
