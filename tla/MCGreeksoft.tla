----------------------------- MODULE MCGreeksoft -----------------------------
(* GreeksoftOrders for orders of one account and one token: they meet in the *)
(* factory, in the token map and nowhere else.                               *)
EXTENDS GreeksoftOrders

CONSTANTS a1, t1

MCAccountOf == [o \in Order |-> a1]

MCTokenOf == [o \in Order |-> t1]
=============================================================================
