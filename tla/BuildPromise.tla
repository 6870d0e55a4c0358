---------------------------- MODULE BuildPromise ----------------------------
(***************************************************************************)
(* What building a position in chunks promises, whoever does it: the       *)
(* execution gateway (executeBuild) or the trade worker                    *)
(* (TradeStateMachine).  No order of a chunk trades before every order of  *)
(* the earlier chunks has, and the position counts as built only when all  *)
(* orders have traded.  Orders may still trade after the build is given    *)
(* up.                                                                     *)
(***************************************************************************)
EXTENDS Naturals

CONSTANTS Orders, Chunk     \* the orders, and the chunk of each

VARIABLES phase,            \* "idle", "building", "built" or "failed"
          traded            \* the orders that have traded in full

promiseVars == <<phase, traded>>

Earlier(o) == {e \in Orders : Chunk[e] < Chunk[o]}

Init == phase = "idle" /\ traded = {}

Start ==
    /\ phase = "idle"
    /\ phase' = "building"
    /\ UNCHANGED traded

Trade(o) ==
    /\ phase # "idle"
    /\ Earlier(o) \subseteq traded
    /\ traded' = traded \cup {o}
    /\ UNCHANGED phase

Complete ==
    /\ phase = "building"
    /\ traded = Orders
    /\ phase' = "built"
    /\ UNCHANGED traded

GiveUp ==
    /\ phase = "building"
    /\ phase' = "failed"
    /\ UNCHANGED traded

Next == Start \/ Complete \/ GiveUp \/ \E o \in Orders : Trade(o)

Spec == Init /\ [][Next]_promiseVars
=============================================================================
