--------------------------- MODULE GreeksMonitor ----------------------------
(***************************************************************************)
(* wsMonitor of package greeks in the execution gateway: which legs use a  *)
(* token, and the Greeks of each trade.  One number stands for delta,      *)
(* gamma, theta and vega, which are treated alike.  Every method holds mu  *)
(* from its first line to its last, so a call is one step.  Nothing in the *)
(* repository calls the monitor yet; calls are made here in any order.     *)
(***************************************************************************)
EXTENDS Integers, Sequences, SequencesExt

CONSTANTS Trade, Token,
          Greek,        \* values of a Greek
          LegsOf,       \* the legs each trade registers
          MaxUpdates    \* bound: fresh values that arrive

MonitorAssumption ==
    /\ Greek \subseteq Int /\ MaxUpdates \in Nat
    /\ \A t \in Trade : \A i \in DOMAIN LegsOf[t] :
         LegsOf[t][i] \in [trade: {t}, token: Token, qty: Nat,
                           side: {"BUY", "SELL"}]

VARIABLES
    tokenToLegs,
    tradeGreeks,   \* a function on the trades that have an entry
    registered,    \* history: trades registered and not removed
    seen,          \* history: the values of each token that each trade was
                   \* given since it registered, in order
    updates

vars == <<tokenToLegs, tradeGreeks, registered, seen, updates>>

\* Every variable holds a value of its kind, and a token's list holds legs of
\* that token only.
TypeOK ==
    /\ DOMAIN tokenToLegs \subseteq Token
    /\ \A k \in DOMAIN tokenToLegs :
         /\ tokenToLegs[k] # <<>>
         /\ \A i \in DOMAIN tokenToLegs[k] : tokenToLegs[k][i].token = k
    /\ DOMAIN tradeGreeks \subseteq Trade
    /\ \A t \in DOMAIN tradeGreeks : tradeGreeks[t] \in Int
    /\ registered \subseteq Trade
    /\ \A t \in Trade, k \in Token : seen[t][k] \in Seq(Greek)
    /\ updates \in 0..MaxUpdates

Legs(k) == IF k \in DOMAIN tokenToLegs THEN tokenToLegs[k] ELSE <<>>

Init ==
    /\ tokenToLegs = <<>>
    /\ tradeGreeks = <<>>
    /\ registered = {}
    /\ seen = [t \in Trade |-> [k \in Token |-> <<>>]]
    /\ updates = 0

RegisterTrade(t) ==
    LET of(k) == SelectSeq(LegsOf[t], LAMBDA leg : leg.token = k)
        used == DOMAIN tokenToLegs \cup {LegsOf[t][i].token : i \in DOMAIN LegsOf[t]}
    IN  /\ t \notin registered
        /\ registered' = registered \cup {t}
        /\ tokenToLegs' = [k \in used |-> Legs(k) \o of(k)]
        /\ UNCHANGED <<tradeGreeks, seen, updates>>

\* delete(m.tradeGreeks, tradeUID)
DropGreeks(t) ==
    /\ tradeGreeks' = [u \in DOMAIN tradeGreeks \ {t} |-> tradeGreeks[u]]
    /\ seen' = [seen EXCEPT ![t] = [k \in Token |-> <<>>]]
    /\ registered' = registered \ {t}
    /\ UNCHANGED updates

RemoveLegsOnly(t) ==
    LET filtered(k) == SelectSeq(tokenToLegs[k], LAMBDA leg : leg.trade # t) IN
    /\ tokenToLegs' = [k \in {j \in DOMAIN tokenToLegs : filtered(j) # <<>>} |->
                         filtered(k)]
    /\ registered' = registered \ {t}
    /\ UNCHANGED <<tradeGreeks, seen, updates>>
RemoveTrade(t) ==
    LET filtered(k) == SelectSeq(tokenToLegs[k], LAMBDA leg : leg.trade # t) IN
    /\ DropGreeks(t)
    /\ tokenToLegs' = [k \in {j \in DOMAIN tokenToLegs : filtered(j) # <<>>} |->
                         filtered(k)]

Contribution(leg, value) ==
    (IF leg.side = "SELL" THEN -1 ELSE 1) * leg.qty * value

\* What the legs of trade t in the list legs contribute.
Contributions(legs, t, value) ==
    FoldLeft(LAMBDA sum, leg : sum + Contribution(leg, value), 0,
             SelectSeq(legs, LAMBDA leg : leg.trade = t))

UpdateLegGreeks(token, value) ==
    LET users == {Legs(token)[i].trade : i \in DOMAIN Legs(token)}
        old(t) == IF t \in DOMAIN tradeGreeks THEN tradeGreeks[t] ELSE 0
    IN  /\ updates < MaxUpdates
        /\ updates' = updates + 1
        /\ tradeGreeks' = [t \in DOMAIN tradeGreeks \cup users |->
                             old(t) + Contributions(Legs(token), t, value)]
        /\ seen' = [t \in Trade |->
                      IF t \in users
                      THEN [seen[t] EXCEPT ![token] = Append(@, value)]
                      ELSE seen[t]]
        /\ UNCHANGED <<tokenToLegs, registered>>

Next ==
    \/ \E t \in Trade : RegisterTrade(t) \/ RemoveTrade(t)
    \/ \E k \in Token, v \in Greek : UpdateLegGreeks(k, v)

Spec == Init /\ [][Next]_vars

-----------------------------------------------------------------------------
(* Properties *)

\* The aggregate of the last value that each leg of trade t was given.
Aggregate(t) ==
    FoldLeft(LAMBDA sum, leg :
               sum + (IF seen[t][leg.token] = <<>> THEN 0
                      ELSE (IF leg.side = "SELL" THEN -1 ELSE 1) * leg.qty
                             * Last(seen[t][leg.token])),
             0, LegsOf[t])

\* A removed trade stays forgotten: values that arrive after RemoveTrade, for
\* tokens it shared with trades that are still there, never bring an entry of
\* it back.
RemovedStaysForgotten == DOMAIN tradeGreeks \subseteq registered

\* As long as no token of a trade was updated twice, the trade's Greeks are
\* the aggregate of its legs, whatever trades share its tokens or were
\* removed meanwhile.
FirstValuesExact ==
    \A t \in DOMAIN tradeGreeks :
      (\A k \in Token : Len(seen[t][k]) <= 1) => tradeGreeks[t] = Aggregate(t)

\* wsMonitor "aggregates leg Greeks per trade" and is to be called "whenever
\* you receive fresh Greeks for a token": the Greeks of a trade are the
\* aggregate of the latest values of its legs.
\* It does not hold: see the disagreements in the README.
NetIsAggregate == \A t \in DOMAIN tradeGreeks : tradeGreeks[t] = Aggregate(t)
=============================================================================
