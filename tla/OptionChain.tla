---------------------------- MODULE OptionChain -----------------------------
(***************************************************************************)
(* The arithmetic of one option chain of the feed decoder: which listed    *)
(* strike is at the money, what the underlying is worth by put-call        *)
(* parity, and from which prices the Greeks of a row come.                 *)
(*                                                                         *)
(* Prices and strikes are natural numbers, 0 being "no price yet".  A      *)
(* chain is a record with fut_ltp, synthetic_future and its strikes, a     *)
(* sequence of rows sorted by strike.  Greeks are represented by what they *)
(* are computed from: the underlying and the price whose implied           *)
(* volatility was used.                                                    *)
(***************************************************************************)
EXTENDS Integers, SequencesExt

CONSTANTS
    DefaultStep,    \* strike step of a chain with fewer than two strikes
    TakeN,          \* how many rows the parity proxy looks at
    NoRoot          \* <<strike, underlying, price>> without implied volatility

\* Several orders of evaluation give several results: an operator whose name
\* ends in "s" returns the set of them.

Gaps(ch) ==
    {ch.strikes[i].strike - ch.strikes[i - 1].strike : i \in 2..Len(ch.strikes)}

detect_strike_step(ch) ==
    IF Gaps(ch) \ {0} = {} THEN DefaultStep ELSE Min(Gaps(ch) \ {0})

Distance(x, y) == IF x < y THEN y - x ELSE x - y

\* The first of the rows at the least distance.
nearest_strike(ch, px) ==
    LET D(i) == Distance(ch.strikes[i].strike, px)
        Closest == {i \in DOMAIN ch.strikes :
                       \A j \in DOMAIN ch.strikes : D(i) <= D(j)}
    IN  IF Closest = {} THEN 0 ELSE ch.strikes[Min(Closest)].strike

\* std::round: halves go up.
RoundTo(px, step) == ((2 * px + step) \div (2 * step)) * step

round_to_gap_and_snap(ch, px) ==
    nearest_strike(ch, RoundTo(px, detect_strike_step(ch)))

Parity(row) == row.strike + row.ce_ltp - row.pe_ltp
BothLegs(row) == row.ce_ltp > 0 /\ row.pe_ltp > 0
Usable(ch) == {i \in DOMAIN ch.strikes : BothLegs(ch.strikes[i])}

\* Rows at the same distance from the anchor may be sorted either way, so
\* any choice of the closest rows may be the one taken.
NearestRows(ch, anchor) ==
    LET D(i) == IF anchor > 0 THEN Distance(ch.strikes[i].strike, anchor) ELSE 0
    IN  {S \in SUBSET Usable(ch) :
            /\ Cardinality(S) = Min({TakeN, Cardinality(Usable(ch))})
            /\ \A i \in S : \A j \in Usable(ch) \ S : D(i) <= D(j)}

\* The value in the middle, once sorted: at most half of the others are below it,
\* and more than half are not above it.
Medians(ch, S) ==
    LET P(i) == Parity(ch.strikes[i])
        half == Cardinality(S) \div 2
    IN  {P(i) : i \in {x \in S : /\ Cardinality({j \in S : P(j) < P(x)}) <= half
                                 /\ Cardinality({j \in S : P(j) <= P(x)}) > half}}

compute_monthly_future_proxys(ch, anchor) ==
    IF Usable(ch) = {} THEN {0}
    ELSE UNION {Medians(ch, S) : S \in NearestRows(ch, anchor)}

compute_synthetic_from_strike(ch, strike) ==
    LET Rows == {i \in Usable(ch) : ch.strikes[i].strike = strike}
    IN  IF Rows = {} THEN 0 ELSE Parity(ch.strikes[Min(Rows)])

\* The raw future if there is one, else the proxy around the last value.
MonthlyFutures(ch) ==
    IF ch.fut_ltp > 0 THEN {ch.fut_ltp}
    ELSE compute_monthly_future_proxys(ch, ch.synthetic_future)

\* Falls back to the future whenever parity is missing.
FutureWithoutParity(ch, monthly) ==
    LET synthetic == compute_synthetic_from_strike(
                         ch, round_to_gap_and_snap(ch, monthly))
    IN  IF monthly <= 0 THEN ch
        ELSE [ch EXCEPT !.synthetic_future =
                 IF synthetic > 0 THEN synthetic ELSE monthly]

WithSynthetic(ch, monthly) ==
    LET atm == round_to_gap_and_snap(ch, monthly)
        synthetic == compute_synthetic_from_strike(ch, atm)
    IN  IF monthly <= 0 \/ atm <= 0 THEN ch
        ELSE IF synthetic > 0 THEN [ch EXCEPT !.synthetic_future = synthetic]
        ELSE IF ch.synthetic_future <= 0 THEN [ch EXCEPT !.synthetic_future = monthly]
        ELSE ch

recompute_underlying_from_optionss(ch) ==
    {WithSynthetic(ch, m) : m \in MonthlyFutures(ch)}

Middle(ch) == ch.strikes[(Len(ch.strikes) \div 2) + 1].strike

EffectiveUnderlying(ch) ==
    IF ch.synthetic_future > 0 THEN ch.synthetic_future
    ELSE IF ch.fut_ltp > 0 THEN ch.fut_ltp
    ELSE IF ch.strikes # <<>> THEN Middle(ch) ELSE 0

-----------------------------------------------------------------------------
(* Greeks *)

NoIv == <<>>
NoGreeks == [under |-> 0, iv |-> NoIv]
Greeks == [under : Int, iv : {NoIv} \union ({"CE", "PE"} \X Int)]

\* A row of a chain.
OptionStrike ==
    [strike : Int, ce_token : Int, pe_token : Int, ce_ltp : Int, pe_ltp : Int,
     ce_greeks : Greeks, pe_greeks : Greeks]

Intrinsic(leg, strike, under) ==
    Max({0, IF leg = "CE" THEN under - strike ELSE strike - under})

\* The volatility is named by the option and the price it is implied by.
implied_volatility(leg, strike, under, price) ==
    IF \/ price <= Intrinsic(leg, strike, under)
       \/ <<strike, under, price>> \in NoRoot
    THEN NoIv
    ELSE <<leg, price>>

calculate_greeks_from_iv(iv, under) ==
    IF iv = NoIv THEN NoGreeks ELSE [under |-> under, iv |-> iv]

calculate_all_greeks(leg, strike, under, price) ==
    IF price <= 0 THEN NoGreeks
    ELSE calculate_greeks_from_iv(implied_volatility(leg, strike, under, price),
                                  under)

\* An option in the money takes the volatility of its partner if that has
\* one.
RowGreeks(row, under) ==
    LET ce == calculate_all_greeks("CE", row.strike, under, row.ce_ltp)
        pe == calculate_all_greeks("PE", row.strike, under, row.pe_ltp)
        ceItm == row.strike < under /\ pe.iv # NoIv
        peItm == row.strike > under /\ ce.iv # NoIv
    IN  [row EXCEPT
           !.ce_greeks = IF ceItm THEN calculate_greeks_from_iv(pe.iv, under)
                                  ELSE ce,
           !.pe_greeks = IF peItm THEN calculate_greeks_from_iv(ce.iv, under)
                                  ELSE pe]

WithGreeks(ch) ==
    LET under == EffectiveUnderlying(ch)
    IN  IF under <= 0 THEN ch
        ELSE [ch EXCEPT !.strikes =
                 [i \in DOMAIN @ |-> RowGreeks(@[i], under)]]

\* Takes the new underlying only for the next tick.
GreeksBeforeUnderlying(ch) == recompute_underlying_from_optionss(WithGreeks(ch))

recalculate_greeks_internals(ch) ==
    {WithGreeks(c) : c \in recompute_underlying_from_optionss(ch)}

-----------------------------------------------------------------------------
(* What the publisher makes of a snapshot of a chain *)

\* Its own anchor: without any price it starts at the middle strike.
PublisherMonthly(ch, monthly) == IF monthly <= 0 THEN Middle(ch) ELSE monthly

PublishedSynthetic(ch, monthly) ==
    LET s == compute_synthetic_from_strike(
                 ch, round_to_gap_and_snap(ch, PublisherMonthly(ch, monthly)))
    IN  IF s > 0 THEN s
        ELSE IF ch.synthetic_future > 0 THEN ch.synthetic_future
        ELSE IF ch.fut_ltp > 0 THEN ch.fut_ltp ELSE ch.synthetic_future

\* Rounds without snapping to a listed strike.
RoundedAtm(ch, synthetic) ==
    IF synthetic > 0 THEN RoundTo(synthetic, detect_strike_step(ch)) ELSE Middle(ch)

ActualAtm(ch, synthetic) ==
    IF synthetic > 0 THEN round_to_gap_and_snap(ch, synthetic) ELSE Middle(ch)

Published(ch) ==
    {[chain |-> ch, synthetic |-> s, atm |-> ActualAtm(ch, s)] :
        s \in {PublishedSynthetic(ch, m) : m \in MonthlyFutures(ch)}}
=============================================================================
