----------------------------- MODULE FeedProofs ------------------------------
(***************************************************************************)
(* Proofs about the feed decoder, for any token files, packets, readers    *)
(* and published symbols.                                                  *)
(*                                                                         *)
(* Whichever thread runs, a chain has the rows it was seeded with, Greeks  *)
(* of its own prices and the future of its symbol; and its synthetic       *)
(* future, once there is one, only moves to a parity of its rows.          *)
(***************************************************************************)
EXTENDS FeedDecoder, TLAPS, WellFoundedInduction

-----------------------------------------------------------------------------
(* Numbers *)

\* A set of natural numbers that is not empty has a least element: Min finds one.
LEMMA MinIsMember ==
    ASSUME NEW S \in SUBSET Nat, S # {}
    PROVE  Min(S) \in S
<1>1. PICK x \in S : \A y \in S : ~(<<y, x>> \in OpToRel(<, Nat))
  BY NatLessThanWellFounded, WFMin, Zenon
<1>2. ASSUME NEW y \in S PROVE x <= y
  <2>1. x \in Nat /\ y \in Nat
    OBVIOUS
  <2>2. y < x => <<y, x>> \in OpToRel(<, Nat)
    BY <2>1, Zenon DEF OpToRel
  <2>3. ~(y < x)
    BY <1>1, <2>2, Zenon
  <2> QED
    BY <2>1, <2>3
<1> QED
  BY <1>2 DEF Min

\* The row in the middle of a sequence that is not empty is one of its rows.
LEMMA MiddleInRange ==
    ASSUME NEW n \in Nat \ {0}
    PROVE  (n \div 2) + 1 \in 1..n
<1> DEFINE h == n \div 2
<1>1. h \in Int /\ 2 * h <= n /\ n < 2 * h + 2
  OBVIOUS
<1> HIDE DEF h
<1>2. h + 1 \in 1..n
  BY <1>1
<1> QED
  BY <1>2 DEF h

-----------------------------------------------------------------------------
(* The Greeks of a row *)

\* The Greeks of a leg are Greeks.
LEMMA LegGreeksType ==
    ASSUME NEW leg \in {"CE", "PE"}, NEW strike \in Int, NEW under \in Int,
           NEW price \in Int
    PROVE  calculate_all_greeks(leg, strike, under, price) \in Greeks
BY DEF calculate_all_greeks, calculate_greeks_from_iv, implied_volatility, Greeks,
       NoGreeks, NoIv

\* A volatility of one leg gives Greeks to the other.
LEMMA PartnerGreeksType ==
    ASSUME NEW g \in Greeks, NEW under \in Int
    PROVE  calculate_greeks_from_iv(g.iv, under) \in Greeks
BY DEF calculate_greeks_from_iv, Greeks, NoGreeks, NoIv

\* What RowGreeks leaves alone.
SameRow(r, s) ==
    /\ r.strike = s.strike /\ r.ce_token = s.ce_token /\ r.pe_token = s.pe_token
    /\ r.ce_ltp = s.ce_ltp /\ r.pe_ltp = s.pe_ltp

\* RowGreeks writes the two Greeks of a row only.
LEMMA RowGreeksType ==
    ASSUME NEW row \in OptionStrike, NEW under \in Int
    PROVE  RowGreeks(row, under) \in OptionStrike /\ SameRow(RowGreeks(row, under), row)
<1> DEFINE ce == calculate_all_greeks("CE", row.strike, under, row.ce_ltp)
           pe == calculate_all_greeks("PE", row.strike, under, row.pe_ltp)
<1>1. row.strike \in Int /\ row.ce_ltp \in Int /\ row.pe_ltp \in Int
  BY DEF OptionStrike
<1>2. ce \in Greeks /\ pe \in Greeks
  BY <1>1, LegGreeksType
<1>3. /\ calculate_greeks_from_iv(pe.iv, under) \in Greeks
      /\ calculate_greeks_from_iv(ce.iv, under) \in Greeks
  BY <1>2, PartnerGreeksType
<1> DEFINE g == IF row.strike < under /\ pe.iv # NoIv
                THEN calculate_greeks_from_iv(pe.iv, under) ELSE ce
           h == IF row.strike > under /\ ce.iv # NoIv
                THEN calculate_greeks_from_iv(ce.iv, under) ELSE pe
<1>4. g \in Greeks /\ h \in Greeks
  BY <1>2, <1>3, Zenon
<1>5. RowGreeks(row, under) = [row EXCEPT !.ce_greeks = g, !.pe_greeks = h]
  BY Zenon DEF RowGreeks
<1> HIDE DEF g, h
<1> QED
  BY <1>4, <1>5 DEF OptionStrike, SameRow

\* The Greeks of a row depend on its strike and its prices only.
LEMMA RowGreeksAgain ==
    ASSUME NEW row \in OptionStrike, NEW under \in Int
    PROVE  RowGreeks(RowGreeks(row, under), under) = RowGreeks(row, under)
<1> DEFINE G(r) == LET ce == calculate_all_greeks("CE", r.strike, under, r.ce_ltp)
                       pe == calculate_all_greeks("PE", r.strike, under, r.pe_ltp)
                   IN  IF r.strike < under /\ pe.iv # NoIv
                       THEN calculate_greeks_from_iv(pe.iv, under) ELSE ce
           H(r) == LET ce == calculate_all_greeks("CE", r.strike, under, r.ce_ltp)
                       pe == calculate_all_greeks("PE", r.strike, under, r.pe_ltp)
                   IN  IF r.strike > under /\ ce.iv # NoIv
                       THEN calculate_greeks_from_iv(ce.iv, under) ELSE pe
           new == RowGreeks(row, under)
<1>1. \A r : RowGreeks(r, under) = [r EXCEPT !.ce_greeks = G(r), !.pe_greeks = H(r)]
  BY Zenon DEF RowGreeks
<1>2. new \in OptionStrike /\ SameRow(new, row)
  BY RowGreeksType
<1>3. G(new) = G(row) /\ H(new) = H(row)
  BY <1>2, Zenon DEF SameRow
<1> HIDE DEF G, H
<1>4. new = [row EXCEPT !.ce_greeks = G(row), !.pe_greeks = H(row)]
  BY <1>1
<1>5. new.ce_greeks = G(row) /\ new.pe_greeks = H(row)
  BY <1>4 DEF OptionStrike
<1> HIDE DEF new
<1>6. [new EXCEPT !.ce_greeks = G(row), !.pe_greeks = H(row)] = new
  BY <1>2, <1>5 DEF OptionStrike
<1> QED
  BY <1>1, <1>3, <1>6 DEF new

-----------------------------------------------------------------------------
(* One chain *)

Chain ==
    [symbol : {k[1] : k \in Keys}, fut_ltp : Int, synthetic_future : Int,
     strikes : Seq(OptionStrike)]

\* The rows have the same strikes, tokens and prices.
SameRows(c, d) ==
    /\ DOMAIN c.strikes = DOMAIN d.strikes
    /\ \A i \in DOMAIN c.strikes : SameRow(c.strikes[i], d.strikes[i])

\* The fields of a chain, and its rows.
LEMMA ChainFields ==
    ASSUME NEW c \in Chain
    PROVE  /\ c.symbol \in {k[1] : k \in Keys} /\ c.fut_ltp \in Int
           /\ c.synthetic_future \in Int /\ c.strikes \in Seq(OptionStrike)
           /\ Len(c.strikes) \in Nat /\ DOMAIN c.strikes = 1..Len(c.strikes)
           /\ \A i \in DOMAIN c.strikes :
                 /\ c.strikes[i] \in OptionStrike /\ c.strikes[i].strike \in Int
                 /\ c.strikes[i].ce_ltp \in Int /\ c.strikes[i].pe_ltp \in Int
<1>1. /\ c.symbol \in {k[1] : k \in Keys} /\ c.fut_ltp \in Int
      /\ c.synthetic_future \in Int /\ c.strikes \in Seq(OptionStrike)
  BY DEF Chain
<1>2. /\ Len(c.strikes) \in Nat /\ DOMAIN c.strikes = 1..Len(c.strikes)
      /\ \A i \in DOMAIN c.strikes : c.strikes[i] \in OptionStrike
  BY <1>1
<1>3. \A r \in OptionStrike : r.strike \in Int /\ r.ce_ltp \in Int /\ r.pe_ltp \in Int
  BY DEF OptionStrike
<1> QED
  BY <1>1, <1>2, <1>3, Zenon

\* The underlying of a chain is a number.
LEMMA UnderlyingType ==
    ASSUME NEW c \in Chain
    PROVE  EffectiveUnderlying(c) \in Int
<1>1. CASE c.strikes = <<>>
  BY <1>1, ChainFields DEF EffectiveUnderlying
<1>2. CASE c.strikes # <<>>
  <2>1. Len(c.strikes) \in Nat \ {0}
    BY <1>2, ChainFields
  <2>2. (Len(c.strikes) \div 2) + 1 \in DOMAIN c.strikes
    BY <2>1, ChainFields, MiddleInRange, Zenon
  <2>3. Middle(c) \in Int
    BY <2>2, ChainFields, Zenon DEF Middle
  <2> QED
    BY <2>3, ChainFields DEF EffectiveUnderlying
<1> QED
  BY <1>1, <1>2, Zenon

\* It is the same for two chains with the same prices.
LEMMA UnderlyingSame ==
    ASSUME NEW c \in Chain, NEW d \in Chain, SameRows(c, d), c.fut_ltp = d.fut_ltp,
           c.synthetic_future = d.synthetic_future
    PROVE  EffectiveUnderlying(c) = EffectiveUnderlying(d)
<1>1. Len(c.strikes) = Len(d.strikes)
  BY ChainFields DEF SameRows
<1>2. (c.strikes = <<>>) <=> (d.strikes = <<>>)
  BY <1>1, ChainFields
<1>3. CASE c.strikes = <<>>
  BY <1>2, <1>3, Zenon DEF EffectiveUnderlying
<1>4. CASE c.strikes # <<>>
  <2>1. Len(c.strikes) \in Nat \ {0} /\ DOMAIN c.strikes = 1..Len(c.strikes)
    BY <1>4, ChainFields
  <2>2. (Len(c.strikes) \div 2) + 1 \in DOMAIN c.strikes
    BY <2>1, MiddleInRange, Zenon
  <2>3. Middle(c) = Middle(d)
    BY <1>1, <2>2, Zenon DEF Middle, SameRows, SameRow
  <2> QED
    BY <1>2, <2>3, Zenon DEF EffectiveUnderlying
<1> QED
  BY <1>3, <1>4, Zenon

\* WithGreeks writes the Greeks of a chain only,
LEMMA WithGreeksType ==
    ASSUME NEW c \in Chain
    PROVE  /\ WithGreeks(c) \in Chain /\ SameRows(WithGreeks(c), c)
           /\ WithGreeks(c).symbol = c.symbol /\ WithGreeks(c).fut_ltp = c.fut_ltp
           /\ WithGreeks(c).synthetic_future = c.synthetic_future
<1> DEFINE under == EffectiveUnderlying(c)
           rows == [i \in DOMAIN c.strikes |-> RowGreeks(c.strikes[i], under)]
<1>1. under \in Int
  BY UnderlyingType
<1>2. CASE under <= 0
  <2>1. WithGreeks(c) = c
    BY <1>2, Zenon DEF WithGreeks
  <2> QED
    BY <2>1, Zenon DEF SameRows, SameRow
<1>3. CASE ~(under <= 0)
  <2>1. WithGreeks(c) = [c EXCEPT !.strikes = rows]
    BY <1>3, Zenon DEF WithGreeks
  <2>2. \A i \in DOMAIN c.strikes : rows[i] \in OptionStrike /\ SameRow(rows[i], c.strikes[i])
    BY <1>1, ChainFields, RowGreeksType, Zenon
  <2>3. DOMAIN rows = DOMAIN c.strikes
    OBVIOUS
  <2> HIDE DEF rows
  <2>4. rows \in Seq(OptionStrike)
    <3>1. rows = [i \in DOMAIN c.strikes |-> rows[i]]
      BY Zenon DEF rows
    <3>2. rows \in [1..Len(c.strikes) -> OptionStrike]
      BY <2>2, <2>3, <3>1, ChainFields, Zenon
    <3> QED
      BY <3>2, ChainFields
  <2>5. WithGreeks(c).strikes = rows /\ WithGreeks(c) \in Chain
    BY <2>1, <2>4 DEF Chain
  <2>6. /\ WithGreeks(c).symbol = c.symbol /\ WithGreeks(c).fut_ltp = c.fut_ltp
        /\ WithGreeks(c).synthetic_future = c.synthetic_future
    BY <2>1 DEF Chain
  <2> QED
    BY <2>2, <2>3, <2>5, <2>6, Zenon DEF SameRows
<1> QED
  BY <1>2, <1>3, Zenon

\* and a second time changes nothing.
LEMMA WithGreeksAgain ==
    ASSUME NEW c \in Chain
    PROVE  WithGreeks(WithGreeks(c)) = WithGreeks(c)
<1> DEFINE under == EffectiveUnderlying(c)
           new == WithGreeks(c)
           rows == [i \in DOMAIN c.strikes |-> RowGreeks(c.strikes[i], under)]
           again == [i \in DOMAIN new.strikes |-> RowGreeks(new.strikes[i], under)]
<1>1. new \in Chain /\ under \in Int /\ EffectiveUnderlying(new) = under
  BY WithGreeksType, UnderlyingType, UnderlyingSame, Zenon
<1>2. CASE under <= 0
  BY <1>2, Zenon DEF WithGreeks
<1>3. CASE ~(under <= 0)
  <2>1. new = [c EXCEPT !.strikes = rows]
    BY <1>3, Zenon DEF WithGreeks
  <2>2. new.strikes = rows
    BY <2>1 DEF Chain
  <2>3. \A i \in DOMAIN c.strikes :
           RowGreeks(rows[i], under) = rows[i] /\ rows[i] = RowGreeks(c.strikes[i], under)
    BY <1>1, ChainFields, RowGreeksAgain, Zenon
  <2>4. again = rows
    BY <2>2, <2>3, Zenon
  <2>5. WithGreeks(new) = [new EXCEPT !.strikes = again]
    BY <1>1, <1>3, Zenon DEF WithGreeks
  <2> HIDE DEF new, rows, again
  <2>6. [new EXCEPT !.strikes = again] = new
    BY <1>1, <2>2, <2>4 DEF Chain
  <2> QED
    BY <2>5, <2>6, Zenon DEF new
<1> QED
  BY <1>2, <1>3, Zenon

-----------------------------------------------------------------------------
(* The synthetic future *)

\* The parity of a row is a number.
LEMMA ParityType ==
    ASSUME NEW c \in Chain
    PROVE  \A i \in DOMAIN c.strikes : Parity(c.strikes[i]) \in Int
<1>1. TAKE i \in DOMAIN c.strikes
<1>2. /\ c.strikes[i].strike \in Int /\ c.strikes[i].ce_ltp \in Int
      /\ c.strikes[i].pe_ltp \in Int
  BY ChainFields, Zenon
<1> QED
  BY <1>2 DEF Parity

\* The parities depend on the strikes and the prices only.
LEMMA ParitiesSame ==
    ASSUME NEW c, NEW d, SameRows(c, d)
    PROVE  Parities(c) = Parities(d)
<1>1. \A i \in DOMAIN c.strikes :
         /\ Parity(c.strikes[i]) = Parity(d.strikes[i])
         /\ BothLegs(c.strikes[i]) <=> BothLegs(d.strikes[i])
  BY Zenon DEF SameRows, SameRow, Parity, BothLegs
<1>2. Usable(c) = Usable(d)
  BY <1>1, Zenon DEF Usable, SameRows
<1>3. \A i \in Usable(c) : i \in DOMAIN c.strikes
  BY Zenon DEF Usable
<1> QED
  BY <1>1, <1>2, <1>3, Zenon DEF Parities

\* The synthetic of a strike is none, or the parity of a row with both legs.
LEMMA SyntheticIsParity ==
    ASSUME NEW c \in Chain, NEW strike
    PROVE  \/ compute_synthetic_from_strike(c, strike) = 0
           \/ compute_synthetic_from_strike(c, strike) \in Parities(c)
<1> DEFINE Rows == {i \in Usable(c) : c.strikes[i].strike = strike}
<1>1. CASE Rows = {}
  BY <1>1, Zenon DEF compute_synthetic_from_strike
<1>2. CASE Rows # {}
  <2>1. Rows \in SUBSET Nat
    BY ChainFields DEF Usable
  <2>2. Min(Rows) \in Rows
    BY <1>2, <2>1, MinIsMember, Zenon
  <2>3. compute_synthetic_from_strike(c, strike) = Parity(c.strikes[Min(Rows)])
    BY <1>2, Zenon DEF compute_synthetic_from_strike
  <2> QED
    BY <2>2, <2>3, Zenon DEF Parities
<1> QED
  BY <1>1, <1>2, Zenon

\* The anchor is a number.
LEMMA MonthlyType ==
    ASSUME NEW c \in Chain, NEW m \in MonthlyFutures(c)
    PROVE  m \in Int
<1>1. CASE c.fut_ltp > 0
  BY <1>1, ChainFields, Zenon DEF MonthlyFutures
<1>2. CASE ~(c.fut_ltp > 0)
  <2>1. m \in compute_monthly_future_proxys(c, c.synthetic_future)
    BY <1>2, Zenon DEF MonthlyFutures
  <2>2. CASE Usable(c) = {}
    <3>1. m = 0
      BY <2>1, <2>2, Zenon DEF compute_monthly_future_proxys
    <3> QED
      BY <3>1
  <2>3. CASE Usable(c) # {}
    <3>1. PICK S \in NearestRows(c, c.synthetic_future) : m \in Medians(c, S)
      BY <2>1, <2>3, Zenon DEF compute_monthly_future_proxys
    <3>2. S \subseteq Usable(c)
      BY Zenon DEF NearestRows
    <3>3. PICK i \in S : m = Parity(c.strikes[i])
      BY <3>1, Zenon DEF Medians
    <3> QED
      BY <3>2, <3>3, ParityType, Zenon DEF Usable
  <2> QED
    BY <2>2, <2>3, Zenon
<1> QED
  BY <1>1, <1>2, Zenon

\* The underlying is recomputed: only the synthetic future changes, and once there
\* is one it moves to a parity only.
LEMMA WithSyntheticType ==
    ASSUME NEW c \in Chain, NEW m \in Int
    PROVE  /\ WithSynthetic(c, m) \in Chain /\ WithSynthetic(c, m).strikes = c.strikes
           /\ WithSynthetic(c, m).symbol = c.symbol
           /\ WithSynthetic(c, m).fut_ltp = c.fut_ltp
           /\ Moved(c.synthetic_future, WithSynthetic(c, m).synthetic_future, Parities(c))
<1> DEFINE atm == round_to_gap_and_snap(c, m)
           synthetic == compute_synthetic_from_strike(c, atm)
           new == WithSynthetic(c, m)
<1>1. \/ new = c
      \/ synthetic > 0 /\ new = [c EXCEPT !.synthetic_future = synthetic]
      \/ c.synthetic_future <= 0 /\ new = [c EXCEPT !.synthetic_future = m]
  BY Zenon DEF WithSynthetic
<1>2. synthetic = 0 \/ synthetic \in Parities(c)
  BY SyntheticIsParity, Zenon
<1>3. \A x \in Parities(c) : x \in Int
  BY ParityType, Zenon DEF Parities, Usable
<1>4. synthetic > 0 => synthetic \in Parities(c)
  BY <1>2
<1> HIDE DEF new, synthetic
<1>5. CASE new = c
  BY <1>5, Zenon DEF new, Moved
<1>6. CASE synthetic > 0 /\ new = [c EXCEPT !.synthetic_future = synthetic]
  <2>1. synthetic \in Int
    BY <1>3, <1>4, <1>6, Zenon
  <2>2. /\ new \in Chain /\ new.strikes = c.strikes /\ new.symbol = c.symbol
        /\ new.fut_ltp = c.fut_ltp /\ new.synthetic_future = synthetic
    BY <1>6, <2>1 DEF Chain
  <2> QED
    BY <1>4, <1>6, <2>2, Zenon DEF Moved, new
<1>7. CASE c.synthetic_future <= 0 /\ new = [c EXCEPT !.synthetic_future = m]
  <2>1. /\ new \in Chain /\ new.strikes = c.strikes /\ new.symbol = c.symbol
        /\ new.fut_ltp = c.fut_ltp
    BY <1>7 DEF Chain
  <2>2. ~(c.synthetic_future > 0)
    BY <1>7, ChainFields
  <2> QED
    BY <2>1, <2>2, Zenon DEF Moved, new
<1> QED
  BY <1>1, <1>5, <1>6, <1>7, Zenon

\* What a tick leaves of a chain: the rows it was seeded with.
SameSeed(c, d) == Seeded(c) = Seeded(d) /\ c.symbol = d.symbol

LEMMA SameRowsSameSeed ==
    ASSUME NEW c, NEW d, SameRows(c, d)
    PROVE  Seeded(c) = Seeded(d)
BY Zenon DEF Seeded, SameRows, SameRow

\* A chain that is recalculated has the Greeks of its prices.
LEMMA Recalculated ==
    ASSUME NEW c \in Chain, NEW d \in recalculate_greeks_internals(c)
    PROVE  /\ d \in Chain /\ d = WithGreeks(d) /\ SameSeed(d, c)
           /\ d.fut_ltp = c.fut_ltp
           /\ Moved(c.synthetic_future, d.synthetic_future, Parities(d))
<1>1. PICK m \in MonthlyFutures(c) : d = WithGreeks(WithSynthetic(c, m))
  BY Zenon DEF recalculate_greeks_internals, recompute_underlying_from_optionss
<1> DEFINE e == WithSynthetic(c, m)
<1>2. /\ e \in Chain /\ e.strikes = c.strikes /\ e.symbol = c.symbol
      /\ e.fut_ltp = c.fut_ltp /\ Moved(c.synthetic_future, e.synthetic_future, Parities(c))
  BY MonthlyType, WithSyntheticType, Zenon
<1>3. /\ d \in Chain /\ SameRows(d, e) /\ d.symbol = e.symbol /\ d.fut_ltp = e.fut_ltp
      /\ d.synthetic_future = e.synthetic_future
  BY <1>1, <1>2, WithGreeksType, Zenon
<1>4. d = WithGreeks(d)
  BY <1>1, <1>2, WithGreeksAgain, Zenon
<1>5. SameRows(d, c)
  BY <1>2, <1>3, Zenon DEF SameRows
<1> HIDE DEF e
<1> QED
  BY <1>2, <1>3, <1>4, <1>5, SameRowsSameSeed, ParitiesSame, Zenon DEF SameSeed

-----------------------------------------------------------------------------
(* One tick *)

\* What a tick may make of a chain.
Follows(c, d) ==
    /\ d \in Chain /\ SameSeed(d, c)
    /\ c = WithGreeks(c) => d = WithGreeks(d)
    /\ Moved(c.synthetic_future, d.synthetic_future, Parities(d))

OneFuture(ch) ==
    \A k, l \in Keys : ch[k].symbol = ch[l].symbol => ch[k].fut_ltp = ch[l].fut_ltp

\* A chain may stay as it is.
LEMMA FollowsItself ==
    ASSUME NEW c \in Chain
    PROVE  Follows(c, c)
BY Zenon DEF Follows, SameSeed, Moved

\* A future's tick.
LEMMA SpotTick ==
    ASSUME NEW ch \in [Keys -> Chain], NEW symbol, NEW price \in Int, OneFuture(ch),
           NEW f \in update_spot_prices(ch, symbol, price)
    PROVE  /\ f \in [Keys -> Chain] /\ OneFuture(f)
           /\ \A k \in Keys : Follows(ch[k], f[k])
<1> DEFINE With(c) == IF price > 0 THEN [c EXCEPT !.fut_ltp = price] ELSE c
           Outcomes(k) == IF ch[k].symbol = symbol
                          THEN recalculate_greeks_internals(With(ch[k])) ELSE {ch[k]}
<1>1. DOMAIN ch = Keys
  BY Zenon
<1>2. /\ f \in [Keys -> UNION {Outcomes(k) : k \in Keys}]
      /\ \A k \in Keys : f[k] \in Outcomes(k)
  BY <1>1, Zenon DEF update_spot_prices
<1>3. ASSUME NEW k \in Keys
      PROVE  /\ With(ch[k]) \in Chain /\ With(ch[k]).strikes = ch[k].strikes
             /\ With(ch[k]).symbol = ch[k].symbol
             /\ With(ch[k]).synthetic_future = ch[k].synthetic_future
             /\ With(ch[k]).fut_ltp = IF price > 0 THEN price ELSE ch[k].fut_ltp
  <2> DEFINE c == ch[k]
  <2>1. c \in Chain
    BY Zenon
  <2> HIDE DEF c
  <2>2. LET d == [c EXCEPT !.fut_ltp = price]
        IN  /\ d \in Chain /\ d.strikes = c.strikes /\ d.symbol = c.symbol
            /\ d.synthetic_future = c.synthetic_future /\ d.fut_ltp = price
    BY <2>1 DEF Chain
  <2> QED
    BY <2>1, <2>2, Zenon DEF c
<1>4. ASSUME NEW k \in Keys
      PROVE  /\ Follows(ch[k], f[k])
             /\ f[k].fut_ltp = IF ch[k].symbol = symbol /\ price > 0
                               THEN price ELSE ch[k].fut_ltp
  <2> DEFINE c == ch[k]
  <2>0. c \in Chain
    BY Zenon
  <2>1. CASE c.symbol = symbol
    <3>1. f[k] \in recalculate_greeks_internals(With(c))
      BY <1>2, <2>1, Zenon
    <3>2. /\ f[k] \in Chain /\ f[k] = WithGreeks(f[k]) /\ SameSeed(f[k], With(c))
          /\ f[k].fut_ltp = With(c).fut_ltp
          /\ Moved(With(c).synthetic_future, f[k].synthetic_future, Parities(f[k]))
      BY <1>3, <3>1, Recalculated, Zenon
    <3>3. /\ With(c).synthetic_future = c.synthetic_future
          /\ With(c).strikes = c.strikes /\ With(c).symbol = c.symbol
          /\ With(c).fut_ltp = IF price > 0 THEN price ELSE c.fut_ltp
      BY <1>3, Zenon
    <3> HIDE DEF With
    <3>4. SameSeed(With(c), c)
      BY <3>3, SameRowsSameSeed, Zenon DEF SameSeed, SameRows, SameRow
    <3>5. SameSeed(f[k], c)
      BY <3>2, <3>4, Zenon DEF SameSeed
    <3> QED
      BY <2>1, <3>2, <3>3, <3>5, Zenon DEF Follows
  <2>2. CASE c.symbol # symbol
    <3>1. f[k] = c
      BY <1>2, <2>2, Zenon
    <3> QED
      BY <2>0, <2>2, <3>1, FollowsItself, Zenon
  <2> QED
    BY <2>1, <2>2, Zenon
<1>5. \A k \in Keys : f[k] \in Chain /\ f[k].symbol = ch[k].symbol
  BY <1>4, Zenon DEF Follows, SameSeed
<1>6. f \in [Keys -> Chain]
  BY <1>2, <1>5, Zenon
<1>7. ASSUME NEW k \in Keys, NEW l \in Keys, f[k].symbol = f[l].symbol
      PROVE  f[k].fut_ltp = f[l].fut_ltp
  <2>1. ch[k].symbol = ch[l].symbol
    BY <1>5, <1>7, Zenon
  <2>2. ch[k].fut_ltp = ch[l].fut_ltp
    BY <2>1, Zenon DEF OneFuture
  <2>3. CASE ch[k].symbol = symbol /\ price > 0
    BY <1>4, <2>1, <2>3, Zenon
  <2>4. CASE ~(ch[k].symbol = symbol /\ price > 0)
    BY <1>4, <2>1, <2>2, <2>4, Zenon
  <2> QED
    BY <2>3, <2>4, Zenon
<1> QED
  BY <1>4, <1>6, <1>7, Zenon DEF OneFuture

\* An option's tick.
LEMMA OptionTick ==
    ASSUME NEW ch \in [Keys -> Chain], NEW token, NEW price \in Int, OneFuture(ch),
           NEW f \in update_option_prices(ch, token, price)
    PROVE  /\ f \in [Keys -> Chain] /\ OneFuture(f)
           /\ \A k \in Keys : Follows(ch[k], f[k])
<1> DEFINE Rows(k) == {i \in DOMAIN ch[k].strikes :
                          token \in {ch[k].strikes[i].ce_token, ch[k].strikes[i].pe_token}}
           Hits == {k \in DOMAIN ch : Rows(k) # {}}
           key == CHOOSE k \in Hits : TRUE
           row == CHOOSE i \in Rows(key) : TRUE
           priced == [ch[key] EXCEPT !.strikes[row] = WithPrice(@, token, price)]
<1>1. DOMAIN ch = Keys
  BY Zenon
<1>2. CASE Hits = {}
  <2>1. f = ch
    BY <1>2, Zenon DEF update_option_prices
  <2> QED
    BY <2>1, FollowsItself, Zenon
<1>3. CASE Hits # {}
  <2>1. key \in Keys /\ Rows(key) # {}
    BY <1>1, <1>3, Zenon
  <2>2. row \in DOMAIN ch[key].strikes
    BY <2>1, Zenon
  <2>3. PICK d \in recalculate_greeks_internals(priced) : f = [ch EXCEPT ![key] = d]
    BY <1>3, Zenon DEF update_option_prices
  <2> DEFINE c == ch[key]
             new == WithPrice(c.strikes[row], token, price)
  <2>4. c \in Chain
    BY <2>1, Zenon
  <2>5. /\ new \in OptionStrike /\ new.strike = c.strikes[row].strike
        /\ new.ce_token = c.strikes[row].ce_token
        /\ new.pe_token = c.strikes[row].pe_token
    <3>1. c.strikes[row] \in OptionStrike
      BY <2>2, <2>4, ChainFields, Zenon
    <3> HIDE DEF c
    <3> QED
      BY <3>1 DEF WithPrice, OptionStrike
  <2>6. priced = [c EXCEPT !.strikes = [c.strikes EXCEPT ![row] = new]]
    BY <2>1, <2>4 DEF Chain
  <2> HIDE DEF key, row, new, priced, Rows, Hits
  <2>7. /\ priced \in Chain /\ priced.symbol = c.symbol /\ priced.fut_ltp = c.fut_ltp
        /\ priced.synthetic_future = c.synthetic_future
        /\ priced.strikes = [c.strikes EXCEPT ![row] = new]
    <3>1. [c.strikes EXCEPT ![row] = new] \in Seq(OptionStrike)
      BY <2>2, <2>4, <2>5, ChainFields
    <3> HIDE DEF c
    <3> QED
      BY <2>4, <2>6, <3>1 DEF Chain
  <2>8. Seeded(priced) = Seeded(c)
    <3>1. DOMAIN priced.strikes = DOMAIN c.strikes
      BY <2>7, Zenon
    <3>2. \A i \in DOMAIN c.strikes : priced.strikes[i] = IF i = row THEN new ELSE c.strikes[i]
      BY <2>7, Zenon
    <3>3. \A i \in DOMAIN c.strikes :
             /\ priced.strikes[i].strike = c.strikes[i].strike
             /\ priced.strikes[i].ce_token = c.strikes[i].ce_token
             /\ priced.strikes[i].pe_token = c.strikes[i].pe_token
      BY <2>5, <3>2, Zenon
    <3> QED
      BY <3>1, <3>3, Zenon DEF Seeded
  <2>9. /\ d \in Chain /\ d = WithGreeks(d) /\ SameSeed(d, priced)
        /\ d.fut_ltp = priced.fut_ltp
        /\ Moved(priced.synthetic_future, d.synthetic_future, Parities(d))
    BY <2>3, <2>7, Recalculated, Zenon
  <2>10. Follows(c, d) /\ d.fut_ltp = c.fut_ltp /\ d.symbol = c.symbol
    BY <2>7, <2>8, <2>9, Zenon DEF Follows, SameSeed
  <2>11. \A k \in Keys : f[k] = IF k = key THEN d ELSE ch[k]
    BY <1>1, <2>3, Zenon
  <2>12. f \in [Keys -> Chain]
    BY <2>3, <2>9, Zenon
  <2>13. \A k \in Keys : /\ Follows(ch[k], f[k]) /\ f[k].fut_ltp = ch[k].fut_ltp
                         /\ f[k].symbol = ch[k].symbol
    BY <2>10, <2>11, FollowsItself, Zenon
  <2>14. ASSUME NEW k \in Keys, NEW l \in Keys, f[k].symbol = f[l].symbol
         PROVE  f[k].fut_ltp = f[l].fut_ltp
    <3>1. ch[k].symbol = ch[l].symbol
      BY <2>13, <2>14, Zenon
    <3>2. ch[k].fut_ltp = ch[l].fut_ltp
      BY <3>1, Zenon DEF OneFuture
    <3> QED
      BY <2>13, <3>2, Zenon
  <2> QED
    BY <2>12, <2>13, <2>14, Zenon DEF OneFuture
<1> QED
  BY <1>2, <1>3, Zenon

-----------------------------------------------------------------------------
(* The threads *)

Sockets ==
    /\ udp = [r \in Reader |-> udp[r]] /\ zmq = [r \in Reader |-> zmq[r]]
    /\ \A r \in Reader : udp[r] \in Seq(Multicast[r]) /\ zmq[r] \in Seq(Fallback)
    /\ poll \in [Reader -> {"udp", "zmq"}]
    /\ queue \in Seq(Packets) /\ count \in 0..MaxPackets

FromSeed == \E s \in Seeds : \A k \in Keys : SameSeed(chains[k], s[k])

Book == chains \in [Keys -> Chain] /\ FromSeed /\ OneFuture(chains)

Publishing ==
    /\ DOMAIN sent = Keys
    /\ PublishOrder # <<>> => next \in 1..Len(PublishOrder)

\* The inductive invariant: what TypeOK leaves out are the ticks on their way, and
\* that every price is a number.
FeedInv == Sockets /\ ticks \in Seq(PriceTick) /\ Book /\ Publishing /\ GreeksMatchChain

LEMMA SeedsAreChains ==
    ASSUME NEW s \in Seeds, NEW k \in Keys
    PROVE  s[k] \in Chain /\ s[k].fut_ltp = 0
<1>1. PICK W \in Winners : s = [x \in Keys |-> SeedChain(W, x)]
  BY Zenon DEF Seeds
<1>2. s[k] = SeedChain(W, k)
  BY <1>1, Zenon
<1>3. s[k].strikes \in Seq(OptionStrike)
  BY FeedAssumption, Zenon
<1> DEFINE rows == SeedChain(W, k).strikes
<1>4. SeedChain(W, k) = [symbol |-> k[1], fut_ltp |-> 0, synthetic_future |-> 0,
                         strikes |-> rows]
  BY Zenon DEF SeedChain
<1>5. rows \in Seq(OptionStrike) /\ k[1] \in {x[1] : x \in Keys}
  BY <1>2, <1>3, Zenon
<1> HIDE DEF rows
<1> QED
  BY <1>2, <1>4, <1>5 DEF Chain

LEMMA FeedInit == Init => FeedInv
<1> SUFFICES ASSUME Init PROVE FeedInv
  OBVIOUS
<1>1. Sockets /\ ticks \in Seq(PriceTick)
  BY FeedAssumption DEF Init, Sockets
<1>2. PICK s \in Seeds : chains = [k \in Keys |-> WithGreeks(s[k])]
  BY Zenon DEF Init
<1>3. ASSUME NEW k \in Keys
      PROVE  /\ chains[k] \in Chain /\ SameSeed(chains[k], s[k])
             /\ chains[k] = WithGreeks(chains[k]) /\ chains[k].fut_ltp = 0
  <2>1. s[k] \in Chain /\ s[k].fut_ltp = 0 /\ chains[k] = WithGreeks(s[k])
    BY <1>2, SeedsAreChains, Zenon
  <2>2. SameRows(chains[k], s[k]) /\ chains[k].symbol = s[k].symbol
    BY <2>1, WithGreeksType, Zenon
  <2> QED
    BY <2>1, <2>2, WithGreeksType, WithGreeksAgain, SameRowsSameSeed, Zenon DEF SameSeed
<1>4. Book
  BY <1>2, <1>3, Zenon DEF Book, FromSeed, OneFuture
<1>5. Publishing
  <2>1. DOMAIN sent = Keys /\ next = 1
    BY Zenon DEF Init
  <2>2. PublishOrder # <<>> => 1 \in 1..Len(PublishOrder)
    BY FeedAssumption
  <2> QED
    BY <2>1, <2>2, Zenon DEF Publishing
<1>6. \A k \in Keys : sent[k] = Nothing
  BY Zenon DEF Init
<1> QED
  BY <1>1, <1>3, <1>4, <1>5, <1>6, Zenon DEF FeedInv, GreeksMatchChain

\* A packet that waits in a socket is one that was sent.
LEMMA SocketPackets ==
    ASSUME NEW r \in Reader
    PROVE  Multicast[r] \subseteq Packets /\ Fallback \subseteq Packets
<1> DEFINE Sent == UNION {Multicast[x] : x \in Reader}
<1>1. \A p \in Multicast[r] : p \in Sent
  BY Zenon
<1>2. Packets = Sent \union Fallback
  BY Zenon DEF Packets
<1> HIDE DEF Sent
<1> QED
  BY <1>1, <1>2

\* Sources and readers move packets only.
LEMMA SourcesKeep ==
    ASSUME Sockets, NEW r \in Reader,
           ExchangeSends(r) \/ FallbackSends \/ PollUdp(r) \/ PollZmq(r)
    PROVE  Sockets' /\ UNCHANGED <<ticks, chains, next, sent>>
<1>1. CASE ExchangeSends(r)
  <2>1. PICK p \in Multicast[r] : udp' = [udp EXCEPT ![r] = Append(@, p)] \/ udp' = udp
    BY <1>1 DEF ExchangeSends
  <2>2. /\ count' \in 0..MaxPackets
        /\ UNCHANGED <<zmq, poll, queue, ticks, chains, next, sent>>
    BY <1>1, FeedAssumption DEF ExchangeSends, Sockets
  <2>3. Append(udp[r], p) \in Seq(Multicast[r])
    BY <2>1 DEF Sockets
  <2>4. /\ udp' = [x \in Reader |-> udp'[x]]
        /\ \A x \in Reader : udp'[x] \in Seq(Multicast[x])
    BY <2>1, <2>3, Zenon DEF Sockets
  <2> QED
    BY <2>2, <2>4, Zenon DEF Sockets
<1>2. CASE FallbackSends
  <2>1. PICK p \in Fallback : zmq' = [x \in Reader |-> Append(zmq[x], p)]
    BY <1>2 DEF FallbackSends
  <2>2. /\ count' \in 0..MaxPackets
        /\ UNCHANGED <<udp, poll, queue, ticks, chains, next, sent>>
    BY <1>2, FeedAssumption DEF FallbackSends, Sockets
  <2>3. \A x \in Reader : Append(zmq[x], p) \in Seq(Fallback)
    BY <2>1 DEF Sockets
  <2>4. /\ zmq' = [x \in Reader |-> zmq'[x]]
        /\ \A x \in Reader : zmq'[x] \in Seq(Fallback)
    BY <2>1, <2>3, Zenon
  <2> QED
    BY <2>2, <2>4, Zenon DEF Sockets
<1>3. CASE PollUdp(r)
  <2>1. /\ poll' = [poll EXCEPT ![r] = "zmq"]
        /\ UNCHANGED <<zmq, ticks, chains, next, sent, count>>
    BY <1>3, Zenon DEF PollUdp
  <2>2. poll' \in [Reader -> {"udp", "zmq"}]
    BY <2>1, Zenon DEF Sockets
  <2>3. CASE udp[r] = <<>>
    <3>1. udp' = udp /\ queue' = queue
      BY <1>3, <2>3, Zenon DEF PollUdp
    <3> QED
      BY <2>1, <2>2, <3>1, Zenon DEF Sockets
  <2>4. CASE udp[r] # <<>>
    <3>1. queue' = Append(queue, Head(udp[r])) /\ udp' = [udp EXCEPT ![r] = Tail(@)]
      BY <1>3, <2>4, Zenon DEF PollUdp
    <3>2. Head(udp[r]) \in Multicast[r] /\ Tail(udp[r]) \in Seq(Multicast[r])
      BY <2>4 DEF Sockets
    <3>3. Head(udp[r]) \in Packets
      BY <3>2, SocketPackets, Zenon
    <3>4. queue' \in Seq(Packets)
      BY <3>1, <3>3 DEF Sockets
    <3>5. /\ udp' = [x \in Reader |-> udp'[x]]
          /\ \A x \in Reader : udp'[x] \in Seq(Multicast[x])
      BY <3>1, <3>2, Zenon DEF Sockets
    <3> QED
      BY <2>1, <2>2, <3>4, <3>5, Zenon DEF Sockets
  <2> QED
    BY <2>3, <2>4, Zenon
<1>4. CASE PollZmq(r)
  <2>1. /\ poll' = [poll EXCEPT ![r] = "udp"]
        /\ UNCHANGED <<udp, ticks, chains, next, sent, count>>
    BY <1>4, Zenon DEF PollZmq
  <2>2. poll' \in [Reader -> {"udp", "zmq"}]
    BY <2>1, Zenon DEF Sockets
  <2>3. CASE zmq[r] = <<>>
    <3>1. zmq' = zmq /\ queue' = queue
      BY <1>4, <2>3, Zenon DEF PollZmq
    <3> QED
      BY <2>1, <2>2, <3>1, Zenon DEF Sockets
  <2>4. CASE zmq[r] # <<>>
    <3>1. queue' = Append(queue, Head(zmq[r])) /\ zmq' = [zmq EXCEPT ![r] = Tail(@)]
      BY <1>4, <2>4, Zenon DEF PollZmq
    <3>2. Head(zmq[r]) \in Fallback /\ Tail(zmq[r]) \in Seq(Fallback)
      BY <2>4 DEF Sockets
    <3>3. Head(zmq[r]) \in Packets
      BY <3>2, SocketPackets, Zenon
    <3>4. queue' \in Seq(Packets)
      BY <3>1, <3>3 DEF Sockets
    <3>5. /\ zmq' = [x \in Reader |-> zmq'[x]]
          /\ \A x \in Reader : zmq'[x] \in Seq(Fallback)
      BY <3>1, <3>2, Zenon DEF Sockets
    <3> QED
      BY <2>1, <2>2, <3>4, <3>5, Zenon DEF Sockets
  <2> QED
    BY <2>3, <2>4, Zenon
<1> QED
  BY <1>1, <1>2, <1>3, <1>4, Zenon

\* A tick makes of every chain one that follows it.
LEMMA TickFollows ==
    ASSUME FeedInv, Tick
    PROVE  /\ chains' \in [Keys -> Chain] /\ OneFuture(chains')
           /\ \A k \in Keys : Follows(chains[k], chains'[k])
<1> DEFINE tick == Head(ticks)
<1>1. tick \in PriceTick /\ chains' \in Applied(chains, tick)
  <2>1. ticks # <<>> /\ chains' \in Applied(chains, tick)
    BY Zenon DEF Tick
  <2> QED
    BY <2>1 DEF FeedInv
<1> HIDE DEF tick
<1>2. tick.price \in Int
  BY <1>1 DEF PriceTick
<1>3. chains \in [Keys -> Chain] /\ OneFuture(chains)
  BY Zenon DEF FeedInv, Book
<1>4. CASE tick.op = "spot"
  <2>1. chains' \in update_spot_prices(chains, tick.symbol, tick.price)
    BY <1>1, <1>4, Zenon DEF Applied
  <2> QED
    BY <1>2, <1>3, <2>1, SpotTick, Zenon
<1>5. CASE tick.op # "spot"
  <2>1. chains' \in update_option_prices(chains, tick.token, tick.price)
    BY <1>1, <1>5, Zenon DEF Applied
  <2> QED
    BY <1>2, <1>3, <2>1, OptionTick, Zenon
<1> QED
  BY <1>4, <1>5, Zenon

LEMMA FeedNext == FeedInv /\ [Next]_vars => FeedInv'
<1> SUFFICES ASSUME FeedInv, [Next]_vars PROVE FeedInv'
  OBVIOUS
<1>1. CASE \E r \in Reader : ExchangeSends(r) \/ PollUdp(r) \/ PollZmq(r)
  <2>1. Sockets' /\ UNCHANGED <<ticks, chains, next, sent>>
    BY <1>1, SourcesKeep, Zenon DEF FeedInv
  <2> QED
    BY <2>1, Zenon DEF FeedInv, Book, FromSeed, Publishing, GreeksMatchChain, OneFuture
<1>2. CASE FallbackSends
  <2>1. CASE Reader = {}
    <3>1. /\ UNCHANGED <<udp, poll, queue, ticks, chains, next, sent>>
          /\ zmq' = [r \in Reader |-> zmq'[r]]
      BY <1>2, <2>1 DEF FallbackSends
    <3>2. count' \in 0..MaxPackets
      BY <1>2, FeedAssumption DEF FallbackSends, FeedInv, Sockets
    <3>3. Sockets'
      BY <2>1, <3>1, <3>2, Zenon DEF FeedInv, Sockets
    <3> QED
      BY <3>1, <3>3, Zenon
         DEF FeedInv, Book, FromSeed, Publishing, GreeksMatchChain, OneFuture
  <2>2. CASE Reader # {}
    <3>1. Sockets' /\ UNCHANGED <<ticks, chains, next, sent>>
      BY <1>2, <2>2, SourcesKeep, Zenon DEF FeedInv
    <3> QED
      BY <3>1, Zenon DEF FeedInv, Book, FromSeed, Publishing, GreeksMatchChain, OneFuture
  <2> QED
    BY <2>1, <2>2, Zenon
<1>3. CASE Pop
  <2>1. /\ queue # <<>> /\ ticks' = dispatch(Head(queue)) /\ queue' = Tail(queue)
        /\ UNCHANGED <<udp, zmq, poll, chains, next, sent, count>>
    BY <1>3, Zenon DEF Pop
  <2>2. Head(queue) \in Packets /\ queue' \in Seq(Packets)
    BY <2>1 DEF FeedInv, Sockets
  <2>3. ticks' \in Seq(PriceTick)
    BY <2>1, <2>2, FeedAssumption, Zenon
  <2>4. Sockets'
    BY <2>1, <2>2, Zenon DEF FeedInv, Sockets
  <2> QED
    BY <2>1, <2>3, <2>4, Zenon
       DEF FeedInv, Book, FromSeed, Publishing, GreeksMatchChain, OneFuture
<1>4. CASE Tick
  <2>1. /\ ticks # <<>> /\ ticks' = Tail(ticks)
        /\ UNCHANGED <<udp, zmq, poll, queue, next, sent, count>>
    BY <1>4, Zenon DEF Tick
  <2>2. ticks' \in Seq(PriceTick)
    BY <2>1 DEF FeedInv
  <2>3. /\ chains' \in [Keys -> Chain] /\ OneFuture(chains')
        /\ \A k \in Keys : Follows(chains[k], chains'[k])
    BY <1>4, TickFollows, Zenon
  <2>4. FromSeed'
    <3>1. PICK s \in Seeds : \A k \in Keys : SameSeed(chains[k], s[k])
      BY Zenon DEF FeedInv, Book, FromSeed
    <3>2. \A k \in Keys : SameSeed(chains'[k], s[k])
      BY <2>3, <3>1, Zenon DEF Follows, SameSeed
    <3> QED
      BY <3>2, Zenon DEF FromSeed
  <2>5. GreeksMatchChain'
    <3>1. \A k \in Keys : chains'[k] = WithGreeks(chains'[k])
      BY <2>3, Zenon DEF FeedInv, GreeksMatchChain, Follows
    <3> QED
      BY <2>1, <3>1, Zenon DEF FeedInv, GreeksMatchChain
  <2> QED
    BY <2>1, <2>2, <2>3, <2>4, <2>5, Zenon
       DEF FeedInv, Sockets, Book, Publishing, OneFuture
<1>5. CASE Publish
  <2> DEFINE key == PublishOrder[next]
  <2>1. /\ PublishOrder # <<>> /\ next' = (next % Len(PublishOrder)) + 1
        /\ UNCHANGED <<udp, zmq, poll, queue, ticks, chains, count>>
    BY <1>5, Zenon DEF Publish
  <2>2. PICK msg \in Published(chains[key]) : sent' = [sent EXCEPT ![key] = msg]
    BY <1>5, Zenon DEF Publish
  <2>3. msg.chain = chains[key]
    <3> DEFINE c == chains[key]
    <3>1. \E x : msg = [chain |-> c, synthetic |-> x, atm |-> ActualAtm(c, x)]
      BY <2>2, Zenon DEF Published
    <3> HIDE DEF c
    <3> QED
      BY <3>1 DEF c
  <2>4. next' \in 1..Len(PublishOrder)
    <3>1. Len(PublishOrder) \in Nat \ {0} /\ next \in Nat
      BY <2>1, FeedAssumption DEF FeedInv, Publishing
    <3> HIDE DEF key
    <3> QED
      BY <2>1, <3>1
  <2>5. DOMAIN sent' = Keys
    BY <2>2, Zenon DEF FeedInv, Publishing
  <2> HIDE DEF key
  <2>6. \A k \in Keys : sent'[k] = IF k = key THEN msg ELSE sent[k]
    BY <2>2, Zenon DEF FeedInv, Publishing
  <2>7. GreeksMatchChain'
    <3>1. \A k \in Keys : sent'[k] # Nothing => sent'[k].chain = WithGreeks(sent'[k].chain)
      BY <2>3, <2>6, Zenon DEF FeedInv, GreeksMatchChain
    <3> QED
      BY <2>1, <3>1, Zenon DEF FeedInv, GreeksMatchChain
  <2> QED
    BY <2>1, <2>4, <2>5, <2>7, Zenon
       DEF FeedInv, Sockets, Book, FromSeed, Publishing, OneFuture
<1>6. CASE UNCHANGED vars
  BY <1>6, Zenon
     DEF vars, FeedInv, Sockets, Book, FromSeed, Publishing, GreeksMatchChain, OneFuture
<1> QED
  BY <1>1, <1>2, <1>3, <1>4, <1>5, <1>6, Zenon DEF Next

LEMMA FeedIsInductive == Spec => []FeedInv
BY FeedInit, FeedNext, PTL DEF Spec

-----------------------------------------------------------------------------
\* At every moment a chain can be copied it has the rows it was seeded with,
\* Greeks of its own prices and the future of its symbol; and so have the
\* messages published (ChainBuilder's updates under rw_mutex_).
THEOREM ChainsStayConsistent == Spec => []ChainsConsistent
<1>1. FeedInv => ChainsConsistent
  <2> SUFFICES ASSUME FeedInv PROVE ChainsConsistent
    OBVIOUS
  <2>1. TypeOK
    BY Zenon DEF FeedInv, Sockets, Book, FromSeed, SameSeed, Publishing, TypeOK
  <2>2. FutureAgrees
    BY Zenon DEF FeedInv, Book, OneFuture, FutureAgrees
  <2> QED
    BY <2>1, <2>2, Zenon DEF FeedInv, ChainsConsistent
<1> QED
  BY <1>1, FeedIsInductive, PTL

\* Once a chain has a synthetic future, every tick keeps it or moves it to the
\* parity of a row with both legs priced: "NO ongoing fallback from
\* synthetic_future to raw future" (recompute_underlying_from_options).
THEOREM SyntheticIsSticky == Spec => SyntheticSticky
<1>1. FeedInv /\ [Next]_vars => [KeepsOrMoves]_chains
  <2> SUFFICES ASSUME FeedInv, [Next]_vars, chains' # chains PROVE KeepsOrMoves
    BY Zenon
  <2>1. Tick
    BY Zenon DEF Next, vars, ExchangeSends, PollUdp, PollZmq, FallbackSends, Pop, Publish
  <2>2. \A k \in Keys : Follows(chains[k], chains'[k])
    BY <2>1, TickFollows, Zenon
  <2> QED
    BY <2>2, Zenon DEF Follows, KeepsOrMoves
<1> QED
  BY <1>1, FeedIsInductive, PTL DEF Spec, SyntheticSticky

=============================================================================
