------------------------------ MODULE Contracts ------------------------------
(***************************************************************************)
(* The contract master of the feed decoder: which tokens the token files   *)
(* define, how a token of a tick is looked up, and the option chains that  *)
(* are seeded from the tokens before the first packet is dispatched.       *)
(***************************************************************************)
EXTENDS OptionChain

CONSTANTS
    Files,      \* sequence of token files, each a sequence of rows
    Today,      \* the date the decoder starts on, as a number
    Undated     \* the expiry of a row whose date cannot be read

\* A row: [exchange, opType, symbol, expiry, strike, tokens], opType being
\* "CE", "PE", "FUT" or anything else, and tokens the token columns of the
\* row that hold a positive number (one column for NSE, two for BSE).

expiry_to_yyyymmdd(exp) == IF exp = Undated THEN 99999999 ELSE exp

Kept(row) ==
    /\ row.opType \in {"CE", "PE", "FUT"}
    /\ expiry_to_yyyymmdd(row.expiry) >= Today
    /\ row.exchange \in {"NSE", "BSE"}

ContractInfo(row) ==
    [base_symbol |-> row.symbol, expiry |-> row.expiry,
     strike |-> row.strike, opType |-> row.opType]

\* A token defined twice keeps its last definition.
WithRow(map, row) ==
    IF Kept(row)
    THEN [t \in DOMAIN map \union row.tokens |->
             IF t \in row.tokens THEN ContractInfo(row) ELSE map[t]]
    ELSE map

load_contracts_csv(map, file) == FoldLeft(WithRow, map, file)

token_map == FoldLeft(load_contracts_csv, [t \in {} |-> 0], Files)

MaskedTokens == 16777216    \* 2^24

NoContract == [opType |-> "none"]

\* The exact token, else the token without its high byte.
get_contract(token) ==
    IF token \in DOMAIN token_map THEN token_map[token]
    ELSE IF token % MaskedTokens \in DOMAIN token_map
         THEN token_map[token % MaskedTokens]
    ELSE NoContract

-----------------------------------------------------------------------------
(* Seeding *)

OptionTokens == {t \in DOMAIN token_map : token_map[t].opType # "FUT"}

ChainKey(info) == <<info.base_symbol, info.expiry>>

Keys == {ChainKey(token_map[t]) : t \in OptionTokens}

Listed(key) == {t \in OptionTokens : ChainKey(token_map[t]) = key}

SameLeg(t, u) == token_map[t] = token_map[u]

\* One token for each leg of each row: the map is walked in no particular
\* order, and of several tokens of a leg the last one stays.
Winners ==
    {W \in SUBSET OptionTokens :
        \A t \in OptionTokens : Cardinality({w \in W : SameLeg(t, w)}) = 1}

\* 0 is no token.
LegToken(W, key, strike, leg) ==
    LET S == {t \in W \intersect Listed(key) : /\ token_map[t].strike = strike
                                              /\ token_map[t].opType = leg}
    IN  IF S = {} THEN 0 ELSE CHOOSE t \in S : TRUE

SeedRow(W, key, strike) ==
    [strike |-> strike,
     ce_token |-> LegToken(W, key, strike, "CE"),
     pe_token |-> LegToken(W, key, strike, "PE"),
     ce_ltp |-> 0, pe_ltp |-> 0, ce_greeks |-> NoGreeks, pe_greeks |-> NoGreeks]

SeedChain(W, key) ==
    [symbol |-> key[1], fut_ltp |-> 0, synthetic_future |-> 0,
     strikes |-> LET s == SetToSortSeq({token_map[t].strike : t \in Listed(key)}, <)
                 IN  [i \in DOMAIN s |-> SeedRow(W, key, s[i])]]

Seeds == {[k \in Keys |-> SeedChain(W, k)] : W \in Winners}

to_epoch(exp) == IF exp = Undated THEN 0 ELSE exp

\* The expiries of a symbol from the closest to the furthest.
AvailableExpiries(symbol) ==
    SetToSortSeq({k[2] : k \in {x \in Keys : x[1] = symbol}},
                 LAMBDA a, b : to_epoch(a) < to_epoch(b))
=============================================================================
