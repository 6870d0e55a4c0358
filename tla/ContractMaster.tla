--------------------------- MODULE ContractMaster ---------------------------
(***************************************************************************)
(* The contract master: at its start it parses the two token files, writes *)
(* the contracts in one transaction and then answers /api/lot-size from    *)
(* the table, which outlives it.  The files change from day to day; a      *)
(* start may find one of them unreadable, fail within the transaction or   *)
(* crash.                                                                  *)
(*                                                                         *)
(* A row of a file is a record of its cells after cleaning: width, header, *)
(* token (0 when it is no positive number), exchange, type, symbol,        *)
(* expiry (0 when no layout fits), strike, option.                         *)
(***************************************************************************)
EXTENDS Integers, SequencesExt

CONSTANTS
    Nse,            \* possible contents of IndexTokens.csv
    Bse,            \* possible contents of BSEIndexTokens.csv
    FallbackLots,   \* the table of fallbackLotSize: symbol -> lot
    MaxStarts       \* bound: starts of the service

VARIABLES
    state,          \* "down", "exec", "serve"
    contracts,      \* what the files gave, in order
    done,           \* contracts executed in the transaction
    tx,             \* the table as the transaction sees it
    table,          \* committed table: <<broker_token, exchange>> -> contract
    loads,          \* history: the sequences of contracts committed
    starts          \* starts so far

vars == <<state, contracts, done, tx, table, loads, starts>>

-----------------------------------------------------------------------------
(* master_parser.go *)

normalizeCSVExchange(x) == CASE x = "NSE" -> "NSEFO" [] x = "BSE" -> "BSEFO" [] OTHER -> x

normalizeOptionType(o) ==
    CASE o \in {"CE", "CALL"} -> "CE" [] o \in {"PE", "PUT"} -> "PE" [] OTHER -> ""

fallbackLotSize(s) == IF s \in DOMAIN FallbackLots THEN FallbackLots[s] ELSE 0

lotKey(exchange, symbol, expiry, type) == <<exchange, symbol, expiry, type>>

\* The key with the instrument type comes first.
lookupLotSize(lots, exchange, symbol, expiry, type) ==
    LET exact == lotKey(exchange, symbol, expiry, type)
        any   == lotKey(exchange, symbol, expiry, "")
    IN  CASE exact \in DOMAIN lots -> lots[exact]
          [] exact \notin DOMAIN lots /\ any \in DOMAIN lots -> lots[any]
          [] OTHER -> 0

LotSize(lots, r) ==
    LET found == lookupLotSize(lots, normalizeCSVExchange(r.exchange), r.symbol,
                               r.expiry, r.type)
    IN  IF found > 0 THEN found ELSE fallbackLotSize(r.symbol)

\* A row is kept if it is wide enough, no header, and has a token, an expiry
\* and a lot.
Accepts(lots, r) ==
    r.width >= 8 /\ ~r.header /\ r.token > 0 /\ r.expiry # 0 /\ LotSize(lots, r) > 0

parseTokenCSVRow(lots, r) ==
    [token |-> r.token, exchange |-> normalizeCSVExchange(r.exchange),
     symbol |-> r.symbol, type |-> r.type, expiry |-> r.expiry,
     strike |-> r.strike, option |-> normalizeOptionType(r.option),
     lot |-> LotSize(lots, r)]

ParseTokenCSVFile(rows, lots) ==
    LET kept == SelectSeq(rows, LAMBDA r : Accepts(lots, r))
    IN  [i \in DOMAIN kept |-> parseTokenCSVRow(lots, kept[i])]

-----------------------------------------------------------------------------

\* main looks lots up in an empty map: every lot is the fallback's.
lotLookup == <<>>

\* A file that cannot be read gives no contracts.
Load ==
    /\ state = "down" /\ starts < MaxStarts
    /\ starts' = starts + 1
    /\ \E nse \in Nse \union {<<>>}, bse \in Bse \union {<<>>} :
          LET read == ParseTokenCSVFile(nse, lotLookup) \o ParseTokenCSVFile(bse, lotLookup)
          IN  /\ contracts' = read
              /\ state' = IF read = <<>> THEN "serve" ELSE "exec"
    /\ done' = 0 /\ tx' = table
    /\ UNCHANGED <<table, loads>>

KeyOf(c) == <<c.token, c.exchange>>

\* ON CONFLICT DO NOTHING.
UpsertKeep(t, c) == t @@ (KeyOf(c) :> c)

\* ON CONFLICT (broker_token, exchange) DO UPDATE.
Upsert(t, c) == (KeyOf(c) :> c) @@ t

Exec ==
    /\ state = "exec" /\ done < Len(contracts)
    /\ tx' = Upsert(tx, contracts[done + 1])
    /\ done' = done + 1
    /\ UNCHANGED <<state, contracts, table, loads, starts>>

\* A statement fails: the transaction is rolled back and the process ends.
Rollback ==
    /\ state = "exec"
    /\ state' = "down"
    /\ UNCHANGED <<contracts, done, tx, table, loads, starts>>

Commit ==
    /\ state = "exec" /\ done = Len(contracts)
    /\ table' = tx
    /\ loads' = Append(loads, contracts)
    /\ state' = "serve"
    /\ UNCHANGED <<contracts, done, tx, starts>>

Stop ==
    /\ state = "serve"
    /\ state' = "down"
    /\ UNCHANGED <<contracts, done, tx, table, loads, starts>>

\* The lots GetLotSize may answer: LIMIT 1 without an order takes any row of
\* the symbol and the expiry.
GetLotSize(symbol, expiry) ==
    {table[k].lot :
        k \in {j \in DOMAIN table : table[j].symbol = symbol /\ table[j].expiry = expiry}}

Init ==
    /\ state = "down" /\ contracts = <<>> /\ done = 0
    /\ tx = <<>> /\ table = <<>> /\ loads = <<>> /\ starts = 0

Next == Load \/ Exec \/ Rollback \/ Commit \/ Stop

Spec == Init /\ [][Next]_vars

-----------------------------------------------------------------------------
\* Every variable has a value of its kind; a stored contract has a lot, its
\* normalised exchange, and is found under its own token and exchange.
TypeOK ==
    /\ state \in {"down", "exec", "serve"}
    /\ done \in 0..Len(contracts) /\ starts \in 0..MaxStarts
    /\ \A k \in DOMAIN table : KeyOf(table[k]) = k /\ table[k].lot > 0

\* The question of a lot has one answer at all times, whichever row of the
\* symbol and expiry the query happens to return: rows of an earlier day are
\* never removed, so rows of several loads answer together.
LotUnambiguous ==
    \A k \in DOMAIN table :
       GetLotSize(table[k].symbol, table[k].expiry) = {table[k].lot}

Committed == FlattenSeq(loads)

\* The table holds, for every token and exchange, the last contract of the
\* loads that were committed, taken one after the other, and nothing of a load
\* that failed or crashed between two rows.
TableIsLastCommitted ==
    /\ DOMAIN table = {KeyOf(c) : c \in Range(Committed)}
    /\ \A k \in DOMAIN table :
          \E i \in DOMAIN Committed :
             /\ Committed[i] = table[k]
             /\ \A j \in i + 1..Len(Committed) : KeyOf(Committed[j]) # k
=============================================================================
