---------------------------- MODULE ChainStartup ----------------------------
(***************************************************************************)
(* The start of the market data gateway: login, one goroutine per index    *)
(* that finds its spot price, its expiries and the tokens of the strikes   *)
(* around the money, and then the token file for the feed decoder, written *)
(* aside and renamed into place.  The process may crash at any step and be *)
(* started again.                                                          *)
(*                                                                         *)
(* The broker's instruments are given; any of its answers may be lost, up  *)
(* to MaxLost of them.  A token is [symbol, expiry, strike, type].         *)
(***************************************************************************)
EXTENDS Integers, FiniteSetsExt, SequencesExt

CONSTANTS
    Symbol,         \* the indices of SymbolConfigs
    Gap,            \* distance of two strikes of each index
    DefaultSpot,    \* price assumed when none is known
    Quoted,         \* price the broker quotes
    Offered,        \* expiries the broker offers (dates)
    BrokerTokens,         \* tokens the broker lists
    Today,          \* today's date
    strikeRange,    \* strikes on either side of the money (40 in the code)
    MaxLost,        \* bound: answers lost in a run
    MaxRuns         \* bound: times the process is started

VARIABLES
    main,           \* "login", "fetch", "write", "serve", "exit"
    pc,             \* of each goroutine: "spot", "expiries", "test", "done"
    cached,         \* decoder's message in cache.Chains of each symbol, or <<>>
    atStart,        \* history: cached when fetchSpotPrice read it
    spot,           \* price each goroutine works with
    todo,           \* expiries it has still to test, nearest first
    chain,          \* the tokens of its chain
    lost,           \* answers lost in this run
    csvLines,       \* sequence of the batches of lines, one per index
    foInstruments,  \* tokens to subscribe
    temp,           \* the temporary file: batches written so far
    final,          \* the token file
    whole,          \* history: the complete contents of every run
    runs            \* times the process was started

vars == <<main, pc, cached, atStart, spot, todo, chain, lost, csvLines,
          foInstruments, temp, final, whole, runs>>

memory == <<pc, cached, atStart, spot, todo, chain, lost, csvLines, foInstruments>>
files == <<temp, final, whole>>

StartupAssumption ==
    /\ strikeRange \in Nat /\ MaxLost \in Nat /\ MaxRuns \in Nat \ {0}
    /\ \A s \in Symbol : Gap[s] \in Nat \ {0}

-----------------------------------------------------------------------------
\* The decoder sends the price of the future as "future_ltp".
DecoderMessage(s, p) == [symbol |-> s, future_ltp |-> p]

\* The price in the decoder's last message is the field "fut_ltp".
FutLtp(m) == IF m # <<>> /\ "fut_ltp" \in DOMAIN m THEN m.fut_ltp ELSE 0

\* What became of the broker's answers to messages 1502 and 1512: a failed
\* request for the first ends the search, an answer without a price leads to
\* the second.  Cost is the number of answers lost.
Outcome == {"1502", "1512", "failed", "none"}
Cost(o) == CASE o = "1502" -> 0 [] o = "none" -> 2 [] OTHER -> 1

fetchSpotPrice(s, o) ==
    IF FutLtp(cached[s]) > 0 THEN FutLtp(cached[s])
    ELSE IF o \in {"1502", "1512"} THEN Quoted[s] ELSE 0

\* Half a gap is added before the division: the nearest strike.
AtmStrike(price, gap) == ((2 * price + gap) \div (2 * gap)) * gap

getActiveExpiries(exps) == SetToSortSeq({e \in exps : e >= Today}, <)

Strikes(s, atm) == {atm + i * Gap[s] : i \in (0 - strikeRange)..strikeRange}

InRange(s, e, atm) ==
    {t \in BrokerTokens : t.symbol = s /\ t.expiry = e /\ t.strike \in Strikes(s, atm)}

\* The tokens of a chain: what is listed, but for the answers that were lost.
BuildChain(s, e, atm, dropped) == InRange(s, e, atm) \ dropped

Lowest(s, atm) == atm - strikeRange * Gap[s]

\* The first row has a call.
ValidChain(tokens, low) == \E t \in tokens : t.type = "CE" /\ t.strike = low

-----------------------------------------------------------------------------
\* The file of an earlier day.
Yesterday == [symbol |-> "yesterday", tokens |-> {}]

All(v) == [s \in Symbol |-> v]

Init ==
    /\ main = "login"
    /\ pc = All("spot") /\ cached = All(<<>>) /\ atStart = All(<<>>)
    /\ spot = All(0) /\ todo = All(<<>>) /\ chain = All({})
    /\ lost = 0 /\ csvLines = <<>> /\ foInstruments = {}
    /\ temp = <<>> /\ final = <<Yesterday>>
    /\ whole = {<<Yesterday>>} /\ runs = 1

\* A failed login ends the process.
Login ==
    /\ main = "login"
    /\ main' \in {"fetch", "exit"}
    /\ UNCHANGED <<memory, files, runs>>

\* The listener, started first, caches a chain of the decoder.
Listen(s) ==
    /\ main # "exit" /\ cached[s] = <<>>
    /\ cached' = [cached EXCEPT ![s] = DecoderMessage(s, Quoted[s] + Gap[s])]
    /\ UNCHANGED <<main, pc, atStart, spot, todo, chain, lost, csvLines,
                   foInstruments, files, runs>>

Spot(s) ==
    /\ main = "fetch" /\ pc[s] = "spot"
    /\ \E o \in Outcome :
          LET price == fetchSpotPrice(s, o)
          IN  /\ lost' = lost + Cost(o) /\ lost' <= MaxLost
              /\ spot' = [spot EXCEPT ![s] = IF price > 0 THEN price ELSE DefaultSpot[s]]
    /\ atStart' = [atStart EXCEPT ![s] = cached[s]]
    /\ pc' = [pc EXCEPT ![s] = "expiries"]
    /\ UNCHANGED <<main, cached, todo, chain, csvLines, foInstruments, files, runs>>

\* The error is ignored: no expiries, no chain.
Expiries(s) ==
    /\ main = "fetch" /\ pc[s] = "expiries"
    /\ \/ todo' = [todo EXCEPT ![s] = getActiveExpiries(Offered[s])] /\ lost' = lost
       \/ lost < MaxLost /\ todo' = [todo EXCEPT ![s] = <<>>] /\ lost' = lost + 1
    /\ pc' = [pc EXCEPT ![s] = "test"]
    /\ UNCHANGED <<main, cached, atStart, spot, chain, csvLines, foInstruments,
                   files, runs>>

\* Under mu: the lines and the subscriptions of one index.
AddChain(s, tokens) ==
    /\ csvLines' = Append(csvLines, [symbol |-> s, tokens |-> tokens])
    /\ foInstruments' = foInstruments \union tokens

Break(s) == pc' = [pc EXCEPT ![s] = "done"] /\ UNCHANGED todo

\* Tries the next expiry; the first valid chain is taken.
Test(s) ==
    LET atm == AtmStrike(spot[s], Gap[s])
        e   == Head(todo[s])
    IN  /\ main = "fetch" /\ pc[s] = "test" /\ todo[s] # <<>>
        /\ \E dropped \in UNION {kSubset(k, InRange(s, e, atm)) : k \in 0..(MaxLost - lost)} :
              LET tokens == BuildChain(s, e, atm, dropped)
              IN  /\ lost' = lost + Cardinality(dropped)
                  /\ IF ValidChain(tokens, Lowest(s, atm))
                     THEN /\ chain' = [chain EXCEPT ![s] = tokens]
                          /\ AddChain(s, tokens)
                          /\ Break(s)
                     ELSE /\ todo' = [todo EXCEPT ![s] = Tail(@)]
                          /\ UNCHANGED <<chain, csvLines, foInstruments, pc>>
        /\ UNCHANGED <<main, cached, atStart, spot, files, runs>>

\* No expiry is left: the index is not served.
GiveUp(s) ==
    /\ main = "fetch" /\ pc[s] = "test" /\ todo[s] = <<>>
    /\ pc' = [pc EXCEPT ![s] = "done"]
    /\ UNCHANGED <<main, cached, atStart, spot, todo, chain, lost, csvLines,
                   foInstruments, files, runs>>

\* wg.Wait, then os.Create; without a file the process goes on.
Create ==
    /\ main = "fetch" /\ \A s \in Symbol : pc[s] = "done"
    /\ \/ main' = "write" /\ temp' = <<>>
       \/ main' = "serve" /\ temp' = temp
    /\ whole' = whole \union {csvLines}
    /\ UNCHANGED <<memory, final, runs>>

WriteLines ==
    /\ main = "write" /\ Len(temp) < Len(csvLines)
    /\ temp' = Append(temp, csvLines[Len(temp) + 1])
    /\ UNCHANGED <<main, memory, final, whole, runs>>

\* Puts the file in place while it is written.
RenameEarly ==
    /\ main = "write"
    /\ final' = temp
    /\ main' = IF Len(temp) = Len(csvLines) THEN "serve" ELSE "write"
    /\ UNCHANGED <<temp, memory, whole, runs>>

Rename ==
    /\ main = "write" /\ Len(temp) = Len(csvLines)
    /\ final' = temp
    /\ main' = "serve"
    /\ temp' = <<>>
    /\ UNCHANGED <<memory, whole, runs>>

Crash ==
    /\ main # "exit"
    /\ main' = "exit"
    /\ UNCHANGED <<memory, files, runs>>

\* The temporary file stays as the crash left it.
Restart ==
    /\ main = "exit" /\ runs < MaxRuns
    /\ main' = "login" /\ runs' = runs + 1
    /\ pc' = All("spot") /\ cached' = All(<<>>) /\ atStart' = All(<<>>)
    /\ spot' = All(0) /\ todo' = All(<<>>) /\ chain' = All({})
    /\ lost' = 0 /\ csvLines' = <<>> /\ foInstruments' = {}
    /\ UNCHANGED files

Next ==
    \/ Login \/ Create \/ WriteLines \/ Rename \/ Crash \/ Restart
    \/ \E s \in Symbol : Listen(s) \/ Spot(s) \/ Expiries(s) \/ Test(s) \/ GiveUp(s)

Spec == Init /\ [][Next]_vars

-----------------------------------------------------------------------------
TokenSet(batches) == UNION {b.tokens : b \in Range(batches)}

\* Every variable has a value of its kind, and no index adds its lines twice.
TypeOK ==
    /\ main \in {"login", "fetch", "write", "serve", "exit"}
    /\ pc \in [Symbol -> {"spot", "expiries", "test", "done"}]
    /\ \A s \in Symbol : spot[s] \in Nat /\ chain[s] \subseteq BrokerTokens
    /\ lost \in 0..MaxLost /\ foInstruments \subseteq BrokerTokens
    /\ runs \in 1..MaxRuns
    /\ \A i, j \in DOMAIN csvLines : csvLines[i].symbol = csvLines[j].symbol => i = j

\* The token file the decoder reads is at every moment the complete file of
\* some run, whenever the process crashes and starts again: it is written
\* under another name and renamed (main.go:467-473).
FinalCsvWhole == final \in whole

\* Once the process serves with a new token file, the options subscribed at
\* the broker are exactly those the decoder finds in the file, though the
\* goroutines append to both lists in any order and answers were lost.
FileMatchesSubscriptions ==
    (main = "serve" /\ final = csvLines) => TokenSet(final) = foInstruments

Chosen(s, e) == \E t \in chain[s] : t.expiry = e

ListsLowestCall(s, e) ==
    LET atm == AtmStrike(spot[s], Gap[s])
    IN  ValidChain(InRange(s, e, atm), Lowest(s, atm))

ListsOptions(s, e) == InRange(s, e, AtmStrike(spot[s], Gap[s])) # {}

NearestWith(s, Has(_, _)) ==
    LET usable == {e \in Offered[s] : e >= Today /\ Has(s, e)}
    IN  usable # {} => Chosen(s, Min(usable))

\* When no answer is lost, each index is served with the nearest expiry, today
\* included, whose lowest strike in range has a call, and no other.
NearestExpiryServed ==
    \A s \in Symbol :
       (pc[s] = "done" /\ lost = 0) =>
          /\ NearestWith(s, ListsLowestCall)
          /\ Cardinality({t.expiry : t \in chain[s]}) <= 1

\* "Loop through dates until we find one that actually has Option tokens"
\* (main.go:433): when no answer is lost, each index is served with the nearest
\* expiry that has an option in range.
\* It does not hold: see the disagreements in the README.
FirstExpiryWithTokens ==
    \A s \in Symbol :
       (pc[s] = "done" /\ lost = 0) => NearestWith(s, ListsOptions)

\* "Take from decoder first!" (main.go:214): when the decoder's price is in the
\* cache, it is the spot price the chain is built around.
\* It does not hold: see the disagreements in the README.
SpotFromDecoder ==
    \A s \in Symbol :
       (pc[s] # "spot" /\ atStart[s] # <<>>) => spot[s] = atStart[s].future_ltp
=============================================================================
