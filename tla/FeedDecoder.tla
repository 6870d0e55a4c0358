----------------------------- MODULE FeedDecoder -----------------------------
(***************************************************************************)
(* The feed decoder: two socket readers put packets into a queue, one      *)
(* dispatcher turns each packet into ticks and applies them to the option  *)
(* chains, and a publisher sends a message for every chain, over and over. *)
(*                                                                         *)
(* Each reader polls its own multicast socket and its own subscription to  *)
(* the one fallback publisher.  A tick is applied under the writer lock    *)
(* and a chain copied under the reader lock, so each is one step; between  *)
(* the ticks of one packet the publisher may copy a chain.                 *)
(***************************************************************************)
EXTENDS Contracts

CONSTANTS
    Reader,         \* the socket readers
    Multicast,      \* packets the exchanges send, [Reader -> set of packets]
    Fallback,       \* packets of the fallback publisher
    Symbols,        \* sequence of the symbols that are published
    MaxPackets,     \* bound on the packets sent
    MaxRecords      \* most records of a message and messages of a container

VARIABLES
    udp,            \* packets waiting in each multicast socket
    zmq,            \* packets waiting in each fallback subscription
    poll,           \* the socket each reader looks at next
    queue,          \* packet_queue
    ticks,          \* ticks of the packet being dispatched, still to apply
    chains,         \* chains_
    next,           \* position of the publisher in PublishOrder
    sent,           \* the last message published for each chain
    count           \* packets sent so far

vars == <<udp, zmq, poll, queue, ticks, chains, next, sent, count>>

Nothing == [atm |-> 0]

Packets == (UNION {Multicast[r] : r \in Reader}) \union Fallback

-----------------------------------------------------------------------------
(* Parsing: from a packet to its ticks.                                    *)
(*                                                                         *)
(* A packet has a kind and messages.  A message has records, the number of *)
(* records its header claims and a state: "good", "corrupt" if it cannot   *)
(* be decompressed, "overlong" if its length exceeds the packet, "cut" if  *)
(* the packet ends within the last record.  A record has a token, a price, *)
(* a book type and, if it is an index value, the name of the index.        *)

\* Futures move the underlying of every chain of their symbol.
process_tick(token, price, info) ==
    IF info.opType = "FUT"
    THEN [op |-> "spot", symbol |-> info.base_symbol, price |-> price]
    ELSE [op |-> "option", token |-> token, price |-> price]

TokenTicks(rec, price) ==
    LET info == get_contract(rec.token)
    IN  IF info = NoContract THEN <<>>
        ELSE <<process_tick(rec.token, price, info)>>

IndexTicks(rec) ==
    IF rec.price > 0
    THEN <<process_tick(0, rec.price, [opType |-> "FUT", base_symbol |-> rec.name])>>
    ELSE <<>>

\* Only whole records are read, and only those of the two order books.
parse_7208(msg) ==
    LET whole == IF msg.state = "cut" THEN Len(msg.recs) - 1 ELSE Len(msg.recs)
        Ticks(i) == IF msg.recs[i].book \in {1, 2}
                    THEN TokenTicks(msg.recs[i], msg.recs[i].price) ELSE <<>>
    IN  IF msg.claims \notin 1..MaxRecords THEN <<>>
        ELSE FlattenSeq([i \in 1..Min({msg.claims, whole}) |-> Ticks(i)])

\* Fields past the end of the packet are read as 0: the last record of a cut
\* message is a tick with price 0.
parse_bse(kind, msg) ==
    LET Price(i) == IF msg.state = "cut" /\ i = Len(msg.recs)
                    THEN 0 ELSE msg.recs[i].price
        Ticks(i) == IF kind = "bse_index"
                    THEN IndexTicks([msg.recs[i] EXCEPT !.price = Price(i)])
                    ELSE TokenTicks(msg.recs[i], Price(i))
    IN  FlattenSeq([i \in 1..Min({msg.claims, Len(msg.recs)}) |-> Ticks(i)])

parse_json(kind, msg) ==
    LET rec == Head(msg.recs)
    IN  CASE kind = "json_index" -> IndexTicks(rec)
          [] kind = "json_tick" -> IF rec.token > 0 /\ rec.price > 0
                                   THEN TokenTicks(rec, rec.price) ELSE <<>>
          [] OTHER -> <<>>

\* A container ends at its first overlong message; a message that does not
\* decompress is left out.
decompress(messages) ==
    LET Overlong == {i \in DOMAIN messages : messages[i].state = "overlong"}
        upto == Min({i - 1 : i \in Overlong} \union {Len(messages)})
    IN  SelectSeq(SubSeq(messages, 1, upto), LAMBDA m : m.state # "corrupt")

dispatch(packet) ==
    CASE packet.kind \in {"bse_index", "bse_quote"} ->
            parse_bse(packet.kind, Head(packet.messages))
      [] packet.kind \in {"json_tick", "json_index", "json_other"} ->
            parse_json(packet.kind, Head(packet.messages))
      [] packet.kind = "nse" -> parse_7208(Head(packet.messages))
      [] packet.kind = "lzo" ->
            LET good == decompress(packet.messages)
            IN  IF Len(packet.messages) \notin 1..MaxRecords THEN <<>>
                ELSE FlattenSeq([i \in DOMAIN good |-> parse_7208(good[i])])

-----------------------------------------------------------------------------
(* The chain builder *)

\* Every chain of the symbol gets the price and is recalculated.
update_spot_prices(ch, symbol, price) ==
    LET With(c) == IF price > 0 THEN [c EXCEPT !.fut_ltp = price] ELSE c
        Outcomes(k) == IF ch[k].symbol = symbol
                       THEN recalculate_greeks_internals(With(ch[k]))
                       ELSE {ch[k]}
    IN  {f \in [DOMAIN ch -> UNION {Outcomes(k) : k \in DOMAIN ch}] :
            \A k \in DOMAIN ch : f[k] \in Outcomes(k)}

WithPrice(row, token, price) ==
    IF row.ce_token = token THEN [row EXCEPT !.ce_ltp = price]
                            ELSE [row EXCEPT !.pe_ltp = price]

\* A token without a row changes nothing.
update_option_prices(ch, token, price) ==
    LET Rows(k) == {i \in DOMAIN ch[k].strikes :
                       token \in {ch[k].strikes[i].ce_token, ch[k].strikes[i].pe_token}}
        Hits == {k \in DOMAIN ch : Rows(k) # {}}
        key == CHOOSE k \in Hits : TRUE
        row == CHOOSE i \in Rows(key) : TRUE
        priced == [ch[key] EXCEPT !.strikes[row] = WithPrice(@, token, price)]
    IN  IF Hits = {} THEN {ch}
        ELSE {[ch EXCEPT ![key] = c] : c \in recalculate_greeks_internals(priced)}

Applied(ch, tick) ==
    IF tick.op = "spot" THEN update_spot_prices(ch, tick.symbol, tick.price)
                        ELSE update_option_prices(ch, tick.token, tick.price)

-----------------------------------------------------------------------------
(* Sources: the exchanges and the fallback publisher *)

\* A datagram may be lost on its way.
ExchangeSends(r) ==
    /\ count < MaxPackets
    /\ \E p \in Multicast[r] :
          \/ udp' = [udp EXCEPT ![r] = Append(@, p)]
          \/ UNCHANGED udp
    /\ count' = count + 1
    /\ UNCHANGED <<zmq, poll, queue, ticks, chains, next, sent>>

\* Every subscription gets its copy.
FallbackSends ==
    /\ count < MaxPackets
    /\ \E p \in Fallback : zmq' = [r \in Reader |-> Append(zmq[r], p)]
    /\ count' = count + 1
    /\ UNCHANGED <<udp, poll, queue, ticks, chains, next, sent>>

-----------------------------------------------------------------------------
(* The threads of the decoder *)

\* One pass of a reader looks once at each socket.
PollUdp(r) ==
    /\ poll[r] = "udp"
    /\ IF udp[r] = <<>>
       THEN UNCHANGED <<udp, queue>>
       ELSE /\ queue' = Append(queue, Head(udp[r]))
            /\ udp' = [udp EXCEPT ![r] = Tail(@)]
    /\ poll' = [poll EXCEPT ![r] = "zmq"]
    /\ UNCHANGED <<zmq, ticks, chains, next, sent, count>>

PollZmq(r) ==
    /\ poll[r] = "zmq"
    /\ IF zmq[r] = <<>>
       THEN UNCHANGED <<zmq, queue>>
       ELSE /\ queue' = Append(queue, Head(zmq[r]))
            /\ zmq' = [zmq EXCEPT ![r] = Tail(@)]
    /\ poll' = [poll EXCEPT ![r] = "udp"]
    /\ UNCHANGED <<udp, ticks, chains, next, sent, count>>

Pop ==
    /\ ticks = <<>>
    /\ queue # <<>>
    /\ ticks' = dispatch(Head(queue))
    /\ queue' = Tail(queue)
    /\ UNCHANGED <<udp, zmq, poll, chains, next, sent, count>>

Tick ==
    /\ ticks # <<>>
    /\ \E c \in Applied(chains, Head(ticks)) : chains' = c
    /\ ticks' = Tail(ticks)
    /\ UNCHANGED <<udp, zmq, poll, queue, next, sent, count>>

\* One pass of the publisher: every symbol, every expiry of it.
PublishOrder ==
    FlattenSeq([i \in DOMAIN Symbols |->
        LET exps == AvailableExpiries(Symbols[i])
        IN  [j \in DOMAIN exps |-> <<Symbols[i], exps[j]>>]])

\* The prices and the strikes are numbers, and parsing a packet gives ticks.
PriceTick ==
    [op : {"spot"}, symbol : STRING, price : Int]
       \union [op : {"option"}, token : Int, price : Int]

ASSUME FeedAssumption ==
    /\ MaxPackets \in Nat
    /\ \A s \in Seeds : \A k \in Keys : s[k].strikes \in Seq(OptionStrike)
    /\ \A p \in Packets : dispatch(p) \in Seq(PriceTick)
    /\ PublishOrder \in Seq(Keys)

\* Publishes the first chain again and again.
PublishFirst ==
    LET key == PublishOrder[next]
    IN  /\ \E msg \in Published(chains[key]) : sent' = [sent EXCEPT ![key] = msg]
        /\ UNCHANGED <<udp, zmq, poll, queue, ticks, chains, next, count>>

Publish ==
    LET key == PublishOrder[next]
    IN  /\ PublishOrder # <<>>
        /\ \E msg \in Published(chains[key]) : sent' = [sent EXCEPT ![key] = msg]
        /\ next' = (next % Len(PublishOrder)) + 1
        /\ UNCHANGED <<udp, zmq, poll, queue, ticks, chains, count>>

-----------------------------------------------------------------------------
\* set_chain recalculates each chain as it is seeded.
Init ==
    /\ udp = [r \in Reader |-> <<>>]
    /\ zmq = [r \in Reader |-> <<>>]
    /\ poll = [r \in Reader |-> "udp"]
    /\ queue = <<>>
    /\ ticks = <<>>
    /\ \E s \in Seeds : chains = [k \in Keys |-> WithGreeks(s[k])]
    /\ next = 1
    /\ sent = [k \in Keys |-> Nothing]
    /\ count = 0

Next ==
    \/ \E r \in Reader : ExchangeSends(r) \/ PollUdp(r) \/ PollZmq(r)
    \/ FallbackSends
    \/ Pop
    \/ Tick
    \/ Publish

Spec == Init /\ [][Next]_vars

\* The threads run forever; the sources owe nothing.
FairSpec ==
    /\ Spec
    /\ \A r \in Reader : WF_vars(PollUdp(r)) /\ WF_vars(PollZmq(r))
    /\ WF_vars(Pop) /\ WF_vars(Tick) /\ WF_vars(Publish)
-----------------------------------------------------------------------------
(* Properties *)

\* What set_chain was given for a row and no tick may change.
Seeded(ch) ==
    [i \in DOMAIN ch.strikes |->
        <<ch.strikes[i].strike, ch.strikes[i].ce_token, ch.strikes[i].pe_token>>]

\* Types: sockets and queue hold packets, a chain keeps its rows and tokens.
TypeOK ==
    /\ \A r \in Reader : udp[r] \in Seq(Multicast[r]) /\ zmq[r] \in Seq(Fallback)
    /\ poll \in [Reader -> {"udp", "zmq"}]
    /\ queue \in Seq(Packets)
    /\ \E s \in Seeds : \A k \in Keys :
          Seeded(chains[k]) = Seeded(s[k]) /\ chains[k].symbol = s[k].symbol
    /\ PublishOrder # <<>> => next \in 1..Len(PublishOrder)
    /\ count \in 0..MaxPackets

\* The Greeks stored in every row are the ones of the prices, of the future
\* and of the underlying stored with it, whichever tick came last: a copy of
\* a chain, taken between any two ticks, never shows Greeks of other prices.
\* (ChainBuilder recalculates the whole chain under the lock of the update.)
GreeksMatchChain ==
    /\ \A k \in Keys : chains[k] = WithGreeks(chains[k])
    /\ \A k \in Keys : sent[k] # Nothing => sent[k].chain = WithGreeks(sent[k].chain)

\* All expiries of a symbol are priced from the same future, at
\* every moment a chain can be copied (update_spot_price walks all chains of
\* the symbol under one lock).
FutureAgrees ==
    \A k, l \in Keys : chains[k].symbol = chains[l].symbol
                          => chains[k].fut_ltp = chains[l].fut_ltp

\* Exactly one row of a published chain is marked at the money, and no
\* listed strike is closer to the published underlying by a strike step or
\* more (the publisher rounds to the step before it snaps to a strike).
PublishedAtm ==
    \A k \in Keys : sent[k] # Nothing =>
        LET ch == sent[k].chain
            under == IF sent[k].synthetic > 0 THEN sent[k].synthetic ELSE Middle(ch)
        IN  /\ Cardinality({i \in DOMAIN ch.strikes :
                               ch.strikes[i].strike = sent[k].atm}) = 1
            /\ \A i \in DOMAIN ch.strikes :
                  Distance(sent[k].atm, under)
                     < Distance(ch.strikes[i].strike, under) + detect_strike_step(ch)

\* What is published as synthetic future is the stored one, which the Greeks
\* of the same message are computed from, unless none is stored yet.
\* (chain_builder.hpp: "Canonical derived underlying everywhere".)
PublishedIsStored ==
    \A k \in Keys : sent[k] # Nothing /\ sent[k].chain.synthetic_future > 0
                       => sent[k].synthetic = sent[k].chain.synthetic_future

\* At every moment a chain can be copied, its rows are those it was seeded with,
\* its Greeks are those of its prices and its future is the symbol's.
ChainsConsistent == TypeOK /\ GreeksMatchChain /\ FutureAgrees

\* A published message marks the row at the money and shows the underlying that
\* its Greeks are computed from.
PublishedConsistent == PublishedAtm /\ PublishedIsStored

Parities(ch) == {Parity(ch.strikes[i]) : i \in Usable(ch)}

\* What a step may make of a synthetic future.
Moved(old, new, parities) == old > 0 => new = old \/ (new > 0 /\ new \in parities)

KeepsOrMoves ==
    \A k \in Keys : Moved(chains[k].synthetic_future, chains'[k].synthetic_future,
                          Parities(chains'[k]))

\* Once a chain has a synthetic future it keeps it or replaces it by the
\* put-call parity of a listed strike with both legs priced: a raw future
\* never becomes the underlying again, and it is never lost.
SyntheticSticky == [][KeepsOrMoves]_chains

\* A tick of a contract that get_contract finds reaches the row of that
\* contract: it is never resolved and then dropped.
\* It does not hold: see the disagreements in the README.
ResolvedTickHasRow ==
    \A i \in DOMAIN ticks :
        ticks[i].op = "option" =>
            \E k \in Keys : \E j \in DOMAIN chains[k].strikes :
                ticks[i].token \in {chains[k].strikes[j].ce_token,
                                    chains[k].strikes[j].pe_token}

\* When the sources fall silent, every chain is eventually published as the
\* last packets left it: nothing stays in a socket or in the queue.
PublishedCatchesUp ==
    \A k \in {PublishOrder[i] : i \in DOMAIN PublishOrder} :
        <>[](sent[k] # Nothing /\ sent[k].chain = chains[k])
=============================================================================
