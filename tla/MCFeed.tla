------------------------------- MODULE MCFeed -------------------------------
(* The feed decoder with two symbols on two exchanges. *)
EXTENDS FeedDecoder

CONSTANTS NSE, BSE

Row(exchange, opType, symbol, expiry, strike, tokens) ==
    [exchange |-> exchange, opType |-> opType, symbol |-> symbol,
     expiry |-> expiry, strike |-> strike, tokens |-> tokens]

MCUndated == 0
MCToday == 20
MCFiles ==
    << << Row("NSE", "CE", "NIFTY", 20, 10, {1}), Row("NSE", "PE", "NIFTY", 20, 10, {2}),
          Row("NSE", "CE", "NIFTY", 20, 12, {3}), Row("NSE", "PE", "NIFTY", 20, 12, {4}),
          Row("NSE", "CE", "NIFTY", 27, 10, {5}), Row("NSE", "PE", "NIFTY", 27, 10, {6}),
          Row("NSE", "CE", "NIFTY", 13, 10, {9}),       \* expired
          Row("NSE", "FUT", "NIFTY", 27, 0, {7}),
          Row("NSE", "EQ", "NIFTY", 27, 0, {8}) >>,
       << Row("BSE", "CE", "SENSEX", MCUndated, 10, {21, 31}),
          Row("BSE", "PE", "SENSEX", MCUndated, 10, {22}) >> >>

Message(state, claims, recs) == [state |-> state, claims |-> claims, recs |-> recs]
Packet(kind, messages) == [kind |-> kind, messages |-> messages]
One(kind, recs) == Packet(kind, <<Message("good", Len(recs), recs)>>)
Rec(token, price) == [token |-> token, price |-> price, book |-> 1, name |-> ""]
Index(name, price) == [token |-> 0, price |-> price, book |-> 1, name |-> name]
OtherBook(token, price) == [Rec(token, price) EXCEPT !.book = 3]

MCMulticast ==
    (NSE :> {One("nse", <<Rec(7, 11)>>),
             One("nse", <<Rec(3, 1), Rec(4, 3), OtherBook(1, 9)>>),
             Packet("nse", <<Message("cut", 3, <<Rec(1, 0), Rec(2, 9)>>)>>),
             Packet("lzo", <<Message("good", 2, <<Rec(1, 3), Rec(2, 1)>>),
                             Message("corrupt", 1, <<Rec(5, 9)>>),
                             Message("good", 2, <<Rec(5, 2), Rec(6, 2)>>),
                             Message("overlong", 1, <<Rec(5, 9)>>)>>)})
 @@ (BSE :> {One("bse_index", <<Index("SENSEX", 9), Index("OTHER", 0)>>),
             One("bse_quote", <<Rec(21, 2), Rec(22, 1)>>),
             Packet("bse_quote", <<Message("cut", 2, <<Rec(22, 2), Rec(31, 5)>>)>>)})

MCFallback == {One("json_tick", <<Rec(1, 1)>>), One("json_tick", <<Rec(9, 1)>>),
               One("json_index", <<Index("NIFTY", 13)>>),
               One("json_other", <<Rec(0, 0)>>)}

\* A smaller feed for the liveness run: one packet of each source.
LiveFiles ==
    << << Row("NSE", "CE", "NIFTY", 20, 10, {1}), Row("NSE", "PE", "NIFTY", 20, 10, {2}) >>,
       << Row("BSE", "CE", "SENSEX", 27, 10, {21}) >> >>
LiveMulticast == (NSE :> {One("nse", <<Rec(1, 3), Rec(2, 1)>>)})
              @@ (BSE :> {One("bse_index", <<Index("SENSEX", 9)>>)})
LiveFallback == {One("json_tick", <<Rec(1, 1)>>)}

\* Ticks whose token carries a segment in its high byte.
HighByte == {One("json_tick", <<Rec(MaskedTokens + 1, 1)>>)}

MCSymbols == <<"NIFTY", "SENSEX", "BANKEX">>
MCNoRoot == {<<12, 11, 1>>}

\* Three rows whose parities disagree, while no future has ticked.
WideFiles ==
    << << Row("NSE", "CE", "NIFTY", 20, 10, {1}), Row("NSE", "PE", "NIFTY", 20, 10, {2}),
          Row("NSE", "CE", "NIFTY", 20, 12, {3}), Row("NSE", "PE", "NIFTY", 20, 12, {4}),
          Row("NSE", "CE", "NIFTY", 20, 14, {5}), Row("NSE", "PE", "NIFTY", 20, 14, {6}) >> >>
WideMulticast ==
    [r \in Reader |-> {One("nse", <<Rec(1, 5), Rec(2, 1)>>),
                       One("nse", <<Rec(3, 1), Rec(4, 3)>>),
                       One("nse", <<Rec(5, 1), Rec(6, 3)>>)}]
=============================================================================
