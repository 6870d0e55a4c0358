------------------------------ MODULE Chunker -------------------------------
(***************************************************************************)
(* How DeployStraddle sizes the two legs of a straddle and cuts them into  *)
(* the build orders that executeBuild places one after the other: the      *)
(* delta neutral adjustment and GenerateChunkedOrders.  Orders count lots; *)
(* deltas are tenths, and that of the put is given without its sign.       *)
(***************************************************************************)
EXTENDS Integers, Sequences, FiniteSets, SequencesExt

CONSTANTS LotsLimit,      \* the largest number of lots DeployStraddle takes
                          \* (1; the chunker itself sets no limit)
          LotSizes,       \* contracts per lot
          MaxOrderQtys,   \* MaxOrderQtyForSymbol, in contracts
          Deltas

ChunkerAssumption ==
    /\ LotsLimit \in Nat \ {0}
    /\ LotSizes \subseteq Nat \ {0} /\ MaxOrderQtys \subseteq Nat \ {0}
    /\ \A size \in LotSizes, max \in MaxOrderQtys : size <= max
    /\ Deltas \subseteq 1..10

Leg == {"CE", "PE"}
chunkDivisor == 7

VARIABLES request, chunks, placed

vars == <<request, chunks, placed>>

AtMost(a, b) == IF a < b THEN a ELSE b
AtLeast(a, b) == IF a > b THEN a ELSE b

\* math.Round of a / b
Round(a, b) == (2 * a + b) \div (2 * b)

-----------------------------------------------------------------------------
(* The size of the legs *)

\* The call leg is scaled by ratio = |ceDelta / peDelta|, the put leg is not.
\* Without a delta for both legs the code does as if deltaNeutral were off.
LegLots(r) ==
    LET target == r.lots * r.lotSize
        ceContracts == AtLeast(Round(target * r.ceDelta, r.peDelta), r.lotSize)
        peContracts == AtLeast(target, r.lotSize)
    IN  IF r.deltaNeutral
        THEN [CE |-> AtLeast(1, ceContracts \div r.lotSize),
              PE |-> AtLeast(1, peContracts \div r.lotSize)]
        ELSE [CE |-> r.lots, PE |-> r.lots]

NetDelta(r, lots) == lots["CE"] * r.ceDelta - lots["PE"] * r.peDelta

-----------------------------------------------------------------------------
(* GenerateChunkedOrders *)

minLotsPerOrder(r) ==
    AtMost(r.lotsPerCall, AtLeast(1, r.maxOrderQty \div r.lotSize))

\* The lots of a leg in chunk c of 0..6.
lotsThisChunk(total, c) ==
    total \div chunkDivisor + (IF c < total % chunkDivisor THEN 1 ELSE 0)

\* nFull orders of min lots and one with the rest.
Orders(leg, lots, min) ==
    [i \in 1..(lots \div min) |-> [leg |-> leg, lots |-> min]]
      \o (IF lots % min = 0 THEN <<>> ELSE <<[leg |-> leg, lots |-> lots % min]>>)

\* The orders of the legs one after the other, or call and put in turn.
LegByLeg(ce, pe) == ce \o pe
Interleaved(ce, pe) ==
    LET round(i) == (IF i <= Len(ce) THEN <<ce[i]>> ELSE <<>>)
                      \o (IF i <= Len(pe) THEN <<pe[i]>> ELSE <<>>)
    IN  FlattenSeq([i \in 1..AtLeast(Len(ce), Len(pe)) |-> round(i)])

GenerateChunkedOrders(r) ==
    LET lots == LegLots(r)
        of(leg, c) == Orders(leg, lotsThisChunk(lots[leg], c), minLotsPerOrder(r))
    IN  SelectSeq([c \in 1..chunkDivisor |->
                     Interleaved(of("CE", c - 1), of("PE", c - 1))],
                  LAMBDA chunk : chunk # <<>>)

-----------------------------------------------------------------------------
(* A deployment: the orders are cut, then placed in order *)

Requests ==
    [lots: 1..LotsLimit, lotSize: LotSizes, lotsPerCall: 1..LotsLimit,
     maxOrderQty: MaxOrderQtys, deltaNeutral: BOOLEAN, ceDelta: Deltas,
     peDelta: Deltas]

AllOrders == FlattenSeq(chunks)

\* What is placed is part of what was cut, and every order trades some lots of
\* a leg.
TypeOK ==
    /\ request \in Requests
    /\ Len(chunks) <= chunkDivisor
    /\ \A i \in DOMAIN AllOrders :
         AllOrders[i].leg \in Leg /\ AllOrders[i].lots \in Nat \ {0}
    /\ placed \in 0..Len(AllOrders)

Init ==
    /\ request \in Requests
    /\ request.lotsPerCall <= request.lots    \* OrderLotsPerCall is cut to Lots
    /\ chunks = <<>> /\ placed = 0

DeployStraddle ==
    /\ chunks = <<>>
    /\ chunks' = GenerateChunkedOrders(request)
    /\ UNCHANGED <<request, placed>>

PlaceOrder ==
    /\ placed < Len(AllOrders)
    /\ placed' = placed + 1
    /\ UNCHANGED <<request, chunks>>

Next == DeployStraddle \/ PlaceOrder
Spec == Init /\ [][Next]_vars

-----------------------------------------------------------------------------
(* Properties *)

LotsIn(orders, leg) ==
    FoldLeft(LAMBDA sum, o : IF o.leg = leg THEN sum + o.lots ELSE sum, 0, orders)

\* The orders cut for a leg add up to the CEQty or PEQty stored with the
\* trade, and none is larger than the exchange takes.
WholePosition ==
    chunks # <<>> =>
      /\ \A leg \in Leg : LotsIn(AllOrders, leg) = LegLots(request)[leg]
      /\ \A i \in DOMAIN AllOrders :
           AllOrders[i].lots * request.lotSize <= request.maxOrderQty

\* A straddle with equal legs is never left leaning: at any point of the build
\* the calls placed lead the puts by one order at most, and after every chunk
\* the legs are level.
LegsStayLevel ==
    LET so_far == SubSeq(AllOrders, 1, placed)
        lead == LotsIn(so_far, "CE") - LotsIn(so_far, "PE")
        boundary == \E c \in 0..Len(chunks) :
                      placed = Len(FlattenSeq(SubSeq(chunks, 1, c)))
    IN  LegLots(request)["CE"] = LegLots(request)["PE"] =>
          /\ lead \in 0..minLotsPerOrder(request)
          /\ boundary => lead = 0

\* The build is spread evenly: of each leg an earlier chunk holds as many lots
\* as a later one or one more.
EvenChunks ==
    \A leg \in Leg, i, j \in DOMAIN chunks :
      i < j => LotsIn(chunks[i], leg) - LotsIn(chunks[j], leg) \in 0..1

\* "Delta neutral adjustment": the adjusted legs are not further from neutral
\* than the legs the request asked for.
\* It does not hold: see the disagreements in the README.
AdjustmentHelps ==
    LET size(n) == IF n < 0 THEN -n ELSE n
        plain == [l \in Leg |-> request.lots]
    IN  chunks # <<>> =>
          size(NetDelta(request, LegLots(request)))
            <= size(NetDelta(request, plain))
=============================================================================
