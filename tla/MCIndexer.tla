----------------------------- MODULE MCIndexer -----------------------------
(* One market and two orders: bids at two prices of one spot market, the    *)
(* second with events that name no contract, or orders of the same id in    *)
(* different spot markets.  A request claims what an order was placed with, *)
(* or a market order by another user that is filled and yet open.           *)
EXTENDS Indexer

CONSTANTS m1, yes, no, r1, r2

MCSpotsOf == [m \in Markets |-> <<yes, no>>]
MCCandidates == [m \in Markets |-> <<"a", "a-2">>]
MCListed == {<<yes, 1>>, <<yes, 2>>, <<no, 2>>}
MCSameId == {<<yes, 1>>, <<no, 1>>}
MCSecond == {<<yes, 2>>}
MCOneSpot == [m \in Markets |-> <<yes, yes>>]
MCOneOrder == {<<yes, 1>>}
MCTwoBids == {<<yes, 1>>, <<yes, 2>>}
MCOrderSide == [k \in Listed |-> "buy"]
MCOrderPrice == [k \in Listed |-> k[2]]
MCOrderAmount == [k \in Listed |-> 2]
MCOrderOwner == [k \in Listed |-> "u"]
MCTruth == [side |-> "buy", price |-> 1, size |-> 2, user |-> "u", status |-> "open",
            filled |-> 0]
MCContradiction == [side |-> "sell", price |-> 0, size |-> 3, user |-> "v", status |-> "open",
                    filled |-> 3]
MCTruths == {MCTruth}
MCContradictions == {MCContradiction}
=============================================================================
