----------------------------- MODULE MCBookFeed -----------------------------
(* BookFeed on one spot with two prices: the smallest book in which a       *)
(* snapshot of depth 1 leaves a level out.                                  *)
EXTENDS BookFeed

Bids(levels) == [side \in Sides |-> IF side = "buy" THEN levels ELSE NoLevels]

\* One bid, and an answer with an empty level that must not be stored.
MCChainAnswers ==
  {[levels |-> Bids([p \in {1} |-> 1]), last_trade_price |-> NoPrice],
   [levels |-> Bids([p \in {1, 2} |-> p - 1]), last_trade_price |-> 2]}
=============================================================================
