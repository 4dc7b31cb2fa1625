---------------------------- MODULE MCOrderQuery ----------------------------
(* The two bids of MCIndexer with one owner, at prices that differ in their *)
(* fraction only.                                                           *)
EXTENDS MCIndexer, OrderQuery
=============================================================================
