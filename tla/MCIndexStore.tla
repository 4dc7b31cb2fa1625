---------------------------- MODULE MCIndexStore ----------------------------
(* Two markets: the slug that the first one takes when it is created again  *)
(* is the first choice of the second, which uses one spot market for both   *)
(* outcomes and shares it with the first.                                   *)
EXTENDS IndexStore

CONSTANTS m1, m2, s1, s2

MCSpotsOf == [m \in Markets |-> IF m = m1 THEN <<s1, s2>> ELSE <<s2, s2>>]
MCCandidates == [m \in Markets |-> IF m = m1 THEN <<"a", "a-2", "a-3">>
                                   ELSE <<"a-2", "a-2-2", "a-2-3">>]
MCBodies ==
  {[side |-> "buy", price |-> 1, size |-> 2, user |-> "u", status |-> "open", filled |-> 0],
   [side |-> "sell", price |-> 1, size |-> 1, user |-> "u", status |-> "other", filled |-> 2]}
=============================================================================
