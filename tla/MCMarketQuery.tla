--------------------------- MODULE MCMarketQuery ---------------------------
(* Three markets, two of them with the same deadline and the same question, *)
(* and queries with ties, filters, a limit of 0 and one that is too large.  *)
EXTENDS MarketQuery

CONSTANTS m1, m2, m3, s1

MCSpotsOf == [m \in Markets |-> <<s1, s1>>]
MCCandidates == [m \in Markets |-> IF m = m3 THEN <<"b", "b-2", "b-3", "b-4">>
                                   ELSE <<"a", "a-2", "a-3", "a-4">>]
MCDeadline == [m \in Markets |-> IF m = m3 THEN 1 ELSE 2]
MCQuestionRank == [m \in Markets |-> IF m = m3 THEN 2 ELSE 1]
MCSlugRank ==
  LET inOrder == <<"a", "a-2", "a-3", "a-4", "b", "b-2", "b-3", "b-4">>
  IN [slug \in Slugs |-> CHOOSE i \in 1 .. Len(inOrder) : inOrder[i] = slug]

Query(order, ascending, state, slugs, limit) ==
  [order |-> order, ascending |-> ascending, state |-> state, slugs |-> slugs,
   market_ids |-> {}, limit |-> limit]

MCQueries ==
  {Query("resolution_deadline", TRUE, Any, {}, 1),
   Query("question", FALSE, "Created", {}, 3),
   Query("slug", TRUE, Any, {}, 0),
   Query("slug", FALSE, Any, {"a", "a-2", "b"}, 1)}
=============================================================================
