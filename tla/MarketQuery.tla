---------------------------- MODULE MarketQuery ----------------------------
(***************************************************************************)
(* GET /markets (http/routes/markets.rs, http/process/markets.rs and       *)
(* query_markets of indexer/store.rs) and a client that walks through its  *)
(* pages while the indexer creates and resolves markets.                   *)
(*                                                                         *)
(* Each page is a request of its own that reads the index once.  Markets   *)
(* are sorted stably, so those with equal keys stay in the order in which  *)
(* the HashMap happens to list them.                                       *)
(***************************************************************************)
EXTENDS IndexStore

CONSTANTS Deadline,      \* resolution_deadline of each market
          QuestionRank,  \* the alphabetical order of the markets' questions ...
          SlugRank,      \* ... and of the slugs
          Queries,       \* the QueryMarketsParams that the client may walk with
          MaxPage        \* MAX_MARKETS_PAGE_LIMIT

VARIABLES
  table,   \* the order in which the HashMap lists the markets
  walk     \* the client's walk

queryVars == <<indexVars, table, walk>>

Any == "any"

ASSUME DeadlineAssumption == Deadline \in [Markets -> Nat]
ASSUME RankAssumption ==
  /\ QuestionRank \in [Markets -> Nat]
  /\ SlugRank \in [Slugs -> Nat]
  /\ \A a, b \in Slugs : SlugRank[a] = SlugRank[b] => a = b
ASSUME QueriesAssumption ==
  Queries \subseteq [order : {"resolution_deadline", "slug", "question"}, ascending : BOOLEAN,
                     state : {Any, "Created", "Resolved"}, slugs : SUBSET Slugs,
                     market_ids : SUBSET Markets, limit : Nat]
ASSUME MaxPageAssumption == MaxPage \in Nat \ {0}

---------------------------------------------------------------------------
\* Mutant: the limit has no lower bound.
LimitUnclamped(query) == IF query.limit > MaxPage THEN MaxPage ELSE query.limit

\* build_market_query: clamp(1, MAX_MARKETS_PAGE_LIMIT).
Limit(query) ==
  IF query.limit = 0 THEN 1 ELSE IF query.limit > MaxPage THEN MaxPage ELSE query.limit

\* The retains of query_markets; an empty list is no filter.
Matching(query) ==
  {m \in DOMAIN markets :
     /\ query.slugs # {} => markets[m].slug \in query.slugs
     /\ query.market_ids # {} => m \in query.market_ids
     /\ query.state # Any => markets[m].state = query.state}

SortKey(query, m) ==
  CASE query.order = "slug" -> SlugRank[markets[m].slug]
    [] query.order = "question" -> QuestionRank[m]
    [] OTHER -> Deadline[m]

\* Mutant: the markets are not sorted.
Unsorted(query, a, b) == table[a] < table[b]

\* The order of the answer; a descending sort is stable too.
Before(query, a, b) ==
  LET x == SortKey(query, a)
      y == SortKey(query, b)
  IN IF x = y THEN table[a] < table[b]
     ELSE IF query.ascending THEN x < y ELSE x > y

Rank(query, m) == 1 + Cardinality({n \in Matching(query) : Before(query, n, m)})

\* Mutant: the page begins with the last market of the one before.
PageOverlapping(query, offset) ==
  {m \in Matching(query) : Rank(query, m) \in offset .. offset + Limit(query) - 1}

\* skip(offset), take(limit).
Page(query, offset) ==
  {m \in Matching(query) : Rank(query, m) \in offset + 1 .. offset + Limit(query)}

\* get_event_by_slug, as the set of what it finds.
EventBySlug(slug) ==
  {slug_to_market_id[t] : t \in {slug} \cap DOMAIN slug_to_market_id} \cap DOMAIN markets

---------------------------------------------------------------------------
\* start, seen, twice  ghost: the markets that matched when the walk began, those
\*                     that it has seen, and those seen on more than one page
\* steady              ghost: nothing was written since
\* kept                ghost: no market left its place for one before it
Idle == [stage |-> "idle"]

Walks == {Idle} \cup
  [stage : {"asking", "done"}, query : Queries, offset : Nat, start : SUBSET Markets,
   seen : SUBSET Markets, twice : SUBSET Markets, steady : BOOLEAN, kept : BOOLEAN]

QueryTypeOK ==
  /\ IndexTypeOK
  /\ DOMAIN table = DOMAIN markets
  /\ \A a, b \in DOMAIN table : table[a] = table[b] => a = b
  /\ walk \in Walks
  /\ walk.stage # "idle" => walk.twice \subseteq walk.seen

QueryInit ==
  /\ IndexInit
  /\ table = Empty
  /\ walk = Idle

\* A write under the walk: an insertion may move every entry of the HashMap,
\* a market of a walk by slug keeps its place in relation to the others unless
\* it is created again, and one of a walk by state can leave it.
WalkOver(keeps) ==
  walk' = IF walk.stage = "asking"
          THEN [walk EXCEPT !.steady = FALSE, !.kept = @ /\ keeps] ELSE walk

Create(m) ==
  /\ IndexMarket(m)
  /\ IF m \in DOMAIN markets THEN table' = table
     ELSE table' \in {place \in [DOMAIN markets' -> 1 .. Cardinality(DOMAIN markets')] :
                        \A a, b \in DOMAIN place : place[a] = place[b] => a = b}
  /\ WalkOver(m \notin DOMAIN markets /\ walk.query.order = "slug")

Resolve(m) ==
  /\ ResolveMarket(m)
  /\ markets' # markets
  /\ WalkOver(walk.query.state = Any)
  /\ UNCHANGED table

BeginWalk(query) ==
  /\ walk = Idle
  /\ walk' = [stage |-> "asking", query |-> query, offset |-> 0, start |-> Matching(query),
              seen |-> {}, twice |-> {}, steady |-> TRUE, kept |-> TRUE]
  /\ UNCHANGED <<indexVars, table>>

\* One request: the answer names its limit and the total, from which the client
\* knows where the next page begins and whether there is one.
AskPage ==
  LET page == Page(walk.query, walk.offset)
      next == walk.offset + Limit(walk.query)
  IN /\ walk.stage = "asking"
     /\ walk' = [walk EXCEPT !.offset = next, !.seen = @ \cup page,
                             !.twice = @ \cup (walk.seen \cap page),
                             !.stage = IF next >= Cardinality(Matching(walk.query))
                                       THEN "done" ELSE @]
     /\ UNCHANGED <<indexVars, table>>

QueryNext ==
  \/ \E m \in Markets : Create(m) \/ Resolve(m)
  \/ \E query \in Queries : BeginWalk(query)
  \/ AskPage

\* The client goes on asking.
QuerySpec == QueryInit /\ [][QueryNext]_queryVars /\ WF_queryVars(AskPage)

---------------------------------------------------------------------------
\* A walk through an index that is not written meanwhile shows each matching
\* market on exactly one page, whatever the filter, the order, its ties and the
\* limit that was asked for (store.rs:71-131, markets.rs:53-91).
WalkIsExact ==
  walk.stage = "done" /\ walk.steady =>
    walk.seen = walk.start /\ walk.twice = {}

\* Markets that are created during a walk by slug can push others to a later
\* page but never past it: each market that matched at its beginning is seen.
\* Equal deadlines or questions, a resolution under a filter by state, or a
\* market created again, which changes its slug, can make the walk skip one
\* (store.rs:99-129, 152-156, 185-201).
WalkMissesNothing ==
  walk.stage = "done" /\ walk.kept => walk.start \subseteq walk.seen

\* The list and the lookup by slug agree on which market has a slug, although
\* one reads the markets and the other the map of slugs
\* (store.rs:75-82, 144-150).
SlugQueryAgrees ==
  \A slug \in Slugs :
    {m \in DOMAIN markets : markets[m].slug = slug} = EventBySlug(slug)

\* A client that follows offset, limit and total comes to the end, also when it
\* asked for a limit of 0 and markets are created under it
\* (markets.rs:68-72, store.rs:122-130).
WalkEnds == walk.stage = "asking" ~> walk.stage = "done"
=============================================================================
