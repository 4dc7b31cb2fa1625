------------------------- MODULE MarketQueryProofs -------------------------
(***************************************************************************)
(* The market queries, for every set of markets, filters, orders, ties and *)
(* page limits.                                                            *)
(*                                                                         *)
(* A walk is exact because a page is an interval of ranks: what it has     *)
(* seen are the markets whose rank is at most its offset (SteadySoFar), no *)
(* rank is larger than the number of markets that match, and the walk ends *)
(* when its offset has reached that.  A write that keeps the walk may only *)
(* raise ranks (KeptSoFar): two different markets have different slugs, so *)
(* a walk by slug never falls back on the order of the HashMap, which the  *)
(* insertion of a market may change.                                       *)
(***************************************************************************)
EXTENDS MarketQuery, IndexStoreProofs, FiniteSetTheorems

\* The HashMap lists each market at a place of its own, and finitely many.
TableTyped ==
  /\ IsFiniteSet(DOMAIN markets)
  /\ table \in [DOMAIN markets -> Nat]

\* A walk without a write has seen the matching markets up to its offset, once.
SteadySoFar ==
  walk.stage = "asking" /\ walk.steady =>
    /\ walk.start = Matching(walk.query)
    /\ walk.seen = {m \in Matching(walk.query) : Rank(walk.query, m) <= walk.offset}
    /\ walk.twice = {}

\* A walk that is kept has seen those that matched when it began up to its offset.
KeptSoFar ==
  walk.stage = "asking" /\ walk.kept =>
    \A m \in walk.start :
      /\ m \in Matching(walk.query)
      /\ Rank(walk.query, m) <= walk.offset => m \in walk.seen

QueryInv ==
  /\ IndexInv
  /\ QueryTypeOK
  /\ TableTyped
  /\ SteadySoFar
  /\ KeptSoFar
  /\ WalkIsExact
  /\ WalkMissesNothing

---------------------------------------------------------------------------
(* Ranks.                                                                  *)

\* The markets that come before one in the answer.
Ahead(query, m) == {n \in Matching(query) : Before(query, n, m)}

LEMMA MatchingFinite ==
  ASSUME TableTyped, NEW query
  PROVE  IsFiniteSet(Matching(query)) /\ Cardinality(Matching(query)) \in Nat
<1>1. Matching(query) \in SUBSET DOMAIN markets
  BY DEF Matching
<1>2. IsFiniteSet(Matching(query))
  BY <1>1, FS_Subset DEF TableTyped
<1> QED
  BY <1>2, FS_CardinalityType

\* The rank of a matching market is one of 1 .. total.
LEMMA RankBounds ==
  ASSUME TableTyped, NEW query, NEW m \in Matching(query)
  PROVE  Rank(query, m) \in 1 .. Cardinality(Matching(query))
<1> DEFINE S == Matching(query)
<1>1. IsFiniteSet(S) /\ Cardinality(S) \in Nat
  BY MatchingFinite
<1>2. IsFiniteSet(S \ {m}) /\ Cardinality(S \ {m}) = Cardinality(S) - 1
  BY <1>1, FS_RemoveElement
<1>3. ~Before(query, m, m)
  <2>1. m \in DOMAIN markets
    BY DEF Matching
  <2>2. table[m] \in Nat
    BY <2>1 DEF TableTyped
  <2>3. ~(table[m] < table[m])
    BY <2>2
  <2> QED BY <2>3, Zenon DEF Before
<1>4. Ahead(query, m) \in SUBSET (S \ {m})
  BY <1>3 DEF Ahead
<1>5. /\ IsFiniteSet(Ahead(query, m))
      /\ Cardinality(Ahead(query, m)) <= Cardinality(S \ {m})
  BY <1>2, <1>4, FS_Subset
<1>6. Cardinality(Ahead(query, m)) \in Nat
  BY <1>5, FS_CardinalityType
<1>7. Rank(query, m) = 1 + Cardinality(Ahead(query, m))
  BY DEF Rank, Ahead
<1> QED
  BY <1>1, <1>2, <1>5, <1>6, <1>7

LEMMA RanksBounded ==
  TableTyped =>
    \A query : \A m \in Matching(query) : Rank(query, m) \in 1 .. Cardinality(Matching(query))
BY RankBounds

LEMMA RanksBoundedNext ==
  (TableTyped =>
     \A query :
       \A m \in Matching(query) : Rank(query, m) \in 1 .. Cardinality(Matching(query)))'
BY RanksBounded, PTL

LEMMA LimitFact ==
  ASSUME NEW query \in Queries
  PROVE  Limit(query) \in Nat \ {0}
<1>1. query.limit \in Nat
  BY QueriesAssumption
<1> QED
  BY <1>1, MaxPageAssumption DEF Limit

---------------------------------------------------------------------------
LEMMA QueryInitInv == QueryInit => QueryInv
<1> SUFFICES ASSUME QueryInit PROVE QueryInv
  OBVIOUS
<1>1. IndexInv
  BY IndexInitInv DEF QueryInit
<1>2. markets = Empty /\ table = Empty /\ DOMAIN markets = {} /\ DOMAIN table = {}
  BY EmptyFact DEF QueryInit, IndexInit
<1>3. walk = Idle /\ walk.stage = "idle"
  BY DEF QueryInit, Idle
<1>4. QueryTypeOK
  BY <1>1, <1>2, <1>3 DEF QueryTypeOK, IndexInv, Walks
<1>5. TableTyped
  <2>1. IsFiniteSet(DOMAIN markets)
    BY <1>2, FS_EmptySet
  <2>2. table \in [{} -> Nat]
    BY <1>2 DEF Empty
  <2> QED BY <1>2, <2>1, <2>2 DEF TableTyped
<1> QED
  BY <1>1, <1>3, <1>4, <1>5 DEF QueryInv, SteadySoFar, KeptSoFar, WalkIsExact,
       WalkMissesNothing

---------------------------------------------------------------------------
(* The steps of the client.                                                *)

\* A step of the client leaves the index, the places and so every rank alone.
LEMMA ClientKeepsIndex ==
  ASSUME QueryInv, UNCHANGED <<indexVars, table>>
  PROVE  /\ IndexInv'
         /\ IndexTypeOK'
         /\ TableTyped'
         /\ DOMAIN table' = DOMAIN markets'
         /\ \A a, b \in DOMAIN table' : table'[a] = table'[b] => a = b
<1>1. IndexInv'
  <2>1. [IndexNext]_indexVars
    OBVIOUS
  <2> QED BY <2>1, IndexNextInv DEF QueryInv
<1>2. markets' = markets /\ table' = table
  BY DEF indexVars
<1> QED
  BY <1>1, <1>2 DEF QueryInv, QueryTypeOK, TableTyped, IndexInv

LEMMA RanksUnchanged ==
  ASSUME UNCHANGED <<indexVars, table>>, NEW query
  PROVE  /\ Matching(query)' = Matching(query)
         /\ \A m : Rank(query, m)' = Rank(query, m)
<1>1. markets' = markets /\ table' = table
  BY DEF indexVars
<1>2. Matching(query)' = Matching(query)
  BY <1>1 DEF Matching
<1>3. ASSUME NEW m PROVE Rank(query, m)' = Rank(query, m)
  BY <1>1 DEF Rank, Matching, Before, SortKey
<1> QED BY <1>2, <1>3

LEMMA BeginWalkStep ==
  ASSUME QueryInv, NEW query \in Queries, BeginWalk(query)
  PROVE  QueryInv'
<1>1. UNCHANGED <<indexVars, table>>
  BY DEF BeginWalk
<1>2. /\ IndexInv' /\ IndexTypeOK' /\ TableTyped'
      /\ DOMAIN table' = DOMAIN markets'
      /\ \A a, b \in DOMAIN table' : table'[a] = table'[b] => a = b
  BY <1>1, ClientKeepsIndex
<1>3. /\ Matching(query)' = Matching(query)
      /\ \A m : Rank(query, m)' = Rank(query, m)
  BY <1>1, RanksUnchanged
<1>4. Matching(query) \in SUBSET Markets
  BY DEF Matching, QueryInv, IndexInv, IndexTypeOK, IsMap
<1> DEFINE begun == [stage |-> "asking", query |-> query, offset |-> 0,
                     start |-> Matching(query), seen |-> {}, twice |-> {},
                     steady |-> TRUE, kept |-> TRUE]
<1>5. walk' = begun
  BY DEF BeginWalk
<1>6. begun \in Walks
  BY <1>4 DEF Walks
<1>7. /\ walk'.stage = "asking" /\ walk'.query = query /\ walk'.offset = 0
      /\ walk'.start = Matching(query) /\ walk'.seen = {} /\ walk'.twice = {}
  BY <1>5
<1>8. QueryTypeOK'
  BY <1>2, <1>5, <1>6, <1>7 DEF QueryTypeOK
<1>9. ASSUME NEW m \in Matching(query) PROVE ~(Rank(query, m)' <= 0)
  <2>1. Rank(query, m) \in 1 .. Cardinality(Matching(query))
    BY RankBounds DEF QueryInv
  <2>2. Cardinality(Matching(query)) \in Nat
    BY MatchingFinite DEF QueryInv
  <2> QED BY <1>3, <2>1, <2>2
<1>10. SteadySoFar'
  BY <1>3, <1>7, <1>9 DEF SteadySoFar
<1>11. KeptSoFar'
  BY <1>3, <1>7, <1>9 DEF KeptSoFar
<1> QED
  BY <1>2, <1>7, <1>8, <1>10, <1>11 DEF QueryInv, WalkIsExact, WalkMissesNothing

\* A page shows the ranks after the offset: nothing is left between two pages
\* and nothing is on both (markets.rs:68-91, store.rs:122-130).
LEMMA AskPageStep ==
  ASSUME QueryInv, AskPage
  PROVE  QueryInv'
<1>1. UNCHANGED <<indexVars, table>> /\ walk.stage = "asking"
  BY DEF AskPage
<1>2. /\ IndexInv' /\ IndexTypeOK' /\ TableTyped'
      /\ DOMAIN table' = DOMAIN markets'
      /\ \A a, b \in DOMAIN table' : table'[a] = table'[b] => a = b
  BY <1>1, ClientKeepsIndex
<1> PICK query : query = walk.query
  OBVIOUS
<1> PICK page : page = Page(query, walk.offset)
  OBVIOUS
<1> PICK total : total = Cardinality(Matching(query))
  OBVIOUS
<1> PICK next : next = walk.offset + Limit(query)
  OBVIOUS
<1>3. /\ Matching(query)' = Matching(query)
      /\ \A m : Rank(query, m)' = Rank(query, m)
  BY <1>1, RanksUnchanged
<1>4. /\ walk \in Walks /\ walk.twice \subseteq walk.seen
      /\ walk \in [stage : {"asking", "done"}, query : Queries, offset : Nat,
                   start : SUBSET Markets, seen : SUBSET Markets, twice : SUBSET Markets,
                   steady : BOOLEAN, kept : BOOLEAN]
  BY <1>1 DEF QueryInv, QueryTypeOK, Walks, Idle
<1>5. query \in Queries /\ walk.offset \in Nat /\ Limit(query) \in Nat \ {0}
  <2>1. query \in Queries /\ walk.offset \in Nat
    BY <1>4
  <2> QED BY <2>1, LimitFact
<1>6. next \in Nat /\ next > walk.offset
  BY <1>5
<1>7. page \in SUBSET Markets /\ total \in Nat
  <2>1. Matching(query) \in SUBSET Markets
    BY DEF Matching, QueryInv, IndexInv, IndexTypeOK, IsMap
  <2> QED BY <2>1, MatchingFinite DEF Page, QueryInv
<1>8. walk' = [walk EXCEPT !.offset = next, !.seen = walk.seen \cup page,
                           !.twice = walk.twice \cup (walk.seen \cap page),
                           !.stage = IF next >= total THEN "done" ELSE walk.stage]
  <2>1. walk' = [walk EXCEPT !.offset = walk.offset + Limit(walk.query),
                             !.seen = @ \cup Page(walk.query, walk.offset),
                             !.twice = @ \cup (walk.seen \cap Page(walk.query, walk.offset)),
                             !.stage = IF walk.offset + Limit(walk.query)
                                            >= Cardinality(Matching(walk.query))
                                       THEN "done" ELSE @]
    BY Zenon DEF AskPage
  <2> QED BY <2>1
<1>9. /\ walk' \in [stage : {"asking", "done"}, query : Queries, offset : Nat,
                    start : SUBSET Markets, seen : SUBSET Markets, twice : SUBSET Markets,
                    steady : BOOLEAN, kept : BOOLEAN]
      /\ walk'.query = query /\ walk'.offset = next /\ walk'.start = walk.start
      /\ walk'.seen = walk.seen \cup page
      /\ walk'.twice = walk.twice \cup (walk.seen \cap page)
      /\ walk'.steady = walk.steady /\ walk'.kept = walk.kept
      /\ walk'.stage = "done" => next >= total
  BY <1>1, <1>4, <1>6, <1>7, <1>8
<1>10. QueryTypeOK'
  BY <1>2, <1>4, <1>9 DEF QueryTypeOK, Walks
<1>11. ASSUME NEW m \in Matching(query)
       PROVE  /\ Rank(query, m) \in Nat /\ Rank(query, m) <= total
              /\ m \in page <=> (walk.offset < Rank(query, m) /\ Rank(query, m) <= next)
  <2>1. Rank(query, m) \in 1 .. total
    BY RankBounds DEF QueryInv
  <2>2. m \in page <=> Rank(query, m) \in walk.offset + 1 .. next
    BY DEF Page
  <2>3. Rank(query, m) \in Nat /\ Rank(query, m) <= total
    BY <2>1, <1>7
  <2> HIDE DEF Page
  <2> QED BY <2>2, <2>3, <1>5, <1>6
<1>12. page \subseteq Matching(query)
  BY DEF Page
<1>13. ASSUME walk.steady
       PROVE  /\ walk.start = Matching(query) /\ walk'.twice = {}
              /\ walk'.seen = {m \in Matching(query) : Rank(query, m) <= next}
  <2>1. /\ walk.start = Matching(query) /\ walk.twice = {}
        /\ walk.seen = {m \in Matching(query) : Rank(query, m) <= walk.offset}
    BY <1>1, <1>13 DEF QueryInv, SteadySoFar
  <2>2. walk.seen \cap page = {}
    BY <2>1, <1>5, <1>11, <1>12
  <2>3. ASSUME NEW m \in Matching(query)
        PROVE  (m \in walk.seen \/ m \in page) <=> Rank(query, m) <= next
    BY <2>1, <2>3, <1>5, <1>6, <1>11
  <2>4. walk.seen \cup page = {m \in Matching(query) : Rank(query, m) <= next}
    BY <2>1, <2>3, <1>12
  <2> QED BY <2>1, <2>2, <2>4, <1>9
<1>14. ASSUME walk.kept, NEW m \in walk.start
       PROVE  /\ m \in Matching(query)
              /\ Rank(query, m) <= next => m \in walk'.seen
  <2>1. /\ m \in Matching(query)
        /\ Rank(query, m) <= walk.offset => m \in walk.seen
    BY <1>1, <1>14 DEF QueryInv, KeptSoFar
  <2> QED BY <2>1, <1>5, <1>9, <1>11
<1>15. SteadySoFar'
  BY <1>3, <1>9, <1>13 DEF SteadySoFar
<1>16. KeptSoFar'
  BY <1>3, <1>9, <1>14 DEF KeptSoFar
<1>17. WalkIsExact'
  <2> SUFFICES ASSUME walk'.stage = "done", walk'.steady
               PROVE  walk'.seen = walk'.start /\ walk'.twice = {}
    BY DEF WalkIsExact
  <2>1. next >= total /\ walk.steady
    BY <1>9
  <2>2. ASSUME NEW m \in Matching(query) PROVE Rank(query, m) <= next
    BY <2>1, <1>6, <1>7, <1>11
  <2> QED BY <2>1, <2>2, <1>9, <1>13
<1>18. WalkMissesNothing'
  <2> SUFFICES ASSUME walk'.stage = "done", walk'.kept, NEW m \in walk'.start
               PROVE  m \in walk'.seen
    BY DEF WalkMissesNothing
  <2>1. next >= total /\ walk.kept /\ m \in walk.start
    BY <1>9
  <2>2. m \in Matching(query) /\ (Rank(query, m) <= next => m \in walk'.seen)
    BY <2>1, <1>14
  <2> QED BY <2>1, <2>2, <1>6, <1>7, <1>11
<1> QED
  BY <1>2, <1>10, <1>15, <1>16, <1>17, <1>18 DEF QueryInv

---------------------------------------------------------------------------
(* The writes under a walk.                                                *)

\* A write changes the walk's ghosts only, and that only while it asks.
LEMMA WalkOverFact ==
  ASSUME QueryInv, NEW keeps \in BOOLEAN, WalkOver(keeps)
  PROVE  /\ walk' \in Walks
         /\ walk'.stage = walk.stage
         /\ walk'.stage # "idle" => walk'.twice \subseteq walk'.seen
         /\ walk.stage # "asking" => walk' = walk
         /\ walk.stage = "asking" =>
              /\ walk'.query = walk.query /\ walk'.offset = walk.offset
              /\ walk'.start = walk.start /\ walk'.seen = walk.seen
              /\ walk'.steady = FALSE
              /\ walk'.kept => walk.kept /\ keeps
<1>1. walk \in Walks /\ (walk.stage # "idle" => walk.twice \subseteq walk.seen)
  BY DEF QueryInv, QueryTypeOK
<1>2. CASE walk.stage # "asking"
  BY <1>1, <1>2 DEF WalkOver
<1>3. CASE walk.stage = "asking"
  <2>1. walk \in [stage : {"asking", "done"}, query : Queries, offset : Nat,
                  start : SUBSET Markets, seen : SUBSET Markets, twice : SUBSET Markets,
                  steady : BOOLEAN, kept : BOOLEAN]
    BY <1>1, <1>3 DEF Walks, Idle
  <2>2. walk' = [walk EXCEPT !.steady = FALSE, !.kept = walk.kept /\ keeps]
    BY <1>3 DEF WalkOver
  <2>3. (walk.kept /\ keeps) \in BOOLEAN
    OBVIOUS
  <2> QED BY <1>1, <1>3, <2>1, <2>2, <2>3 DEF Walks
<1> QED BY <1>2, <1>3

\* A write keeps the invariant when no market of a kept walk loses its match or
\* gets a smaller rank.
LEMMA WriteStep ==
  ASSUME QueryInv, NEW keeps \in BOOLEAN, WalkOver(keeps),
         IndexInv', TableTyped',
         \A a, b \in DOMAIN table' : table'[a] = table'[b] => a = b,
         NEW query, query = walk.query,
         walk.stage = "asking" /\ keeps =>
           \A m \in Matching(query) :
             m \in Matching(query)' /\ Rank(query, m) <= Rank(query, m)'
  PROVE  QueryInv'
<1>1. /\ walk' \in Walks
      /\ walk'.stage = walk.stage
      /\ walk'.stage # "idle" => walk'.twice \subseteq walk'.seen
      /\ walk.stage # "asking" => walk' = walk
      /\ walk.stage = "asking" =>
           /\ walk'.query = walk.query /\ walk'.offset = walk.offset
           /\ walk'.start = walk.start /\ walk'.seen = walk.seen
           /\ walk'.steady = FALSE
           /\ walk'.kept => walk.kept /\ keeps
  BY WalkOverFact
<1>2. QueryTypeOK'
  BY <1>1 DEF QueryTypeOK, IndexInv, TableTyped
<1>3. SteadySoFar'
  BY <1>1 DEF SteadySoFar
<1>4. KeptSoFar'
  <2> SUFFICES ASSUME walk'.stage = "asking", walk'.kept, NEW m \in walk'.start
               PROVE  /\ m \in Matching(walk.query)'
                      /\ Rank(walk.query, m)' <= walk'.offset => m \in walk'.seen
    BY DEF KeptSoFar
  <2>1. /\ walk.stage = "asking" /\ walk.kept /\ keeps /\ m \in walk.start
        /\ walk'.query = query /\ walk'.offset = walk.offset /\ walk'.seen = walk.seen
    BY <1>1
  <2>2. m \in Matching(query) /\ (Rank(query, m) <= walk.offset => m \in walk.seen)
    BY <2>1 DEF QueryInv, KeptSoFar
  <2>3. /\ m \in Matching(query)'
        /\ Rank(query, m) <= Rank(query, m)'
    BY <2>1, <2>2
  <2>4. Rank(query, m) \in Nat /\ Rank(query, m)' \in Nat /\ walk.offset \in Nat
    <3>1. Rank(query, m) \in 1 .. Cardinality(Matching(query))
      BY <2>2, RankBounds DEF QueryInv
    <3>2. Rank(query, m)' \in 1 .. Cardinality(Matching(query)')
      BY <2>3, RanksBoundedNext
    <3>3. walk.offset \in Nat
      BY <2>1 DEF QueryInv, QueryTypeOK, Walks, Idle
    <3> QED BY <3>1, <3>2, <3>3
  <2> QED BY <2>1, <2>2, <2>3, <2>4
<1>5. WalkIsExact' /\ WalkMissesNothing'
  BY <1>1 DEF QueryInv, WalkIsExact, WalkMissesNothing
<1> QED
  BY <1>2, <1>3, <1>4, <1>5 DEF QueryInv

\* A market that is created for the first time gets a slug of its own, so in a
\* walk by slug every other market keeps its match and what was ahead of it
\* (store.rs:99-129, 144-156).
LEMMA CreateStep ==
  ASSUME QueryInv, NEW m \in Markets, Create(m)
  PROVE  QueryInv'
<1> PICK query : query = walk.query
  OBVIOUS
<1> PICK keeps \in BOOLEAN : keeps = (m \notin DOMAIN markets /\ query.order = "slug")
  OBVIOUS
<1> PICK slug \in Slugs : IsAllocated(slug, m) /\ UpsertMarket(m, slug)
  BY DEF Create, IndexMarket
<1>1. IndexInv'
  BY IndexMarketStep DEF Create, QueryInv
<1>2. markets' = Put(markets, m, [slug |-> slug, state |-> "Created"])
  BY DEF UpsertMarket
<1>3. /\ DOMAIN markets' = DOMAIN markets \cup {m}
      /\ \A n \in DOMAIN markets : n # m => markets'[n] = markets[n]
  BY <1>2 DEF Put
<1>4. IsFiniteSet(DOMAIN markets) /\ table \in [DOMAIN markets -> Nat]
  BY DEF QueryInv, TableTyped
<1>5. IsFiniteSet(DOMAIN markets') /\ Cardinality(DOMAIN markets') \in Nat
  <2>1. IsFiniteSet(DOMAIN markets \cup {m})
    BY <1>4, FS_AddElement
  <2> QED BY <1>3, <2>1, FS_CardinalityType
<1>6. /\ table' \in [DOMAIN markets' -> Nat]
      /\ \A a, b \in DOMAIN table' : table'[a] = table'[b] => a = b
  <2>1. CASE m \in DOMAIN markets
    <3>1. table' = table /\ DOMAIN markets' = DOMAIN markets
      BY <2>1, <1>3 DEF Create
    <3> QED BY <3>1, <1>4 DEF QueryInv, QueryTypeOK
  <2>2. CASE m \notin DOMAIN markets
    <3>1. /\ table' \in [DOMAIN markets' -> 1 .. Cardinality(DOMAIN markets')]
          /\ \A a, b \in DOMAIN table' : table'[a] = table'[b] => a = b
      BY <2>2 DEF Create
    <3> QED BY <3>1, <1>5
  <2> QED BY <2>1, <2>2
<1>7. TableTyped'
  BY <1>5, <1>6 DEF TableTyped
<1>8. ASSUME walk.stage = "asking", keeps, NEW n \in Matching(query)
      PROVE  /\ n \in Matching(query)'
             /\ Rank(query, n) <= Rank(query, n)'
  <2>1. m \notin DOMAIN markets /\ query.order = "slug"
    BY <1>8
  <2>2. ASSUME NEW a \in Matching(query) PROVE a \in Matching(query)'
    <3>1. a \in DOMAIN markets /\ a # m /\ markets'[a] = markets[a]
      BY <1>3, <2>1 DEF Matching
    <3> QED BY <1>3, <3>1 DEF Matching
  <2>3. ASSUME NEW a \in Matching(query), Before(query, a, n)
        PROVE  Before(query, a, n)'
    <3>1. /\ a \in DOMAIN markets /\ n \in DOMAIN markets
          /\ markets'[a] = markets[a] /\ markets'[n] = markets[n]
      BY <1>3, <2>1 DEF Matching
    <3>2. a # n
      <4>1. table[n] \in Nat
        BY <3>1, <1>4
      <4>2. ~(table[n] < table[n])
        BY <4>1
      <4>3. ~Before(query, n, n)
        BY <4>2, Zenon DEF Before
      <4> QED BY <2>3, <4>3
    <3>3. /\ markets[a].slug \in Slugs /\ markets[n].slug \in Slugs
          /\ markets[a].slug # markets[n].slug
      <4>1. markets[a] \in MarketRecords /\ markets[n] \in MarketRecords
        BY <3>1 DEF QueryInv, IndexInv, IndexTypeOK, IsMap
      <4>2. /\ slug_to_market_id[markets[a].slug] = a
            /\ slug_to_market_id[markets[n].slug] = n
        BY <3>1 DEF QueryInv, IndexInv, SlugsAreInverse
      <4> QED BY <4>1, <4>2, <3>2 DEF MarketRecords
    <3>4. SortKey(query, a) # SortKey(query, n)
      BY <2>1, <3>3, RankAssumption DEF SortKey
    <3>5. SortKey(query, a)' = SortKey(query, a) /\ SortKey(query, n)' = SortKey(query, n)
      BY <2>1, <3>1 DEF SortKey
    <3>6. Before(query, a, n) = (IF query.ascending THEN SortKey(query, a) < SortKey(query, n)
                                 ELSE SortKey(query, a) > SortKey(query, n))
      BY <3>4, Zenon DEF Before
    <3>7. Before(query, a, n)' = (IF query.ascending
                                  THEN SortKey(query, a)' < SortKey(query, n)'
                                  ELSE SortKey(query, a)' > SortKey(query, n)')
      BY <3>4, <3>5, Zenon DEF Before
    <3> QED BY <2>3, <3>5, <3>6, <3>7
  <2>4. Ahead(query, n) \in SUBSET Ahead(query, n)'
    BY <2>2, <2>3 DEF Ahead
  <2>5. IsFiniteSet(Ahead(query, n)')
    <3>1. Ahead(query, n)' \in SUBSET DOMAIN markets'
      BY DEF Ahead, Matching
    <3> QED BY <3>1, <1>5, FS_Subset
  <2>6. Cardinality(Ahead(query, n)) <= Cardinality(Ahead(query, n)')
    BY <2>4, <2>5, FS_Subset
  <2>7. /\ Cardinality(Ahead(query, n)) \in Nat
        /\ Cardinality(Ahead(query, n)') \in Nat
    BY <2>4, <2>5, FS_Subset, FS_CardinalityType
  <2>8. /\ Rank(query, n) = 1 + Cardinality(Ahead(query, n))
        /\ Rank(query, n)' = 1 + Cardinality(Ahead(query, n)')
    BY DEF Rank, Ahead
  <2> QED BY <2>2, <2>6, <2>7, <2>8
<1>9. WalkOver(keeps)
  BY DEF Create
<1> QED
  BY <1>1, <1>6, <1>7, <1>8, <1>9, WriteStep

\* A resolution changes what matches only under a filter by state
\* (store.rs:99-129, 185-201).
LEMMA ResolveStep ==
  ASSUME QueryInv, NEW m \in Markets, Resolve(m)
  PROVE  QueryInv'
<1> PICK query : query = walk.query
  OBVIOUS
<1> PICK keeps \in BOOLEAN : keeps = (query.state = Any)
  OBVIOUS
<1>1. IndexInv'
  BY ResolveMarketStep DEF Resolve, QueryInv
<1>2. /\ table' = table
      /\ DOMAIN markets' = DOMAIN markets
      /\ \A n \in DOMAIN markets : markets'[n].slug = markets[n].slug
  BY DEF Resolve, ResolveMarket, QueryInv, IndexInv, IndexTypeOK, IsMap, MarketRecords
<1>3. /\ TableTyped'
      /\ \A a, b \in DOMAIN table' : table'[a] = table'[b] => a = b
  BY <1>2 DEF QueryInv, QueryTypeOK, TableTyped
<1>4. ASSUME keeps, NEW n \in Matching(query)
      PROVE  /\ n \in Matching(query)'
             /\ Rank(query, n) <= Rank(query, n)'
  <2>1. query.state = Any
    BY <1>4
  <2>2. Matching(query)' = Matching(query)
    BY <1>2, <2>1 DEF Matching
  <2>3. ASSUME NEW a \in Matching(query) PROVE SortKey(query, a)' = SortKey(query, a)
    BY <1>2 DEF SortKey, Matching
  <2>4. ASSUME NEW a \in Matching(query)
        PROVE  Before(query, a, n)' = Before(query, a, n)
    <3>1. SortKey(query, a)' = SortKey(query, a) /\ SortKey(query, n)' = SortKey(query, n)
      BY <2>3
    <3> QED BY <3>1, <1>2, Zenon DEF Before
  <2>5. Ahead(query, n)' = Ahead(query, n)
    BY <2>2, <2>4 DEF Ahead
  <2>6. /\ Rank(query, n) = 1 + Cardinality(Ahead(query, n))
        /\ Rank(query, n)' = 1 + Cardinality(Ahead(query, n)')
    BY DEF Rank, Ahead
  <2>7. Rank(query, n) \in 1 .. Cardinality(Matching(query))
    BY RankBounds DEF QueryInv
  <2> QED BY <2>2, <2>5, <2>6, <2>7
<1>5. WalkOver(keeps)
  BY DEF Resolve
<1> QED
  BY <1>1, <1>3, <1>4, <1>5, WriteStep

---------------------------------------------------------------------------
LEMMA QueryNextInv ==
  ASSUME QueryInv, [QueryNext]_queryVars
  PROVE  QueryInv'
<1>1. CASE \E m \in Markets : Create(m) \/ Resolve(m)
  BY <1>1, CreateStep, ResolveStep
<1>2. CASE \E query \in Queries : BeginWalk(query)
  BY <1>2, BeginWalkStep
<1>3. CASE AskPage
  BY <1>3, AskPageStep
<1>4. CASE UNCHANGED queryVars
  <2>1. UNCHANGED <<indexVars, table>> /\ walk' = walk
    BY <1>4 DEF queryVars
  <2>2. /\ IndexInv' /\ IndexTypeOK' /\ TableTyped'
        /\ DOMAIN table' = DOMAIN markets'
        /\ \A a, b \in DOMAIN table' : table'[a] = table'[b] => a = b
    BY <2>1, ClientKeepsIndex
  <2> PICK query : query = walk.query
    OBVIOUS
  <2>3. /\ Matching(query)' = Matching(query)
        /\ \A m : Rank(query, m)' = Rank(query, m)
    BY <2>1, RanksUnchanged
  <2>4. QueryTypeOK' /\ WalkIsExact' /\ WalkMissesNothing'
    BY <2>1, <2>2 DEF QueryInv, QueryTypeOK, WalkIsExact, WalkMissesNothing
  <2>5. SteadySoFar' /\ KeptSoFar'
    BY <2>1, <2>3 DEF QueryInv, SteadySoFar, KeptSoFar
  <2> QED BY <2>2, <2>4, <2>5 DEF QueryInv
<1> QED
  BY <1>1, <1>2, <1>3, <1>4 DEF QueryNext

\* The inductive invariant of the market queries.
THEOREM QuerySafety == QuerySpec => []QueryInv
<1>1. QueryInv /\ [QueryNext]_queryVars => QueryInv'
  BY QueryNextInv
<1> QED
  BY QueryInitInv, <1>1, PTL DEF QuerySpec

\* The types of the index, of the places in the HashMap and of the client's
\* walk (store.rs:46-53, markets.rs:53-91).
THEOREM QueryTypeCorrect == QuerySpec => []QueryTypeOK
<1>1. QueryInv => QueryTypeOK
  BY DEF QueryInv
<1> QED
  BY QuerySafety, <1>1, PTL

\* A walk through an index that is not written meanwhile shows each matching
\* market on exactly one page, whatever the filter, the order, its ties and the
\* limit (store.rs:71-131, markets.rs:53-91).
THEOREM WalksAreExact == QuerySpec => []WalkIsExact
<1>1. QueryInv => WalkIsExact
  BY DEF QueryInv
<1> QED
  BY QuerySafety, <1>1, PTL

\* Markets created under a walk by slug, and resolutions under one without a
\* filter by state, push no market past the walk (store.rs:99-129, 152-156,
\* 185-201).
THEOREM WalksMissNothing == QuerySpec => []WalkMissesNothing
<1>1. QueryInv => WalkMissesNothing
  BY DEF QueryInv
<1> QED
  BY QuerySafety, <1>1, PTL

\* The list of markets and the lookup by slug agree on which market has a slug
\* (store.rs:75-82, 144-150).
THEOREM SlugQueriesAgree == QuerySpec => []SlugQueryAgrees
<1>1. QueryInv => SlugQueryAgrees
  <2> SUFFICES ASSUME QueryInv, NEW slug \in Slugs
               PROVE  {m \in DOMAIN markets : markets[m].slug = slug} = EventBySlug(slug)
    BY DEF SlugQueryAgrees
  <2>1. /\ \A m \in DOMAIN markets :
             /\ markets[m].slug \in DOMAIN slug_to_market_id
             /\ slug_to_market_id[markets[m].slug] = m
        /\ \A t \in DOMAIN slug_to_market_id :
             /\ slug_to_market_id[t] \in DOMAIN markets
             /\ markets[slug_to_market_id[t]].slug = t
    BY DEF QueryInv, IndexInv, SlugsAreInverse
  <2> QED BY <2>1 DEF EventBySlug
<1> QED
  BY QuerySafety, <1>1, PTL
=============================================================================
