-------------------------- MODULE IndexStoreProofs --------------------------
(***************************************************************************)
(* The invariants of IndexStore, for every set of markets, spot markets,   *)
(* slugs and orders.                                                       *)
(*                                                                         *)
(* The parts of IndexInv lean on each other in one direction only:         *)
(* ContextRoundTrips of an order that is inserted needs SpotMapAgrees of   *)
(* the spot market it is looked up under, and both need types.  None needs *)
(* a strengthening that the runs do not check.                             *)
(***************************************************************************)
EXTENDS IndexStore, TLAPS

IndexInv ==
  /\ IndexTypeOK
  /\ SlugsAreInverse
  /\ SpotMapAgrees
  /\ ContextRoundTrips

---------------------------------------------------------------------------
(* Maps.                                                                   *)

\* HashMap::insert adds or replaces one entry and leaves the others.
LEMMA PutTyped ==
  ASSUME NEW keys, NEW values, NEW map, IsMap(map, keys, values),
         NEW key \in keys, NEW value \in values
  PROVE  IsMap(Put(map, key, value), keys, values)
  BY DEF Put, IsMap

\* A record update of an entry that exists keeps the map's domain.
LEMMA ReplaceFact ==
  ASSUME NEW keys, NEW values, NEW map, IsMap(map, keys, values),
         NEW key \in DOMAIN map, NEW value \in values
  PROVE  /\ IsMap([map EXCEPT ![key] = value], keys, values)
         /\ DOMAIN [map EXCEPT ![key] = value] = DOMAIN map
         /\ [map EXCEPT ![key] = value][key] = value
         /\ \A k \in DOMAIN map : k # key => [map EXCEPT ![key] = value][k] = map[k]
  BY DEF IsMap

LEMMA EmptyFact ==
  ASSUME NEW keys, NEW values
  PROVE  IsMap(Empty, keys, values) /\ DOMAIN Empty = {}
  BY DEF Empty, IsMap

\* The spot market of an outcome.
OutcomeSpot(m, outcome) == SpotsOf[m][IF outcome = "yes" THEN 1 ELSE 2]

LEMMA SpotsOfFact ==
  ASSUME NEW m \in Markets
  PROVE  SpotsOf[m][1] \in Spots /\ SpotsOf[m][2] \in Spots
  BY SpotsOfAssumption

---------------------------------------------------------------------------
LEMMA IndexInitInv == IndexInit => IndexInv
<1> SUFFICES ASSUME IndexInit PROVE IndexInv
  OBVIOUS
<1>1. /\ DOMAIN markets = {} /\ DOMAIN slug_to_market_id = {}
      /\ DOMAIN spot_to_market = {} /\ DOMAIN orders = {}
  BY EmptyFact DEF IndexInit
<1>2. IndexTypeOK
  BY EmptyFact DEF IndexInit, IndexTypeOK, LastPrices
<1> QED
  BY <1>1, <1>2 DEF IndexInv, SlugsAreInverse, SpotMapAgrees, ContextRoundTrips

---------------------------------------------------------------------------
(* Markets.                                                                *)

LEMMA IndexMarketStep ==
  ASSUME IndexInv, NEW m \in Markets, IndexMarket(m)
  PROVE  IndexInv'
<1> PICK slug \in Slugs : IsAllocated(slug, m) /\ UpsertMarket(m, slug)
  BY DEF IndexMarket
<1> DEFINE market == [slug |-> slug, state |-> "Created"]
           yes == [market |-> m, outcome |-> "yes"]
           no == [market |-> m, outcome |-> "no"]
           rest == WithoutMarket(m)
           first == Put(spot_to_market, SpotsOf[m][1], yes)
<1>1. /\ market \in MarketRecords
      /\ yes \in SpotMarketRefs /\ no \in SpotMarketRefs
  BY DEF MarketRecords, SpotMarketRefs, Outcomes
<1>2. /\ IsMap(rest, Slugs, Markets)
      /\ DOMAIN rest = {t \in DOMAIN slug_to_market_id : slug_to_market_id[t] # m}
      /\ \A t \in DOMAIN rest : rest[t] = slug_to_market_id[t]
  BY DEF WithoutMarket, IndexInv, IndexTypeOK, IsMap
<1>3. slug \notin DOMAIN slug_to_market_id
  BY DEF IsAllocated
<1>4. /\ markets' = Put(markets, m, market)
      /\ slug_to_market_id' = Put(rest, slug, m)
      /\ spot_to_market' = Put(first, SpotsOf[m][2], no)
      /\ last_trade_price_by_spot' = last_trade_price_by_spot
      /\ orders' = orders
  BY DEF UpsertMarket, IndexMarket
<1>5. /\ IsMap(markets, Markets, MarketRecords)
      /\ IsMap(spot_to_market, Spots, SpotMarketRefs)
  BY DEF IndexInv, IndexTypeOK
<1>6. /\ IsMap(markets', Markets, MarketRecords)
      /\ DOMAIN markets' = DOMAIN markets \cup {m}
      /\ markets'[m] = market
      /\ \A n \in DOMAIN markets : n # m => markets'[n] = markets[n]
  <2>1. market \in MarketRecords /\ markets' = Put(markets, m, market)
    BY <1>1, <1>4
  <2>2. IsMap(markets, Markets, MarketRecords)
    BY <1>5
  <2> HIDE DEF market
  <2>8. IsMap(Put(markets, m, market), Markets, MarketRecords)
    BY <2>1, <2>2, PutTyped
  <2>9. /\ DOMAIN Put(markets, m, market) = DOMAIN markets \cup {m}
        /\ Put(markets, m, market)[m] = market
        /\ \A n \in DOMAIN markets : n # m => Put(markets, m, market)[n] = markets[n]
    BY DEF Put
  <2> QED BY <2>1, <2>8, <2>9
<1>7. /\ IsMap(slug_to_market_id', Slugs, Markets)
      /\ DOMAIN slug_to_market_id' = DOMAIN rest \cup {slug}
      /\ slug_to_market_id'[slug] = m
      /\ \A t \in DOMAIN rest : t # slug => slug_to_market_id'[t] = rest[t]
  <2>1. IsMap(rest, Slugs, Markets) /\ slug_to_market_id' = Put(rest, slug, m)
    BY <1>2, <1>4
  <2> HIDE DEF rest
  <2>8. IsMap(Put(rest, slug, m), Slugs, Markets)
    BY <2>1, PutTyped
  <2>9. /\ DOMAIN Put(rest, slug, m) = DOMAIN rest \cup {slug}
        /\ Put(rest, slug, m)[slug] = m
        /\ \A t \in DOMAIN rest : t # slug => Put(rest, slug, m)[t] = rest[t]
    BY DEF Put
  <2> QED BY <2>1, <2>8, <2>9
<1>8. /\ IsMap(first, Spots, SpotMarketRefs)
      /\ DOMAIN first = DOMAIN spot_to_market \cup {SpotsOf[m][1]}
      /\ first[SpotsOf[m][1]] = yes
      /\ \A s \in DOMAIN spot_to_market : s # SpotsOf[m][1] => first[s] = spot_to_market[s]
  <2>1. SpotsOf[m][1] \in Spots /\ yes \in SpotMarketRefs
    BY <1>1, SpotsOfFact
  <2>2. IsMap(spot_to_market, Spots, SpotMarketRefs)
    BY <1>5
  <2> HIDE DEF yes
  <2>8. IsMap(Put(spot_to_market, SpotsOf[m][1], yes), Spots, SpotMarketRefs)
    BY <2>1, <2>2, PutTyped
  <2>9. /\ DOMAIN Put(spot_to_market, SpotsOf[m][1], yes) = DOMAIN spot_to_market \cup {SpotsOf[m][1]}
        /\ Put(spot_to_market, SpotsOf[m][1], yes)[SpotsOf[m][1]] = yes
        /\ \A s \in DOMAIN spot_to_market :
             s # SpotsOf[m][1]
             => Put(spot_to_market, SpotsOf[m][1], yes)[s] = spot_to_market[s]
    BY DEF Put
  <2> QED BY <2>8, <2>9
<1>9. /\ IsMap(spot_to_market', Spots, SpotMarketRefs)
      /\ DOMAIN spot_to_market' = DOMAIN first \cup {SpotsOf[m][2]}
      /\ spot_to_market'[SpotsOf[m][2]] = no
      /\ \A s \in DOMAIN first : s # SpotsOf[m][2] => spot_to_market'[s] = first[s]
  <2>1. SpotsOf[m][2] \in Spots /\ no \in SpotMarketRefs
    BY <1>1, SpotsOfFact
  <2>2. IsMap(first, Spots, SpotMarketRefs) /\ spot_to_market' = Put(first, SpotsOf[m][2], no)
    BY <1>4, <1>8
  <2> HIDE DEF no, first
  <2>8. IsMap(Put(first, SpotsOf[m][2], no), Spots, SpotMarketRefs)
    BY <2>1, <2>2, PutTyped
  <2>9. /\ DOMAIN Put(first, SpotsOf[m][2], no) = DOMAIN first \cup {SpotsOf[m][2]}
        /\ Put(first, SpotsOf[m][2], no)[SpotsOf[m][2]] = no
        /\ \A s \in DOMAIN first : s # SpotsOf[m][2] => Put(first, SpotsOf[m][2], no)[s] = first[s]
    BY DEF Put
  <2> QED BY <2>2, <2>8, <2>9
<1>10. IndexTypeOK'
  BY <1>4, <1>6, <1>7, <1>9 DEF IndexInv, IndexTypeOK
<1>11. SlugsAreInverse'
  <2>1. ASSUME NEW n \in DOMAIN markets'
        PROVE  /\ markets'[n].slug \in DOMAIN slug_to_market_id'
               /\ slug_to_market_id'[markets'[n].slug] = n
    <3>1. CASE n = m
      BY <3>1, <1>6, <1>7
    <3>2. CASE n # m
      <4>1. n \in DOMAIN markets /\ markets'[n] = markets[n]
        BY <3>2, <1>6
      <4>2. /\ markets[n].slug \in DOMAIN slug_to_market_id
            /\ slug_to_market_id[markets[n].slug] = n
        BY <4>1 DEF IndexInv, SlugsAreInverse
      <4>3. markets[n].slug \in DOMAIN rest /\ markets[n].slug # slug
        BY <4>2, <3>2, <1>2, <1>3
      <4> HIDE DEF rest
      <4> QED BY <4>1, <4>2, <4>3, <1>2, <1>7
    <3> QED BY <3>1, <3>2
  <2>2. ASSUME NEW t \in DOMAIN slug_to_market_id'
        PROVE  /\ slug_to_market_id'[t] \in DOMAIN markets'
               /\ markets'[slug_to_market_id'[t]].slug = t
    <3>1. CASE t = slug
      BY <3>1, <1>6, <1>7
    <3>2. CASE t # slug
      <4>1. /\ t \in DOMAIN slug_to_market_id
            /\ slug_to_market_id[t] # m
            /\ slug_to_market_id'[t] = slug_to_market_id[t]
        BY <3>2, <1>2, <1>7
      <4>2. /\ slug_to_market_id[t] \in DOMAIN markets
            /\ markets[slug_to_market_id[t]].slug = t
        BY <4>1 DEF IndexInv, SlugsAreInverse
      <4> QED BY <4>1, <4>2, <1>6
    <3> QED BY <3>1, <3>2
  <2> QED BY <2>1, <2>2 DEF SlugsAreInverse
<1>12. SpotMapAgrees'
  <2> SUFFICES ASSUME NEW s \in DOMAIN spot_to_market'
               PROVE  /\ spot_to_market'[s].market \in DOMAIN markets'
                      /\ s = OutcomeSpot(spot_to_market'[s].market, spot_to_market'[s].outcome)
    BY DEF SpotMapAgrees, OutcomeSpot
  <2>1. CASE s = SpotsOf[m][2]
    BY <2>1, <1>6, <1>9 DEF OutcomeSpot
  <2>2. CASE s # SpotsOf[m][2] /\ s = SpotsOf[m][1]
    <3>1. spot_to_market'[s] = yes
      BY <2>2, <1>8, <1>9
    <3> QED BY <3>1, <2>2, <1>6 DEF OutcomeSpot
  <2>3. CASE s # SpotsOf[m][2] /\ s # SpotsOf[m][1]
    <3>1. s \in DOMAIN spot_to_market /\ spot_to_market'[s] = spot_to_market[s]
      BY <2>3, <1>8, <1>9
    <3>2. /\ spot_to_market[s].market \in DOMAIN markets
          /\ s = OutcomeSpot(spot_to_market[s].market, spot_to_market[s].outcome)
      BY <3>1 DEF IndexInv, SpotMapAgrees, OutcomeSpot
    <3> QED BY <3>1, <3>2, <1>6
  <2> QED BY <2>1, <2>2, <2>3
<1>13. ContextRoundTrips'
  BY <1>4, <1>6 DEF IndexInv, ContextRoundTrips, ContextSpot
<1> QED
  BY <1>10, <1>11, <1>12, <1>13 DEF IndexInv

LEMMA ResolveMarketStep ==
  ASSUME IndexInv, NEW m \in Markets, ResolveMarket(m)
  PROVE  IndexInv'
<1>1. /\ slug_to_market_id' = slug_to_market_id
      /\ spot_to_market' = spot_to_market
      /\ last_trade_price_by_spot' = last_trade_price_by_spot
      /\ orders' = orders
  BY DEF ResolveMarket
<1>2. /\ IsMap(markets', Markets, MarketRecords)
      /\ DOMAIN markets' = DOMAIN markets
      /\ \A n \in DOMAIN markets : markets'[n].slug = markets[n].slug
  BY DEF ResolveMarket, IndexInv, IndexTypeOK, IsMap, MarketRecords
<1>3. IndexTypeOK'
  BY <1>1, <1>2 DEF IndexInv, IndexTypeOK
<1>4. SlugsAreInverse'
  BY <1>1, <1>2 DEF IndexInv, SlugsAreInverse
<1>5. SpotMapAgrees' /\ ContextRoundTrips'
  BY <1>1, <1>2 DEF IndexInv, SpotMapAgrees, ContextRoundTrips, ContextSpot
<1> QED
  BY <1>3, <1>4, <1>5 DEF IndexInv

LEMMA RecordTradeStep ==
  ASSUME IndexInv, NEW s \in Spots, NEW price \in Prices, RecordTrade(s, price)
  PROVE  IndexInv'
<1>1. /\ markets' = markets
      /\ slug_to_market_id' = slug_to_market_id
      /\ spot_to_market' = spot_to_market
      /\ orders' = orders
  BY DEF RecordTrade
<1>2. last_trade_price_by_spot' \in [Spots -> LastPrices]
  BY DEF RecordTrade, IndexInv, IndexTypeOK, LastPrices
<1> QED
  BY <1>1, <1>2 DEF IndexInv, IndexTypeOK, SlugsAreInverse, SpotMapAgrees,
       ContextRoundTrips, ContextSpot

---------------------------------------------------------------------------
(* Orders.                                                                 *)

\* What a stored order must be, for the key it is stored under.
SoundOrder(key, stored) ==
  /\ stored \in StoredOrders
  /\ stored.market \in DOMAIN markets
  /\ OutcomeSpot(stored.market, stored.outcome) = key[1]

\* An order that is inserted or replaced by a sound one keeps the invariant.
LEMMA OrderWrite ==
  ASSUME IndexInv, NEW key \in Keys, NEW stored, SoundOrder(key, stored),
         OrderVarsOnly,
         IsMap(orders', Keys, StoredOrders),
         DOMAIN orders' = DOMAIN orders \cup {key},
         orders'[key] = stored,
         \A k \in DOMAIN orders : k # key => orders'[k] = orders[k]
  PROVE  IndexInv'
<1>1. /\ markets' = markets
      /\ slug_to_market_id' = slug_to_market_id
      /\ spot_to_market' = spot_to_market
      /\ last_trade_price_by_spot' = last_trade_price_by_spot
  BY DEF OrderVarsOnly
<1>2. IndexTypeOK' /\ SlugsAreInverse' /\ SpotMapAgrees'
  BY <1>1 DEF IndexInv, IndexTypeOK, SlugsAreInverse, SpotMapAgrees
<1>3. ASSUME NEW k \in DOMAIN orders'
      PROVE  SoundOrder(k, orders'[k])
  <2>1. CASE k = key
    BY <2>1
  <2>2. CASE k # key
    <3>1. k \in DOMAIN orders /\ orders'[k] = orders[k]
      BY <2>2
    <3>2. orders[k] \in StoredOrders
      BY <3>1 DEF IndexInv, IndexTypeOK, IsMap
    <3> QED
      BY <3>1, <3>2 DEF IndexInv, ContextRoundTrips, ContextSpot, SoundOrder, OutcomeSpot
  <2> QED BY <2>1, <2>2
<1>4. ContextRoundTrips'
  BY <1>1, <1>3 DEF ContextRoundTrips, ContextSpot, SoundOrder, OutcomeSpot
<1> QED
  BY <1>2, <1>4 DEF IndexInv

LEMMA NoOrderWrite ==
  ASSUME IndexInv, OrderVarsOnly, orders' = orders
  PROVE  IndexInv'
BY DEF OrderVarsOnly, IndexInv, IndexTypeOK, SlugsAreInverse, SpotMapAgrees,
     ContextRoundTrips, ContextSpot

\* The orders that are stored are sound.
LEMMA StoredIsSound ==
  ASSUME IndexInv, NEW key \in DOMAIN orders
  PROVE  SoundOrder(key, orders[key])
<1>1. orders[key] \in StoredOrders
  BY DEF IndexInv, IndexTypeOK, IsMap
<1> QED
  BY <1>1 DEF IndexInv, ContextRoundTrips, ContextSpot, SoundOrder, OutcomeSpot

LEMMA IndexOrderStep ==
  ASSUME IndexInv, NEW key \in Keys, NEW body \in OrderBodies, IndexOrder(key, body)
  PROVE  IndexInv'
<1>1. OrderVarsOnly
  BY DEF IndexOrder
<1>2. CASE key[1] \notin DOMAIN spot_to_market
  BY <1>1, <1>2, NoOrderWrite DEF IndexOrder
<1>3. CASE key[1] \in DOMAIN spot_to_market
  <2> DEFINE ref == spot_to_market[key[1]]
             stored == Stored(ref, body)
  <2>1. ref \in SpotMarketRefs
    BY <1>3 DEF IndexInv, IndexTypeOK, IsMap
  <2>2. ref.market \in DOMAIN markets /\ OutcomeSpot(ref.market, ref.outcome) = key[1]
    BY <1>3 DEF IndexInv, SpotMapAgrees, OutcomeSpot
  <2>4. /\ stored \in StoredOrders
        /\ stored.market = ref.market /\ stored.outcome = ref.outcome
    <3> HIDE DEF ref
    <3> QED BY <2>1 DEF SpotMarketRefs, StoredOrders, OrderBodies, Stored
  <2> HIDE DEF stored
  <2>5. SoundOrder(key, stored)
    BY <2>2, <2>4 DEF SoundOrder
  <2> USE DEF stored
  <2>6. orders' = Put(orders, key, stored)
    BY <1>3 DEF IndexOrder
  <2>7. IsMap(orders, Keys, StoredOrders)
    BY DEF IndexInv, IndexTypeOK
  <2> HIDE DEF stored
  <2>8. IsMap(Put(orders, key, stored), Keys, StoredOrders)
    BY <2>4, <2>7, PutTyped
  <2>9. /\ DOMAIN Put(orders, key, stored) = DOMAIN orders \cup {key}
        /\ Put(orders, key, stored)[key] = stored
        /\ \A k \in DOMAIN orders : k # key => Put(orders, key, stored)[k] = orders[k]
    BY DEF Put
  <2> QED BY <1>1, <2>5, <2>6, <2>8, <2>9, OrderWrite
<1> QED BY <1>2, <1>3

\* The three updates change an order that is stored, or nothing.
LEMMA ChangeStep ==
  ASSUME IndexInv, NEW key \in Keys, NEW stored, Change(key, stored),
         HasOrder(key) => SoundOrder(key, stored)
  PROVE  IndexInv'
<1>1. OrderVarsOnly
  BY DEF Change
<1>2. CASE ~HasOrder(key)
  BY <1>1, <1>2, NoOrderWrite DEF Change
<1>3. CASE HasOrder(key)
  <2>1. /\ orders' = [orders EXCEPT ![key] = stored]
        /\ key \in DOMAIN orders
    BY <1>3 DEF Change, HasOrder
  <2>2. IsMap(orders, Keys, StoredOrders) /\ stored \in StoredOrders
    BY <1>3 DEF IndexInv, IndexTypeOK, SoundOrder
  <2>3. /\ IsMap(orders', Keys, StoredOrders)
        /\ DOMAIN orders' = DOMAIN orders
        /\ orders'[key] = stored
        /\ \A k \in DOMAIN orders : k # key => orders'[k] = orders[k]
    BY <2>1, <2>2, ReplaceFact
  <2>4. DOMAIN orders' = DOMAIN orders \cup {key}
    BY <2>1, <2>3
  <2> QED BY <1>1, <1>3, <2>3, <2>4, OrderWrite
<1> QED BY <1>2, <1>3

LEMMA UpdateCancelledStep ==
  ASSUME IndexInv, NEW key \in Keys, UpdateCancelled(key)
  PROVE  IndexInv'
<1> DEFINE stored == [orders[key] EXCEPT !.status = "cancelled"]
<1>1. ASSUME HasOrder(key) PROVE SoundOrder(key, stored)
  <2>1. SoundOrder(key, orders[key])
    BY <1>1, StoredIsSound DEF HasOrder
  <2> QED BY <2>1 DEF SoundOrder, StoredOrders, Statuses
<1>2. Change(key, stored)
  BY DEF UpdateCancelled
<1> HIDE DEF stored
<1> QED BY <1>1, <1>2, ChangeStep

LEMMA UpdateAmountStep ==
  ASSUME IndexInv, NEW key \in Keys, NEW amount \in Amounts, NEW remaining \in Amounts,
         UpdateAmount(key, amount, remaining)
  PROVE  IndexInv'
<1> DEFINE status == IF remaining = 0 THEN "filled"
                     ELSE IF orders[key].filled_raw > 0 THEN "partial_filled" ELSE "open"
           stored == [orders[key] EXCEPT !.size_raw = amount, !.status = status]
<1>1. ASSUME HasOrder(key) PROVE SoundOrder(key, stored)
  <2>1. SoundOrder(key, orders[key])
    BY <1>1, StoredIsSound DEF HasOrder
  <2>2. orders[key] \in StoredOrders
    BY <2>1 DEF SoundOrder
  <2>3. status \in Statuses
    BY DEF Statuses, Cancellable
  <2> HIDE DEF status
  <2>4. /\ stored \in StoredOrders
        /\ stored.market = orders[key].market /\ stored.outcome = orders[key].outcome
    BY <2>2, <2>3 DEF StoredOrders
  <2> HIDE DEF stored
  <2> QED BY <2>1, <2>4 DEF SoundOrder
<1>2. Change(key, stored)
  BY DEF UpdateAmount
<1> HIDE DEF stored
<1> QED BY <1>1, <1>2, ChangeStep

LEMMA UpdateFillStep ==
  ASSUME IndexInv, NEW key \in Keys, NEW amount \in Amounts, NEW remaining \in Amounts,
         NEW fully \in BOOLEAN, UpdateFill(key, amount, remaining, fully)
  PROVE  IndexInv'
<1> DEFINE status == IF fully \/ remaining = 0 THEN "filled" ELSE "partial_filled"
           filled == SaturatingAdd(orders[key].filled_raw, amount)
           stored == [orders[key] EXCEPT !.filled_raw = filled, !.status = status]
<1>1. ASSUME HasOrder(key) PROVE SoundOrder(key, stored)
  <2>1. SoundOrder(key, orders[key])
    BY <1>1, StoredIsSound DEF HasOrder
  <2>2. orders[key] \in StoredOrders /\ orders[key].filled_raw \in Amounts
    BY <2>1 DEF SoundOrder, StoredOrders
  <2>3. filled \in Amounts
    BY <2>2, MaxAmountAssumption DEF SaturatingAdd, Amounts
  <2>4. status \in Statuses
    BY DEF Statuses, Cancellable
  <2> HIDE DEF status, filled
  <2>5. /\ stored \in StoredOrders
        /\ stored.market = orders[key].market /\ stored.outcome = orders[key].outcome
    BY <2>2, <2>3, <2>4 DEF StoredOrders
  <2> HIDE DEF stored
  <2> QED BY <2>1, <2>5 DEF SoundOrder
<1>2. Change(key, stored)
  BY DEF UpdateFill
<1> HIDE DEF stored
<1> QED BY <1>1, <1>2, ChangeStep

---------------------------------------------------------------------------
LEMMA IndexNextInv ==
  ASSUME IndexInv, [IndexNext]_indexVars
  PROVE  IndexInv'
<1>1. CASE UNCHANGED indexVars
  BY <1>1 DEF indexVars, IndexInv, IndexTypeOK, SlugsAreInverse, SpotMapAgrees,
       ContextRoundTrips, ContextSpot
<1>2. CASE \E m \in Markets : IndexMarket(m) \/ ResolveMarket(m)
  BY <1>2, IndexMarketStep, ResolveMarketStep
<1>3. CASE \E s \in Spots, price \in Prices : RecordTrade(s, price)
  BY <1>3, RecordTradeStep
<1>4. ASSUME NEW key \in Keys, NEW body \in Bodies, IndexOrder(key, body)
      PROVE  IndexInv'
  BY <1>4, BodiesAssumption, IndexOrderStep
<1>5. ASSUME NEW key \in Keys, UpdateCancelled(key)
      PROVE  IndexInv'
  BY <1>5, UpdateCancelledStep
<1>6. ASSUME NEW key \in Keys, NEW amount \in Amounts, NEW remaining \in Amounts,
             NEW fully \in BOOLEAN,
             \/ UpdateAmount(key, amount, remaining)
             \/ UpdateFill(key, amount, remaining, fully)
      PROVE  IndexInv'
  BY <1>6, UpdateAmountStep, UpdateFillStep
<1> QED
  BY <1>1, <1>2, <1>3, <1>4, <1>5, <1>6 DEF IndexNext

\* The inductive invariant of the index, whatever callers do with it in
\* whatever order (store.rs:46-517).
THEOREM IndexSafety == IndexSpec => []IndexInv
<1>1. IndexInv /\ [IndexNext]_indexVars => IndexInv'
  BY IndexNextInv
<1> QED
  BY IndexInitInv, <1>1, PTL DEF IndexSpec

\* The maps of the index hold what their types say, fills included, which
\* saturate at u64::MAX (store.rs:46-53, 494-517).
THEOREM IndexTypeCorrect == IndexSpec => []IndexTypeOK
<1>1. IndexInv => IndexTypeOK
  BY DEF IndexInv
<1> QED
  BY IndexSafety, <1>1, PTL

\* Every market is found under the slug it shows and under no other
\* (store.rs:144-156, 181-201).
THEOREM SlugsStayInverse == IndexSpec => []SlugsAreInverse
<1>1. IndexInv => SlugsAreInverse
  BY DEF IndexInv
<1> QED
  BY IndexSafety, <1>1, PTL

\* A mapped spot market is one its market has for that outcome
\* (store.rs:203-232).
THEOREM SpotMapStaysRight == IndexSpec => []SpotMapAgrees
<1>1. IndexInv => SpotMapAgrees
  BY DEF IndexInv
<1> QED
  BY IndexSafety, <1>1, PTL

\* The context found for an order by its uuid leads back to that order
\* (store.rs:298-345).
THEOREM ContextsRoundTrip == IndexSpec => []ContextRoundTrips
<1>1. IndexInv => ContextRoundTrips
  BY DEF IndexInv
<1> QED
  BY IndexSafety, <1>1, PTL
=============================================================================
