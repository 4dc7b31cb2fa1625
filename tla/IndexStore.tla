----------------------------- MODULE IndexStore -----------------------------
(***************************************************************************)
(* The in-memory index of markets and orders (indexer/store.rs): one       *)
(* RwLock, so every method is one atomic step.                             *)
(*                                                                         *)
(* An order's uuid is a hash of its spot market and its chain order id     *)
(* (processor.rs:790-793) and insert_order stores the uuid under the same  *)
(* pair, so here the pair is the order's identity and chain_order_index    *)
(* has the domain of orders.                                               *)
(***************************************************************************)
EXTENDS SpotBook, Sequences

CONSTANTS Markets,       \* addresses of event contract markets
          Spots,         \* normalised spot market keys
          SpotsOf,       \* the <<yes, no>> spot markets of each market
          Candidates,    \* base, base-2, base-3 ... for each market's question
          OrderIds,      \* chain order ids, unique within a spot market only
          Users,         \* addresses of order creators, ignoring case
          Bodies         \* what orders are indexed with

Slugs == UNION {{Candidates[m][i] : i \in 1 .. Len(Candidates[m])} : m \in Markets}

ASSUME SpotsOfAssumption == SpotsOf \in [Markets -> Spots \X Spots]

\* The candidates never run out: the code's suffix counts up without end.
ASSUME CandidatesAssumption ==
  /\ DOMAIN Candidates = Markets
  /\ \A m \in Markets :
       /\ Candidates[m] \in Seq(Slugs)
       /\ Len(Candidates[m]) > Cardinality(Markets)
       /\ \A i, j \in 1 .. Len(Candidates[m]) : Candidates[m][i] = Candidates[m][j] => i = j

Outcomes == {"yes", "no"}
Cancellable == {"open", "partial_filled"}

\* A status is a String: "other" is any that the code does not know.
Statuses == Cancellable \cup {"filled", "cancelled", "other"}

\* Nothing relates the status to the fill or the fill to the size: a caller of
\* index_from_event sends all three.
OrderBodies == [side : Sides, price : Prices, size : Amounts, user : Users,
                status : Statuses, filled : Amounts]

ASSUME BodiesAssumption == Bodies \subseteq OrderBodies

VARIABLES
  markets,                  \* market -> its slug and state
  slug_to_market_id,        \* slug -> market
  spot_to_market,           \* spot -> SpotMarketRef
  last_trade_price_by_spot, \* spot -> price, NoPrice when there is none
  orders                    \* <<spot, chain order id>> -> StoredOrder

indexVars == <<markets, slug_to_market_id, spot_to_market, last_trade_price_by_spot, orders>>

Keys == Spots \X OrderIds

MarketRecords == [slug : Slugs, state : {"Created", "Resolved"}]
SpotMarketRefs == [market : Markets, outcome : Outcomes]
StoredOrders == [market : Markets, outcome : Outcomes, side : Sides, price : Prices,
                 user : Users, status : Statuses, size_raw : Amounts, filled_raw : Amounts]

\* HashMap::insert.
Put(map, key, value) ==
  [k \in DOMAIN map \cup {key} |-> IF k = key THEN value ELSE map[k]]

Empty == [k \in {} |-> 0]

IsMap(map, keys, values) == DOMAIN map \subseteq keys /\ map \in [DOMAIN map -> values]

IndexTypeOK ==
  /\ IsMap(markets, Markets, MarketRecords)
  /\ IsMap(slug_to_market_id, Slugs, Markets)
  /\ IsMap(spot_to_market, Spots, SpotMarketRefs)
  /\ last_trade_price_by_spot \in [Spots -> LastPrices]
  /\ IsMap(orders, Keys, StoredOrders)

IndexInit ==
  /\ markets = Empty
  /\ slug_to_market_id = Empty
  /\ spot_to_market = Empty
  /\ last_trade_price_by_spot = [s \in Spots |-> NoPrice]
  /\ orders = Empty

---------------------------------------------------------------------------
(* Markets.                                                                *)

\* allocate_market_slug: the first candidate that no market has, its own
\* earlier one included.
IsAllocated(slug, m) ==
  \E i \in 1 .. Len(Candidates[m]) :
    /\ slug = Candidates[m][i]
    /\ slug \notin DOMAIN slug_to_market_id
    /\ \A j \in 1 .. i - 1 : Candidates[m][j] \in DOMAIN slug_to_market_id

\* Mutant: the market's earlier slug stays mapped.
WithoutNothing(m) == slug_to_market_id

\* remove_slug_mappings_for_market.
WithoutMarket(m) ==
  [slug \in {t \in DOMAIN slug_to_market_id : slug_to_market_id[t] # m} |->
     slug_to_market_id[slug]]

\* Mutant: the outcomes are swapped.
UpsertMarketSwapped(m, slug) ==
  /\ markets' = Put(markets, m, [slug |-> slug, state |-> "Created"])
  /\ slug_to_market_id' = Put(WithoutMarket(m), slug, m)
  /\ spot_to_market' = Put(Put(spot_to_market, SpotsOf[m][1], [market |-> m, outcome |-> "no"]),
                           SpotsOf[m][2], [market |-> m, outcome |-> "yes"])

\* upsert_market: when both spot markets are one, the second insert stays.
UpsertMarket(m, slug) ==
  /\ markets' = Put(markets, m, [slug |-> slug, state |-> "Created"])
  /\ slug_to_market_id' = Put(WithoutMarket(m), slug, m)
  /\ spot_to_market' = Put(Put(spot_to_market, SpotsOf[m][1], [market |-> m, outcome |-> "yes"]),
                           SpotsOf[m][2], [market |-> m, outcome |-> "no"])

\* The first half of index_market_created.  Only the indexer creates markets,
\* so nothing comes between the slug's allocation and its insertion.
IndexMarket(m) ==
  /\ \E slug \in Slugs : IsAllocated(slug, m) /\ UpsertMarket(m, slug)
  /\ UNCHANGED <<last_trade_price_by_spot, orders>>

\* Mutant: a market that is not indexed is added.
ResolveMarketAdds(m) ==
  /\ markets' = Put(markets, m, [slug |-> IF m \in DOMAIN markets THEN markets[m].slug
                                         ELSE Candidates[m][1], state |-> "Resolved"])
  /\ UNCHANGED <<slug_to_market_id, spot_to_market, last_trade_price_by_spot, orders>>

\* update_market_state: a market that is not indexed is left out.
ResolveMarket(m) ==
  /\ markets' = IF m \in DOMAIN markets
                THEN [markets EXCEPT ![m].state = "Resolved"] ELSE markets
  /\ UNCHANGED <<slug_to_market_id, spot_to_market, last_trade_price_by_spot, orders>>

RecordTrade(s, price) ==
  /\ last_trade_price_by_spot' = [last_trade_price_by_spot EXCEPT ![s] = price]
  /\ UNCHANGED <<markets, slug_to_market_id, spot_to_market, orders>>

---------------------------------------------------------------------------
(* Orders.                                                                 *)

OrderVarsOnly ==
  UNCHANGED <<markets, slug_to_market_id, spot_to_market, last_trade_price_by_spot>>

HasOrder(key) == key \in DOMAIN orders

Stored(ref, body) ==
  [market |-> ref.market, outcome |-> ref.outcome, side |-> body.side, price |-> body.price,
   user |-> body.user, status |-> body.status, size_raw |-> body.size, filled_raw |-> body.filled]

\* Mutant: every order is taken to be one for the outcome yes.
IndexOrderAsYes(key, body) ==
  /\ key[1] \in DOMAIN spot_to_market
  /\ orders' = Put(orders, key,
                   [Stored(spot_to_market[key[1]], body) EXCEPT !.outcome = "yes"])
  /\ OrderVarsOnly

\* index_order_created: an order of a spot market that no market names is
\* not indexed; one that is indexed already is overwritten.
IndexOrder(key, body) ==
  /\ orders' = IF key[1] \in DOMAIN spot_to_market
               THEN Put(orders, key, Stored(spot_to_market[key[1]], body))
               ELSE orders
  /\ OrderVarsOnly

Change(key, stored) ==
  /\ orders' = IF HasOrder(key) THEN [orders EXCEPT ![key] = stored] ELSE orders
  /\ OrderVarsOnly

UpdateCancelled(key) == Change(key, [orders[key] EXCEPT !.status = "cancelled"])

UpdateAmount(key, newAmount, remaining) ==
  Change(key, [orders[key] EXCEPT
                 !.size_raw = newAmount,
                 !.status = IF remaining = 0 THEN "filled"
                            ELSE IF orders[key].filled_raw > 0 THEN "partial_filled"
                            ELSE "open"])

\* Mutant: the fills that the index has seen decide, not the event.
UpdateFillBySum(key, amount, remaining, fully) ==
  Change(key, [orders[key] EXCEPT
                 !.filled_raw = SaturatingAdd(@, amount),
                 !.status = IF orders[key].filled_raw + amount >= orders[key].size_raw
                            THEN "filled" ELSE "partial_filled"])

UpdateFill(key, amount, remaining, fully) ==
  Change(key, [orders[key] EXCEPT
                 !.filled_raw = SaturatingAdd(@, amount),
                 !.status = IF fully \/ remaining = 0 THEN "filled" ELSE "partial_filled"])

\* lookup_spot_market_for_chain_order: Some only when one order has the id.
SpotsWithOrder(id) == {s \in Spots : HasOrder(<<s, id>>)}

\* The spot market that order_cancel_context and stored_order_context_by_id
\* give for an order: the one its market has for its outcome.
ContextSpot(key) ==
  SpotsOf[orders[key].market][IF orders[key].outcome = "yes" THEN 1 ELSE 2]

---------------------------------------------------------------------------
(* The store alone, called by anyone with anything a caller has.           *)

IndexNext ==
  \/ \E m \in Markets : IndexMarket(m) \/ ResolveMarket(m)
  \/ \E s \in Spots, price \in Prices : RecordTrade(s, price)
  \/ \E key \in Keys :
       \/ \E body \in Bodies : IndexOrder(key, body)
       \/ UpdateCancelled(key)
       \/ \E amount, remaining \in Amounts, fully \in BOOLEAN :
            UpdateAmount(key, amount, remaining) \/ UpdateFill(key, amount, remaining, fully)

IndexSpec == IndexInit /\ [][IndexNext]_indexVars

---------------------------------------------------------------------------
\* Slugs and markets name each other: every market is found under the slug it
\* shows and under no other, however often markets with colliding questions
\* are created or created again (store.rs:144-156, 181-201).
SlugsAreInverse ==
  /\ \A m \in DOMAIN markets :
       /\ markets[m].slug \in DOMAIN slug_to_market_id
       /\ slug_to_market_id[markets[m].slug] = m
  /\ \A slug \in DOMAIN slug_to_market_id :
       /\ slug_to_market_id[slug] \in DOMAIN markets
       /\ markets[slug_to_market_id[slug]].slug = slug

\* A spot market that is mapped is the one its market has for that outcome,
\* also when a market uses one spot market for both or two markets share one
\* (store.rs:203-232).
SpotMapAgrees ==
  \A s \in DOMAIN spot_to_market :
    /\ spot_to_market[s].market \in DOMAIN markets
    /\ s = SpotsOf[spot_to_market[s].market][IF spot_to_market[s].outcome = "yes" THEN 1 ELSE 2]

\* The context found for an order by its uuid names the spot market and so
\* the order it was stored under: POST /orders/:id/cancelled marks that order
\* and no other (store.rs:298-345, orders.rs:157-182).
ContextRoundTrips ==
  \A key \in DOMAIN orders :
    orders[key].market \in DOMAIN markets /\ ContextSpot(key) = key[1]
=============================================================================
