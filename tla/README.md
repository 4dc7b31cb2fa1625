# A TLA+ model of lightpool-clob-index

`lightpool-clob-index` follows the block stream of a Lightpool node. It keeps an
in-memory index of event-contract markets and orders and an aggregated order
book per spot market, serves both over HTTP and websockets, and forwards signed
transactions to the node's mempool, answering each when its block arrives. All
state is in memory: a restart begins with nothing and reads the chain again.

This directory holds TLA+ modules of that program, TLC configurations that check
them on small instances, and TLAPS proofs. Paths below are relative to `src/`, the
root of the repository.

- [1. The system](#1-the-system)
- [2. Modules](#2-modules)
- [3. Model-checked runs](#3-model-checked-runs)
- [4. Fairness](#4-fairness)
- [5. Assumptions about what is outside](#5-assumptions-about-what-is-outside)
- [6. Proofs](#6-proofs)
- [7. What the checks found](#7-what-the-checks-found)
- [8. Not modelled](#8-not-modelled)
- [9. Plan](#9-plan)

## 1. The system

### Components

| component | code | state | operations |
|---|---|---|---|
| book store | `src/indexer/book_store.rs` | per spot market: levels of both sides, sequence number, last trade price; the set of hydrated spots; delta and quote channels; all under one `RwLock` | `apply_created/updated/filled/cancelled`, `hydrate_from_chain`, `snapshot`, `quote`, `subscribe`, `subscribe_quote` |
| book hydration | `src/book_hydrate.rs` | none of its own | `hydrate_spot_from_chain` (RPC, lookup, write), `ensure_chain_hydrated`, `rehydrate_spot_from_chain`, `hydrate_all_spot_markets` |
| index store | `src/indexer/store.rs`, `src/slug.rs` | markets, slugs, spot market -> market and outcome, last trades, orders and the index of their chain ids; under one `RwLock` | market upsert and slug allocation, resolution, `insert_order`, status, amount and fill updates, lookups |
| block indexer | `src/indexer/mod.rs`, `src/indexer/processor.rs` | one task, its place in `run_once` and in a handler | hydrate everything, subscribe, process blocks, reconnect; a handler per event |
| order and spot routes | `src/http/routes/orders.rs`, `spot.rs` | requests in progress | `index_from_event`, `mark_cancelled`, `cancel_context`, `query_order`, `get_book` |
| market queries | `src/http/routes/markets.rs`, `src/http/process/markets.rs` | none; a client that walks keeps an offset | filters, sort orders, pages, the lookup by slug |
| submit queue | `src/submit_queue.rs`, `src/submit_wait.rs`, `src/http/routes/tx.rs` | a bounded queue, a dispatcher task that polls all running submissions, a registry of waiters by transaction digest | enqueue, register, wait with a timeout, cancel, complete |
| mempool client | `src/mempool_client.rs` | a bounded queue, a sender task, one TCP connection | `send` with one retry |
| websocket feeds | `src/ws/` | per connection its loop, its subscriptions by the client's spelling, a forwarding task each, an unbounded outbound queue | subscribe, unsubscribe, forward, resync after lag, close |
| user event hub | `src/ws/process/user_hub.rs` | one broadcast ring | publish per order, filter per user |
| chain client, formatting, configuration, health, accounts | `src/chain/`, `src/spot_market.rs`, `src/config.rs`, `src/http/routes/health.rs`, ... | none that changes | read-only |

### How they interact

- The **indexer task** is the only one that reads blocks. For each block it first
  completes the waiters of the block's transactions, then handles each event.
  An order event usually takes these steps, each with an `await` before it: find
  the spot market, make sure the book was read from the chain, apply the event to
  the book, write the index, read the order again, send it to the user hub.
- **HTTP requests** run concurrently with it and call the same stores:
  `get_book` rehydrates a book, `index_from_event` adds an order to book, index
  and hub before (or after) its block arrives, `mark_cancelled` changes a status.
- The **book store** announces each change on broadcast channels while it holds
  its lock; **websocket sessions** forward them, and a session that falls
  behind the ring sends a fresh snapshot. The connection's loop writes snapshots to
  the socket itself, while what the forwarding tasks send waits in a queue for the
  same loop.
- The **dispatcher** registers a waiter before it sends a transaction; the
  indexer completes it; the mempool sender runs between the two.

### What is hard

1. Steps of an HTTP request between two steps of a handler: check and use are
   separate lock acquisitions (duplicate check, cancel check, hydration).
2. Hydration answers with the chain's present, while events arrive from its past.
3. Blocks are lost between two subscriptions, RPCs fail, and either leaves part
   of an event's work undone.
4. Subscribers see a snapshot, a stream that starts later, unannounced
   rehydrations and skipped messages.
5. A submission can time out, fail or be abandoned while its receipt is coming.
6. A cancelled forwarding task finishes its poll beside its successor; two spellings
   of one market are two subscriptions; tasks outlive their connection.
7. A client walks through pages of an index that changes between them, and looks for
   its order by a price that was turned into text.

`PROJECT.json` lists each hazard at its line with the properties that cover it.

### What makes each component correct

- *Book store*: no empty level is stored; what subscribers can reconstruct is a
  version the book really had; every event to a subscribed book is announced.
- *Index*: slugs and markets are inverse to each other; the spot map agrees with
  the markets; the context of an order leads back to that order. (Status and filled
  quantity need not agree: `index_from_event` stores both as they are sent.)
- *Indexer*: a book in step with the stream stays in step; the index shows an
  order as the last event left it; the user feed shows what the index shows and its
  trades add up to what was filled; what a request wrote over an order lasts until the
  next event of the order; a book that drifted is repaired by the requests that
  rehydrate it.
- *Submit path*: every request is answered; a receipt is real and, for an
  unshared transaction, not missed; no registration leaks.
- *Queries*: an order on the chain is found by what it was placed with; a walk through
  the pages shows each market once if nothing is written, misses none that keeps its
  place if something is, and ends.
- *Connection*: no forwarding task escapes its subscription; a client that has
  received everything is up to date but for what nobody announced; tasks come to rest
  or to an end.

## 2. Modules

```
SpotBook            one book, pure operators
  |-- BookStore       all books and their channels       (EXTENDS SpotBook)
  |     `-- BookFeed    + subscriptions and client copies  (EXTENDS BookStore)
  |           `-- BookFeedProofs, MCBookFeed
  `-- IndexStore      markets, slugs and orders          (EXTENDS SpotBook)
        |-- IndexStoreProofs, MCIndexStore
        |-- MarketQuery     + pages and a client that walks  (EXTENDS IndexStore)
        |     `-- MarketQueryProofs    (EXTENDS MarketQuery, IndexStoreProofs)
        |           MCMarketQuery
        `-- Indexer     + books, indexer task, requests, chain  (EXTENDS IndexStore)
              |-- IndexerProofs        (EXTENDS Indexer, IndexStoreProofs)
              |     `-- IndexerTrackingProofs   (and OrderQuery)
              |           `-- IndexerBookProofs
              |-- MCIndexer
              `-- OrderQuery      + how a client finds its order  (EXTENDS Indexer)
                    `-- MCOrderQuery   (and MCIndexer)

WsSession           one connection and its forwarding tasks
  `-- WsSessionProofs, MCWsSession

SubmitContract      what POST /tx/submit promises (abstract)
SubmitPath          the submit path; Contract == INSTANCE SubmitContract WITH ...
  |-- SubmitPathProofs, MCSubmitPath
```

A name in a module is the code's name where TLA+ allows it. `PROJECT.json`'s
`map` gives the lines of each definition.

### SpotBook

A side is a function from the prices that have quantity to that quantity, as the
`BTreeMap`s are; the spot market that has no entry in `books` is the book with
sequence 0. `Created`, `Cancelled`, `Updated`, `Filled` are the four `apply_*`
methods with their early returns and saturating arithmetic (`MaxAmount` stands
for `u64::MAX`), `Hydrated` is `hydrate_from_chain`, `Snapshot` and `Quote` are
what readers are shown. Block numbers and number formatting are left out.

### BookStore

Each method takes the lock once, so each is one action. `channel[s]` is everything
ever sent on the spot's delta channel; `Write` is the common end of the four
methods, with `publish_delta` in it, which sends to the delta channel and to the
quote channel only if they exist. `HydrateFromChain` replaces the book and sends
nothing. `quotes[s]` is the last quote sent.

### BookFeed

`handle_subscribe` sends a snapshot (`SendSnapshot`) and subscribes afterwards
(`Subscribe`); the forwarding task sends one delta (`Forward`), learns that it
missed some (`Lag`, which leaves it at the oldest delta that the ring of `Capacity`
retains) and then sends a snapshot (`Resync`). A second subscription of the same
spot replaces the task of the first. The *client* is not in the repository: the one
modelled keeps a copy, replaces it by each snapshot and applies a delta when its
sequence is one above the copy's, which is what the sequence numbers are for.
`history` is a ghost that remembers every version of a book.

### IndexStore

One lock, one action per writing method. An order's uuid is a hash of its spot
market and chain id, and both maps get it at once, so the pair *is* the identity of
an order. Slugs are model values: `Candidates[m]` is the sequence base, base-2, ...
that `allocate_market_slug` tries. What an order is indexed with is a *body*: side,
price, size, user, status and filled quantity, none of which has to fit the others, as
the fields of `IndexFromEventRequest` are independent and not validated; a status is any
string, `"other"` stands for those that the code does not know. `IndexNext` lets anyone
call any method with any arguments, `index_order_created` with any body of `Bodies`,
which the theorems leave arbitrary. Two simplifications, both harmless because only the
indexer task writes markets: `IndexMarket` is allocation and insertion in
one step, and `IndexOrder` is the lookup of the market and `insert_order` in one
step (a spot market may be mapped to another market in between, but what the lookup
found is a market that has this spot for this outcome, now as before).

### Indexer

`task.stage` is the place of the indexer task: stopped, connecting, receiving, or one
of the steps of a handler (hydrating, ensuring, applying, indexing, publishing,
trading, sending). Each lock acquisition and each RPC is a step; a check and a use
with no `await` in between are one step. A fill publishes a trade and then the
order, from one lookup (`PublishRead`, `PublishTrade`, `PublishSend`). `requests`
holds the HTTP requests with their own steps. The chain is part of the module:
orders are placed, filled, amended and withdrawn, and each such step is a block with
one event, which reaches the indexer if it is subscribed. Several events in one
transaction are several blocks here: `process_block` handles them one after the other
either way. `get_book` answers with the best `ChainDepth` levels of a side only. What
rests at a price is counted unit by unit (`UnitsAt`), so a level is the size of a set
and no sum over orders is needed.

Ghosts: `view` is each order as of the last event that was applied, left out or
lost; `exact` has the spot markets whose book was last read from the chain as of the
view and has since had every event of the stream and nothing else, with the levels
that the answer cut off (they show less than the chain has, the others are right);
`missed` and `touched` are the orders that lost an event, or that a request wrote,
`late` those of the latter that no event was indexed of since;
`traded` the sum of the trades announced for each order. `Ambiguous` says of an order
that another, on the chain or only in the index, has its id and that events of one of
them name no contract.

`index_from_event` takes its caller's word for everything (`IndexFromEvent`): any body,
for an order that is on the chain, will be, or never is. An order that is not a
limit order has price 0 or skips the book, as `apply_order_created_to_book` returns
early for it. Where no trade of a spot market is known, a hydration asks the chain once
more after `get_book` (`AsksPrice`), and may fail there (`HydrateFails`, `GetBookFails`).

The index has no variable of its own beside `Indexer`: each step that writes it is one
of `IndexStore`'s operators, so the index theorems hold of the running program.

Books here are only their levels: sequence numbers, channels and trade
prices are in BookFeed.

### OrderQuery

`QueryByChainId` and `FindOpenOrder` are the two lookups behind `GET /orders/query`,
as sets, since the second answers with the first match in the order of a `HashMap`.
`PriceText` is `format_price_pieces` as far as it decides which prices look alike: the
product that saturates and its division into whole and fraction. `PriceFactor` and
`PriceScale` stand for 100 and the token scale.

### MarketQuery

`Page` is `query_markets` from filter to `take`; each page is a request of its own
that reads the index once. The order in which the `HashMap` lists the markets
(`table`) breaks ties, may change whenever a market is added, and stays otherwise.
The client walks: it asks for the next offset until it has reached the total. Two
ghosts say what happened under the walk: `steady` (nothing was written) and `kept`
(no market moved to an earlier place).

### WsSession

BookFeed says what the messages of an order book say; here a message is the number of
a version, and the connection is the subject. `loop` is the place of `handle_socket`:
in its `select!` or in the handler of a subscription (rehydrate, send the snapshot
past the queue, subscribe). `session` is the map under the client's spelling,
`tasks` the spawned tasks with their receivers (`next`) and their place between the
awaits (receiving, lagged, resyncing), `outbound` the queue. `log` has the versions of
a book, of which rehydrations are not announced, and the messages of the user hub;
`Ring` and `Retained` are what a `broadcast` receiver can read of it. `abort()` takes
effect at the next await: a cancelled task is `"aborted"` until the poll that it is in
ends (`Reap`). `Close` drops the session and the receiver of the queue and aborts
nothing. The client here is not quite BookFeed's: of two snapshots it keeps the newer
one, so that a late resync does not take it back; a delta counts only if it is the next
version. The ghosts `sent`, `from`, `skipped` and `shared` say what a subscription owes
it.

### SubmitPath and SubmitContract

`client`/`answer` are the HTTP side, `queue` the bounded channel, `job` the
`submit_and_wait` future of each request, `registry` and `receipt` the waiters and
their oneshot channels, `mempool_queue`/`send_result` the sender task, the
rest is the node and the block stream. The dispatcher polls every future itself,
so only the sender and the indexer come between two steps of one poll;
`"elapsed"` is the one place inside a poll where that is visible (the timeout
has fired, the registration is not yet cancelled). `SubmitContract` is the
promise: a request is answered exactly once, and with a receipt only if a block
had its transaction. `SubmitPath` implements it with
`requested <- {c \in Clients : client[c] # "idle"}`.

## 3. Model-checked runs

| run | configuration | states | checks |
|---|---|---|---|
| `book_feed` | `MCBookFeed.cfg` | 1,433,320 | `FeedTypeOK` `NoEmptyLevels` `CopyIsSound` `GapsAreRehydrations` `QuoteIsLatest` |
| `submit` | `MCSubmitPath.cfg` | 440,637 | `TypeOK` `NoLeakedWaiter` `ReceiptIsReal` `ReceiptNotMissed` `EveryRequestAnswered` `ImplementsContract` |
| `index_store` | `MCIndexStore.cfg` | 665,188 | `IndexTypeOK` `SlugsAreInverse` `SpotMapAgrees` `ContextRoundTrips` |
| `indexer_stream` | `MCIndexerStream.cfg` | 1,349,417 | `TypeOK` `TradesAddUp` `BookTracksStream` `IndexTracksStream` `UserFeedTracksIndex` `OpenOrderIsFound` |
| `indexer_http` | `MCIndexerHttp.cfg` | 2,164,606 | `TradesAddUp` `IndexTracksStream` `UserFeedTracksIndex` `EventsOverruleRequests` |
| `indexer_converges` | `MCIndexerConverges.cfg` | 935,382 | `BookTracksStream` `BookConverges` |
| `market_query` | `MCMarketQuery.cfg` | 1,106,655 | `QueryTypeOK` `WalkIsExact` `WalkMissesNothing` `SlugQueryAgrees` `WalkEnds` |
| `ws_session` | `MCWsSession.cfg` | 851,847 | `TypeOK` `NoStrayForwarder` `BookStaleOnlyByGap` `QuoteIsCurrent` `UserHears` `ForwardersSettle` |
| `submit_shared` | `MCSubmitShared.cfg` | violated | `EveryWaiterMatched` |
| `indexer_premature` | `MCIndexerPremature.cfg` | violated | `HydratedBeforeEvent` |
| `indexer_duplicate` | `MCIndexerDuplicate.cfg` | violated | `CreatedAppliedOnce` |
| `indexer_cancel` | `MCIndexerCancel.cfg` | violated | `FilledIsFinal` |

**book_feed.** Whatever mix of events, silent rehydrations, lag and resyncs comes,
a client's copy is the book of its sequence number: old, perhaps, never wrong
(`CopyIsSound`). The only numbers missing between two deltas are rehydrations
(`GapsAreRehydrations`), and the last quote is behind by rehydrations at most
(`QuoteIsLatest`). *Bounds:* one spot (books share nothing but the lock), prices
{0, 1, 2}, so that the early return for price 0 happens, and a snapshot of depth
1 leaves a level out; amounts up to 1, at which addition saturates and
subtraction empties a level; a ring of one delta, so two more deltas are a
lag; at most 4 writes to the book (`MaxSequence`), enough for a subscription, a
delta, a lag with a rehydration in it and a delta after. The bound ends every
behaviour, hence `CHECK_DEADLOCK FALSE`.

**submit.** Three requests, two for one transaction, queues of size one.
Registrations replace each other, the block comes before or after the send is
reported, in the middle of a timeout or not at all. `NoLeakedWaiter`: no entry of
the registry outlives its request. `ReceiptIsReal`: a receipt means that the block
was received. `ReceiptNotMissed`: for a transaction only one request carries, the
receipt is in the channel or still to come. Under the fairness of section 4 each
request is answered (`EveryRequestAnswered`), and the path implements
`SubmitContract`, liveness included. *Bounds:* two requests can share a
digest and a third fills the queue; requests are not repeated (a retry is a further
request).

**index_store.** Two markets: the slug that the first takes when it is created a second
time is the first choice of the second market, which uses one spot market for both
outcomes and shares it with the first. One order id in two spot markets, amounts up to 2
so that filled quantities saturate, and bodies whose status and fill contradict each
other beside one whose do not.

**indexer_stream.** The indexer task and the chain, without requests. One market with
two spot markets; two orders at two prices of the first, one in the second. The
second order's events name no contract and are resolved through the index, where
the third has the same id. Up to five events: a market, then creations, fills,
amendments and cancellations. Hydrations read the chain at any point, fail or come
late, and are cut at one level, so that one order's level can be missing from a book
that is otherwise in step; the connection breaks with blocks in it.
`OpenOrderIsFound`: a client that placed an order finds it by what it placed, and no
other price looks the same; the two prices differ in their fraction only (factor 2,
scale 10).

**indexer_http.** The same with an `index_from_event` or a `mark_cancelled` between
any two steps, on two orders that have the same id in different spot markets, three
events. (`get_book` writes a book and nothing else and has its place in
`indexer_converges`.) The body that `index_from_event` is sent contradicts itself and
the chain: the other side, no price, another size and user, open and yet filled in
full. `EventsOverruleRequests`: whatever a request wrote, and be the quantities in the
index what they may, the next event of the order that is indexed puts its status
right, because the handlers take it from the event; were it taken from the sum of the
fills, as a plausible `update_order_fill` would (the mutant), the order would stay
wrong for good. In both runs `IndexTracksStream` says that no handler changes a
different order or skips its own, `UserFeedTracksIndex` that the feed's last word on
an order is the index's, and `TradesAddUp` that its trades are what the index says is
filled. The orders that a request wrote are excluded from all three: nothing in the
repository promises that they are announced, and `index_from_event` overwrites by
design. Orders and spots that lost events are excluded where the code has no way of
knowing, and so are ambiguous orders: when two spot markets have an order of one id
and an event names no contract, nothing can tell them apart (hazard
`processor.rs:35`).

**indexer_converges.** A book in step stays in step (`BookTracksStream`, also in
`indexer_stream`) whatever requests come between the steps of the task. And however
far a book has drifted, it becomes the chain's book, down to the depth of the answer,
and stays so if clients keep getting it, requests stop adding orders to it, and the
chain comes to rest (its events are bounded by `MaxEvents`, so it does). The requests
are `get_book`, which may fail, and `index_from_event`, which adds an order twice
beside the block's event (finding 3) or again and again while no market names the spot
market (hazard `processor.rs:756`). Two bids at two prices and an answer of one level,
so that it is cut.

*Bounds of the three:* one used price in `indexer_http`, for the hazards there are about
one level being counted twice or not at all, two in `indexer_stream` and
`indexer_converges`, where an answer is cut between them; orders of size 2 amended to 2
or 3, so that there are partial fills and amendments of partly filled orders; one
request at a time beside the indexer task, since each hazard is between a
request and the task. `Anonymous` is empty in `indexer_http`, since a request may
name any order there already.

**market_query.** Three markets are created, created again under another slug and
resolved while a client walks; two have one deadline and one question, so ties occur.
Four walks: by deadline with ties, by question descending with a state filter and a
limit that is too large, by slug with limit 0, by slug with a slug filter that two of
the markets can enter or leave. *Bounds:* pages of at most 2 of 3 markets, so a walk
has one, two or three pages; the market store allows four slugs each, so a market is
created again at least twice.

**ws_session.** One connection with up to two forwarding tasks over its life, on one
spot market in two spellings and one user whose address the client spells in another
case; rings of one message, so the second unread message is a lag; four writes
(events, rehydrations, user messages). Enough for a snapshot, a lag, a
rehydration during its resync and a delta after, and for an aborted task beside its
successor. Capacity and spellings are what matters, not their number: tasks of
different rings share nothing but the queue. `NoStrayForwarder` ties every running
task to its subscription. `BookStaleOnlyByGap` and `QuoteIsCurrent`: a client to whom
everything was forwarded lacks only what no ring announced to it. The book property
leaves out connections on which two tasks ran for one market, because there it
fails: the resync snapshot is read in one step and sent in another (hazard
`session.rs:57`). `UserHears`: no message for the user is filtered out or lost between
ring and socket, lag apart. `ForwardersSettle`: tasks of a closed connection end at
their next message, others come to rest with the queue empty. All writes and
subscriptions may be used up, so `CHECK_DEADLOCK FALSE` here too.

The four violations are the findings of section 7. Every property of a passing run
has a mutant in `PROJECT.json`: a definition of the model changed as a plausible bug
would change it, under which TLC finds the property violated. Mutated forms stand
beside the original under a comment that begins with "Mutant".

## 4. Fairness

- **SubmitPath.** Weak fairness of `Enqueue(c)`, of each job's own steps, of
  `Dispatch` and of `MempoolSend`: tokio polls a task that was woken, the timer of
  `tokio::time::timeout` fires, bounded channels admit their senders in order, and a
  connect or write on the mempool socket ends, well or badly. Nothing
  is assumed of the chain, the block stream, the clients or the indexer: a
  request is answered even if no block ever comes. That the wait for the
  mempool has no timeout of its own (`submit_queue.rs:106`) is why the last
  assumption is needed.
- **Indexer.** Weak fairness of each request in progress. Nothing is assumed of the
  indexer task, which may stop for good between two steps, of the chain, of RPCs
  (which may fail every time), of the connection (it may break for ever), or of new
  requests. `BookConverges` has two hypotheses of its own about a spot market:
  infinitely often a `get_book` of it succeeds, and from some time on no request is
  about to add an order to its book. The second is needed: while no market names the
  spot market each retry of `index_from_event` adds its order again.
- **WsSession.** Weak fairness of the connection's loop (a handler goes on, a queued
  message is written: the client keeps reading) and of each forwarding task (tokio
  polls it when its ring has a message; an aborted task is dropped after its poll).
  Nothing is assumed of writers, of new subscriptions or of the connection's end.
- **MarketQuery.** Weak fairness of `AskPage`: the client goes on asking.

## 5. Assumptions about what is outside

- An order that rests is filled at its own price; amounts and prices of placed
  orders are positive; a chain order id is used once per spot market. The chain commits a
  transaction at most once.
- The chain keeps the quantity of each level in a `u64`, the type in which it reports it
  (the guard of `OrderStep`): what rests at one price is at most `MaxAmount`. The bound
  never binds in the runs; without it the book, which saturates where the chain would
  not, could lose quantity.
- A mempool write that succeeded may be lost and one that failed may have
  arrived: response and delivery are independent.
- A subscription delivers the blocks made while it stands, in order, until it ends;
  one that breaks while a handler runs shows when the handler is done.
- `get_book` answers with the chain as it is when the node answers.
- Only the indexer creates markets; the spot markets of a market never change.
- Of the callers of `index_from_event` and `mark_cancelled` nothing is assumed. (The
  orders of `Listed` have a side, a price, an amount and an owner that they are placed
  with on the chain if they are; a request may claim any others.)
- A `tokio::sync::broadcast` receiver that was overtaken continues at the oldest
  message that is retained; a `HashMap` that is not inserted into lists its entries in
  the same order each time.

## 6. Proofs

Checked by TLAPS 1.4.5 with Z3, Zenon and LS4. The theorems hold for all constants
that satisfy the named assumptions of the modules: any number of spots, readers,
prices, requests and markets, any ring capacity, depth, queue size and amount
width.

| module | theorem | statement |
|---|---|---|
| BookFeedProofs | `FeedTypeCorrect` | `FeedSpec => []FeedTypeOK` |
| | `BooksHaveNoEmptyLevels` | `FeedSpec => []NoEmptyLevels` |
| | `CopiesAreSound` | `FeedSpec => []CopyIsSound` |
| | `EventsAreAnnounced` | `FeedSpec => []GapsAreRehydrations` |
| | `QuotesAreLatest` | `FeedSpec => []QuoteIsLatest` |
| WsSessionProofs | `WsTypeCorrect` | `Spec => []TypeOK` |
| | `WsHasNoStrayForwarder` | `Spec => []NoStrayForwarder` |
| | `WsUserHears` | `Spec => []UserHears` |
| | `WsQuoteIsCurrent` | `Spec => []QuoteIsCurrent` |
| | `WsBookStaleOnlyByGap` | `Spec => []BookStaleOnlyByGap` |
| SubmitPathProofs | `SubmitSafety` | `Spec => []SubmitInv` |
| | `SubmitTypeCorrect`, `NoWaiterLeaks`, `ReceiptsAreReal`, `ReceiptsAreNotMissed` | its conjuncts |
| | `SubmitImplementsContract` | `Spec => Contract!ContractSafety` |
| IndexerProofs | `IndexerSafety` | `Spec => []CallsInv` |
| | `IndexerKeepsSlugs`, `IndexerKeepsContexts` | the index invariants, of `Indexer!Spec` |
| IndexerTrackingProofs | `IndexerTracks` | `Spec => []TrackInv` |
| | `IndexerTracksStream` | `Spec => []IndexTracksStream` |
| | `IndexerEventsOverruleRequests` | `Spec => []EventsOverruleRequests` |
| | `IndexerTradesAddUp` | `Spec => []TradesAddUp` |
| | `IndexerUserFeedTracksIndex` | `Spec => []UserFeedTracksIndex` |
| | `OpenOrdersAreFound` | `Spec => []OpenOrderIsFound` |
| IndexerBookProofs | `BooksFollow` | `Spec => []BookInv` |
| | `IndexerTypeCorrect` | `Spec => []TypeOK` |
| | `BooksTrackStream` | `Spec => []BookTracksStream` |
| IndexStoreProofs | `IndexSafety` | `IndexSpec => []IndexInv` |
| | `IndexTypeCorrect`, `SlugsStayInverse`, `SpotMapStaysRight`, `ContextsRoundTrip` | its conjuncts |
| MarketQueryProofs | `QuerySafety` | `QuerySpec => []QueryInv` |
| | `QueryTypeCorrect`, `WalksAreExact`, `WalksMissNothing` | `QueryTypeOK`, `WalkIsExact`, `WalkMissesNothing`, its conjuncts |
| | `SlugQueriesAgree` | `QuerySpec => []SlugQueryAgrees` |

**Book feed.** `CopyIsSound` is not inductive: applying a delta to a sound copy is
sound only if the delta tells the whole difference between two versions. `FeedInv`
adds exactly that (`ChannelIsHistory`: a delta with number n turns version n-1
into version n), that the history is up to date (`HistoryIsCurrent`), and, for the
gaps and quotes, that nothing but rehydrations happened after the last delta
(`NothingUnannounced`) and that a quote implies a quote channel. A step that writes a
book is treated once for all four events: `EventFact` says an event leaves
the book alone or changes one level. A copy cut by the depth survives a delta
because a delta sets one level to an absolute size, in version and copy
alike. `Version` numbers stop at `MaxSequence`, for an arbitrary bound.

**Connection.** `Typed` says that the session has exactly the live tasks (`Owned`),
that no version is beyond the bound on writes (`Counted`), what a task and a message
may hold (`SoundTask`, `SoundMessage`) and that the loop subscribes with a version the
client has (`SoundLoop`). The three delivery properties only speak of a client that
has everything, so each gets an invariant that also says what is under way:
- `UserHeard` is `UserHears` itself: a message passed is heard or in the queue.
- `QuoteCurrent`: when a task has nothing to read, each event of its spot is behind
  the client's quote or behind one in the queue, or was written before it subscribed.
  A lag cannot break it, because the receiver continues at a retained message
  (`RetainedFact`), so there is something to read.
- `BookCurrent`: the only task of a book puts its deltas in the queue in order and a
  resync snapshot behind the deltas it covers (`InOrder`); and each event it has passed
  that the client lacks (`Owed`) is in the queue, is behind a snapshot in the queue,
  belongs to a resync that has begun, or is past a version that the client cannot get
  (`Gap`). The hard step is a client that drops a delta because it is not the next one
  (`BookDeliver`): the version it lacks is then behind a snapshot, by `InOrder`, or is
  a gap, or would itself be owed with nothing to bring it. `Apart` says that two tasks
  of one book know of each other, cancelled ones in their last poll included.

**Submit path.** The receipt argument needs to know that a registered sender
is unused (`OpenWhileRegistered`), that a request is in the queue once
(`QueueOnce`), that only queued requests have jobs and a job that has not begun
has a fresh channel (`Stages`), and that nothing is in the pool, a block or the
stream that no job has sent (`SentBeforePooled`): then a block for a transaction
that only one request carries cannot have been processed before that request
registered. The refinement follows from `ReceiptIsReal` and from `Finish`, which
leaves an answer that was given alone.

**Index.** The four invariants together are inductive as they stand, for bodies of any
content; the work is in `IndexMarketStep`, where a re-created market loses its old slug and
takes one that no market has, and where the second of two inserts under one
spot market wins.

**Indexer, calls.** Each step of a handler or request is one call of a method of the
index (`IndexCall`) or none, so `IndexInv` survives it. What a request sends is any
body (`IndexRequests`): nothing is needed of it but the types. Of the events `CallsInv`
says more: each on its way is one that the chain can have made (`SoundOrderEvents`: what
each kind may change of an order), a handler keeps its event and a spot market for it,
and `mark_cancelled` takes its spot market from the index, which is why `IndexInv` is
part of it. Type correctness of the index and everything proved of it carries over.

**Indexer, tracking.** `IndexTracksStream`, `TradesAddUp` and `UserFeedTracksIndex`
need to know where each order's events are. `EventsLinked`: the events of an order
that are in the stream or in the handler form one chain from its `view` to the state
it has on the chain, each beginning where the one before ended. `MarketsFirst`: the
market of an order is indexed, or its event is in the stream before those of the
order, so a handler never gives an event up for lack of a spot market. Then
`FillsTracked` and `RestsTracked` compare the index with `Indexed` (the view, or what
it was before the event whose index write is still to come), `TradesTracked` adds the
fill that is indexed and not yet announced, `FeedsTracked` allows the message that is
due. `EventsOverruleRequests` needs the same of orders that requests wrote, with nothing
known of their quantities: `StatusTracked` says that once an event was indexed the
status is open or partially filled if it is so in `Indexed`, and else the very status.
Its step is the index write of a handler, where the event alone gives the status; that
the handler writes the right order is `RightSpot`, which rests on `Present`: an order
that the chain has, and that lost no event, is in the index or its creation is on its
way. Fills always name their contract, so `FillsTracked` holds of ambiguous
orders too, and `TradesAddUp` does not exclude them. The actions fall into six
classes (passive, a request's write, the end of the book stage, an arrival, an event
taken or left out, a chain step); each class keeps the invariant by one lemma.

**Indexer, books.** `BookTracksStream` needs three things beside the tracked orders.
- *A level moves by what its order moves.* A level is a set of units, the pairs of an
  order and a number up to its remainder. When one order changes, its units are
  exchanged and the others stay (`UnitsChange`), so the level changes by the difference
  of the remainders and no other level changes. That is a fact about cardinalities and
  needs no induction over the orders.
- *Nothing saturates.* A book adds and subtracts with saturation; that loses nothing
  only if the level fits in a `u64` before and after the event. The chain's levels fit
  now, but an event is applied later, to the levels of an earlier state. `History`
  says that there is a state of the chain for each event on its way, from what was
  received to what the chain is now, that the levels of each of them fit, and
  that each event tells what one order was and became from one state to the next. The
  view is the first of these states, or the one before it while the event is in its
  handler, so its levels fit too.
- *Types*, which the arithmetic needs (`TypeInv`). It says more than `TypeOK`: what an
  answer is at each stage, that a handler's fields are empty when none runs, and what
  each request holds at its stage.

`BookStep` then shows that every step does one of four things to the books: it loses or
leaves out events (`LeavesOut`, after which those spots are not `exact`), replaces a
book by an answer of the chain (`Rereads`), adds an order for a request (`Adds`), or
applies the event of the handler (`Apply`); each keeps the invariant by one lemma. A
level below the depth of the answer is followed from below: it shows at most what the
chain has, and an event moves both by the same amount or empties it.

**Order query.** `OpenOrdersAreFound` follows from `TrackInv`: the index has the
status and the size of an order that was not touched, so the order matches its own
description, and its id leads back to it alone (`ContextRoundTrips`). That a
match at another price is excluded is `PriceTextFact`: quotient and remainder of a
product that did not saturate give the price back.

**Market queries.** A market's place is its rank, the number of matching markets that
come before it and itself. No market comes before itself, so no rank exceeds the total,
and the page that reaches the total is the last. `SteadySoFar` and `KeptSoFar` say what a
walk has shown when its offset is n: the markets up to rank n, or at least those of them
that matched when it began. A page takes both from n to n + limit; a write that is
`kept` moves no market to a smaller rank, so none that is owed falls behind the
offset.

**Only model-checked:** liveness. `EveryRequestAnswered`, `BookConverges`,
`ForwardersSettle`, `WalkEnds` and the weak fairness part of `ImplementsContract` need
reasoning about `ENABLED` under fairness, which this prover does not do. Every safety
property of a passing run is a theorem.

## 7. What the checks found

1. **A second submission of one transaction breaks the first**
   (`submit_shared`). `SubmitWaitRegistry::register` replaces the waiter under
   the digest; the first request is told "submit waiter dropped", its `cancel` then
   removes the second's waiter, and the second times out although its block came.
2. **Hydration before an event counts the event twice** (`indexer_premature`).
   The first order event of a spot market hydrates the book, which already has the
   order, and then applies the event. Until something rehydrates that spot
   (a `get_book`, a websocket subscription, a reconnect) the book is wrong.
3. **One order is applied twice** (`indexer_duplicate`). `index_from_event` and the
   block's `order_created` check for a duplicate and insert in separate locks.
4. **A filled order becomes cancelled** (`indexer_cancel`). `mark_cancelled`
   checks the status under one lock and overwrites it under another.

`BookConverges` is the other half of 2 and 3: a rehydration repairs the book, also one
that `index_from_event` added to. `EventsOverruleRequests` is the other half of 4 for
orders with events to come; an order that was filled has none, so there "cancelled"
stays.

## 8. Not modelled

- `list_orders_for_user` (a copy of the orders of one owner), `position_token_specs`
  and the limits on the length of a batch of markets: one read of the index each.
- The slug that an order remembers: a market created again changes its slug, its
  orders keep the old one (hazard `processor.rs:782`); nothing says which is right.
- The text of slugs, `format_token_amount`, address parsing, JSON shapes, pings,
  acknowledgements and error messages: data that the properties do not tell apart.
- How far the outbound queue of a connection grows: it is unbounded (hazard
  `ws/mod.rs:33`), and a model has nothing to compare it with.
- `IndexedBlockHead`, statistics and logging, icons and tokens. Trigger and market
  orders on the chain: the early return for them in `apply_order_created_to_book`
  (`processor.rs:666`) is modelled for `index_from_event` only.
- Configuration, startup, health and account routes: no state that changes.

Hazards without a property carry a note in `PROJECT.json` that says why: what a request
writes is not announced, a new subscription of a user drops what its predecessor had
not forwarded, a resync snapshot can overtake a delta of a second task, the
queue has no bound, an order's slug grows old. In each case the code makes no promise
to check.

## 9. Plan

In the order in which the behaviour matters. Done:

1. `SpotBook`, `BookStore`, `BookFeed` and their proofs.
2. `SubmitPath` with `SubmitContract`, refinement and proofs.
3. `IndexStore` and its proofs.
4. `Indexer`: handlers, requests, chain; safety, convergence and findings.
5. `WsSession`: one connection, its subscriptions, forwarding tasks and rings.
6. `MarketQuery` and `OrderQuery`.
7. `IndexerProofs` and `IndexerTrackingProofs`.
8. `WsSessionProofs`.
9. `IndexerBookProofs`, `MarketQueryProofs` and the theorem of `OrderQuery`: with them
   every safety property of the runs is proved.

Left:

10. Several connections that share one ring, with BookFeed's contents.
11. What requests write is excluded from `IndexTracksStream` and
    `UserFeedTracksIndex`. `EventsOverruleRequests` says what becomes of the status of
    such an order; its quantities and what the feed shows of it are still open.
