------------------------------ MODULE Indexer ------------------------------
(***************************************************************************)
(* The indexer task (indexer/mod.rs, indexer/processor.rs), the HTTP       *)
(* requests that write the same index and books concurrently               *)
(* (http/routes/orders.rs, http/routes/spot.rs) and the chain they follow. *)
(*                                                                         *)
(* A handler is a sequence of awaits.  Every lock it takes and every RPC   *)
(* it makes is a step of its own here, so that another task's step can     *)
(* come between two of them; a check and a use with no await in between    *)
(* are one step.                                                           *)
(*                                                                         *)
(* The sequence numbers, channels and last trade prices of the books are   *)
(* the business of BookFeed; here a book is its levels.  A block is one    *)
(* event of one successful transaction, as failed ones are skipped.        *)
(***************************************************************************)
EXTENDS IndexStore, FiniteSetsExt

CONSTANTS Listed,       \* the orders that may be placed or claimed to be
          OrderSide, OrderPrice, OrderAmount,  \* what they are placed with ...
          OrderOwner,   \* ... and by whom
          Sizes,        \* the sizes an order may be amended to
          Anonymous,    \* the orders whose later events name no contract
          ChainDepth,   \* levels per side that get_book answers with
          Requests,     \* HTTP requests in progress at once
          Served,       \* "book", "index" and "cancelled": what is requested
          MaxEvents,    \* bound: events the chain commits
          Nothing       \* Option::None

VARIABLES
  books,           \* the levels of each spot's book
  chain_hydrated,  \* BookStoreInner.chain_hydrated
  task,            \* the indexer task
  requests,        \* the HTTP requests
  published,       \* the status last sent to the user hub for each order
  traded,          \* what the trades sent to the user hub add up to
  chain_markets,   \* the state of each market on the chain
  chain,           \* the state of each order on the chain
  committed,       \* events committed
  connected,       \* the subscription to NewBlocks stands
  stream,          \* events sent to the indexer and not yet received
  view,            \* ghost: the orders as of the last event applied or lost
  missed,          \* ghost: orders with an event that never arrived
  touched,         \* ghost: orders that an HTTP request wrote
  late,            \* ghost: those of them with no event indexed since
  exact            \* ghost: the spots whose book was read at the view and has
                   \* since had every event of the stream and nothing else,
                   \* each with the levels below the depth of that reading

userVars == <<published, traded>>
ghostVars == <<view, exact>>
bookVars == <<books, chain_hydrated>>
chainVars == <<chain_markets, chain, committed>>
streamVars == <<connected, stream, missed>>
vars == <<indexVars, bookVars, task, requests, userVars, chainVars, streamVars,
          ghostVars, touched, late>>

ASSUME ListedAssumption ==
  /\ Listed \subseteq Keys
  /\ OrderSide \in [Listed -> Sides]
  /\ OrderPrice \in [Listed -> Prices \ {0}]
  /\ OrderAmount \in [Listed -> Amounts \ {0}]
  /\ OrderOwner \in [Listed -> Users]
  /\ Sizes \subseteq Amounts \ {0}

ASSUME SpotsAssumption == IsFiniteSet(Spots)

---------------------------------------------------------------------------
(* The chain.                                                              *)

ChainOrders == [status : Statuses \cup {"absent"}, size : Amounts, filled : Amounts]

Remaining(order) == IF order.status \in Cancellable THEN order.size - order.filled ELSE 0

\* What rests at a price of a spot market, unit by unit.
UnitsAt(resting, s, side, price) ==
  UNION {{k} \X (1 .. Remaining(resting[k])) :
           k \in {j \in Listed : j[1] = s /\ OrderSide[j] = side /\ OrderPrice[j] = price}}

\* The levels that orders rest at in a spot market.
ChainLevels(resting, s) ==
  [side \in Sides |->
     [price \in {p \in Prices : UnitsAt(resting, s, side, p) # {}} |->
        Cardinality(UnitsAt(resting, s, side, price))]]

ToDepth(levels) == [side \in Sides |-> Shown(levels[side], side, ChainDepth)]

\* get_book.
ChainBook(s) == ToDepth(ChainLevels(chain, s))

OrderEvents == {"created", "updated", "filled", "cancelled"}

ASSUME NothingAssumption ==
  Nothing \notin Spots \cup [kind : OrderEvents, key : Listed, old : ChainOrders, new : ChainOrders]

\* The orders that an event is needed for.
OrdersOf(event) ==
  IF event.kind \in OrderEvents THEN {event.key}
  ELSE IF event.kind = "market"
       THEN {k \in Listed : k[1] \in {SpotsOf[event.market][1], SpotsOf[event.market][2]}}
       ELSE {}

SpotsIn(keys) == {k[1] : k \in keys}

Without(map, keys) == [k \in DOMAIN map \ keys |-> map[k]]

\* What the view becomes when events have been applied or lost.
Viewed(orderViews, events) ==
  [k \in Listed |->
     LET own == {i \in 1 .. Len(events) : events[i].kind \in OrderEvents /\ events[i].key = k}
     IN IF own = {} THEN orderViews[k] ELSE events[Max(own)].new]

\* A block reaches the indexer when it is subscribed as the block is made.
Emit(event) ==
  /\ committed < MaxEvents
  /\ committed' = committed + 1
  /\ IF connected
     THEN stream' = Append(stream, event) /\ UNCHANGED <<missed, ghostVars>>
     ELSE /\ missed' = missed \cup OrdersOf(event)
          /\ view' = Viewed(view, <<event>>)
          /\ exact' = Without(exact, SpotsIn(OrdersOf(event)))
          /\ UNCHANGED stream
  /\ UNCHANGED <<indexVars, bookVars, task, requests, userVars, connected, touched, late>>

CreateMarket(m) ==
  /\ chain_markets[m] = "none"
  /\ chain_markets' = [chain_markets EXCEPT ![m] = "Created"]
  /\ Emit([kind |-> "market", market |-> m])
  /\ UNCHANGED chain

SettleMarket(m) ==
  /\ chain_markets[m] = "Created"
  /\ chain_markets' = [chain_markets EXCEPT ![m] = "Resolved"]
  /\ Emit([kind |-> "resolved", market |-> m])
  /\ UNCHANGED chain

\* The chain keeps the quantity of a level in a u64, as it reports it.
OrderStep(kind, k, new) ==
  /\ chain' = [chain EXCEPT ![k] = new]
  /\ Cardinality(UnitsAt(chain', k[1], OrderSide[k], OrderPrice[k])) <= MaxAmount
  /\ Emit([kind |-> kind, key |-> k, old |-> chain[k], new |-> new])
  /\ UNCHANGED chain_markets

Place(k) ==
  /\ chain[k].status = "absent"
  /\ \E m \in Markets : chain_markets[m] # "none" /\ k[1] \in {SpotsOf[m][1], SpotsOf[m][2]}
  /\ OrderStep("created", k, [status |-> "open", size |-> OrderAmount[k], filled |-> 0])

\* An order that rests is filled at its own price.
Fill(k) ==
  \E amount \in 1 .. Remaining(chain[k]) :
    OrderStep("filled", k,
              [chain[k] EXCEPT !.filled = @ + amount,
                               !.status = IF amount = Remaining(chain[k]) THEN "filled"
                                          ELSE "partial_filled"])

Amend(k) ==
  /\ Remaining(chain[k]) > 0
  /\ \E size \in Sizes \ {chain[k].size} :
       size > chain[k].filled /\ OrderStep("updated", k, [chain[k] EXCEPT !.size = size])

Withdraw(k) ==
  /\ Remaining(chain[k]) > 0
  /\ OrderStep("cancelled", k, [chain[k] EXCEPT !.status = "cancelled"])

ChainStep ==
  \/ \E m \in Markets : CreateMarket(m) \/ SettleMarket(m)
  \/ \E k \in Listed : Place(k) \/ Fill(k) \/ Amend(k) \/ Withdraw(k)

---------------------------------------------------------------------------
(* The books.                                                              *)

AsBook(levels) == [EmptyBook EXCEPT !.levels = levels]

\* The write of hydrate_from_chain.  It is exact when the chain's answer is
\* the book at the view, down to the depth of the answer.
HydrateBook(s, levels) ==
  /\ books' = [books EXCEPT ![s] = Hydrated(AsBook(@), levels, NoPrice).levels]
  /\ chain_hydrated' = chain_hydrated \cup {s}
  /\ exact' = IF levels = ToDepth(ChainLevels(view, s))
              THEN Put(exact, s, {l \in Sides \X Prices :
                                    /\ l[2] \in DOMAIN ChainLevels(view, s)[l[1]]
                                    /\ l[2] \notin DOMAIN levels[l[1]]})
              ELSE Without(exact, {s})

\* apply_created, apply_updated, apply_filled or apply_cancelled, with the
\* amounts that the event carries.
Applied(levels, event) ==
  LET book == AsBook(levels)
      side == OrderSide[event.key]
      price == OrderPrice[event.key]
      before == event.old
      after == event.new
  IN CASE event.kind = "created" -> Created(book, side, price, after.size).levels
       [] event.kind = "updated" ->
            Updated(book, side, price, before.size, after.size, Remaining(after)).levels
       [] event.kind = "filled" ->
            Filled(book, side, price, after.filled - before.filled).levels
       [] event.kind = "cancelled" ->
            Cancelled(book, side, price, Remaining(before)).levels

---------------------------------------------------------------------------
(* The indexer task.                                                       *)

\* stage   "stopped": between two runs of run_once; "connecting"; "receiving";
\*         "hydrating": in a loop of hydrate_spot_from_chain; "ensuring",
\*         "applying", "indexing", "publishing" and "sending": the steps of a
\*         handler
\* event   the event in its handler
\* spot    the spot market that the event was resolved to
\* todo    spot markets still to hydrate
\* answer  the chain's answer for the first of them, or the status to send
\* resume  the stage after the last of them
Idle(stage) == [stage |-> stage, event |-> Nothing, spot |-> Nothing,
                todo |-> <<>>, answer |-> Nothing, resume |-> stage]

Handling(stage, event, spot) ==
  [Idle(stage) EXCEPT !.event = event, !.spot = spot]

Hydrating(current, todo, resume) ==
  IF todo = <<>> THEN Idle(resume)
  ELSE [current EXCEPT !.stage = "hydrating", !.todo = todo, !.resume = resume]

\* list_spot_markets: the keys of a HashMap, in any order.
SpotLists ==
  {list \in [1 .. Cardinality(DOMAIN spot_to_market) -> DOMAIN spot_to_market] :
     \A s \in DOMAIN spot_to_market : \E i \in DOMAIN list : list[i] = s}

httpVars == <<requests, touched, late>>

\* run_once: hydrate_all_spot_markets comes before the subscription.
Restart ==
  /\ task.stage = "stopped"
  /\ \E list \in SpotLists : task' = Hydrating(Idle("stopped"), list, "connecting")
  /\ UNCHANGED <<indexVars, bookVars, httpVars, userVars, chainVars, streamVars, ghostVars>>

Connect ==
  /\ task.stage = "connecting"
  /\ task' = Idle("receiving")
  /\ connected' = TRUE
  /\ UNCHANGED <<indexVars, bookVars, httpVars, userVars, chainVars, stream, missed, ghostVars>>

ConnectFails ==
  /\ task.stage = "connecting"
  /\ task' = Idle("stopped")
  /\ UNCHANGED <<indexVars, bookVars, httpVars, userVars, chainVars, streamVars, ghostVars>>

\* The stream ends or reports an error: what is still in it is dropped.  A
\* break while a handler runs shows when the handler is done.
Disconnect ==
  /\ task.stage = "receiving"
  /\ task' = Idle("stopped")
  /\ connected' = FALSE
  /\ stream' = <<>>
  /\ LET lost == UNION {OrdersOf(stream[i]) : i \in 1 .. Len(stream)}
     IN missed' = missed \cup lost /\ exact' = Without(exact, SpotsIn(lost))
  /\ view' = Viewed(view, stream)
  /\ UNCHANGED <<indexVars, bookVars, httpVars, userVars, chainVars>>

\* hydrate_spot_from_chain: get_book is answered now ...
HydrateRead ==
  /\ task.stage = "hydrating"
  /\ task.answer = Nothing
  /\ task' = [task EXCEPT !.answer = ChainBook(Head(task.todo))]
  /\ UNCHANGED <<indexVars, bookVars, httpVars, userVars, chainVars, streamVars, ghostVars>>

\* Mutant: the loop does not end with its last spot market.
NextSpotStays(current, resume) == [current EXCEPT !.todo = Tail(@), !.answer = Nothing]

NextSpot(current, resume) ==
  IF Tail(current.todo) = <<>>
  THEN [current EXCEPT !.stage = resume, !.todo = <<>>, !.answer = Nothing, !.resume = resume]
  ELSE [current EXCEPT !.todo = Tail(@), !.answer = Nothing]

\* ... and replaces the book later.
HydrateWrite ==
  /\ task.stage = "hydrating"
  /\ task.answer # Nothing
  /\ HydrateBook(Head(task.todo), task.answer)
  /\ task' = NextSpot(task, task.resume)
  /\ UNCHANGED <<indexVars, httpVars, userVars, chainVars, streamVars, view>>

\* The event that a handler leaves out of the book.
LeftOut(event) ==
  /\ view' = Viewed(view, <<event>>)
  /\ exact' = Without(exact, SpotsIn(OrdersOf(event)))

\* get_market_info, asked after get_book where no trade is known, may fail too.
AsksPrice(s) == last_trade_price_by_spot[s] = NoPrice

\* Mutant: the handler gives the event up.
HydrateFailsReturns ==
  /\ task.stage = "hydrating"
  /\ task.answer = Nothing \/ AsksPrice(Head(task.todo))
  /\ IF task.resume = "applying"
     THEN task' = Idle("receiving") /\ LeftOut(task.event)
     ELSE task' = NextSpot(task, task.resume) /\ UNCHANGED ghostVars
  /\ UNCHANGED <<indexVars, bookVars, httpVars, userVars, chainVars, streamVars>>

\* An RPC error is logged; a handler goes on without touching the book.
HydrateFails ==
  /\ task.stage = "hydrating"
  /\ task.answer = Nothing \/ AsksPrice(Head(task.todo))
  /\ IF task.resume = "applying"
     THEN task' = NextSpot(task, "indexing") /\ LeftOut(task.event)
     ELSE task' = NextSpot(task, task.resume) /\ UNCHANGED ghostVars
  /\ UNCHANGED <<indexVars, bookVars, httpVars, userVars, chainVars, streamVars>>

Receive(event) ==
  /\ task.stage = "receiving"
  /\ stream # <<>>
  /\ event = Head(stream)
  /\ stream' = Tail(stream)
  /\ UNCHANGED <<bookVars, httpVars, userVars, chainVars, connected, missed>>

\* event_contract_created: index_market_created hydrates both spot markets.
ReceiveMarket ==
  \E m \in Markets :
    /\ Receive([kind |-> "market", market |-> m])
    /\ IndexMarket(m)
    /\ task' = Hydrating(Idle("receiving"), SpotsOf[m], "receiving")
    /\ UNCHANGED ghostVars

ReceiveResolved ==
  \E m \in Markets :
    /\ Receive([kind |-> "resolved", market |-> m])
    /\ ResolveMarket(m)
    /\ UNCHANGED <<task, view, exact>>

ReceiveOrderEvent(kind) ==
  /\ stream # <<>>
  /\ Head(stream).kind = kind
  /\ Receive(Head(stream))

\* order_created: one that is indexed already is skipped, its book included.
ReceiveCreated ==
  /\ ReceiveOrderEvent("created")
  /\ LET event == Head(stream)
     IN IF HasOrder(event.key)
        THEN UNCHANGED task /\ LeftOut(event)
        ELSE /\ task' = Handling("ensuring", event, event.key[1])
             /\ UNCHANGED ghostVars
  /\ UNCHANGED indexVars

\* resolve_spot_market_for_order_event: the contract of the event, or the one
\* spot market with an order of that id; without one, every book is read again.
Resolve(event, stage) ==
  LET found == IF event.key \in Anonymous THEN SpotsWithOrder(event.key[2]) ELSE {event.key[1]}
  IN IF Cardinality(found) = 1
     THEN /\ task' = Handling(stage, event, CHOOSE s \in found : TRUE)
          /\ UNCHANGED ghostVars
     ELSE /\ \E list \in SpotLists : task' = Hydrating(Idle("receiving"), list, "receiving")
          /\ LeftOut(event)

\* order_cancelled goes to the book without hydrating it first.
ReceiveCancelled ==
  /\ ReceiveOrderEvent("cancelled")
  /\ Resolve(Head(stream), "applying")
  /\ UNCHANGED indexVars

ReceiveUpdated ==
  /\ ReceiveOrderEvent("updated")
  /\ Resolve(Head(stream), "ensuring")
  /\ UNCHANGED indexVars

ReceiveFilled ==
  /\ ReceiveOrderEvent("filled")
  /\ LET event == Head(stream)
     IN /\ RecordTrade(event.key[1], OrderPrice[event.key])
        /\ task' = Handling("ensuring", event, event.key[1])
  /\ UNCHANGED ghostVars

\* ensure_chain_hydrated.
Ensure ==
  /\ task.stage = "ensuring"
  /\ task' = IF task.spot \in chain_hydrated
             THEN [task EXCEPT !.stage = "applying"]
             ELSE Hydrating(task, <<task.spot>>, "applying")
  /\ UNCHANGED <<indexVars, bookVars, httpVars, userVars, chainVars, streamVars, ghostVars>>

Apply ==
  /\ task.stage = "applying"
  /\ books' = [books EXCEPT ![task.spot] = Applied(@, task.event)]
  /\ view' = Viewed(view, <<task.event>>)
  /\ exact' = IF task.spot = task.event.key[1] THEN exact
              ELSE Without(exact, {task.spot, task.event.key[1]})
  /\ task' = [task EXCEPT !.stage = "indexing"]
  /\ UNCHANGED <<indexVars, chain_hydrated, httpVars, userVars, chainVars, streamVars>>

TaskKey == <<task.spot, task.event.key[2]>>

\* The order of order_created, as the handler indexes it.
Opened(k, amount) ==
  [side |-> OrderSide[k], price |-> OrderPrice[k], size |-> amount, user |-> OrderOwner[k],
   status |-> "open", filled |-> 0]

IndexEvent ==
  LET before == task.event.old
      after == task.event.new
  IN /\ task.stage = "indexing"
     /\ CASE task.event.kind = "created" -> IndexOrder(TaskKey, Opened(task.event.key, after.size))
          [] task.event.kind = "updated" -> UpdateAmount(TaskKey, after.size, Remaining(after))
          [] task.event.kind = "filled" ->
               UpdateFill(TaskKey, after.filled - before.filled, Remaining(after),
                          after.status = "filled")
          [] task.event.kind = "cancelled" -> UpdateCancelled(TaskKey)
     /\ late' = late \ {TaskKey}
     /\ task' = [task EXCEPT !.stage = "publishing"]
     /\ UNCHANGED <<bookVars, requests, touched, userVars, chainVars, streamVars, ghostVars>>

AfterRead == IF task.event.kind = "filled" THEN "trading" ELSE "sending"

\* Mutant: an order that is filled in part is not announced.
PublishReadInFull ==
  /\ task.stage = "publishing"
  /\ task' = IF HasOrder(TaskKey) /\ orders[TaskKey].status # "partial_filled"
             THEN [task EXCEPT !.stage = AfterRead, !.answer = orders[TaskKey].status]
             ELSE Idle("receiving")
  /\ UNCHANGED <<indexVars, bookVars, httpVars, userVars, chainVars, streamVars, ghostVars>>

\* publish_user_order_*: the order is read from the index again ...
PublishRead ==
  /\ task.stage = "publishing"
  /\ task' = IF HasOrder(TaskKey)
             THEN [task EXCEPT !.stage = AfterRead, !.answer = orders[TaskKey].status]
             ELSE Idle("receiving")
  /\ UNCHANGED <<indexVars, bookVars, httpVars, userVars, chainVars, streamVars, ghostVars>>

FillAmount == task.event.new.filled - task.event.old.filled

\* Mutant: the trade that completes an order is left out.
PublishTradeUnlessFilled ==
  /\ task.stage = "trading"
  /\ traded' = IF task.answer = "filled" THEN traded
               ELSE [traded EXCEPT ![TaskKey] = @ + FillAmount]
  /\ task' = [task EXCEPT !.stage = "sending"]
  /\ UNCHANGED <<indexVars, bookVars, httpVars, published, chainVars, streamVars, ghostVars>>

\* ... for a fill the trade is sent ...
PublishTrade ==
  /\ task.stage = "trading"
  /\ traded' = [traded EXCEPT ![TaskKey] = @ + FillAmount]
  /\ task' = [task EXCEPT !.stage = "sending"]
  /\ UNCHANGED <<indexVars, bookVars, httpVars, published, chainVars, streamVars, ghostVars>>

\* ... and then the order.
PublishSend ==
  /\ task.stage = "sending"
  /\ published' = [published EXCEPT ![TaskKey] = task.answer]
  /\ task' = Idle("receiving")
  /\ UNCHANGED <<indexVars, bookVars, httpVars, traded, chainVars, streamVars, ghostVars>>

IndexerStep ==
  \/ Restart \/ Connect \/ ConnectFails
  \/ HydrateRead \/ HydrateWrite \/ HydrateFails
  \/ ReceiveMarket \/ ReceiveResolved
  \/ ReceiveCreated \/ ReceiveCancelled \/ ReceiveUpdated \/ ReceiveFilled
  \/ Ensure \/ Apply \/ IndexEvent \/ PublishRead \/ PublishTrade \/ PublishSend

---------------------------------------------------------------------------
(* HTTP requests.                                                          *)

Begin(r, request) ==
  /\ requests[r] = Nothing
  /\ request.kind \in Served
  /\ requests' = [requests EXCEPT ![r] = request]

Go(r, request) == requests' = [requests EXCEPT ![r] = request]

At(r, kind, stage) ==
  requests[r] # Nothing /\ requests[r].kind = kind /\ requests[r].stage = stage

writtenVars == <<touched, late>>
othersOfRequest == <<task, chainVars, streamVars, view>>

\* A request has written an order.
Wrote(k) == touched' = touched \cup {k} /\ late' = late \cup {k}

\* GET book: the handler always reads the chain first.  An RPC error ends it.
GetBook(r) ==
  /\ \E s \in Spots :
       Begin(r, [kind |-> "book", stage |-> "writing", spot |-> s, levels |-> ChainBook(s),
                 asks_price |-> AsksPrice(s)])
  /\ UNCHANGED <<indexVars, bookVars, userVars, othersOfRequest, writtenVars, exact>>

\* Mutant: a book that was read from the chain once is not replaced.
GetBookEnsured(r) ==
  /\ At(r, "book", "writing")
  /\ IF requests[r].spot \in chain_hydrated THEN UNCHANGED <<bookVars, exact>>
     ELSE HydrateBook(requests[r].spot, requests[r].levels)
  /\ Go(r, Nothing)
  /\ UNCHANGED <<indexVars, userVars, othersOfRequest, writtenVars>>

GetBookWrite(r) ==
  /\ At(r, "book", "writing")
  /\ HydrateBook(requests[r].spot, requests[r].levels)
  /\ Go(r, Nothing)
  /\ UNCHANGED <<indexVars, userVars, othersOfRequest, writtenVars>>

\* get_market_info fails: nothing is written.
GetBookFails(r) ==
  /\ At(r, "book", "writing")
  /\ requests[r].asks_price
  /\ Go(r, Nothing)
  /\ UNCHANGED <<indexVars, bookVars, userVars, othersOfRequest, writtenVars, exact>>

\* index_from_event takes the caller's word for everything: the order need not
\* be on the chain, nor be what the caller says it is.  An order that is not a
\* limit order stays out of the book: it has price 0 there, or skip_book.
IndexFromEvent(r) ==
  /\ \E k \in Listed, body \in Bodies, skip_book \in BOOLEAN :
       Begin(r, [kind |-> "index", key |-> k, body |-> body, is_new |-> ~HasOrder(k),
                 stage |-> IF HasOrder(k) \/ skip_book THEN "indexing" ELSE "applying"])
  /\ UNCHANGED <<indexVars, bookVars, userVars, othersOfRequest, writtenVars, exact>>

IndexApply(r) ==
  /\ At(r, "index", "applying")
  /\ LET s == requests[r].key[1]
         body == requests[r].body
     IN /\ books' = [books EXCEPT ![s] =
                       Created(AsBook(@), body.side, body.price, body.size).levels]
        /\ exact' = Without(exact, {s})
  /\ Go(r, [requests[r] EXCEPT !.stage = "indexing"])
  /\ UNCHANGED <<indexVars, chain_hydrated, userVars, othersOfRequest, writtenVars>>

IndexInsert(r) ==
  /\ At(r, "index", "indexing")
  /\ LET request == requests[r]
         k == request.key
     IN /\ IndexOrder(k, request.body)
        /\ Wrote(k)
        /\ Go(r, IF request.is_new /\ k[1] \in DOMAIN spot_to_market
                 THEN [request EXCEPT !.stage = "publishing"] ELSE Nothing)
  /\ UNCHANGED <<bookVars, userVars, othersOfRequest, exact>>

IndexPublish(r) ==
  /\ At(r, "index", "publishing")
  /\ Go(r, [kind |-> "index", stage |-> "sending", key |-> requests[r].key,
            status |-> orders[requests[r].key].status])
  /\ UNCHANGED <<indexVars, bookVars, userVars, othersOfRequest, writtenVars, exact>>

IndexSend(r) ==
  /\ At(r, "index", "sending")
  /\ published' = [published EXCEPT ![requests[r].key] = requests[r].status]
  /\ Go(r, Nothing)
  /\ UNCHANGED <<indexVars, bookVars, traded, othersOfRequest, writtenVars, exact>>

\* mark_cancelled: the status is read ...
MarkCancelled(r) ==
  /\ \E k \in DOMAIN orders :
       /\ orders[k].status \in Cancellable
       /\ Begin(r, [kind |-> "cancelled", stage |-> "writing", key |-> <<ContextSpot(k), k[2]>>])
  /\ UNCHANGED <<indexVars, bookVars, userVars, othersOfRequest, writtenVars, exact>>

\* Mutant: the order of that id in another spot market is marked.
MarkCancelledElsewhere(r) ==
  /\ At(r, "cancelled", "writing")
  /\ \E s \in Spots \ {requests[r].key[1]} : UpdateCancelled(<<s, requests[r].key[2]>>)
  /\ Wrote(requests[r].key)
  /\ Go(r, Nothing)
  /\ UNCHANGED <<bookVars, userVars, othersOfRequest, exact>>

\* ... and overwritten later, with nothing published.
MarkCancelledWrite(r) ==
  /\ At(r, "cancelled", "writing")
  /\ UpdateCancelled(requests[r].key)
  /\ Wrote(requests[r].key)
  /\ Go(r, Nothing)
  /\ UNCHANGED <<bookVars, userVars, othersOfRequest, exact>>

RequestStep(r) ==
  \/ GetBookWrite(r)
  \/ IndexApply(r) \/ IndexInsert(r) \/ IndexPublish(r) \/ IndexSend(r)
  \/ MarkCancelledWrite(r)

---------------------------------------------------------------------------
Init ==
  /\ IndexInit
  /\ books = [s \in Spots |-> EmptyBook.levels]
  /\ chain_hydrated = {}
  /\ task = Idle("stopped")
  /\ requests = [r \in Requests |-> Nothing]
  /\ published = [k \in Listed |-> "none"]
  /\ traded = [k \in Listed |-> 0]
  /\ chain_markets = [m \in Markets |-> "none"]
  /\ chain = [k \in Listed |-> [status |-> "absent", size |-> 0, filled |-> 0]]
  /\ committed = 0
  /\ connected = FALSE
  /\ stream = <<>>
  /\ view = chain
  /\ missed = {}
  /\ touched = {}
  /\ late = {}
  /\ exact = [s \in Spots |-> {}]

Next ==
  \/ ChainStep
  \/ IndexerStep
  \/ Disconnect
  \/ \E r \in Requests :
       GetBook(r) \/ GetBookFails(r) \/ IndexFromEvent(r) \/ MarkCancelled(r) \/ RequestStep(r)

Spec == Init /\ [][Next]_vars

\* The handlers of requests in progress run on.  Nothing is assumed of the
\* indexer task, of the chain, its RPCs and the connection, or of new requests.
Fairness == \A r \in Requests : WF_vars(RequestStep(r))

FairSpec == Spec /\ Fairness

---------------------------------------------------------------------------
Stages == {"stopped", "connecting", "receiving", "hydrating", "ensuring", "applying",
           "indexing", "publishing", "trading", "sending"}

TypeOK ==
  /\ IndexTypeOK
  /\ books \in [Spots -> [Sides -> Levels]]
  /\ chain_hydrated \subseteq Spots
  /\ task.stage \in Stages /\ task.todo \in Seq(Spots)
  /\ task.stage = "hydrating" <=> task.todo # <<>>
  /\ task.spot \in Spots <=> task.event # Nothing
  /\ \A r \in Requests : requests[r] # Nothing => requests[r].kind \in Served
  /\ published \in [Listed -> Statuses \cup {"none"}]
  /\ traded \in [Listed -> Nat]
  /\ chain \in [Listed -> ChainOrders]
  /\ view \in [Listed -> ChainOrders]
  /\ IsMap(exact, Spots, SUBSET (Sides \X Prices))
  /\ missed \cup touched \cup late \subseteq Listed

\* A book that was in step with the stream stays in step: each event moves
\* the one level it is about by exactly what it changed on the chain,
\* amendments and partial fills included, whatever handlers, hydrations of
\* other spots, reconnects and requests come between its steps
\* (processor.rs:130-383, book_store.rs:126-251).
BookTracksStream ==
  \A s \in DOMAIN exact, side \in Sides, price \in Prices :
    LET shown == Resting(books[s][side], price)
        real == Resting(ChainLevels(view, s)[side], price)
    IN shown <= real /\ (<<side, price>> \notin exact[s] => shown = real)

InHandler(k) == task.event # Nothing /\ k \in {task.event.key, TaskKey}

\* The order, or another on the chain or in the index with its id, has events
\* that name no contract: when both are indexed such an event changes neither,
\* and when one is missing from the index it changes the other.
Ambiguous(k) ==
  \E j \in Listed \ {k} :
    /\ j[2] = k[2] /\ {j, k} \cap Anonymous # {}
    /\ chain[j].status # "absent" \/ HasOrder(j)

\* The index shows an order as the last event received left it on the chain,
\* unless one of its events was lost, a request wrote it or it is ambiguous: no
\* handler that resolves an order through the index alone, fails to hydrate or
\* runs beside other requests changes a different order or skips its own
\* (processor.rs:35-44, 130-383, store.rs:281-296).
IndexTracksStream ==
  \A k \in Listed \ (missed \cup touched) : ~InHandler(k) /\ ~Ambiguous(k) =>
    IF view[k].status = "absent" THEN ~HasOrder(k)
    ELSE /\ HasOrder(k)
         /\ orders[k].status = view[k].status
         /\ orders[k].size_raw = view[k].size
         /\ orders[k].filled_raw = view[k].filled

\* The trades on the user feed add up to the filled quantity that the index
\* shows: no fill is announced twice, left out or counted under another order,
\* and none is indexed without its trade (processor.rs:323-383, 878-938).
TradesAddUp ==
  \A k \in Listed \ (missed \cup touched) :
    HasOrder(k) /\ ~InHandler(k) => traded[k] = orders[k].filled_raw

\* The last order message on the user feed shows the status the index has,
\* also for orders whose earlier events were lost, except for orders that a
\* request overwrote (processor.rs:825-938).
UserFeedTracksIndex ==
  \A k \in Listed \ touched :
    HasOrder(k) /\ ~InHandler(k) => published[k] = orders[k].status

\* Whatever a request wrote over an order, and with whatever status and fill,
\* the next event of the order that is indexed puts its status right again:
\* filled or cancelled exactly when the chain says so, never from quantities
\* that the request left behind (orders.rs:157-239, store.rs:467-517).
EventsOverruleRequests ==
  \A k \in Listed \ (missed \cup late) : HasOrder(k) /\ ~InHandler(k) /\ ~Ambiguous(k) =>
    IF view[k].status \in Cancellable THEN orders[k].status \in Cancellable
    ELSE orders[k].status = view[k].status

\* GET book succeeds; a request is about to add an order to a book.
Rewritten(s) == \E r \in Requests : GetBookWrite(r) /\ requests[r].spot = s
Adding(s) == \E r \in Requests : At(r, "index", "applying") /\ requests[r].key[1] = s

\* However far a book has drifted from lost blocks, stale or premature
\* hydrations, creations applied twice or orders that a request made up, it
\* becomes the chain's book down to the depth of its answer and remains it, if
\* the chain comes to rest while clients keep getting the book and requests
\* stop adding to it (spot.rs:40-63, orders.rs:205-217, book_hydrate.rs:72-88).
BookConverges ==
  \A s \in Spots :
    []<><<Rewritten(s)>>_vars /\ <>[]~Adding(s) => <>[](books[s] = ChainBook(s))

---------------------------------------------------------------------------
(* What the code's messages say and the code does not keep.                *)

CaughtUp == /\ task.stage = "receiving" /\ connected /\ stream = <<>> /\ missed = {}
            /\ \A r \in Requests : requests[r] = Nothing

\* A handler hydrates the book "before order_created" (processor.rs:166-170),
\* so an indexer that has received everything has the chain's books.
HydratedBeforeEvent ==
  CaughtUp => \A s \in chain_hydrated : books[s] = ChainLevels(chain, s)

\* "order_created skipped duplicate" (processor.rs:137-147, orders.rs:205-217):
\* of the block's event and the request for one order only one gets past the
\* check and applies the order to the book.
CreatedAppliedOnce ==
  \A k \in Listed, r \in Requests :
    ~ /\ task.stage = "applying" /\ task.event.kind = "created" /\ task.event.key = k
      /\ At(r, "index", "applying") /\ requests[r].key = k

\* An order that is neither open nor partially filled "is not cancellable"
\* (orders.rs:172-176): one that was filled stays filled.
FilledIsFinal ==
  [][\A k \in DOMAIN orders :
       orders[k].status = "filled" => orders'[k].status = "filled"]_vars
=============================================================================
