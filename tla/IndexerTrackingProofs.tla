----------------------- MODULE IndexerTrackingProofs -----------------------
(***************************************************************************)
(* The index follows the stream and the user feed follows the index, for   *)
(* any markets, orders, requests and bounds: IndexTracksStream,            *)
(* EventsOverruleRequests, TradesAddUp and UserFeedTracksIndex of Indexer. *)
(*                                                                         *)
(* None of them is inductive.  That a fill leaves the index with the       *)
(* chain's fill needs that the events of an order are a chain of states,   *)
(* from what was received to what the order is now (Linked); that a new    *)
(* order is indexed at all needs that its market's event came first        *)
(* (MarketFirst); and each handler is at one of its steps, at which index, *)
(* trades and feed are behind the view by known amounts.                   *)
(***************************************************************************)
EXTENDS IndexerProofs, OrderQuery

---------------------------------------------------------------------------
(* The events of an order.                                                 *)

Own(i, k) == stream[i].kind \in OrderEvents /\ stream[i].key = k

\* An order as of the last event received.
Received(k) == IF BeforeBook /\ task.event.key = k THEN task.event.new ELSE view[k]

Linked(k) ==
  /\ \A i \in 1 .. Len(stream) :
       Own(i, k) /\ (\A j \in 1 .. i - 1 : ~Own(j, k)) => stream[i].old = Received(k)
  /\ \A i, j \in 1 .. Len(stream) :
       /\ Own(i, k) /\ Own(j, k) /\ i < j
       /\ \A between \in i + 1 .. j - 1 : ~Own(between, k)
       => stream[j].old = stream[i].new
  /\ \A i \in 1 .. Len(stream) :
       Own(i, k) /\ (\A j \in i + 1 .. Len(stream) : ~Own(j, k)) => chain[k] = stream[i].new
  /\ (\A i \in 1 .. Len(stream) : ~Own(i, k)) => chain[k] = Received(k)
  /\ BeforeBook /\ task.event.key = k => task.event.old = view[k]
  /\ AfterBook /\ task.event.key = k => task.event.new = view[k]

EventsLinked == DOMAIN view = Listed /\ \A k \in Listed \ missed : Linked(k)

InMarket(s, m) == s \in {SpotsOf[m][1], SpotsOf[m][2]}

\* The spot market of an order is indexed before the order's events come.
MarketComes(s, before) ==
  \/ s \in DOMAIN spot_to_market
  \/ \E j \in 1 .. before : stream[j].kind = "market" /\ InMarket(s, stream[j].market)

MarketFirst(k) ==
  /\ \A i \in 1 .. Len(stream) : Own(i, k) => MarketComes(k[1], i - 1)
  /\ \A m \in Markets :
       chain_markets[m] # "none" /\ InMarket(k[1], m) => MarketComes(k[1], Len(stream))
  /\ (BeforeBook \/ AfterBook) /\ task.event.key = k => k[1] \in DOMAIN spot_to_market

HasMarket(k) == \E m \in Markets : chain_markets[m] # "none" /\ InMarket(k[1], m)

MarketsFirst ==
  /\ DOMAIN chain_markets = Markets
  /\ \A k \in Listed : Placed(k) => HasMarket(k)
  /\ \A k \in Listed \ missed : MarketFirst(k)

---------------------------------------------------------------------------
(* The index and the feed.                                                 *)

\* An order as of the last event that the index has.
Indexed(k) == IF task.stage = "indexing" /\ task.event.key = k THEN task.event.old ELSE view[k]

FillTracked(k) ==
  /\ HasOrder(k) <=> Indexed(k).status # "absent"
  /\ HasOrder(k) => orders[k].filled_raw = Indexed(k).filled

FillsTracked == \A k \in Listed \ (missed \cup touched) : FillTracked(k)

RestTracked(k) ==
  HasOrder(k) => orders[k].status = Indexed(k).status /\ orders[k].size_raw = Indexed(k).size

RestsTracked ==
  \A k \in Listed \ (missed \cup touched) : ~Ambiguous(k) => RestTracked(k)

\* What remains right of an order that a request may have written: it is
\* indexed once the chain has it, its handler is at its spot market, and its
\* status agrees when an event was indexed last.
Present(k) == Indexed(k).status # "absent" => HasOrder(k)

RightSpot(k) == (BeforeBook \/ AfterBook) /\ task.event.key = k => task.spot = k[1]

StatusTracked(k) ==
  HasOrder(k) => IF Indexed(k).status \in Cancellable THEN orders[k].status \in Cancellable
                 ELSE orders[k].status = Indexed(k).status

StatusesTracked ==
  \A k \in Listed \ missed :
    Present(k) /\ (~Ambiguous(k) => RightSpot(k) /\ (k \notin late => StatusTracked(k)))

\* An order that no request wrote is what it was placed as.
TermTracked(k) ==
  HasOrder(k) => /\ orders[k].side = OrderSide[k] /\ orders[k].price = OrderPrice[k]
                 /\ orders[k].user = OrderOwner[k]

TermsTracked == \A k \in Listed \ touched : TermTracked(k)

\* The part of an order's fills that is indexed and not yet announced.
Untraded(k) ==
  IF task.stage \in {"publishing", "trading"} /\ task.event.kind = "filled" /\ task.event.key = k
  THEN FillAmount ELSE 0

TradeTracked(k) ==
  /\ HasOrder(k) => traded[k] + Untraded(k) = orders[k].filled_raw
  /\ ~HasOrder(k) => traded[k] = 0

TradesTracked ==
  /\ traded \in [Listed -> Nat]
  /\ task.stage = "trading" => task.event.kind = "filled"
  /\ \A k \in Listed \ (missed \cup touched) : TradeTracked(k)

Due(k) == task.stage \in {"publishing", "trading", "sending"} /\ TaskKey = k

FeedTracked(k) ==
  /\ HasOrder(k) => Due(k) \/ published[k] = orders[k].status
  /\ Due(k) /\ task.stage # "publishing" => HasOrder(k) /\ task.answer = orders[k].status

FeedsTracked == DOMAIN published = Listed /\ \A k \in Listed \ touched : FeedTracked(k)

Tracking ==
  /\ EventsLinked /\ MarketsFirst
  /\ FillsTracked /\ RestsTracked /\ StatusesTracked /\ TermsTracked
  /\ TradesTracked /\ FeedsTracked

TrackInv == CallsInv /\ Tracking

---------------------------------------------------------------------------
(* What the steps do.                                                      *)

trackedVars == <<orders, spot_to_market, userVars, view, missed, touched, late, chain,
                 chain_markets, stream>>

\* A step that leaves the orders alone and brings no event into the index.
LEMMA OrdersKept ==
  ASSUME TrackInv, UNCHANGED <<orders, touched, late>>, missed \subseteq missed',
         \A k \in Listed : Ambiguous(k) => Ambiguous(k)',
         \A k \in Listed \ missed' : Indexed(k)' = Indexed(k) /\ (RightSpot(k) => RightSpot(k)')
  PROVE  FillsTracked' /\ RestsTracked' /\ StatusesTracked' /\ TermsTracked'
<1>1. \A k \in Listed \ missed' :
        /\ (HasOrder(k)' <=> HasOrder(k))
        /\ (FillTracked(k)' <=> FillTracked(k)) /\ (RestTracked(k)' <=> RestTracked(k))
        /\ (Present(k)' <=> Present(k)) /\ (StatusTracked(k)' <=> StatusTracked(k))
  BY DEF HasOrder, FillTracked, RestTracked, Present, StatusTracked
<1>2. FillsTracked' /\ RestsTracked' /\ StatusesTracked'
  BY <1>1 DEF TrackInv, Tracking, FillsTracked, RestsTracked, StatusesTracked
<1>3. TermsTracked'
  BY DEF TrackInv, Tracking, TermsTracked, TermTracked, HasOrder
<1> QED BY <1>2, <1>3

\* A step of the task that brings no event further.
Passive ==
  /\ UNCHANGED trackedVars
  /\ (BeforeBook' <=> BeforeBook) /\ ~AfterBook /\ ~AfterBook'
  /\ BeforeBook => task'.event = task.event /\ task'.spot = task.spot

LEMMA PassiveFact ==
  ASSUME CallsInv,
         \/ Restart \/ Connect \/ ConnectFails \/ HydrateRead \/ HydrateWrite \/ Ensure
         \/ (HydrateFails /\ task.resume # "applying")
  PROVE  Passive
<1>1. UNCHANGED trackedVars
  BY DEF Restart, Connect, ConnectFails, HydrateRead, HydrateWrite, HydrateFails, Ensure,
         HydrateBook, trackedVars, indexVars, bookVars, httpVars, userVars, chainVars,
         streamVars, ghostVars
<1> DEFINE Same == task'.event = task.event /\ task'.spot = task.spot
<1>2. CASE Restart
  <2>1. PICK list : task' = Hydrating(Idle("stopped"), list, "connecting")
    BY <1>2 DEF Restart
  <2>2. ~BeforeBook' /\ ~AfterBook'
    BY <2>1 DEF Hydrating, Idle, BeforeBook, AfterBook
  <2> QED BY <1>1, <1>2, <2>2 DEF Passive, Restart, BeforeBook, AfterBook
<1>3. CASE Connect \/ ConnectFails
  BY <1>1, <1>3 DEF Passive, Connect, ConnectFails, Idle, BeforeBook, AfterBook
<1>4. CASE HydrateRead
  BY <1>1, <1>4 DEF Passive, HydrateRead, CallsInv, TaskSound, BeforeBook, AfterBook
<1>5. CASE HydrateWrite \/ (HydrateFails /\ task.resume # "applying")
  <2>1. task.stage = "hydrating" /\ task' = NextSpot(task, task.resume)
    BY <1>5 DEF HydrateWrite, HydrateFails
  <2>2. CASE task.resume = "applying"
    <3>1. Tail(task.todo) = <<>>
      <4>1. task.todo = <<task.spot>>
        BY <2>1, <2>2 DEF CallsInv, TaskSound
      <4>2. Tail(<<task.spot>>) = <<>>
        OBVIOUS
      <4> QED BY <4>1, <4>2
    <3>2. task'.stage = "applying" /\ Same
      BY <2>1, <2>2, <3>1 DEF NextSpot, CallsInv, TaskSound
    <3> QED BY <1>1, <2>1, <2>2, <3>2 DEF Passive, BeforeBook, AfterBook
  <2>3. CASE task.resume # "applying"
    <3>1. task.resume \in {"receiving", "connecting"}
      BY <2>1, <2>3 DEF CallsInv, TaskSound
    <3> QED BY <1>1, <2>1, <3>1 DEF NextSpot, Passive, CallsInv, TaskSound, BeforeBook, AfterBook
  <2> QED BY <2>2, <2>3
<1>6. CASE Ensure
  <2>1. task' = [task EXCEPT !.stage = "applying"]
        \/ task' = [task EXCEPT !.stage = "hydrating", !.todo = <<task.spot>>,
                                !.resume = "applying"]
    BY <1>6 DEF Ensure, Hydrating
  <2>2. BeforeBook' /\ ~AfterBook' /\ Same
    BY <2>1 DEF CallsInv, TaskSound, BeforeBook, AfterBook
  <2> QED BY <1>1, <1>6, <2>2 DEF Passive, Ensure, BeforeBook, AfterBook
<1> QED BY <1>2, <1>3, <1>4, <1>5, <1>6

LEMMA PassiveKeeps ==
  ASSUME TrackInv, Passive
  PROVE  Tracking'
<1>1. UNCHANGED <<orders, spot_to_market, published, traded, view, missed, touched, late, chain,
                  chain_markets, stream>>
      /\ task.stage \notin {"indexing", "publishing", "trading", "sending"}
      /\ task'.stage \notin {"indexing", "publishing", "trading", "sending"}
  BY DEF Passive, trackedVars, userVars, AfterBook
<1>2. ASSUME NEW k \in Listed
      PROVE  /\ Linked(k) => Linked(k)'
             /\ MarketFirst(k) => MarketFirst(k)'
             /\ RightSpot(k) => RightSpot(k)'
  <2>1. /\ BeforeBook' /\ task'.event.key = k => BeforeBook /\ task.event.key = k
        /\ BeforeBook /\ task.event.key = k => BeforeBook' /\ task'.event.key = k
        /\ Received(k)' = Received(k)
    BY <1>1 DEF Passive, Received
  <2>2. \A i : Own(i, k)' <=> Own(i, k)
    BY <1>1 DEF Own
  <2>3. Linked(k) => Linked(k)'
    BY <1>1, <2>1, <2>2 DEF Passive, Linked
  <2>4. MarketFirst(k) => MarketFirst(k)'
    BY <1>1, <2>1, <2>2 DEF Passive, MarketFirst, MarketComes
  <2>5. RightSpot(k) => RightSpot(k)'
    BY <2>1 DEF Passive, RightSpot
  <2> QED BY <2>3, <2>4, <2>5
<1>3. EventsLinked' /\ MarketsFirst'
  BY <1>1, <1>2 DEF TrackInv, Tracking, EventsLinked, MarketsFirst, HasMarket, Placed
<1>4. TradesTracked' /\ FeedsTracked'
  BY <1>1 DEF TrackInv, Tracking, TradesTracked, TradeTracked, Untraded, FeedsTracked, FeedTracked,
              Due,
              HasOrder
<1>5. /\ \A k \in Listed : Ambiguous(k) => Ambiguous(k)'
      /\ \A k \in Listed : Indexed(k)' = Indexed(k)
  BY <1>1 DEF Indexed, HasOrder, Ambiguous
<1>6. FillsTracked' /\ RestsTracked' /\ StatusesTracked' /\ TermsTracked'
  BY <1>1, <1>2, <1>5, OrdersKept
<1> QED BY <1>3, <1>4, <1>6 DEF Tracking

---------------------------------------------------------------------------
(* Requests.                                                               *)

LEMMA ChangeFact ==
  ASSUME NEW key, NEW stored, Change(key, stored)
  PROVE  /\ DOMAIN orders' = DOMAIN orders
         /\ \A k \in DOMAIN orders : k # key => orders'[k] = orders[k]
         /\ HasOrder(key) => orders'[key] = stored
  BY DEF Change, HasOrder

LEMMA InsertFact ==
  ASSUME NEW key, NEW body, IndexOrder(key, body)
  PROVE  /\ DOMAIN orders' = IF key[1] \in DOMAIN spot_to_market THEN DOMAIN orders \cup {key}
                             ELSE DOMAIN orders
         /\ \A k \in DOMAIN orders : k # key => orders'[k] = orders[k]
         /\ key[1] \in DOMAIN spot_to_market =>
              /\ orders'[key].status = body.status /\ orders'[key].size_raw = body.size
              /\ orders'[key].filled_raw = body.filled /\ orders'[key].side = body.side
              /\ orders'[key].price = body.price /\ orders'[key].user = body.user
         /\ key[1] \notin DOMAIN spot_to_market => UNCHANGED orders
         /\ UNCHANGED spot_to_market
  BY DEF IndexOrder, Put, OrderVarsOnly, Stored

\* A request leaves all orders alone but those it marks as written.
Alone(k) == (HasOrder(k)' <=> HasOrder(k)) /\ (HasOrder(k) => orders'[k] = orders[k])

RequestOnly ==
  /\ UNCHANGED <<task, spot_to_market, traded, view, missed, chain, chain_markets, stream>>
  /\ touched \subseteq touched' /\ late \subseteq late' /\ DOMAIN orders \subseteq DOMAIN orders'
  /\ DOMAIN published' = DOMAIN published
  /\ \A k \in Listed \ touched' : Alone(k) /\ published'[k] = published[k]
  /\ \A k \in Listed \ late' : Alone(k)

LEMMA RequestFact ==
  ASSUME CallsInv, NEW r \in Requests,
         \/ GetBook(r) \/ GetBookFails(r) \/ IndexFromEvent(r) \/ MarkCancelled(r)
         \/ RequestStep(r)
  PROVE  RequestOnly
<1>1. UNCHANGED <<task, traded, view, missed, chain, chain_markets, stream>>
  BY DEF GetBook, GetBookFails, IndexFromEvent, MarkCancelled, RequestStep, GetBookWrite,
         IndexApply, IndexInsert, IndexPublish, IndexSend, MarkCancelledWrite, othersOfRequest,
         userVars, chainVars, streamVars
<1>2. CASE \/ GetBook(r) \/ GetBookFails(r) \/ IndexFromEvent(r) \/ MarkCancelled(r)
           \/ GetBookWrite(r) \/ IndexApply(r) \/ IndexPublish(r)
  BY <1>1, <1>2 DEF GetBook, GetBookFails, IndexFromEvent, MarkCancelled, GetBookWrite, IndexApply,
                    IndexPublish, indexVars, userVars, writtenVars, RequestOnly, Alone, HasOrder
<1>3. CASE IndexSend(r)
  <2>1. /\ UNCHANGED <<orders, spot_to_market, touched, late>>
        /\ published' = [published EXCEPT ![requests[r].key] = requests[r].status]
    BY <1>3 DEF IndexSend, indexVars, writtenVars
  <2>2. requests[r].key \in touched
    BY <1>3 DEF IndexSend, At, CallsInv, RequestsSound, SoundRequest, IndexRequests
  <2> QED BY <1>1, <2>1, <2>2 DEF RequestOnly, Alone, HasOrder
<1>4. CASE IndexInsert(r)
  <2> PICK key : key = requests[r].key
    OBVIOUS
  <2>1. PICK body : IndexOrder(key, body)
    BY <1>4 DEF IndexInsert
  <2>3. touched' = touched \cup {key} /\ late' = late \cup {key} /\ UNCHANGED published
    BY <1>4 DEF IndexInsert, Wrote, userVars
  <2>2. /\ UNCHANGED spot_to_market
        /\ DOMAIN orders' \subseteq DOMAIN orders \cup {key}
        /\ DOMAIN orders \subseteq DOMAIN orders'
        /\ \A k \in DOMAIN orders : k # key => orders'[k] = orders[k]
    <3>1. UNCHANGED spot_to_market
          /\ \A k \in DOMAIN orders : k # key => orders'[k] = orders[k]
      BY <2>1 DEF IndexOrder, Put, OrderVarsOnly
    <3>2. DOMAIN orders' = IF key[1] \in DOMAIN spot_to_market THEN DOMAIN orders \cup {key}
                          ELSE DOMAIN orders
      BY <2>1, InsertFact
    <3> QED BY <3>1, <3>2
  <2> QED BY <1>1, <2>2, <2>3 DEF RequestOnly, Alone, HasOrder
<1>5. CASE MarkCancelledWrite(r)
  <2> PICK key : key = requests[r].key
    OBVIOUS
  <2>1. /\ UpdateCancelled(key) /\ UNCHANGED published
        /\ touched' = touched \cup {key} /\ late' = late \cup {key}
    BY <1>5 DEF MarkCancelledWrite, Wrote, userVars
  <2>2. /\ UNCHANGED spot_to_market /\ DOMAIN orders' = DOMAIN orders
        /\ \A k \in DOMAIN orders : k # key => orders'[k] = orders[k]
    BY <2>1, ChangeFact DEF UpdateCancelled, Change, OrderVarsOnly
  <2> QED BY <1>1, <2>1, <2>2 DEF RequestOnly, Alone, HasOrder
<1> QED BY <1>2, <1>3, <1>4, <1>5 DEF RequestStep

LEMMA RequestKeeps ==
  ASSUME TrackInv, RequestOnly
  PROVE  Tracking'
<1>1. UNCHANGED <<task, spot_to_market, traded, view, missed, chain, chain_markets, stream>>
      /\ touched \subseteq touched'
  BY DEF RequestOnly
<1>2. EventsLinked'
  BY <1>1 DEF TrackInv, Tracking, EventsLinked, Linked, Own, Received, BeforeBook, AfterBook
<1>3. MarketsFirst'
  BY <1>1 DEF TrackInv, Tracking, MarketsFirst, MarketFirst, HasMarket, MarketComes, Own, Placed,
              BeforeBook,
              AfterBook
<1>4. /\ \A k \in Listed : Ambiguous(k) => Ambiguous(k)'
      /\ \A k \in Listed : Indexed(k)' = Indexed(k) /\ (RightSpot(k) => RightSpot(k)')
      /\ \A k \in Listed : HasOrder(k) => HasOrder(k)'
  BY DEF RequestOnly, Ambiguous, HasOrder, Indexed, RightSpot, BeforeBook, AfterBook
<1>5. ASSUME NEW k \in Listed, Alone(k)
      PROVE  /\ FillTracked(k) => FillTracked(k)'
             /\ RestTracked(k) => RestTracked(k)'
             /\ StatusTracked(k) => StatusTracked(k)'
             /\ TermTracked(k) => TermTracked(k)'
             /\ TradeTracked(k) => TradeTracked(k)'
  <2>1. Indexed(k)' = Indexed(k) /\ UNCHANGED traded /\ Untraded(k)' = Untraded(k)
    BY <1>1, <1>4 DEF Untraded, FillAmount
  <2> QED BY <1>5, <2>1 DEF Alone, FillTracked, RestTracked, StatusTracked, TermTracked,
                            TradeTracked
<1>6. FillsTracked' /\ RestsTracked' /\ StatusesTracked' /\ TermsTracked'
  <2>1. FillsTracked' /\ RestsTracked' /\ TermsTracked'
    BY <1>4, <1>5 DEF RequestOnly, TrackInv, Tracking, FillsTracked, RestsTracked, TermsTracked
  <2>2. StatusesTracked'
    BY <1>4, <1>5 DEF RequestOnly, TrackInv, Tracking, StatusesTracked, Present
  <2> QED BY <2>1, <2>2
<1>7. TradesTracked'
  BY <1>1, <1>5 DEF RequestOnly, TrackInv, Tracking, TradesTracked
<1>8. FeedsTracked'
  BY DEF RequestOnly, Alone, TrackInv, Tracking, FeedsTracked, FeedTracked, Due, TaskKey
<1> QED BY <1>2, <1>3, <1>6, <1>7, <1>8 DEF Tracking

---------------------------------------------------------------------------
(* The steps of a handler.                                                 *)

LEMMA ViewedOne ==
  ASSUME NEW v, NEW event, event.kind \in OrderEvents
  PROVE  /\ DOMAIN Viewed(v, <<event>>) = Listed
         /\ \A k \in Listed : Viewed(v, <<event>>)[k] = IF k = event.key THEN event.new ELSE v[k]
<1> SUFFICES ASSUME NEW k \in Listed
             PROVE  Viewed(v, <<event>>)[k] = IF k = event.key THEN event.new ELSE v[k]
  BY DEF Viewed
<1> DEFINE own == {i \in 1 .. Len(<<event>>) : /\ <<event>>[i].kind \in OrderEvents
                                               /\ <<event>>[i].key = k}
<1>1. own = IF k = event.key THEN {1} ELSE {}
  OBVIOUS
<1>2. Viewed(v, <<event>>)[k] = IF own = {} THEN v[k] ELSE <<event>>[Max(own)].new
  BY DEF Viewed
<1>3. Max({1}) = 1
  BY DEF Max
<1> QED BY <1>1, <1>2, <1>3

LEMMA ViewedOther ==
  ASSUME NEW v, NEW events, NEW k \in Listed,
         \A i \in 1 .. Len(events) : ~(events[i].kind \in OrderEvents /\ events[i].key = k)
  PROVE  Viewed(v, events)[k] = v[k]
<1> DEFINE own == {i \in 1 .. Len(events) : events[i].kind \in OrderEvents /\ events[i].key = k}
<1>1. own = {}
  OBVIOUS
<1>2. Viewed(v, events)[k] = IF own = {} THEN v[k] ELSE events[Max(own)].new
  BY DEF Viewed
<1> QED BY <1>1, <1>2

LEMMA HandlerFact ==
  ASSUME CallsInv, BeforeBook \/ AfterBook
  PROVE  /\ task.event \in SoundOrderEvents /\ Placed(task.event.key) /\ task.spot \in Spots
         /\ task.event.kind \in OrderEvents
         /\ \/ TaskKey = task.event.key
            \/ task.event.key \in Anonymous /\ task.event.kind \in {"updated", "cancelled"}
<1>1. /\ task.event \in SoundOrderEvents /\ Placed(task.event.key) /\ task.spot \in Spots
      /\ \/ task.spot = task.event.key[1]
         \/ task.event.key \in Anonymous /\ task.event.kind \in {"updated", "cancelled"}
  BY DEF CallsInv, TaskSound
<1>2. task.event.kind \in OrderEvents
  BY <1>1 DEF SoundOrderEvents, AnyOrderEvents
<1> QED BY <1>1, <1>2, KeyFact DEF TaskKey, Placed

\* The handler has passed the book, or gives it up.
Reached ==
  /\ UNCHANGED <<orders, spot_to_market, published, traded, missed, touched, late, chain,
                 chain_markets, stream>>
  /\ BeforeBook /\ task'.stage = "indexing"
  /\ task'.event = task.event /\ task'.spot = task.spot
  /\ view' = Viewed(view, <<task.event>>)

LEMMA ReachedFact ==
  ASSUME CallsInv, Apply \/ (HydrateFails /\ task.resume = "applying")
  PROVE  Reached
<1>1. UNCHANGED <<orders, spot_to_market, published, traded, missed, touched, late, chain,
                  chain_markets, stream>>
  BY DEF Apply, HydrateFails, indexVars, httpVars, userVars, chainVars, streamVars
<1>2. CASE Apply
  BY <1>1, <1>2 DEF Apply, Reached, BeforeBook, CallsInv, TaskSound
<1>3. CASE HydrateFails /\ task.resume = "applying"
  <2>1. task.stage = "hydrating" /\ task' = NextSpot(task, "indexing") /\ BeforeBook
    BY <1>3 DEF HydrateFails, BeforeBook
  <2>2. Tail(task.todo) = <<>>
    <3>1. task.todo = <<task.spot>>
      BY <1>3, <2>1 DEF CallsInv, TaskSound
    <3>2. Tail(<<task.spot>>) = <<>>
      OBVIOUS
    <3> QED BY <3>1, <3>2
  <2>3. task'.stage = "indexing" /\ task'.event = task.event /\ task'.spot = task.spot
    BY <2>1, <2>2 DEF NextSpot, CallsInv, TaskSound
  <2> QED BY <1>1, <1>3, <2>1, <2>3 DEF HydrateFails, LeftOut, Reached
<1> QED BY <1>2, <1>3

LEMMA ReachedKeeps ==
  ASSUME TrackInv, Reached
  PROVE  Tracking'
<1> PICK event : event = task.event
  OBVIOUS
<1>1. /\ UNCHANGED <<orders, spot_to_market, published, traded, missed, touched, late, chain,
                     chain_markets, stream>>
      /\ BeforeBook /\ ~BeforeBook' /\ AfterBook' /\ task.event = event /\ task'.event = event
      /\ task'.spot = task.spot /\ task'.stage = "indexing"
      /\ task.stage \notin {"indexing", "publishing", "trading", "sending"}
  BY DEF Reached, BeforeBook, AfterBook
<1>2. /\ DOMAIN view' = Listed
      /\ \A k \in Listed : view'[k] = IF k = event.key THEN event.new ELSE view[k]
  <2>1. event.kind \in OrderEvents
    BY <1>1, HandlerFact DEF TrackInv
  <2>2. view' = Viewed(view, <<event>>)
    BY DEF Reached
  <2> QED BY <2>1, <2>2, ViewedOne
<1>3. ASSUME NEW k \in Listed, Linked(k)
      PROVE  Linked(k)' /\ Indexed(k)' = Indexed(k)
  <2>1. Received(k)' = Received(k) /\ \A i : Own(i, k)' <=> Own(i, k)
    BY <1>1, <1>2 DEF Received, Own
  <2>2. Linked(k)'
    BY <1>1, <1>2, <1>3, <2>1 DEF Linked
  <2>3. Indexed(k)' = Indexed(k)
    BY <1>1, <1>2, <1>3 DEF Linked, Indexed
  <2> QED BY <2>2, <2>3
<1>4. EventsLinked'
  BY <1>1, <1>2, <1>3 DEF TrackInv, Tracking, EventsLinked
<1>5. MarketsFirst'
  BY <1>1 DEF TrackInv, Tracking, MarketsFirst, MarketFirst, MarketComes, HasMarket, Own, Placed
<1>6. \A k \in Listed \ missed : Indexed(k)' = Indexed(k)
  BY <1>3 DEF TrackInv, Tracking, EventsLinked
<1>7. /\ \A k \in Listed : Ambiguous(k) => Ambiguous(k)'
      /\ \A k \in Listed : RightSpot(k) => RightSpot(k)'
  BY <1>1 DEF HasOrder, Ambiguous, RightSpot
<1>8. FillsTracked' /\ RestsTracked' /\ StatusesTracked' /\ TermsTracked'
  BY <1>1, <1>6, <1>7, OrdersKept
<1>9. TradesTracked' /\ FeedsTracked'
  BY <1>1 DEF TrackInv, Tracking, TradesTracked, TradeTracked, Untraded, FeedsTracked, FeedTracked,
              Due,
              HasOrder
<1> QED BY <1>4, <1>5, <1>8, <1>9 DEF Tracking

\* What IndexEvent makes of the orders.
SameTerms(key) == /\ orders'[key].side = orders[key].side
                  /\ orders'[key].price = orders[key].price
                  /\ orders'[key].user = orders[key].user

Written(event, key) ==
  /\ DOMAIN orders' = IF event.kind = "created" /\ key[1] \in DOMAIN spot_to_market
                      THEN DOMAIN orders \cup {key} ELSE DOMAIN orders
  /\ \A k \in DOMAIN orders : k # key => orders'[k] = orders[k]
  /\ event.kind = "created" /\ key[1] \in DOMAIN spot_to_market =>
       /\ orders'[key].status = "open" /\ orders'[key].size_raw = event.new.size
       /\ orders'[key].filled_raw = 0 /\ orders'[key].side = OrderSide[event.key]
       /\ orders'[key].price = OrderPrice[event.key] /\ orders'[key].user = OrderOwner[event.key]
  /\ event.kind = "created" /\ key[1] \notin DOMAIN spot_to_market => UNCHANGED orders
  /\ event.kind # "created" /\ HasOrder(key) => SameTerms(key)
  /\ event.kind = "updated" /\ HasOrder(key) =>
       /\ orders'[key].status = IF Remaining(event.new) = 0 THEN "filled"
                                ELSE IF orders[key].filled_raw > 0 THEN "partial_filled"
                                ELSE "open"
       /\ orders'[key].size_raw = event.new.size
       /\ orders'[key].filled_raw = orders[key].filled_raw
  /\ event.kind = "filled" /\ HasOrder(key) =>
       /\ orders'[key].status = IF event.new.status = "filled" \/ Remaining(event.new) = 0
                                THEN "filled" ELSE "partial_filled"
       /\ orders'[key].size_raw = orders[key].size_raw
       /\ orders'[key].filled_raw =
            SaturatingAdd(orders[key].filled_raw, event.new.filled - event.old.filled)
  /\ event.kind = "cancelled" /\ HasOrder(key) =>
       /\ orders'[key].status = "cancelled"
       /\ orders'[key].size_raw = orders[key].size_raw
       /\ orders'[key].filled_raw = orders[key].filled_raw

LEMMA IndexEventFact ==
  ASSUME CallsInv, IndexEvent,
         NEW event, event = task.event, NEW key, key = TaskKey
  PROVE  Written(event, key)
<1>1. /\ event.kind = "created" => IndexOrder(key, Opened(event.key, event.new.size))
      /\ event.kind = "updated" => UpdateAmount(key, event.new.size, Remaining(event.new))
      /\ event.kind = "filled" =>
           UpdateFill(key, event.new.filled - event.old.filled, Remaining(event.new),
                      event.new.status = "filled")
      /\ event.kind = "cancelled" => UpdateCancelled(key)
      /\ event.kind \in {"created", "updated", "filled", "cancelled"}
  <2>1. event.kind \in OrderEvents
    BY HandlerFact DEF IndexEvent, AfterBook
  <2> QED BY <2>1 DEF IndexEvent, OrderEvents
<1>2. HasOrder(key) => orders[key] \in StoredOrders
  BY DEF HasOrder, CallsInv, IndexInv, IndexTypeOK, IsMap
<1>3. CASE event.kind = "created"
  <2> PICK body : body = Opened(event.key, event.new.size)
    OBVIOUS
  <2>1. IndexOrder(key, body)
    BY <1>1, <1>3
  <2>2. /\ body.status = "open" /\ body.size = event.new.size /\ body.filled = 0
        /\ body.side = OrderSide[event.key] /\ body.price = OrderPrice[event.key]
        /\ body.user = OrderOwner[event.key]
    BY DEF Opened
  <2>3. /\ DOMAIN orders' = IF key[1] \in DOMAIN spot_to_market THEN DOMAIN orders \cup {key}
                            ELSE DOMAIN orders
        /\ \A k \in DOMAIN orders : k # key => orders'[k] = orders[k]
        /\ key[1] \in DOMAIN spot_to_market =>
             /\ orders'[key].status = body.status /\ orders'[key].size_raw = body.size
             /\ orders'[key].filled_raw = body.filled /\ orders'[key].side = body.side
             /\ orders'[key].price = body.price /\ orders'[key].user = body.user
        /\ key[1] \notin DOMAIN spot_to_market => UNCHANGED orders
    BY <2>1, InsertFact
  <2> QED BY <1>3, <2>2, <2>3 DEF Written
<1>4. CASE event.kind = "updated"
  <2> PICK size, remaining : size = event.new.size /\ remaining = Remaining(event.new)
    OBVIOUS
  <2>1. UpdateAmount(key, size, remaining)
    BY <1>1, <1>4
  <2> PICK status : status = IF remaining = 0 THEN "filled"
                             ELSE IF orders[key].filled_raw > 0 THEN "partial_filled" ELSE "open"
    OBVIOUS
  <2> PICK stored : stored = [orders[key] EXCEPT !.size_raw = size, !.status = status]
    OBVIOUS
  <2>2. Change(key, stored)
    BY <2>1 DEF UpdateAmount
  <2>3. HasOrder(key) => /\ stored.status = status /\ stored.size_raw = size
                         /\ stored.filled_raw = orders[key].filled_raw
                         /\ stored.side = orders[key].side /\ stored.price = orders[key].price
                         /\ stored.user = orders[key].user
    BY <1>2 DEF StoredOrders
  <2>4. /\ DOMAIN orders' = DOMAIN orders
        /\ \A k \in DOMAIN orders : k # key => orders'[k] = orders[k]
        /\ HasOrder(key) => orders'[key] = stored
    BY <2>2, ChangeFact
  <2> QED BY <1>4, <2>3, <2>4 DEF Written, SameTerms
<1>5. CASE event.kind = "filled"
  <2> PICK amount, remaining, fully : /\ amount = event.new.filled - event.old.filled
                                      /\ remaining = Remaining(event.new)
                                      /\ fully = (event.new.status = "filled")
    OBVIOUS
  <2>1. UpdateFill(key, amount, remaining, fully)
    BY <1>1, <1>5
  <2> PICK status, filled : /\ status = IF fully \/ remaining = 0 THEN "filled"
                                        ELSE "partial_filled"
                            /\ filled = SaturatingAdd(orders[key].filled_raw, amount)
    OBVIOUS
  <2> PICK stored : stored = [orders[key] EXCEPT !.filled_raw = filled, !.status = status]
    OBVIOUS
  <2>2. Change(key, stored)
    BY <2>1 DEF UpdateFill
  <2>3. HasOrder(key) => /\ stored.status = status /\ stored.filled_raw = filled
                         /\ stored.size_raw = orders[key].size_raw
                         /\ stored.side = orders[key].side /\ stored.price = orders[key].price
                         /\ stored.user = orders[key].user
    BY <1>2 DEF StoredOrders
  <2>4. /\ DOMAIN orders' = DOMAIN orders
        /\ \A k \in DOMAIN orders : k # key => orders'[k] = orders[k]
        /\ HasOrder(key) => orders'[key] = stored
    BY <2>2, ChangeFact
  <2> QED BY <1>5, <2>3, <2>4 DEF Written, SameTerms
<1>6. CASE event.kind = "cancelled"
  <2> PICK stored : stored = [orders[key] EXCEPT !.status = "cancelled"]
    OBVIOUS
  <2>1. Change(key, stored)
    BY <1>1, <1>6 DEF UpdateCancelled
  <2>2. HasOrder(key) => /\ stored.status = "cancelled"
                         /\ stored.filled_raw = orders[key].filled_raw
                         /\ stored.size_raw = orders[key].size_raw
                         /\ stored.side = orders[key].side /\ stored.price = orders[key].price
                         /\ stored.user = orders[key].user
    BY <1>2 DEF StoredOrders
  <2>4. /\ DOMAIN orders' = DOMAIN orders
        /\ \A k \in DOMAIN orders : k # key => orders'[k] = orders[k]
        /\ HasOrder(key) => orders'[key] = stored
    BY <2>1, ChangeFact
  <2> QED BY <1>6, <2>2, <2>4 DEF Written, SameTerms
<1> QED BY <1>1, <1>3, <1>4, <1>5, <1>6

\* A step after the book that leaves the index alone.
AfterTheBook ==
  /\ UNCHANGED <<spot_to_market, view, missed, touched, chain, chain_markets, stream>>
  /\ AfterBook /\ ~BeforeBook'
  /\ AfterBook' => task'.event = task.event /\ task'.spot = task.spot

LEMMA AfterTheBookKeeps ==
  ASSUME TrackInv, AfterTheBook
  PROVE  EventsLinked' /\ MarketsFirst'
<1>1. UNCHANGED <<spot_to_market, view, missed, touched, chain, chain_markets, stream>>
      /\ ~BeforeBook /\ ~BeforeBook' /\ AfterBook /\ (AfterBook' => task'.event = task.event)
  BY DEF AfterTheBook, BeforeBook, AfterBook
<1>2. EventsLinked'
  BY <1>1 DEF TrackInv, Tracking, EventsLinked, Linked, Own, Received
<1>3. MarketsFirst'
  BY <1>1 DEF TrackInv, Tracking, MarketsFirst, MarketFirst, MarketComes, HasMarket, Own, Placed
<1> QED BY <1>2, <1>3

LEMMA IndexingKeeps ==
  ASSUME TrackInv, IndexEvent
  PROVE  Tracking'
<1> PICK event, key : event = task.event /\ key = TaskKey
  OBVIOUS
<1>0. Written(event, key)
  <2>1. CallsInv /\ event = task.event /\ key = TaskKey
    BY DEF TrackInv
  <2> QED BY <2>1, IndexEventFact
<1>1. /\ UNCHANGED <<spot_to_market, published, traded, view, missed, touched, chain,
                     chain_markets, stream>>
      /\ task.stage = "indexing" /\ task'.stage = "publishing"
      /\ task.event = event /\ task'.event = event /\ task'.spot = task.spot
      /\ TaskKey = key /\ TaskKey' = key /\ late' = late \ {key}
      /\ ~BeforeBook /\ ~BeforeBook' /\ AfterBook /\ AfterBook'
  <2>1. UNCHANGED <<published, traded, view, missed, touched, chain, chain_markets, stream>>
        /\ task.stage = "indexing" /\ task' = [task EXCEPT !.stage = "publishing"]
        /\ late' = late \ {key}
    BY DEF IndexEvent, userVars, chainVars, streamVars, ghostVars
  <2>2. UNCHANGED spot_to_market
    BY HandlerFact DEF TrackInv, IndexEvent, AfterBook, OrderEvents, IndexOrder, UpdateAmount,
                       UpdateFill, UpdateCancelled, Change, OrderVarsOnly
  <2> QED BY <2>1, <2>2 DEF TrackInv, CallsInv, TaskSound, BeforeBook, AfterBook, TaskKey
<1>2. EventsLinked' /\ MarketsFirst'
  BY <1>1, AfterTheBookKeeps DEF AfterTheBook
<1>3. /\ event \in SoundOrderEvents /\ Placed(event.key) /\ event.kind \in OrderEvents
      /\ key = event.key \/ (event.key \in Anonymous /\ event.kind \in {"updated", "cancelled"})
  BY <1>1, HandlerFact DEF TrackInv
<1>4. /\ event.old.filled \in Nat /\ event.new.filled \in Nat /\ event.new.filled <= MaxAmount
      /\ SoundState(event.new) /\ SoundChange(event.kind, event.old, event.new)
      /\ event.new.status \in Statuses
  BY <1>3, MaxAmountAssumption
     DEF SoundOrderEvents, AnyOrderEvents, SoundState, ChainOrders, Amounts
<1>5. ASSUME NEW k \in Listed
      PROVE  /\ k # key => /\ HasOrder(k)' <=> HasOrder(k)
                           /\ HasOrder(k) => orders'[k] = orders[k]
             /\ event.kind # "created" => (HasOrder(k)' <=> HasOrder(k))
             /\ HasOrder(k) => HasOrder(k)'
             /\ event.kind \in {"updated", "cancelled"} /\ HasOrder(k) =>
                  orders'[k].filled_raw = orders[k].filled_raw
  BY <1>0 DEF Written, HasOrder
<1>6. ASSUME NEW k \in Listed \ missed, k = event.key
      PROVE  /\ Indexed(k) = event.old /\ Indexed(k)' = event.new
             /\ k[1] \in DOMAIN spot_to_market
  <2>1. Linked(k) /\ MarketFirst(k)
    BY DEF TrackInv, Tracking, EventsLinked, MarketsFirst
  <2> QED BY <1>1, <1>6, <2>1 DEF Linked, MarketFirst, Indexed
<1>7. ASSUME NEW k \in Listed, k # event.key
      PROVE  Indexed(k)' = Indexed(k)
  BY <1>1, <1>7 DEF Indexed
<1>8. ASSUME NEW k \in Listed \ (missed \cup touched), k = event.key, event.kind = "created"
      PROVE  /\ ~HasOrder(k) /\ HasOrder(k)' /\ orders'[k].status = "open"
             /\ orders'[k].size_raw = event.new.size /\ orders'[k].filled_raw = 0
             /\ event.new.status = "open" /\ event.new.filled = 0
  <2>1. ~HasOrder(k)
    BY <1>4, <1>6, <1>8 DEF TrackInv, Tracking, FillsTracked, FillTracked, SoundChange
  <2>2. key = k /\ k[1] \in DOMAIN spot_to_market
    BY <1>3, <1>6, <1>8
  <2>3. /\ DOMAIN orders' = DOMAIN orders \cup {key} /\ orders'[key].status = "open"
        /\ orders'[key].size_raw = event.new.size /\ orders'[key].filled_raw = 0
    BY <1>0, <1>8, <2>2 DEF Written
  <2> QED BY <1>4, <1>8, <2>1, <2>2, <2>3 DEF HasOrder, SoundChange
<1>8a. ASSUME event.kind = "filled", HasOrder(key)
       PROVE  orders'[key].status = event.new.status
  <2>1. /\ event.new.size = event.old.size /\ event.new.filled <= event.new.size
        /\ event.new.status = IF event.new.filled = event.new.size THEN "filled"
                              ELSE "partial_filled"
    BY <1>4, <1>8a DEF SoundChange, SoundState
  <2>2. event.new.size \in Nat
    BY <1>4, MaxAmountAssumption DEF SoundState, ChainOrders, Amounts
  <2>3. event.new.status = "filled" \/ Remaining(event.new) = 0 <=> event.new.status = "filled"
    BY <1>4, <2>1, <2>2 DEF Remaining, Cancellable
  <2> QED BY <1>0, <1>8a, <2>1, <2>3 DEF Written
<1>9. ASSUME NEW k \in Listed \ (missed \cup touched), k = event.key, event.kind = "filled"
      PROVE  /\ HasOrder(k) /\ orders[k].filled_raw = event.old.filled
             /\ HasOrder(k)' /\ orders'[k].filled_raw = event.new.filled
             /\ orders'[k].size_raw = orders[k].size_raw
             /\ orders'[k].status = event.new.status /\ event.new.status # "absent"
  <2>1. key = k
    BY <1>3, <1>9
  <2>2. /\ HasOrder(k) /\ orders[k].filled_raw = event.old.filled
        /\ event.new.filled > event.old.filled
    BY <1>4, <1>6, <1>9 DEF TrackInv, Tracking, FillsTracked, FillTracked, SoundChange, Cancellable
  <2>3. /\ HasOrder(k)' /\ orders'[k].size_raw = orders[k].size_raw
        /\ orders'[k].filled_raw =
             SaturatingAdd(orders[k].filled_raw, event.new.filled - event.old.filled)
    BY <1>0, <1>5, <1>9, <2>1, <2>2 DEF Written
  <2>4. SaturatingAdd(event.old.filled, event.new.filled - event.old.filled) = event.new.filled
    BY <1>4, <2>2, MaxAmountAssumption DEF SaturatingAdd
  <2>5. event.new.status # "absent"
    BY <1>4 DEF Statuses, Cancellable
  <2>6. orders'[k].status = event.new.status
    BY <1>9, <1>8a, <2>1, <2>2
  <2> QED BY <2>2, <2>3, <2>4, <2>5, <2>6
<1>10. ASSUME NEW k \in Listed \ (missed \cup touched), k = event.key,
              event.kind \in {"updated", "cancelled"}
       PROVE  /\ HasOrder(k) /\ HasOrder(k)' /\ orders[k].filled_raw = event.old.filled
              /\ orders'[k].filled_raw = event.new.filled /\ event.new.status # "absent"
              /\ event.new.filled = event.old.filled
  <2>1. HasOrder(k) /\ orders[k].filled_raw = event.old.filled
        /\ event.new.filled = event.old.filled
    BY <1>4, <1>6, <1>10 DEF TrackInv, Tracking, FillsTracked, FillTracked, SoundChange, Cancellable
  <2>2. event.new.status # "absent"
    BY <1>4 DEF Statuses, Cancellable
  <2> QED BY <1>5, <1>10, <2>1, <2>2
<1>11. ASSUME NEW k \in Listed \ (missed \cup touched)
       PROVE  FillTracked(k)' /\ TradeTracked(k)'
  <2>1. FillTracked(k) /\ TradeTracked(k) /\ Untraded(k) = 0
    BY <1>1 DEF TrackInv, Tracking, FillsTracked, TradesTracked, Untraded
  <2>2. traded[k] \in Nat /\ UNCHANGED traded
    BY <1>1 DEF TrackInv, Tracking, TradesTracked
  <2>3. CASE k = event.key
    <3>1. Indexed(k)' = event.new
      BY <1>6, <2>3
    <3>2. CASE event.kind = "created"
      <4>1. Untraded(k)' = 0
        BY <1>1, <3>2 DEF Untraded
      <4> QED BY <1>8, <2>1, <2>2, <2>3, <3>1, <3>2, <4>1 DEF FillTracked, TradeTracked
    <3>3. CASE event.kind = "filled"
      <4>1. Untraded(k)' = event.new.filled - event.old.filled
        BY <1>1, <2>3, <3>3 DEF Untraded, FillAmount
      <4>2. traded[k] + 0 = event.old.filled
        BY <1>9, <2>1, <2>3, <3>3 DEF TradeTracked
      <4> QED BY <1>4, <1>9, <2>2, <2>3, <3>1, <3>3, <4>1, <4>2 DEF FillTracked, TradeTracked
    <3>4. CASE event.kind \in {"updated", "cancelled"}
      <4>1. Untraded(k)' = 0
        BY <1>1, <3>4 DEF Untraded
      <4> QED BY <1>10, <2>1, <2>2, <2>3, <3>1, <3>4, <4>1 DEF FillTracked, TradeTracked
    <3> QED BY <1>3, <3>2, <3>3, <3>4 DEF OrderEvents
  <2>4. CASE k # event.key
    <3>1. Indexed(k)' = Indexed(k) /\ Untraded(k)' = 0
      BY <1>1, <1>7, <2>4 DEF Untraded
    <3>2. (HasOrder(k)' <=> HasOrder(k))
          /\ (HasOrder(k) => orders'[k].filled_raw = orders[k].filled_raw)
      BY <1>3, <1>5, <2>4
    <3> QED BY <2>1, <2>2, <3>1, <3>2 DEF FillTracked, TradeTracked
  <2> QED BY <2>3, <2>4
<1>12. FillsTracked' /\ TradesTracked'
  BY <1>1, <1>11 DEF TrackInv, Tracking, FillsTracked, TradesTracked
<1>13. FeedsTracked'
  <2>1. ASSUME NEW k \in Listed \ touched
        PROVE  FeedTracked(k)'
    <3>1. CASE k = key
      BY <1>1, <3>1 DEF FeedTracked, Due
    <3>2. CASE k # key
      <4>1. FeedTracked(k)
        BY DEF TrackInv, Tracking, FeedsTracked
      <4> QED BY <1>1, <1>5, <3>2, <4>1 DEF FeedTracked, Due
    <3> QED BY <3>1, <3>2
  <2> QED BY <1>1, <2>1 DEF TrackInv, Tracking, FeedsTracked
<1>13a. ASSUME NEW k \in Listed \ missed, ~Ambiguous(k)
        PROVE  k = key <=> k = event.key
  <2>1. CASE k = event.key
    <3>1. RightSpot(k)
      BY <1>13a DEF TrackInv, Tracking, StatusesTracked
    <3> QED BY <1>1, <2>1, <3>1, KeyFact DEF RightSpot, TaskKey
  <2>2. CASE k # event.key
    <3> SUFFICES ASSUME k = key PROVE FALSE
      BY <2>2
    <3>1. event.key \in Anonymous /\ event.key \in Listed \ {k}
          /\ chain[event.key].status # "absent"
      BY <1>3, <2>2 DEF Placed
    <3>2. event.key[2] = k[2]
      BY <1>1 DEF TaskKey
    <3> QED BY <1>13a, <3>1, <3>2 DEF Ambiguous
  <2> QED BY <2>1, <2>2
<1>14. ASSUME NEW k \in Listed \ (missed \cup touched), ~Ambiguous(k)
       PROVE  RestTracked(k)'
  <2>1. RestTracked(k)
    BY <1>14 DEF TrackInv, Tracking, RestsTracked
  <2>3. CASE k = event.key
    <3>1. key = k
      BY <1>14, <1>13a, <2>3
    <3>2. Indexed(k) = event.old /\ Indexed(k)' = event.new
      BY <1>6, <2>3
    <3>3. CASE event.kind = "created"
      BY <1>8, <2>3, <3>2, <3>3 DEF RestTracked
    <3>4. CASE event.kind = "filled"
      <4>1. event.new.size = event.old.size
        BY <1>4, <3>4 DEF SoundChange
      <4> QED BY <1>9, <2>1, <2>3, <3>2, <3>4, <4>1 DEF RestTracked
    <3>5. CASE event.kind \in {"updated", "cancelled"}
      <4>1. HasOrder(k) /\ orders[k].filled_raw = event.new.filled
        BY <1>10, <2>3, <3>5
      <4>2. CASE event.kind = "updated"
        <5>1. /\ orders'[k].status = IF Remaining(event.new) = 0 THEN "filled"
                                     ELSE IF event.new.filled > 0 THEN "partial_filled"
                                     ELSE "open"
              /\ orders'[k].size_raw = event.new.size
          BY <1>0, <3>1, <4>1, <4>2 DEF Written
        <5>2. event.new.size \in Nat /\ event.new.filled < event.new.size
              /\ event.new.status \in Cancellable
          BY <1>4, <4>2, MaxAmountAssumption DEF SoundChange, SoundState, ChainOrders, Amounts
        <5>3. Remaining(event.new) # 0
          BY <1>4, <5>2 DEF Remaining
        <5>4. event.new.status = IF event.new.filled > 0 THEN "partial_filled" ELSE "open"
          BY <1>4, <5>2 DEF SoundState, Cancellable
        <5> QED BY <3>2, <5>1, <5>3, <5>4 DEF RestTracked
      <4>3. CASE event.kind = "cancelled"
        <5>1. orders'[k].status = "cancelled" /\ orders'[k].size_raw = orders[k].size_raw
          BY <1>0, <3>1, <4>1, <4>3 DEF Written
        <5>2. event.new.status = "cancelled" /\ event.new.size = event.old.size
          BY <1>4, <4>3 DEF SoundChange
        <5> QED BY <2>1, <3>2, <4>1, <5>1, <5>2 DEF RestTracked
      <4> QED BY <3>5, <4>2, <4>3
    <3> QED BY <1>3, <3>3, <3>4, <3>5 DEF OrderEvents
  <2>4. CASE k # event.key
    BY <1>5, <1>7, <1>14, <1>13a, <2>1, <2>4 DEF RestTracked
  <2> QED BY <2>3, <2>4
<1>15. \A k \in Listed : Ambiguous(k) => Ambiguous(k)'
  BY <1>1, <1>5 DEF Ambiguous
<1>16. RestsTracked'
  BY <1>1, <1>14, <1>15 DEF RestsTracked
<1>17. ASSUME NEW k \in Listed \ missed
       PROVE  Present(k)'
  <2>1. Present(k)
    BY DEF TrackInv, Tracking, StatusesTracked
  <2>2. CASE k = event.key /\ event.kind = "created"
    <3>1. key = k /\ k[1] \in DOMAIN spot_to_market
      BY <1>3, <1>6, <2>2
    <3> QED BY <1>0, <2>2, <3>1 DEF Written, Present, HasOrder
  <2>3. CASE k = event.key /\ event.kind # "created"
    <3>1. Indexed(k) = event.old /\ event.old.status # "absent"
      BY <1>4, <1>6, <2>3 DEF SoundChange, Cancellable
    <3> QED BY <1>5, <2>1, <3>1 DEF Present
  <2>4. CASE k # event.key
    BY <1>5, <1>7, <2>1, <2>4 DEF Present
  <2> QED BY <2>2, <2>3, <2>4
<1>18. ASSUME NEW k \in Listed \ missed, ~Ambiguous(k), k \notin late'
       PROVE  StatusTracked(k)'
  <2>1. CASE k = event.key
    <3>1. key = k /\ Indexed(k) = event.old /\ Indexed(k)' = event.new
      BY <1>6, <1>18, <1>13a, <2>1
    <3>2. event.kind # "created" => HasOrder(key)
      BY <1>4, <3>1 DEF TrackInv, Tracking, StatusesTracked, Present, SoundChange, Cancellable
    <3>3. CASE event.kind = "created"
      <4>1. orders'[k].status = "open" /\ event.new.status = "open"
        BY <1>0, <1>4, <1>6, <2>1, <3>1, <3>3 DEF Written, SoundChange
      <4> QED BY <3>1, <4>1 DEF StatusTracked
    <3>4. CASE event.kind = "filled"
      <4>1. /\ orders'[k].status = event.new.status
            /\ event.new.status \in {"filled", "partial_filled"}
        BY <1>4, <1>8a, <3>1, <3>2, <3>4 DEF SoundChange
      <4> QED BY <3>1, <4>1 DEF StatusTracked, Cancellable
    <3>5. CASE event.kind = "updated"
      <4>1. event.new.size \in Nat /\ event.new.filled < event.new.size
            /\ event.new.status \in Cancellable
        BY <1>4, <3>5, MaxAmountAssumption DEF SoundChange, SoundState, ChainOrders, Amounts
      <4>2. Remaining(event.new) # 0
        BY <1>4, <4>1 DEF Remaining
      <4>3. orders'[k].status \in Cancellable
        BY <1>0, <3>1, <3>2, <3>5, <4>2 DEF Written, Cancellable
      <4> QED BY <3>1, <4>1, <4>3 DEF StatusTracked
    <3>6. CASE event.kind = "cancelled"
      <4>1. orders'[k].status = "cancelled" /\ event.new.status = "cancelled"
        BY <1>0, <1>4, <3>1, <3>2, <3>6 DEF Written, SoundChange
      <4> QED BY <3>1, <4>1 DEF StatusTracked, Cancellable
    <3> QED BY <1>3, <3>3, <3>4, <3>5, <3>6 DEF OrderEvents
  <2>2. CASE k # event.key
    <3>1. k # key
      BY <1>18, <1>13a, <2>2
    <3>2. StatusTracked(k)
      BY <1>1, <1>18, <3>1 DEF TrackInv, Tracking, StatusesTracked
    <3> QED BY <1>5, <1>7, <2>2, <3>1, <3>2 DEF StatusTracked
  <2> QED BY <2>1, <2>2
<1>19. StatusesTracked'
  <2>1. \A k \in Listed \ missed : ~Ambiguous(k) => RightSpot(k)'
    BY <1>1 DEF TrackInv, Tracking, StatusesTracked, RightSpot
  <2> QED BY <1>1, <1>15, <1>17, <1>18, <2>1 DEF StatusesTracked
<1>20. TermsTracked'
  <2>1. ASSUME NEW k \in Listed \ touched
        PROVE  TermTracked(k)'
    <3>1. TermTracked(k)
      BY DEF TrackInv, Tracking, TermsTracked
    <3>2. CASE k # key
      BY <1>5, <3>1, <3>2 DEF TermTracked
    <3>3. CASE k = key /\ event.kind # "created"
      BY <1>0, <1>5, <3>1, <3>3 DEF Written, SameTerms, TermTracked
    <3>4. CASE k = key /\ event.kind = "created"
      <4>1. k = event.key
        BY <1>3, <3>4
      <4>2. CASE key[1] \in DOMAIN spot_to_market
        BY <1>0, <3>4, <4>1, <4>2 DEF Written, TermTracked
      <4>3. CASE key[1] \notin DOMAIN spot_to_market
        BY <1>0, <3>1, <3>4, <4>3 DEF Written, TermTracked, HasOrder
      <4> QED BY <4>2, <4>3
    <3> QED BY <3>2, <3>3, <3>4
  <2> QED BY <1>1, <2>1 DEF TermsTracked
<1> QED BY <1>2, <1>12, <1>13, <1>16, <1>19, <1>20 DEF Tracking

\* A step of the handler after it has written the index.
LEMMA AfterTheIndexKeeps ==
  ASSUME TrackInv, AfterTheBook, UNCHANGED <<orders, late>>,
         task.stage # "indexing", task'.stage # "indexing"
  PROVE  EventsLinked' /\ MarketsFirst' /\ FillsTracked' /\ RestsTracked' /\ StatusesTracked'
         /\ TermsTracked'
<1>1. EventsLinked' /\ MarketsFirst'
  BY AfterTheBookKeeps
<1>2. UNCHANGED <<view, missed, touched, chain>>
      /\ \A k \in Listed : Indexed(k)' = Indexed(k)
  BY DEF AfterTheBook, Indexed
<1>3. /\ \A k \in Listed : Ambiguous(k) => Ambiguous(k)'
      /\ \A k \in Listed : RightSpot(k) => RightSpot(k)'
  BY DEF AfterTheBook, RightSpot, Ambiguous, HasOrder
<1>4. FillsTracked' /\ RestsTracked' /\ StatusesTracked' /\ TermsTracked'
  BY <1>2, <1>3, OrdersKept
<1> QED BY <1>1, <1>4

LEMMA PublishReadKeeps ==
  ASSUME TrackInv, PublishRead
  PROVE  Tracking'
<1> PICK event, key : event = task.event /\ key = TaskKey
  OBVIOUS
<1>1. /\ UNCHANGED <<orders, spot_to_market, published, traded, view, missed, touched, late, chain,
                     chain_markets, stream>>
      /\ task.stage = "publishing" /\ AfterBook /\ ~BeforeBook
  BY DEF PublishRead, indexVars, httpVars, userVars, chainVars, streamVars, ghostVars, AfterBook,
         BeforeBook
<1>2. event.kind = "filled" => key = event.key
  BY <1>1, HandlerFact DEF TrackInv
<1>3. CASE HasOrder(TaskKey)
  <2>1. /\ task'.event = event /\ task'.spot = task.spot
        /\ task'.stage = IF event.kind = "filled" THEN "trading" ELSE "sending"
        /\ task'.answer = orders[key].status
    BY <1>3 DEF PublishRead, AfterRead, TrackInv, CallsInv, TaskSound
  <2>2. AfterTheBook /\ task'.stage # "indexing"
    BY <1>1, <2>1 DEF AfterTheBook, AfterBook, BeforeBook
  <2>3. EventsLinked' /\ MarketsFirst' /\ FillsTracked' /\ RestsTracked' /\ StatusesTracked'
        /\ TermsTracked'
    BY <1>1, <2>2, AfterTheIndexKeeps
  <2>4. \A k : (Untraded(k)' = Untraded(k)) /\ (HasOrder(k)' <=> HasOrder(k))
    BY <1>1, <2>1 DEF Untraded, FillAmount, HasOrder
  <2>5. TradesTracked'
    BY <1>1, <2>1, <2>4 DEF TrackInv, Tracking, TradesTracked, TradeTracked
  <2>6. TaskKey' = key
    BY <2>1 DEF TaskKey
  <2>7. FeedsTracked'
    BY <1>1, <1>3, <2>1, <2>4, <2>6 DEF TrackInv, Tracking, FeedsTracked, FeedTracked, Due
  <2> QED BY <2>3, <2>5, <2>7 DEF Tracking
<1>4. CASE ~HasOrder(TaskKey)
  <2>1. task' = Idle("receiving")
    BY <1>4 DEF PublishRead
  <2>2. task'.stage = "receiving" /\ ~AfterBook' /\ ~BeforeBook'
    BY <2>1 DEF Idle, AfterBook, BeforeBook
  <2>3. EventsLinked' /\ MarketsFirst' /\ FillsTracked' /\ RestsTracked' /\ StatusesTracked'
        /\ TermsTracked'
    BY <1>1, <2>2, AfterTheIndexKeeps DEF AfterTheBook
  <2>4. \A k : /\ Untraded(k)' = 0 /\ ~Due(k)' /\ (HasOrder(k)' <=> HasOrder(k))
    BY <1>1, <2>2 DEF Untraded, Due, HasOrder
  <2>5. \A k \in Listed : HasOrder(k) => Untraded(k) = 0 /\ ~Due(k)
    BY <1>2, <1>4 DEF Untraded, Due
  <2>6. TradesTracked'
    BY <1>1, <2>2, <2>4, <2>5 DEF TrackInv, Tracking, TradesTracked, TradeTracked
  <2>7. FeedsTracked'
    BY <1>1, <2>4, <2>5 DEF TrackInv, Tracking, FeedsTracked, FeedTracked
  <2> QED BY <2>3, <2>6, <2>7 DEF Tracking
<1> QED BY <1>3, <1>4

LEMMA PublishTradeKeeps ==
  ASSUME TrackInv, PublishTrade
  PROVE  Tracking'
<1> PICK event, key, amount : event = task.event /\ key = TaskKey /\ amount = FillAmount
  OBVIOUS
<1>1. /\ UNCHANGED <<orders, spot_to_market, published, view, missed, touched, late, chain,
                     chain_markets, stream>>
      /\ task.stage = "trading" /\ AfterBook /\ ~BeforeBook
      /\ task' = [task EXCEPT !.stage = "sending"]
  BY DEF PublishTrade, indexVars, httpVars, chainVars, streamVars, ghostVars, AfterBook, BeforeBook
<1>2. event.kind = "filled" /\ key = event.key /\ key \in Listed /\ amount \in Nat
  <2>1. event \in SoundOrderEvents /\ event.key \in Listed
        /\ (key = event.key \/ event.kind \in {"updated", "cancelled"})
    BY <1>1, HandlerFact DEF TrackInv, Placed
  <2>2. event.kind = "filled"
    BY <1>1 DEF TrackInv, Tracking, TradesTracked
  <2>3. amount \in Nat
    BY <2>1, <2>2, MaxAmountAssumption
       DEF SoundOrderEvents, AnyOrderEvents, SoundChange, ChainOrders, Amounts, FillAmount
  <2> QED BY <2>1, <2>2, <2>3
<1>3. /\ task'.event = event /\ task'.spot = task.spot /\ task'.stage = "sending"
      /\ task'.answer = task.answer /\ TaskKey' = key
  BY <1>1 DEF TrackInv, CallsInv, TaskSound, TaskKey
<1>4. EventsLinked' /\ MarketsFirst' /\ FillsTracked' /\ RestsTracked' /\ StatusesTracked'
      /\ TermsTracked'
  BY <1>1, <1>3, AfterTheIndexKeeps DEF AfterTheBook, AfterBook, BeforeBook
<1>5. \A k : (Due(k)' <=> Due(k)) /\ (Due(k) <=> k = key) /\ (HasOrder(k)' <=> HasOrder(k))
  BY <1>1, <1>3 DEF Due, HasOrder
<1>6. FeedsTracked'
  BY <1>1, <1>3, <1>5 DEF TrackInv, Tracking, FeedsTracked, FeedTracked
<1>7. /\ traded \in [Listed -> Nat] /\ traded' = [traded EXCEPT ![key] = @ + amount]
  BY DEF TrackInv, Tracking, TradesTracked, PublishTrade
<1>8. traded' \in [Listed -> Nat]
  BY <1>2, <1>7
<1>9. ASSUME NEW k \in Listed \ (missed \cup touched)
      PROVE  TradeTracked(k)'
  <2>1. TradeTracked(k) /\ Untraded(k)' = 0
    BY <1>3 DEF TrackInv, Tracking, TradesTracked, Untraded
  <2>2. CASE k = key
    <3>1. HasOrder(k)
      BY <1>1, <1>5, <2>2 DEF TrackInv, Tracking, FeedsTracked, FeedTracked
    <3>2. Untraded(k) = amount /\ traded'[k] = traded[k] + amount
      BY <1>1, <1>2, <1>7, <2>2 DEF Untraded
    <3>3. traded[k] + amount = orders[k].filled_raw /\ traded'[k] \in Nat
      BY <1>8, <2>1, <3>1, <3>2 DEF TradeTracked
    <3> QED BY <1>1, <1>5, <2>1, <3>1, <3>2, <3>3 DEF TradeTracked
  <2>3. CASE k # key
    <3>1. Untraded(k) = 0 /\ traded'[k] = traded[k]
      BY <1>2, <1>7, <2>3 DEF Untraded
    <3> QED BY <1>1, <1>5, <2>1, <3>1 DEF TradeTracked
  <2> QED BY <2>2, <2>3
<1>10. TradesTracked'
  BY <1>1, <1>3, <1>8, <1>9 DEF TradesTracked
<1> QED BY <1>4, <1>6, <1>10 DEF Tracking

LEMMA PublishSendKeeps ==
  ASSUME TrackInv, PublishSend
  PROVE  Tracking'
<1> PICK key : key = TaskKey
  OBVIOUS
<1>1. /\ UNCHANGED <<orders, spot_to_market, traded, view, missed, touched, late, chain,
                     chain_markets, stream>>
      /\ task.stage = "sending" /\ task' = Idle("receiving")
      /\ published' = [published EXCEPT ![key] = task.answer]
  BY DEF PublishSend, indexVars, httpVars, chainVars, streamVars, ghostVars
<1>2. task'.stage = "receiving" /\ AfterBook /\ ~AfterBook' /\ ~BeforeBook'
  BY <1>1 DEF Idle, AfterBook, BeforeBook
<1>3. EventsLinked' /\ MarketsFirst' /\ FillsTracked' /\ RestsTracked' /\ StatusesTracked'
      /\ TermsTracked'
  BY <1>1, <1>2, AfterTheIndexKeeps DEF AfterTheBook
<1>4. \A k : /\ Untraded(k)' = 0 /\ Untraded(k) = 0 /\ ~Due(k)' /\ (Due(k) <=> k = key)
             /\ (HasOrder(k)' <=> HasOrder(k))
  BY <1>1, <1>2 DEF Untraded, Due, HasOrder
<1>5. TradesTracked'
  BY <1>1, <1>2, <1>4 DEF TrackInv, Tracking, TradesTracked, TradeTracked
<1>6. FeedsTracked'
  BY <1>1, <1>4 DEF TrackInv, Tracking, FeedsTracked, FeedTracked
<1> QED BY <1>3, <1>5, <1>6 DEF Tracking

---------------------------------------------------------------------------
(* The stream's next event.                                                *)

\* The first event of the stream is received.
Arrives(event) ==
  /\ UNCHANGED <<orders, published, traded, missed, touched, late, chain, chain_markets>>
  /\ task.stage = "receiving" /\ ~AfterBook'
  /\ stream # <<>> /\ event = Head(stream) /\ stream' = Tail(stream)
  /\ DOMAIN spot_to_market \subseteq DOMAIN spot_to_market'
  /\ event.kind = "market" => \A s : InMarket(s, event.market) => s \in DOMAIN spot_to_market'

LEMMA ArrivesFact ==
  ASSUME CallsInv, NEW event, Arrives(event)
  PROVE  /\ Len(stream) \in Nat \ {0} /\ event = stream[1]
         /\ Len(stream') = Len(stream) - 1
         /\ \A i \in 1 .. Len(stream') : stream'[i] = stream[i + 1]
         /\ event.kind \in OrderEvents => event \in SoundOrderEvents /\ Placed(event.key)
         /\ ~BeforeBook /\ ~AfterBook
<1>1. stream \in Seq(SoundEvents) /\ stream # <<>> /\ event = Head(stream) /\ stream' = Tail(stream)
  BY DEF CallsInv, StreamSound, Arrives
<1>2. /\ event \in SoundEvents /\ Len(stream') = Len(stream) - 1
      /\ \A i \in 1 .. Len(stream') : stream'[i] = stream[i + 1]
  BY <1>1, HeadTailProperties
<1>3. Len(stream) \in Nat \ {0} /\ event = stream[1]
  BY <1>1
<1>4. event.kind \in OrderEvents => event \in SoundOrderEvents /\ Placed(event.key)
  BY <1>2, <1>3 DEF CallsInv, StreamSound, SoundEvents, MarketEvents, OrderEvents
<1> QED BY <1>2, <1>3, <1>4 DEF Arrives, BeforeBook, AfterBook

LEMMA ArrivesLinked ==
  ASSUME CallsInv, NEW event, Arrives(event), NEW k \in Listed, Linked(k),
         Received(k)' = IF Own(1, k) THEN event.new ELSE Received(k),
         BeforeBook' /\ task'.event.key = k => task'.event.old = view'[k]
  PROVE  Linked(k)'
<1>1. /\ Len(stream) \in Nat \ {0} /\ event = stream[1] /\ Len(stream') = Len(stream) - 1
      /\ \A i \in 1 .. Len(stream') : stream'[i] = stream[i + 1]
  BY ArrivesFact
<1>2. /\ UNCHANGED chain /\ ~AfterBook'
  BY DEF Arrives
<1>3. \A i \in 1 .. Len(stream') : i + 1 \in 1 .. Len(stream) /\ (Own(i, k)' <=> Own(i + 1, k))
  BY <1>1 DEF Own
<1>4. ASSUME NEW i \in 1 .. Len(stream'), Own(i, k)', \A j \in 1 .. i - 1 : ~Own(j, k)'
      PROVE  stream'[i].old = Received(k)'
  <2>1. \A j \in 2 .. i : ~Own(j, k)
    <3> SUFFICES ASSUME NEW j \in 2 .. i PROVE ~Own(j, k)
      OBVIOUS
    <3>1. j - 1 \in 1 .. i - 1 /\ j - 1 \in 1 .. Len(stream') /\ (j - 1) + 1 = j
      BY <1>1
    <3> QED BY <1>3, <1>4, <3>1
  <2>2. Own(i + 1, k) /\ stream'[i] = stream[i + 1]
    BY <1>1, <1>3, <1>4
  <2>3. CASE Own(1, k)
    <3>1. stream[i + 1].old = stream[1].new
      <4>1. 1 \in 1 .. Len(stream) /\ i + 1 \in 1 .. Len(stream) /\ 1 < i + 1
            /\ 1 + 1 .. (i + 1) - 1 = 2 .. i
        BY <1>1
      <4> QED BY <2>1, <2>2, <2>3, <4>1 DEF Linked
    <3> QED BY <1>1, <2>2, <2>3, <3>1
  <2>4. CASE ~Own(1, k)
    <3>1. i + 1 \in 1 .. Len(stream) /\ \A j \in 1 .. (i + 1) - 1 : ~Own(j, k)
      BY <1>1, <2>1, <2>4
    <3>2. stream[i + 1].old = Received(k)
      BY <2>2, <3>1 DEF Linked
    <3> QED BY <2>2, <2>4, <3>2
  <2> QED BY <2>3, <2>4
<1>5. ASSUME NEW i \in 1 .. Len(stream'), NEW j \in 1 .. Len(stream'), Own(i, k)', Own(j, k)',
             i < j, \A between \in i + 1 .. j - 1 : ~Own(between, k)'
      PROVE  stream'[j].old = stream'[i].new
  <2>1. \A between \in (i + 1) + 1 .. (j + 1) - 1 : ~Own(between, k)
    <3> SUFFICES ASSUME NEW between \in (i + 1) + 1 .. (j + 1) - 1 PROVE ~Own(between, k)
      OBVIOUS
    <3>1. /\ between - 1 \in i + 1 .. j - 1 /\ between - 1 \in 1 .. Len(stream')
          /\ (between - 1) + 1 = between
      BY <1>1
    <3> QED BY <1>3, <1>5, <3>1
  <2>2. /\ i + 1 \in 1 .. Len(stream) /\ j + 1 \in 1 .. Len(stream) /\ i + 1 < j + 1
        /\ Own(i + 1, k) /\ Own(j + 1, k)
    BY <1>1, <1>3, <1>5
  <2>3. stream[j + 1].old = stream[i + 1].new
    BY <2>1, <2>2 DEF Linked
  <2> QED BY <1>1, <2>3
<1>6. ASSUME NEW i \in 1 .. Len(stream'), Own(i, k)',
             \A j \in i + 1 .. Len(stream') : ~Own(j, k)'
      PROVE  chain[k] = stream'[i].new
  <2>1. \A j \in (i + 1) + 1 .. Len(stream) : ~Own(j, k)
    <3> SUFFICES ASSUME NEW j \in (i + 1) + 1 .. Len(stream) PROVE ~Own(j, k)
      OBVIOUS
    <3>1. /\ j - 1 \in i + 1 .. Len(stream') /\ j - 1 \in 1 .. Len(stream') /\ (j - 1) + 1 = j
      BY <1>1
    <3> QED BY <1>3, <1>6, <3>1
  <2>2. i + 1 \in 1 .. Len(stream) /\ Own(i + 1, k)
    BY <1>3, <1>6
  <2> QED BY <1>1, <2>1, <2>2 DEF Linked
<1>7. ASSUME \A i \in 1 .. Len(stream') : ~Own(i, k)'
      PROVE  chain[k] = Received(k)'
  <2>1. \A j \in 2 .. Len(stream) : ~Own(j, k)
    <3> SUFFICES ASSUME NEW j \in 2 .. Len(stream) PROVE ~Own(j, k)
      OBVIOUS
    <3>1. j - 1 \in 1 .. Len(stream') /\ (j - 1) + 1 = j
      BY <1>1
    <3> QED BY <1>3, <1>7, <3>1
  <2>2. CASE Own(1, k)
    BY <1>1, <2>1, <2>2 DEF Linked
  <2>3. CASE ~Own(1, k)
    <3>1. \A j \in 1 .. Len(stream) : ~Own(j, k)
      BY <1>1, <2>1, <2>3
    <3> QED BY <2>3, <3>1 DEF Linked
  <2> QED BY <2>2, <2>3
<1> QED BY <1>2, <1>4, <1>5, <1>6, <1>7 DEF Linked

LEMMA ArrivesMarket ==
  ASSUME CallsInv, NEW event, Arrives(event), NEW k \in Listed, MarketFirst(k),
         BeforeBook' => event.kind \in OrderEvents /\ task'.event = event
  PROVE  MarketFirst(k)'
<1>1. /\ Len(stream) \in Nat \ {0} /\ event = stream[1] /\ Len(stream') = Len(stream) - 1
      /\ \A i \in 1 .. Len(stream') : stream'[i] = stream[i + 1]
  BY ArrivesFact
<1>2. /\ DOMAIN spot_to_market \subseteq DOMAIN spot_to_market' /\ ~AfterBook'
      /\ event.kind = "market" => \A s : InMarket(s, event.market) => s \in DOMAIN spot_to_market'
      /\ UNCHANGED chain_markets
  BY DEF Arrives
<1>3. ASSUME NEW i \in 1 .. Len(stream), MarketComes(k[1], i)
      PROVE  MarketComes(k[1], i - 1)'
  <2>1. CASE k[1] \in DOMAIN spot_to_market
    BY <1>2, <2>1 DEF MarketComes
  <2>2. CASE k[1] \notin DOMAIN spot_to_market
    <3> PICK j \in 1 .. i : stream[j].kind = "market" /\ InMarket(k[1], stream[j].market)
      BY <1>3, <2>2 DEF MarketComes
    <3>1. CASE j = 1
      BY <1>1, <1>2, <3>1 DEF MarketComes
    <3>2. CASE j # 1
      <4> PICK h : h = j - 1
        OBVIOUS
      <4>1. h \in 1 .. i - 1 /\ h \in 1 .. Len(stream') /\ h + 1 = j
        BY <1>1, <3>2
      <4>2. stream'[h] = stream[j]
        BY <1>1, <4>1
      <4> QED BY <4>1, <4>2 DEF MarketComes, InMarket
    <3> QED BY <3>1, <3>2
  <2> QED BY <2>1, <2>2
<1>4. ASSUME NEW i \in 1 .. Len(stream'), Own(i, k)'
      PROVE  MarketComes(k[1], i - 1)'
  <2>1. i + 1 \in 1 .. Len(stream) /\ Own(i + 1, k) /\ i \in 1 .. Len(stream) /\ (i + 1) - 1 = i
    BY <1>1, <1>4 DEF Own
  <2>2. MarketComes(k[1], (i + 1) - 1)
    BY <2>1 DEF MarketFirst
  <2> QED BY <1>3, <2>1, <2>2
<1>5. ASSUME NEW m \in Markets, chain_markets[m] # "none", InMarket(k[1], m)
      PROVE  MarketComes(k[1], Len(stream))'
  <2> PICK i : i = Len(stream)
    OBVIOUS
  <2>1. i \in 1 .. Len(stream) /\ MarketComes(k[1], i)
    BY <1>1, <1>5 DEF MarketFirst
  <2>2. MarketComes(k[1], i - 1)' /\ Len(stream') = i - 1
    BY <1>1, <1>3, <2>1
  <2> QED BY <2>2 DEF MarketComes
<1>6. ASSUME BeforeBook', task'.event.key = k
      PROVE  k[1] \in DOMAIN spot_to_market'
  <2>1. Own(1, k) /\ 1 \in 1 .. Len(stream)
    BY <1>1, <1>6 DEF Own
  <2>2. MarketComes(k[1], 1 - 1)
    BY <2>1 DEF MarketFirst
  <2> QED BY <1>2, <2>2 DEF MarketComes
<1> QED BY <1>2, <1>4, <1>5, <1>6 DEF MarketFirst

\* What becomes of an event: its handler starts with it, it is left out of the
\* book for a reason, or it is no order's event.
Taken(event) ==
  /\ event.kind \in OrderEvents /\ UNCHANGED <<view, spot_to_market>>
  /\ BeforeBook' /\ task'.event = event
  /\ \A k \in Listed \ missed : k = event.key => task'.spot = k[1]

Skipped(event) ==
  /\ event.kind \in OrderEvents /\ view' = Viewed(view, <<event>>)
  /\ UNCHANGED spot_to_market /\ ~BeforeBook'
  /\ \A k \in Listed \ missed : k = event.key =>
       \/ event.kind = "created" /\ HasOrder(k)
       \/ event.kind \in {"updated", "cancelled"} /\ Ambiguous(k)

Elsewhere(event) ==
  event.kind \notin OrderEvents /\ UNCHANGED view /\ ~BeforeBook'

LEMMA ArrivesKeeps ==
  ASSUME TrackInv, NEW event, Arrives(event), Taken(event) \/ Skipped(event) \/ Elsewhere(event)
  PROVE  Tracking'
<1>1. /\ Len(stream) \in Nat \ {0} /\ event = stream[1]
      /\ event.kind \in OrderEvents => event \in SoundOrderEvents /\ Placed(event.key)
      /\ ~BeforeBook /\ ~AfterBook
  BY ArrivesFact DEF TrackInv
<1>2. /\ UNCHANGED <<orders, published, traded, missed, touched, late, chain, chain_markets>>
      /\ task.stage = "receiving" /\ ~AfterBook'
      /\ task'.stage \notin {"indexing", "publishing", "trading", "sending"}
  BY DEF Arrives, AfterBook
<1>3. /\ DOMAIN view = Listed /\ DOMAIN view' = Listed
      /\ \A k \in Listed :
           view'[k] = IF event.kind \in OrderEvents /\ event.key = k /\ ~BeforeBook'
                      THEN event.new ELSE view[k]
  <2>1. DOMAIN view = Listed
    BY DEF TrackInv, Tracking, EventsLinked
  <2>2. CASE Taken(event) \/ Elsewhere(event)
    BY <2>1, <2>2 DEF Taken, Elsewhere
  <2>3. CASE Skipped(event)
    BY <2>1, <2>3, ViewedOne DEF Skipped
  <2> QED BY <2>1, <2>2, <2>3
<1>4. ASSUME NEW k \in Listed \ missed
      PROVE  /\ Linked(k)' /\ MarketFirst(k)'
             /\ event.kind \in OrderEvents /\ event.key = k => event.old = view[k]
  <2>1. Linked(k) /\ MarketFirst(k) /\ Received(k) = view[k]
    BY <1>1 DEF TrackInv, Tracking, EventsLinked, MarketsFirst, Received
  <2>2. event.kind \in OrderEvents /\ event.key = k => event.old = view[k]
    <3>1. Own(1, k) => stream[1].old = Received(k)
      BY <1>1, <2>1 DEF Linked
    <3> QED BY <1>1, <2>1, <3>1 DEF Own
  <2>3. BeforeBook' => event.kind \in OrderEvents /\ task'.event = event
    BY DEF Taken, Skipped, Elsewhere
  <2>4. Received(k)' = IF Own(1, k) THEN event.new ELSE Received(k)
    BY <1>1, <1>3, <2>1, <2>3 DEF Received, Own
  <2>5. BeforeBook' /\ task'.event.key = k => task'.event.old = view'[k]
    BY <1>3, <2>2, <2>3
  <2>6. Linked(k)'
    BY <2>1, <2>4, <2>5, ArrivesLinked DEF TrackInv
  <2>7. MarketFirst(k)'
    BY <2>1, <2>3, ArrivesMarket DEF TrackInv
  <2> QED BY <2>2, <2>6, <2>7
<1>5. EventsLinked' /\ MarketsFirst'
  BY <1>2, <1>3, <1>4 DEF TrackInv, Tracking, EventsLinked, MarketsFirst, Placed, HasMarket,
                          InMarket
<1>6. /\ \A k \in Listed : Indexed(k) = view[k] /\ Indexed(k)' = view'[k]
      /\ \A k \in Listed : HasOrder(k)' <=> HasOrder(k)
      /\ \A k \in Listed : Ambiguous(k) => Ambiguous(k)'
      /\ \A k \in Listed \ missed : RightSpot(k)'
  BY <1>2 DEF Indexed, HasOrder, Ambiguous, RightSpot, Taken, Skipped, Elsewhere
\* What an event changes in the view when it is skipped.
<1>7. ASSUME NEW k \in Listed \ missed, view'[k] # view[k]
      PROVE  \/ /\ HasOrder(k) /\ view[k].status = "absent"
             \/ /\ Ambiguous(k) /\ view'[k].filled = view[k].filled
                /\ view'[k].status # "absent" /\ view[k].status # "absent"
  <2>1. event.kind \in OrderEvents /\ event.key = k /\ view'[k] = event.new /\ Skipped(event)
    BY <1>3, <1>7 DEF Taken, Elsewhere
  <2>2. event.old = view[k] /\ event \in SoundOrderEvents
    BY <1>1, <1>4, <2>1
  <2>3. CASE event.kind = "created" /\ HasOrder(k)
    BY <2>2, <2>3 DEF SoundOrderEvents, SoundChange
  <2>4. CASE event.kind \in {"updated", "cancelled"} /\ Ambiguous(k)
    BY <2>1, <2>2, <2>4 DEF SoundOrderEvents, SoundChange, Cancellable
  <2> QED BY <2>1, <2>3, <2>4 DEF Skipped
<1>8. FillsTracked' /\ RestsTracked'
  <2>1. ASSUME NEW k \in Listed \ (missed \cup touched)
        PROVE  FillTracked(k)' /\ (~Ambiguous(k) => RestTracked(k)')
    <3>1. FillTracked(k) /\ (~Ambiguous(k) => RestTracked(k))
      BY DEF TrackInv, Tracking, FillsTracked, RestsTracked
    <3>2. CASE view'[k] = view[k]
      BY <1>2, <1>6, <3>1, <3>2 DEF FillTracked, RestTracked
    <3>3. CASE view'[k] # view[k]
      BY <1>2, <1>6, <1>7, <3>1, <3>3 DEF FillTracked
    <3> QED BY <3>2, <3>3
  <2> QED BY <1>2, <1>6, <2>1 DEF FillsTracked, RestsTracked
<1>9. StatusesTracked'
  <2>1. ASSUME NEW k \in Listed \ missed
        PROVE  Present(k)' /\ (~Ambiguous(k) /\ k \notin late => StatusTracked(k)')
    <3>1. Present(k) /\ (~Ambiguous(k) /\ k \notin late => StatusTracked(k))
      BY DEF TrackInv, Tracking, StatusesTracked
    <3>2. CASE view'[k] = view[k]
      BY <1>2, <1>6, <3>1, <3>2 DEF Present, StatusTracked
    <3>3. CASE view'[k] # view[k] /\ HasOrder(k) /\ view[k].status = "absent"
      <4>1. ~StatusTracked(k)
        <5>1. orders[k].status \in Statuses
          BY <3>3 DEF HasOrder, TrackInv, CallsInv, IndexInv, IndexTypeOK, IsMap, StoredOrders
        <5> QED BY <1>6, <3>3, <5>1 DEF StatusTracked, Statuses, Cancellable
      <4> QED BY <1>6, <3>1, <3>3, <4>1 DEF Present
    <3>4. CASE Ambiguous(k) /\ view[k].status # "absent"
      BY <1>6, <3>1, <3>4 DEF Present
    <3> QED BY <1>7, <3>2, <3>3, <3>4
  <2> QED BY <1>2, <1>6, <2>1 DEF StatusesTracked
<1>10. TermsTracked'
  BY <1>2, <1>6 DEF TrackInv, Tracking, TermsTracked, TermTracked
<1>11. TradesTracked' /\ FeedsTracked'
  BY <1>2 DEF TrackInv, Tracking, TradesTracked, TradeTracked, Untraded, FeedsTracked, FeedTracked,
              Due,
              HasOrder
<1> QED BY <1>5, <1>8, <1>9, <1>10, <1>11 DEF Tracking

\* A handler that has an event, and its order, in the index finds that order.
LEMMA FoundFact ==
  ASSUME TrackInv, NEW event, Arrives(event), event.kind \in {"updated", "cancelled"},
         NEW k \in Listed \ missed, k = event.key
  PROVE  HasOrder(k) /\ k[1] \in SpotsWithOrder(k[2])
<1>1. /\ Len(stream) \in Nat \ {0} /\ event = stream[1] /\ event \in SoundOrderEvents
      /\ ~BeforeBook /\ event.kind \in OrderEvents
  BY ArrivesFact DEF TrackInv, OrderEvents
<1>2. event.old = view[k] /\ event.old.status # "absent"
  <2>1. Linked(k) /\ Received(k) = view[k] /\ Own(1, k)
    BY <1>1 DEF TrackInv, Tracking, EventsLinked, Received, Own
  <2>2. stream[1].old = Received(k)
    BY <1>1, <2>1 DEF Linked
  <2> QED BY <1>1, <2>1, <2>2 DEF SoundOrderEvents, SoundChange, Cancellable
<1>3. HasOrder(k)
  BY <1>2 DEF TrackInv, Tracking, StatusesTracked, Present, Indexed, Arrives
<1> QED BY <1>3, KeyFact DEF SpotsWithOrder

LEMMA AnonymousFact ==
  ASSUME CallsInv, NEW k \in Anonymous, k \in Listed, k[1] \in SpotsWithOrder(k[2]),
         Cardinality(SpotsWithOrder(k[2])) # 1
  PROVE  Ambiguous(k)
<1>1. PICK s \in SpotsWithOrder(k[2]) : s # k[1]
  <2> SUFFICES ASSUME SpotsWithOrder(k[2]) = {k[1]} PROVE FALSE
    OBVIOUS
  <2>1. Cardinality({k[1]}) = 1
    BY FS_Singleton
  <2> QED BY <2>1
<1>2. PICK j : j = <<s, k[2]>>
  OBVIOUS
<1>3. HasOrder(j) /\ j \in Listed
  BY <1>2 DEF SpotsWithOrder, HasOrder, CallsInv, OrdersListed
<1>4. j \in Listed \ {k} /\ j[2] = k[2]
  BY <1>1, <1>2, <1>3
<1> QED BY <1>3, <1>4 DEF Ambiguous

LEMMA HandlingTaken ==
  ASSUME NEW stage \in {"ensuring", "applying"}, NEW event, NEW spot,
         task' = Handling(stage, event, spot)
  PROVE  BeforeBook' /\ ~AfterBook' /\ task'.event = event /\ task'.spot = spot
<1>1. task'.stage = stage /\ task'.event = event /\ task'.spot = spot
  BY DEF Handling, Idle
<1> QED BY <1>1 DEF BeforeBook, AfterBook

LEMMA HydratingLeaves ==
  ASSUME NEW todo, task' = Hydrating(Idle("receiving"), todo, "receiving")
  PROVE  ~BeforeBook' /\ ~AfterBook'
  BY DEF Hydrating, Idle, BeforeBook, AfterBook

LEMMA ReceiveMarketArrives ==
  ASSUME TrackInv, ReceiveMarket \/ ReceiveResolved
  PROVE  \E event : Arrives(event) /\ Elsewhere(event)
<1>1. ASSUME NEW m \in Markets, Receive([kind |-> "market", market |-> m]), IndexMarket(m),
             task' = Hydrating(Idle("receiving"), SpotsOf[m], "receiving"),
             UNCHANGED ghostVars
      PROVE  \E event : Arrives(event) /\ Elsewhere(event)
  <2> PICK event : event = [kind |-> "market", market |-> m]
    OBVIOUS
  <2>1. ~BeforeBook' /\ ~AfterBook'
    BY <1>1, HydratingLeaves
  <2>2. /\ DOMAIN spot_to_market \subseteq DOMAIN spot_to_market'
        /\ \A s : InMarket(s, m) => s \in DOMAIN spot_to_market'
        /\ UNCHANGED orders
    BY <1>1 DEF IndexMarket, UpsertMarket, Put, InMarket
  <2>3. /\ UNCHANGED <<published, traded, missed, touched, late, chain, chain_markets, view>>
        /\ task.stage = "receiving" /\ stream # <<>> /\ event = Head(stream)
        /\ stream' = Tail(stream)
    BY <1>1 DEF Receive, httpVars, userVars, chainVars, ghostVars
  <2>4. event.kind \notin OrderEvents /\ event.market = m
    BY DEF OrderEvents
  <2> QED BY <2>1, <2>2, <2>3, <2>4 DEF Arrives, Elsewhere
<1>2. ASSUME NEW m \in Markets, Receive([kind |-> "resolved", market |-> m]),
             ResolveMarket(m), UNCHANGED <<task, view>>
      PROVE  \E event : Arrives(event) /\ Elsewhere(event)
  <2> PICK event : event = [kind |-> "resolved", market |-> m]
    OBVIOUS
  <2>1. UNCHANGED <<orders, spot_to_market>>
    BY <1>2 DEF ResolveMarket
  <2>2. /\ UNCHANGED <<published, traded, missed, touched, late, chain, chain_markets>>
        /\ task.stage = "receiving" /\ stream # <<>> /\ event = Head(stream)
        /\ stream' = Tail(stream)
    BY <1>2 DEF Receive, httpVars, userVars, chainVars
  <2>3. event.kind \notin OrderEvents /\ event.kind # "market"
    BY DEF OrderEvents
  <2> QED BY <1>2, <2>1, <2>2, <2>3 DEF Arrives, Elsewhere, BeforeBook, AfterBook
<1> QED BY <1>1, <1>2 DEF ReceiveMarket, ReceiveResolved

LEMMA ReceiveOrderArrives ==
  ASSUME TrackInv, ReceiveCreated \/ ReceiveCancelled \/ ReceiveUpdated \/ ReceiveFilled
  PROVE  \E event : Arrives(event) /\ (Taken(event) \/ Skipped(event))
<1> PICK event : event = Head(stream)
  OBVIOUS
<1>1. /\ UNCHANGED <<orders, spot_to_market, published, traded, missed, touched, late, chain,
                     chain_markets>>
      /\ task.stage = "receiving" /\ stream # <<>> /\ stream' = Tail(stream)
      /\ event.kind \in OrderEvents /\ event.kind # "market"
  BY DEF ReceiveCreated, ReceiveCancelled, ReceiveUpdated, ReceiveFilled, ReceiveOrderEvent,
         Receive, RecordTrade, indexVars, httpVars, userVars, chainVars, OrderEvents
<1>2. ~AfterBook' => Arrives(event)
  BY <1>1 DEF Arrives
<1>4. ASSUME NEW stage \in {"ensuring", "applying"}, Resolve(event, stage),
             event.kind \in {"updated", "cancelled"}
      PROVE  Arrives(event) /\ (Taken(event) \/ Skipped(event))
  <2> DEFINE found == IF event.key \in Anonymous THEN SpotsWithOrder(event.key[2])
                      ELSE {event.key[1]}
  <2>1. CASE Cardinality(found) = 1
    <3>1. PICK spot : spot = CHOOSE t \in found : TRUE
      OBVIOUS
    <3>2. task' = Handling(stage, event, spot) /\ UNCHANGED view
      BY <1>4, <2>1, <3>1 DEF Resolve, ghostVars
    <3>3. BeforeBook' /\ ~AfterBook' /\ task'.event = event /\ task'.spot = spot
      BY <3>2, HandlingTaken
    <3>4. Arrives(event)
      BY <1>2, <3>3
    <3>5. ASSUME NEW k \in Listed \ missed, k = event.key
          PROVE  spot = k[1]
      <4>1. k[1] \in found
        BY <1>4, <3>4, <3>5, FoundFact
      <4>2. found \subseteq Spots
        BY <3>5, KeyFact DEF SpotsWithOrder
      <4>3. PICK s : found = {s}
        <5>1. IsFiniteSet(found)
          BY <4>2, SpotsAssumption, FS_Subset
        <5> QED BY <2>1, <5>1, FS_Singleton
      <4> QED BY <3>1, <4>1, <4>3
    <3> HIDE DEF found
    <3> QED BY <1>1, <3>2, <3>3, <3>4, <3>5 DEF Taken
  <2>2. CASE Cardinality(found) # 1
    <3>1. PICK list : task' = Hydrating(Idle("receiving"), list, "receiving")
      BY <1>4, <2>2 DEF Resolve
    <3>2. view' = Viewed(view, <<event>>)
      BY <1>4, <2>2 DEF Resolve, LeftOut
    <3>3. ~BeforeBook' /\ ~AfterBook'
      BY <3>1, HydratingLeaves
    <3>4. Arrives(event)
      BY <1>2, <3>3
    <3>5. ASSUME NEW k \in Listed \ missed, k = event.key
          PROVE  Ambiguous(k)
      <4>1. k[1] \in SpotsWithOrder(k[2])
        BY <1>4, <3>4, <3>5, FoundFact
      <4>2. k \in Anonymous
        <5> SUFFICES ASSUME k \notin Anonymous PROVE FALSE
          OBVIOUS
        <5>1. found = {k[1]} /\ Cardinality({k[1]}) = 1
          BY <3>5, FS_Singleton
        <5> QED BY <2>2, <5>1
      <4>3. Cardinality(SpotsWithOrder(k[2])) # 1
        BY <2>2, <3>5, <4>2
      <4> QED BY <4>1, <4>2, <4>3, AnonymousFact DEF TrackInv
    <3> HIDE DEF found
    <3> QED BY <1>1, <1>4, <3>2, <3>3, <3>4, <3>5 DEF Skipped
  <2> QED BY <2>1, <2>2
<1>5. CASE ReceiveCreated
  <2>1. event.kind = "created"
    BY <1>5 DEF ReceiveCreated, ReceiveOrderEvent
  <2>2. CASE HasOrder(event.key)
    <3>1. UNCHANGED task /\ view' = Viewed(view, <<event>>)
      BY <1>5, <2>2 DEF ReceiveCreated, LeftOut
    <3>2. ~BeforeBook' /\ ~AfterBook'
      BY <1>1, <3>1 DEF BeforeBook, AfterBook
    <3>3. Arrives(event)
      BY <1>2, <3>2
    <3> QED BY <1>1, <2>1, <2>2, <3>1, <3>2, <3>3 DEF Skipped
  <2>3. CASE ~HasOrder(event.key)
    <3>1. task' = Handling("ensuring", event, event.key[1]) /\ UNCHANGED view
      BY <1>5, <2>3 DEF ReceiveCreated, ghostVars
    <3>2. BeforeBook' /\ ~AfterBook' /\ task'.event = event /\ task'.spot = event.key[1]
      BY <3>1, HandlingTaken
    <3> QED BY <1>1, <1>2, <3>1, <3>2 DEF Taken
  <2> QED BY <2>2, <2>3
<1>6. CASE ReceiveFilled
  <2>1. task' = Handling("ensuring", event, event.key[1]) /\ UNCHANGED view
    BY <1>6 DEF ReceiveFilled, ghostVars
  <2>2. BeforeBook' /\ ~AfterBook' /\ task'.event = event /\ task'.spot = event.key[1]
    BY <2>1, HandlingTaken
  <2> QED BY <1>1, <1>2, <2>1, <2>2 DEF Taken
<1>7. CASE ReceiveCancelled
  BY <1>4, <1>7 DEF ReceiveCancelled, ReceiveOrderEvent
<1>8. CASE ReceiveUpdated
  BY <1>4, <1>8 DEF ReceiveUpdated, ReceiveOrderEvent
<1> QED BY <1>5, <1>6, <1>7, <1>8

LEMMA ReceiveKeeps ==
  ASSUME TrackInv,
         \/ ReceiveMarket \/ ReceiveResolved
         \/ ReceiveCreated \/ ReceiveCancelled \/ ReceiveUpdated \/ ReceiveFilled
  PROVE  Tracking'
<1>1. PICK event : Arrives(event) /\ (Taken(event) \/ Skipped(event) \/ Elsewhere(event))
  BY ReceiveMarketArrives, ReceiveOrderArrives
<1> QED BY <1>1, ArrivesKeeps

---------------------------------------------------------------------------
(* The chain.                                                              *)

\* The chain makes an event, of which the indexer hears or does not.
Makes(event) ==
  /\ UNCHANGED <<orders, spot_to_market, published, traded, task, touched, late>>
  /\ \A k \in Listed :
       IF event.kind \in OrderEvents /\ event.key = k
       THEN /\ event.old = chain[k] /\ chain'[k] = event.new
            /\ event.new.status # "absent" /\ HasMarket(k)
       ELSE chain'[k] = chain[k]
  /\ DOMAIN chain_markets' = DOMAIN chain_markets
  /\ \A m \in Markets :
       \/ event.kind = "market" /\ event.market = m /\ chain_markets'[m] # "none"
       \/ chain_markets'[m] # "none" <=> chain_markets[m] # "none"
  /\ \/ stream' = Append(stream, event) /\ UNCHANGED <<missed, view>>
     \/ /\ UNCHANGED stream /\ missed' = missed \cup OrdersOf(event)
        /\ view' = Viewed(view, <<event>>)

LEMMA ChainStepMakes ==
  ASSUME TrackInv, ChainStep
  PROVE  \E event : Makes(event)
<1>1. ASSUME NEW event, Emit(event)
      PROVE  /\ UNCHANGED <<orders, spot_to_market, published, traded, task, touched, late>>
             /\ \/ stream' = Append(stream, event) /\ UNCHANGED <<missed, view>>
                \/ /\ UNCHANGED stream /\ missed' = missed \cup OrdersOf(event)
                   /\ view' = Viewed(view, <<event>>)
  BY <1>1 DEF Emit, indexVars, userVars, ghostVars
<1>2. chain \in [Listed -> ChainOrders] /\ DOMAIN chain_markets = Markets
  BY DEF TrackInv, Tracking, CallsInv, ChainSound, MarketsFirst
<1>3. ASSUME NEW m \in Markets, CreateMarket(m)
      PROVE  \E event : Makes(event)
  <2> PICK event : event = [kind |-> "market", market |-> m]
    OBVIOUS
  <2>1. /\ Emit(event) /\ UNCHANGED chain
        /\ chain_markets' = [chain_markets EXCEPT ![m] = "Created"]
    BY <1>3 DEF CreateMarket
  <2>2. event.kind = "market" /\ event.kind \notin OrderEvents /\ event.market = m
    BY DEF OrderEvents
  <2> QED BY <1>1, <1>2, <2>1, <2>2 DEF Makes
<1>4. ASSUME NEW m \in Markets, SettleMarket(m)
      PROVE  \E event : Makes(event)
  <2> PICK event : event = [kind |-> "resolved", market |-> m]
    OBVIOUS
  <2>1. /\ Emit(event) /\ UNCHANGED chain /\ chain_markets[m] = "Created"
        /\ chain_markets' = [chain_markets EXCEPT ![m] = "Resolved"]
    BY <1>4 DEF SettleMarket
  <2>2. event.kind \notin OrderEvents
    BY DEF OrderEvents
  <2> QED BY <1>1, <1>2, <2>1, <2>2 DEF Makes
<1>5. ASSUME NEW k \in Listed, NEW kind \in OrderEvents, NEW new, OrderStep(kind, k, new),
             new.status # "absent", HasMarket(k)
      PROVE  \E event : Makes(event)
  <2> PICK event : event = [kind |-> kind, key |-> k, old |-> chain[k], new |-> new]
    OBVIOUS
  <2>1. Emit(event) /\ chain' = [chain EXCEPT ![k] = new] /\ UNCHANGED chain_markets
    BY <1>5 DEF OrderStep
  <2>2. event.kind \in OrderEvents /\ event.key = k /\ event.old = chain[k] /\ event.new = new
    OBVIOUS
  <2> QED BY <1>1, <1>2, <1>5, <2>1, <2>2 DEF Makes
<1>6. ASSUME NEW k \in Listed, Place(k)
      PROVE  \E event : Makes(event)
  <2>1. HasMarket(k)
    BY <1>6 DEF Place, HasMarket, InMarket
  <2>2. PICK new : new.status = "open" /\ OrderStep("created", k, new)
    BY <1>6 DEF Place
  <2> QED BY <1>5, <2>1, <2>2 DEF OrderEvents
<1>7. ASSUME NEW k \in Listed, Fill(k) \/ Amend(k) \/ Withdraw(k)
      PROVE  \E event : Makes(event)
  <2>1. chain[k].status \in Cancellable /\ chain[k] \in ChainOrders
    <3>1. Remaining(chain[k]) > 0
      <4>1. Remaining(chain[k]) \in Int
        BY <1>2, MaxAmountAssumption DEF ChainOrders, Amounts, Remaining
      <4>2. CASE Fill(k)
        <5>1. \E amount \in 1 .. Remaining(chain[k]) : TRUE
          BY <4>2 DEF Fill
        <5> QED BY <4>1, <5>1
      <4> QED BY <1>7, <4>2 DEF Amend, Withdraw
    <3> QED BY <1>2, <3>1 DEF Remaining
  <2>2. HasMarket(k)
    BY <2>1 DEF TrackInv, Tracking, MarketsFirst, Placed, Cancellable
  <2>3. CASE Fill(k)
    <3> PICK amount :
          OrderStep("filled", k,
                [chain[k] EXCEPT !.filled = @ + amount,
                                 !.status = IF amount = Remaining(chain[k]) THEN "filled"
                                            ELSE "partial_filled"])
      BY <2>3 DEF Fill
    <3> PICK status, filled :
          /\ status = IF amount = Remaining(chain[k]) THEN "filled" ELSE "partial_filled"
          /\ filled = chain[k].filled + amount
      OBVIOUS
    <3> PICK new : /\ new = [chain[k] EXCEPT !.filled = filled, !.status = status]
                   /\ OrderStep("filled", k, new)
      OBVIOUS
    <3>1. new.status # "absent"
      BY <2>1 DEF ChainOrders
    <3> QED BY <1>5, <2>2, <3>1 DEF OrderEvents
  <2>4. CASE Amend(k)
    <3> PICK size : OrderStep("updated", k, [chain[k] EXCEPT !.size = size])
      BY <2>4 DEF Amend
    <3> PICK new : new = [chain[k] EXCEPT !.size = size] /\ OrderStep("updated", k, new)
      OBVIOUS
    <3>1. new.status # "absent"
      BY <2>1 DEF ChainOrders, Cancellable
    <3> QED BY <1>5, <2>2, <3>1 DEF OrderEvents
  <2>5. CASE Withdraw(k)
    <3> PICK new : /\ new = [chain[k] EXCEPT !.status = "cancelled"]
                   /\ OrderStep("cancelled", k, new)
      BY <2>5 DEF Withdraw
    <3>1. new.status # "absent"
      BY <2>1 DEF ChainOrders
    <3> QED BY <1>5, <2>2, <3>1 DEF OrderEvents
  <2> QED BY <1>7, <2>3, <2>4, <2>5
<1> QED BY <1>3, <1>4, <1>6, <1>7 DEF ChainStep

\* What is still to come of an order that an event reaches the stream for.
LEMMA MakesHeard ==
  ASSUME CallsInv, NEW event, Makes(event), stream' = Append(stream, event), UNCHANGED view,
         DOMAIN chain_markets = Markets,
         NEW k \in Listed, Linked(k), MarketFirst(k)
  PROVE  Linked(k)' /\ MarketFirst(k)'
<1> PICK n : n = Len(stream)
  OBVIOUS
<1>1. /\ n \in Nat /\ Len(stream') = n + 1 /\ stream'[n + 1] = event
      /\ \A i \in 1 .. n : stream'[i] = stream[i]
  <2>1. stream \in Seq(SoundEvents)
    BY DEF CallsInv, StreamSound
  <2>2. n \in Nat /\ Len(stream') = n + 1
    BY <2>1
  <2>3. stream'[n + 1] = event /\ \A i \in 1 .. n : stream'[i] = stream[i]
    BY <2>1
  <2> QED BY <2>2, <2>3
<1>2. /\ UNCHANGED <<spot_to_market, task>>
      /\ (BeforeBook' <=> BeforeBook) /\ (AfterBook' <=> AfterBook)
      /\ Received(k)' = Received(k)
  BY DEF Makes, BeforeBook, AfterBook, Received
<1>3. /\ \A i \in 1 .. n : Own(i, k)' <=> Own(i, k)
      /\ Own(n + 1, k)' <=> event.kind \in OrderEvents /\ event.key = k
  BY <1>1 DEF Own
<1>4. /\ Own(n + 1, k)' => event.old = chain[k] /\ chain'[k] = event.new /\ HasMarket(k)
      /\ ~Own(n + 1, k)' => chain'[k] = chain[k]
  BY <1>3 DEF Makes
<1>5. ASSUME NEW i \in 1 .. Len(stream'), Own(i, k)', \A j \in 1 .. i - 1 : ~Own(j, k)'
      PROVE  stream'[i].old = Received(k)'
  <2>1. CASE i \in 1 .. n
    <3>1. \A j \in 1 .. i - 1 : ~Own(j, k)
      BY <1>1, <1>3, <1>5, <2>1
    <3> QED BY <1>1, <1>2, <1>3, <1>5, <2>1, <3>1 DEF Linked
  <2>2. CASE i = n + 1
    <3>1. \A j \in 1 .. Len(stream) : ~Own(j, k)
      BY <1>1, <1>3, <1>5, <2>2
    <3>2. chain[k] = Received(k)
      BY <3>1 DEF Linked
    <3> QED BY <1>1, <1>2, <1>4, <1>5, <2>2, <3>2
  <2> QED BY <1>1, <2>1, <2>2
<1>6. ASSUME NEW i \in 1 .. Len(stream'), NEW j \in 1 .. Len(stream'), Own(i, k)', Own(j, k)',
             i < j, \A between \in i + 1 .. j - 1 : ~Own(between, k)'
      PROVE  stream'[j].old = stream'[i].new
  <2>0. i \in 1 .. n /\ Own(i, k) /\ \A between \in i + 1 .. j - 1 : ~Own(between, k)
    BY <1>1, <1>3, <1>6
  <2>1. CASE j \in 1 .. n
    <3>1. Own(j, k)
      BY <1>3, <1>6, <2>1
    <3>2. i \in 1 .. Len(stream) /\ j \in 1 .. Len(stream)
      BY <2>0, <2>1
    <3>3. stream[j].old = stream[i].new
      BY <1>6, <2>0, <3>1, <3>2 DEF Linked
    <3> QED BY <1>1, <2>0, <2>1, <3>3
  <2>2. CASE j = n + 1
    <3>1. i \in 1 .. Len(stream) /\ \A between \in i + 1 .. Len(stream) : ~Own(between, k)
      BY <1>1, <2>0, <2>2
    <3>2. chain[k] = stream[i].new
      BY <2>0, <3>1 DEF Linked
    <3> QED BY <1>1, <1>4, <1>6, <2>0, <2>2, <3>2
  <2> QED BY <1>1, <2>1, <2>2
<1>7. ASSUME NEW i \in 1 .. Len(stream'), Own(i, k)',
             \A j \in i + 1 .. Len(stream') : ~Own(j, k)'
      PROVE  chain'[k] = stream'[i].new
  <2>1. CASE i = n + 1
    BY <1>1, <1>4, <1>7, <2>1
  <2>2. CASE i \in 1 .. n
    <3>1. ~Own(n + 1, k)' /\ i \in 1 .. Len(stream) /\ Own(i, k)
      BY <1>1, <1>3, <1>7, <2>2
    <3>2. \A j \in i + 1 .. Len(stream) : ~Own(j, k)
      BY <1>1, <1>3, <1>7, <2>2
    <3>3. chain[k] = stream[i].new
      BY <3>1, <3>2 DEF Linked
    <3> QED BY <1>1, <1>4, <2>2, <3>1, <3>3
  <2> QED BY <1>1, <2>1, <2>2
<1>8. ASSUME \A i \in 1 .. Len(stream') : ~Own(i, k)'
      PROVE  chain'[k] = Received(k)'
  <2>1. ~Own(n + 1, k)' /\ \A i \in 1 .. Len(stream) : ~Own(i, k)
    BY <1>1, <1>3, <1>8
  <2> QED BY <1>2, <1>4, <2>1 DEF Linked
<1>9. Linked(k)'
  <2>1. /\ (BeforeBook /\ task.event.key = k => task.event.old = view[k])'
        /\ (AfterBook /\ task.event.key = k => task.event.new = view[k])'
    BY <1>2 DEF Linked
  <2> QED BY <1>5, <1>6, <1>7, <1>8, <2>1 DEF Linked
<1>10. ASSUME NEW i \in 0 .. n, MarketComes(k[1], i)
       PROVE  MarketComes(k[1], i)'
  <2>1. CASE k[1] \in DOMAIN spot_to_market
    BY <1>2, <2>1 DEF MarketComes
  <2>2. CASE k[1] \notin DOMAIN spot_to_market
    <3> PICK j \in 1 .. i : stream[j].kind = "market" /\ InMarket(k[1], stream[j].market)
      BY <1>10, <2>2 DEF MarketComes
    <3>1. stream'[j] = stream[j]
      BY <1>1
    <3> QED BY <3>1 DEF MarketComes, InMarket
  <2> QED BY <2>1, <2>2
<1>12. ASSUME NEW i \in 1 .. Len(stream'), Own(i, k)'
       PROVE  MarketComes(k[1], i - 1)'
  <2>1. CASE i \in 1 .. n
    <3>1. MarketComes(k[1], i - 1)
      BY <1>3, <1>12, <2>1 DEF MarketFirst
    <3>2. i - 1 \in 0 .. n
      BY <1>1, <2>1
    <3> QED BY <1>10, <3>1, <3>2
  <2>2. CASE i = n + 1
    <3>1. MarketComes(k[1], n) /\ n \in 0 .. n /\ i - 1 = n
      BY <1>1, <1>4, <1>12, <2>2 DEF HasMarket, MarketFirst
    <3> QED BY <1>10, <3>1
  <2> QED BY <1>1, <2>1, <2>2
<1>13. ASSUME NEW m \in Markets, chain_markets'[m] # "none", InMarket(k[1], m)
       PROVE  MarketComes(k[1], Len(stream))'
  <2>1. CASE event.kind = "market" /\ event.market = m
    <3>1. n + 1 \in 1 .. Len(stream') /\ stream'[n + 1] = event
      BY <1>1
    <3> QED BY <1>13, <2>1, <3>1 DEF MarketComes, InMarket
  <2>2. CASE chain_markets[m] # "none"
    <3>1. MarketComes(k[1], n) /\ n \in 0 .. n
      BY <1>1, <1>13, <2>2 DEF MarketFirst
    <3>2. MarketComes(k[1], n)'
      BY <1>10, <3>1
    <3> QED BY <1>1, <3>2 DEF MarketComes
  <2> QED BY <1>13, <2>1, <2>2 DEF Makes
<1>14. MarketFirst(k)'
  <2>1. ((BeforeBook \/ AfterBook) /\ task.event.key = k => k[1] \in DOMAIN spot_to_market)'
    BY <1>2 DEF MarketFirst
  <2>2. (\A m \in Markets :
           chain_markets[m] # "none" /\ InMarket(k[1], m) => MarketComes(k[1], Len(stream)))'
    BY <1>13 DEF InMarket
  <2>3. (\A i \in 1 .. Len(stream) : Own(i, k) => MarketComes(k[1], i - 1))'
    BY <1>12
  <2> QED BY <2>1, <2>2, <2>3 DEF MarketFirst
<1> QED BY <1>9, <1>14

LEMMA MakesKeeps ==
  ASSUME TrackInv, NEW event, Makes(event)
  PROVE  Tracking'
<1>1. /\ UNCHANGED <<orders, spot_to_market, published, traded, task, touched, late>>
      /\ missed \subseteq missed' /\ DOMAIN view = Listed /\ DOMAIN view' = Listed
      /\ DOMAIN chain_markets = Markets /\ DOMAIN chain_markets' = Markets
  <2>1. DOMAIN Viewed(view, <<event>>) = Listed
    BY DEF Viewed
  <2> QED BY <2>1 DEF Makes, TrackInv, Tracking, EventsLinked, MarketsFirst
<1>2. ASSUME NEW k \in Listed \ missed', UNCHANGED stream
      PROVE  /\ view'[k] = view[k] /\ chain'[k] = chain[k]
             /\ \A m \in Markets :
                  InMarket(k[1], m) => (chain_markets'[m] # "none" <=> chain_markets[m] # "none")
  <2>1. CASE stream' = Append(stream, event)
    <3>1. Append(stream, event) # stream
      <4>1. stream \in Seq(SoundEvents)
        BY DEF TrackInv, CallsInv, StreamSound
      <4>2. Len(Append(stream, event)) = Len(stream) + 1 /\ Len(stream) \in Nat
        BY <4>1
      <4> QED BY <4>2
    <3> QED BY <1>2, <2>1, <3>1
  <2>2. CASE missed' = missed \cup OrdersOf(event) /\ view' = Viewed(view, <<event>>)
    <3>1. k \notin OrdersOf(event)
      BY <2>2
    <3>2. ~(event.kind \in OrderEvents /\ event.key = k)
      BY <3>1 DEF OrdersOf
    <3>3. view'[k] = view[k]
      <4>1. \A i \in 1 .. Len(<<event>>) :
              ~(<<event>>[i].kind \in OrderEvents /\ <<event>>[i].key = k)
        BY <3>2
      <4> QED BY <2>2, <4>1, ViewedOther
    <3>4. ASSUME NEW m \in Markets, InMarket(k[1], m)
          PROVE  chain_markets'[m] # "none" <=> chain_markets[m] # "none"
      <4>1. event.kind = "market" => event.market # m
        BY <3>1, <3>4 DEF OrdersOf, OrderEvents, InMarket
      <4> QED BY <4>1 DEF Makes
    <3> QED BY <3>2, <3>3, <3>4 DEF Makes
  <2> QED BY <2>1, <2>2 DEF Makes
<1>3. ASSUME NEW k \in Listed \ missed'
      PROVE  Linked(k)' /\ MarketFirst(k)' /\ view'[k] = view[k]
  <2>1. Linked(k) /\ MarketFirst(k)
    BY <1>1 DEF TrackInv, Tracking, EventsLinked, MarketsFirst
  <2>2. CASE stream' = Append(stream, event) /\ UNCHANGED view
    BY <1>1, <2>1, <2>2, MakesHeard DEF TrackInv
  <2>3. CASE UNCHANGED stream
    <3>1. /\ view'[k] = view[k] /\ chain'[k] = chain[k]
          /\ \A m \in Markets :
               InMarket(k[1], m) => (chain_markets'[m] # "none" <=> chain_markets[m] # "none")
      BY <1>2, <2>3
    <3>2. Linked(k)'
      BY <1>1, <2>1, <2>3, <3>1 DEF Linked, Own, Received, BeforeBook, AfterBook
    <3>3. MarketFirst(k)'
      BY <1>1, <2>1, <2>3, <3>1 DEF MarketFirst, MarketComes, InMarket, Own, BeforeBook, AfterBook
    <3> QED BY <3>1, <3>2, <3>3
  <2> QED BY <2>2, <2>3 DEF Makes
<1>4. EventsLinked'
  BY <1>1, <1>3 DEF EventsLinked
<1>5. MarketsFirst'
  <2>1. ASSUME NEW k \in Listed, Placed(k)'
        PROVE  HasMarket(k)'
    <3>1. HasMarket(k)
      BY <2>1 DEF Makes, TrackInv, Tracking, MarketsFirst, Placed
    <3> QED BY <3>1 DEF HasMarket, Makes, InMarket
  <2> QED BY <1>1, <1>3, <2>1 DEF MarketsFirst
<1>6. \A k \in Listed : Ambiguous(k) => Ambiguous(k)'
  BY DEF Ambiguous, HasOrder, Makes
<1>7. \A k \in Listed \ missed' : Indexed(k)' = Indexed(k) /\ (RightSpot(k) => RightSpot(k)')
  BY <1>1, <1>3 DEF Indexed, RightSpot, BeforeBook, AfterBook
<1>8. FillsTracked' /\ RestsTracked' /\ StatusesTracked' /\ TermsTracked'
  BY <1>1, <1>6, <1>7, OrdersKept
<1>9. TradesTracked' /\ FeedsTracked'
  BY <1>1 DEF TrackInv, Tracking, TradesTracked, TradeTracked, Untraded, FillAmount, FeedsTracked,
              FeedTracked, Due, TaskKey, HasOrder
<1> QED BY <1>4, <1>5, <1>8, <1>9 DEF Tracking

---------------------------------------------------------------------------
(* The connection breaks.                                                  *)

LEMMA DisconnectKeeps ==
  ASSUME TrackInv, Disconnect
  PROVE  Tracking'
<1> DEFINE lost == UNION {OrdersOf(stream[i]) : i \in 1 .. Len(stream)}
<1>1. /\ UNCHANGED <<orders, spot_to_market, published, traded, touched, late, chain,
                     chain_markets>>
      /\ task.stage = "receiving" /\ task' = Idle("stopped") /\ stream' = <<>>
      /\ missed' = missed \cup lost /\ view' = Viewed(view, stream)
  BY DEF Disconnect, indexVars, httpVars, userVars, chainVars
<1>2. /\ ~BeforeBook /\ ~AfterBook /\ ~BeforeBook' /\ ~AfterBook'
      /\ task'.stage \notin {"indexing", "publishing", "trading", "sending"}
  BY <1>1 DEF Idle, BeforeBook, AfterBook
<1>3. DOMAIN view' = Listed /\ missed \subseteq missed'
  BY <1>1 DEF Viewed
<1>4. ASSUME NEW k \in Listed \ missed'
      PROVE  /\ view'[k] = view[k] /\ chain[k] = view[k]
             /\ \A m \in Markets :
                  chain_markets[m] # "none" /\ InMarket(k[1], m) => k[1] \in DOMAIN spot_to_market
  <2>1. \A i \in 1 .. Len(stream) : k \notin OrdersOf(stream[i])
    BY <1>1
  <2>2. \A i \in 1 .. Len(stream) : ~(stream[i].kind \in OrderEvents /\ stream[i].key = k)
    BY <2>1 DEF OrdersOf
  <2>3. view'[k] = view[k]
    BY <1>1, <2>2, ViewedOther
  <2>4. Linked(k) /\ MarketFirst(k)
    BY <1>3 DEF TrackInv, Tracking, EventsLinked, MarketsFirst
  <2>5. chain[k] = view[k]
    <3>1. chain[k] = Received(k)
      BY <2>2, <2>4 DEF Linked, Own
    <3> QED BY <1>2, <3>1 DEF Received
  <2>6. ASSUME NEW m \in Markets, chain_markets[m] # "none", InMarket(k[1], m),
               k[1] \notin DOMAIN spot_to_market
        PROVE  FALSE
    <3>1. MarketComes(k[1], Len(stream))
      BY <2>4, <2>6 DEF MarketFirst
    <3>2. PICK j \in 1 .. Len(stream) :
                 stream[j].kind = "market" /\ InMarket(k[1], stream[j].market)
      BY <2>6, <3>1 DEF MarketComes
    <3>3. k \in OrdersOf(stream[j])
      BY <3>2 DEF OrdersOf, OrderEvents, InMarket
    <3> QED BY <2>1, <3>3
  <2> QED BY <2>3, <2>5, <2>6
<1> HIDE DEF lost
<1>5. EventsLinked'
  <2>1. ASSUME NEW k \in Listed \ missed'
        PROVE  Linked(k)'
    <3>1. Len(stream') = 0 /\ chain'[k] = Received(k)'
      BY <1>1, <1>2, <1>4 DEF Received
    <3> QED BY <1>2, <3>1 DEF Linked
  <2> QED BY <1>3, <2>1 DEF EventsLinked
<1>6. MarketsFirst'
  <2>1. ASSUME NEW k \in Listed \ missed'
        PROVE  MarketFirst(k)'
    BY <1>1, <1>2, <1>4 DEF MarketFirst, MarketComes, InMarket
  <2> QED BY <1>1, <2>1 DEF TrackInv, Tracking, MarketsFirst, Placed, HasMarket, InMarket
<1>7. /\ \A k \in Listed \ missed' : Indexed(k)' = Indexed(k) /\ (RightSpot(k) => RightSpot(k)')
      /\ \A k \in Listed : Ambiguous(k) => Ambiguous(k)'
  BY <1>1, <1>2, <1>4 DEF Indexed, RightSpot, Ambiguous, HasOrder
<1>8. FillsTracked' /\ RestsTracked' /\ StatusesTracked' /\ TermsTracked'
  BY <1>1, <1>3, <1>7, OrdersKept
<1>9. TradesTracked' /\ FeedsTracked'
  BY <1>1, <1>2, <1>3 DEF TrackInv, Tracking, TradesTracked, TradeTracked, Untraded, FeedsTracked,
                          FeedTracked,
                     Due, HasOrder
<1> QED BY <1>5, <1>6, <1>8, <1>9 DEF Tracking

---------------------------------------------------------------------------
LEMMA TrackInitInv == Init => TrackInv
<1> SUFFICES ASSUME Init PROVE TrackInv
  OBVIOUS
<1>1. CallsInv
  BY CallsInitInv
<1>2. DOMAIN orders = {} /\ \A k : ~HasOrder(k)
  BY EmptyFact DEF Init, IndexInit, HasOrder
<1>3. /\ stream = <<>> /\ view = chain /\ task.stage = "stopped" /\ ~BeforeBook /\ ~AfterBook
      /\ traded = [k \in Listed |-> 0] /\ published = [k \in Listed |-> "none"]
      /\ chain_markets = [m \in Markets |-> "none"]
      /\ chain = [k \in Listed |-> [status |-> "absent", size |-> 0, filled |-> 0]]
  BY DEF Init, Idle, BeforeBook, AfterBook
<1>4. EventsLinked
  <2>1. ASSUME NEW k \in Listed
        PROVE  Linked(k)
    BY <1>3 DEF Linked, Received
  <2> QED BY <1>3, <2>1 DEF EventsLinked
<1>5. MarketsFirst
  <2>1. ASSUME NEW k \in Listed
        PROVE  ~Placed(k) /\ MarketFirst(k)
    BY <1>3 DEF Placed, MarketFirst
  <2> QED BY <1>3, <2>1 DEF MarketsFirst
<1>6. FillsTracked
  BY <1>2, <1>3 DEF FillsTracked, FillTracked, Indexed
<1>7. RestsTracked /\ TermsTracked
  BY <1>2, <1>3 DEF RestsTracked, RestTracked, TermsTracked, TermTracked
<1>8. StatusesTracked
  <2>1. ASSUME NEW k \in Listed
        PROVE  Present(k) /\ RightSpot(k) /\ StatusTracked(k)
    BY <1>2, <1>3 DEF Present, Indexed, RightSpot, StatusTracked
  <2> QED BY <2>1 DEF StatusesTracked
<1>9. TradesTracked /\ FeedsTracked
  BY <1>2, <1>3 DEF TradesTracked, TradeTracked, Untraded, FeedsTracked, FeedTracked, Due
<1> QED BY <1>1, <1>4, <1>5, <1>6, <1>7, <1>8, <1>9 DEF TrackInv, Tracking

LEMMA TrackNextInv ==
  ASSUME TrackInv, [Next]_vars
  PROVE  TrackInv'
<1>1. CallsInv'
  BY CallsNextInv DEF TrackInv
<1>2. SUFFICES Tracking'
  BY <1>1 DEF TrackInv
<1>3. CASE UNCHANGED vars
  <2>1. RequestOnly
    BY <1>3 DEF vars, indexVars, userVars, chainVars, streamVars, ghostVars, RequestOnly, Alone,
                HasOrder
  <2> QED BY <2>1, RequestKeeps
<1>4. CASE ChainStep
  BY <1>4, ChainStepMakes, MakesKeeps
<1>5. CASE Disconnect
  BY <1>5, DisconnectKeeps
<1>6. CASE \/ Restart \/ Connect \/ ConnectFails \/ HydrateRead \/ HydrateWrite \/ Ensure
           \/ (HydrateFails /\ task.resume # "applying")
  <2>1. Passive
    BY <1>6, PassiveFact DEF TrackInv
  <2> QED BY <2>1, PassiveKeeps
<1>7. CASE Apply \/ (HydrateFails /\ task.resume = "applying")
  <2>1. Reached
    BY <1>7, ReachedFact DEF TrackInv
  <2> QED BY <2>1, ReachedKeeps
<1>8. CASE IndexEvent \/ PublishRead \/ PublishTrade \/ PublishSend
  BY <1>8, IndexingKeeps, PublishReadKeeps, PublishTradeKeeps, PublishSendKeeps
<1>9. CASE \/ ReceiveMarket \/ ReceiveResolved
           \/ ReceiveCreated \/ ReceiveCancelled \/ ReceiveUpdated \/ ReceiveFilled
  BY <1>9, ReceiveKeeps
<1>10. ASSUME NEW r \in Requests,
              \/ GetBook(r) \/ GetBookFails(r) \/ IndexFromEvent(r) \/ MarkCancelled(r)
              \/ RequestStep(r)
       PROVE  Tracking'
  <2>1. RequestOnly
    BY <1>10, RequestFact DEF TrackInv
  <2> QED BY <2>1, RequestKeeps
<1> QED
  BY <1>3, <1>4, <1>5, <1>6, <1>7, <1>8, <1>9, <1>10 DEF Next, IndexerStep

\* In every state of the indexer and the requests beside it the events of each
\* order follow on one another and its market's event precedes them, and the
\* index, the trades and the user feed are behind the view by what the running
\* handler has left to do (processor.rs:94-383, 825-938).
THEOREM IndexerTracks == Spec => []TrackInv
<1>1. TrackInv /\ [Next]_vars => TrackInv'
  BY TrackNextInv
<1> QED
  BY TrackInitInv, <1>1, PTL DEF Spec

LEMMA HandlerHas ==
  ASSUME TrackInv, AfterBook, NEW k, k \in {task.event.key, TaskKey}
  PROVE  InHandler(k)
<1>1. task.event \in SoundOrderEvents
  BY HandlerFact DEF TrackInv
<1>2. task.event # Nothing
  BY <1>1, NothingAssumption DEF SoundOrderEvents, AnyOrderEvents
<1> QED BY <1>2 DEF InHandler

\* The index shows every order as the last event received left it on the
\* chain, unless one of its events was lost, a request wrote it, or another
\* order on the chain has its id and events without a contract
\* (processor.rs:35-44, 130-383, store.rs:281-296).
THEOREM IndexerTracksStream == Spec => []IndexTracksStream
<1>1. TrackInv => IndexTracksStream
  <2> SUFFICES ASSUME TrackInv, NEW k \in Listed \ (missed \cup touched), ~InHandler(k),
                      ~Ambiguous(k)
               PROVE  IF view[k].status = "absent" THEN ~HasOrder(k)
                      ELSE /\ HasOrder(k)
                           /\ orders[k].status = view[k].status
                           /\ orders[k].size_raw = view[k].size
                           /\ orders[k].filled_raw = view[k].filled
    BY DEF IndexTracksStream
  <2>1. Indexed(k) = view[k]
    BY HandlerHas DEF Indexed, AfterBook
  <2>2. FillTracked(k) /\ RestTracked(k)
    BY DEF TrackInv, Tracking, FillsTracked, RestsTracked
  <2> QED BY <2>1, <2>2 DEF FillTracked, RestTracked
<1> QED
  BY IndexerTracks, <1>1, PTL

\* Whatever a request made of an order, its status is right again once an event
\* of the order is indexed (orders.rs:157-239, store.rs:467-517).
THEOREM IndexerEventsOverruleRequests == Spec => []EventsOverruleRequests
<1>1. TrackInv => EventsOverruleRequests
  <2> SUFFICES ASSUME TrackInv, NEW k \in Listed \ (missed \cup late), HasOrder(k),
                      ~InHandler(k), ~Ambiguous(k)
               PROVE  IF view[k].status \in Cancellable THEN orders[k].status \in Cancellable
                      ELSE orders[k].status = view[k].status
    BY DEF EventsOverruleRequests
  <2>1. Indexed(k) = view[k]
    BY HandlerHas DEF Indexed, AfterBook
  <2>2. StatusTracked(k)
    BY DEF TrackInv, Tracking, StatusesTracked
  <2> QED BY <2>1, <2>2 DEF StatusTracked
<1> QED
  BY IndexerTracks, <1>1, PTL

\* The trades announced for an order add up to what the index shows as filled,
\* whenever no handler of its events runs (processor.rs:323-383, 878-938).
THEOREM IndexerTradesAddUp == Spec => []TradesAddUp
<1>1. TrackInv => TradesAddUp
  <2> SUFFICES ASSUME TrackInv, NEW k \in Listed \ (missed \cup touched), HasOrder(k), ~InHandler(k)
               PROVE  traded[k] = orders[k].filled_raw
    BY DEF TradesAddUp
  <2>1. Untraded(k) = 0
    BY HandlerHas DEF Untraded, AfterBook
  <2>2. TradeTracked(k) /\ traded[k] \in Nat
    BY DEF TrackInv, Tracking, TradesTracked
  <2> QED BY <2>1, <2>2 DEF TradeTracked
<1> QED
  BY IndexerTracks, <1>1, PTL

\* The last status announced for an order is the one the index shows, unless a
\* request wrote it or a handler of its events runs (processor.rs:825-938).
THEOREM IndexerUserFeedTracksIndex == Spec => []UserFeedTracksIndex
<1>1. TrackInv => UserFeedTracksIndex
  <2> SUFFICES ASSUME TrackInv, NEW k \in Listed \ touched, HasOrder(k), ~InHandler(k)
               PROVE  published[k] = orders[k].status
    BY DEF UserFeedTracksIndex
  <2>1. ~Due(k)
    BY HandlerHas DEF Due, AfterBook
  <2>2. FeedTracked(k)
    BY DEF TrackInv, Tracking, FeedsTracked
  <2> QED BY <2>1, <2>2 DEF FeedTracked
<1> QED
  BY IndexerTracks, <1>1, PTL

---------------------------------------------------------------------------
(* What a client finds.                                                    *)

\* A quotient and a remainder say what was divided.
LEMMA DivisionFact ==
  ASSUME NEW a \in Nat, NEW b \in Nat, NEW scale \in Nat \ {0},
         a \div scale = b \div scale, a % scale = b % scale
  PROVE  a = b
  OBVIOUS

LEMMA FactorFact ==
  ASSUME NEW a \in Nat, NEW b \in Nat, NEW factor \in Nat \ {0}, a * factor = b * factor
  PROVE  a = b
  OBVIOUS

\* Prices that are shown alike are the same, below where their multiplication
\* saturates (chain/mod.rs:129-140).
LEMMA PriceTextFact ==
  ASSUME NEW p \in Nat, NEW q \in Nat, PriceText(p) = PriceText(q),
         p * PriceFactor < MaxAmount
  PROVE  q = p
<1> PICK a : a = IF p * PriceFactor > MaxAmount THEN MaxAmount ELSE p * PriceFactor
  OBVIOUS
<1> PICK b : b = IF q * PriceFactor > MaxAmount THEN MaxAmount ELSE q * PriceFactor
  OBVIOUS
<1> PICK c, d : c = p * PriceFactor /\ d = q * PriceFactor
  OBVIOUS
<1>1. PriceFactor \in Nat \ {0} /\ PriceScale \in Nat \ {0} /\ MaxAmount \in Nat
  BY PriceFormatAssumption, MaxAmountAssumption
<1>2. c \in Nat /\ d \in Nat
  BY <1>1
<1>3. /\ a = (IF c > MaxAmount THEN MaxAmount ELSE c)
      /\ b = (IF d > MaxAmount THEN MaxAmount ELSE d)
      /\ c < MaxAmount
  OBVIOUS
<1>4. a \in Nat /\ b \in Nat /\ a = c
  BY <1>1, <1>2, <1>3
<1>5. a \div PriceScale = b \div PriceScale /\ a % PriceScale = b % PriceScale
  <2>1. PriceText(p) = <<a \div PriceScale, a % PriceScale>>
    BY Zenon DEF PriceText
  <2>2. PriceText(q) = <<b \div PriceScale, b % PriceScale>>
    BY Zenon DEF PriceText
  <2>3. \A u, v, x, y : <<u, v>> = <<x, y>> => u = x /\ v = y
    OBVIOUS
  <2>4. <<a \div PriceScale, a % PriceScale>> = <<b \div PriceScale, b % PriceScale>>
    BY <2>1, <2>2, Zenon
  <2> QED BY <2>3, <2>4, Zenon
<1>6. a = b
  BY <1>1, <1>4, <1>5, DivisionFact
<1>7. c = d
  BY <1>1, <1>2, <1>3, <1>4, <1>6
<1>8. q * PriceFactor = p * PriceFactor
  BY <1>7
<1> QED BY <1>1, <1>8, FactorFact

\* A client finds the order that it placed and rests on the chain by what it
\* then has, and what it is answered with fits (store.rs:390-427,
\* orders.rs:86-137).
THEOREM OpenOrdersAreFound == Spec => []OpenOrderIsFound
<1>1. TrackInv => OpenOrderIsFound
  <2> SUFFICES ASSUME TrackInv, NEW k \in Listed \ (missed \cup touched), ~InHandler(k),
                      ~Ambiguous(k), Remaining(view[k]) > 0,
                      NEW found,
                      found = FindOpenOrder(k[1], OrderOwner[k], OrderSide[k],
                                            PriceText(OrderPrice[k]), view[k].size)
               PROVE  /\ k \in found
                      /\ \A j \in found :
                           /\ QueryByChainId(k[1], j[2], {OrderOwner[k]}) = {j}
                           /\ OrderPrice[k] * PriceFactor < MaxAmount
                              => orders[j].price = OrderPrice[k]
    BY Zenon DEF OpenOrderIsFound
  <2>1. Indexed(k) = view[k] /\ view[k].status \in Cancellable
    BY HandlerHas DEF Indexed, AfterBook, Remaining
  <2>2. /\ HasOrder(k) /\ orders[k].status = view[k].status /\ orders[k].size_raw = view[k].size
        /\ orders[k].side = OrderSide[k] /\ orders[k].price = OrderPrice[k]
        /\ orders[k].user = OrderOwner[k]
    BY <2>1 DEF TrackInv, Tracking, FillsTracked, FillTracked, RestsTracked, RestTracked,
                TermsTracked,
                TermTracked, Cancellable
  <2>3. ASSUME NEW j \in DOMAIN orders
        PROVE  /\ orders[j].market \in DOMAIN markets /\ ContextSpot(j) = j[1]
               /\ j \in Listed /\ j = <<j[1], j[2]>> /\ orders[j].price \in Nat
    <3>1. j \in Listed
      BY DEF TrackInv, CallsInv, OrdersListed
    <3>2. orders[j].market \in DOMAIN markets /\ ContextSpot(j) = j[1]
      BY DEF TrackInv, CallsInv, IndexInv, ContextRoundTrips
    <3>3. orders[j].price \in Prices
      BY DEF TrackInv, CallsInv, IndexInv, IndexTypeOK, IsMap, StoredOrders
    <3> QED BY <3>1, <3>2, <3>3, KeyFact, PricesAssumption
  <2>4. k \in found
    BY <2>1, <2>2, <2>3 DEF HasOrder, FindOpenOrder
  <2>5. ASSUME NEW j \in found
        PROVE  QueryByChainId(k[1], j[2], {OrderOwner[k]}) = {j}
    <3>1. j \in DOMAIN orders /\ ContextSpot(j) = k[1] /\ orders[j].user = OrderOwner[k]
      BY DEF FindOpenOrder
    <3>2. j = <<k[1], j[2]>>
      BY <2>3, <3>1
    <3> QED BY <3>1, <3>2 DEF QueryByChainId
  <2>6. ASSUME NEW j \in found, OrderPrice[k] * PriceFactor < MaxAmount
        PROVE  orders[j].price = OrderPrice[k]
    <3>1. j \in DOMAIN orders /\ PriceText(orders[j].price) = PriceText(OrderPrice[k])
      BY DEF FindOpenOrder
    <3>2. orders[j].price \in Nat /\ OrderPrice[k] \in Nat
      BY <2>2, <2>3, <3>1 DEF HasOrder
    <3> QED BY <2>6, <3>1, <3>2, PriceTextFact
  <2> QED BY <2>4, <2>5, <2>6
<1> QED
  BY IndexerTracks, <1>1, PTL
=============================================================================
