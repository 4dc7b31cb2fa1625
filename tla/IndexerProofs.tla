--------------------------- MODULE IndexerProofs ---------------------------
(***************************************************************************)
(* To the index each step of Indexer is one call of a method, or none, so  *)
(* the invariants proved in IndexStoreProofs for arbitrary calls hold of   *)
(* the indexer task and the HTTP requests beside it, for any markets,      *)
(* orders, requests and bounds.                                            *)
(*                                                                         *)
(* That needs to know what the calls are made with: the events on their    *)
(* way tell what the chain did, a handler keeps the event and the spot     *)
(* market it was resolved to, and a request keeps what its caller sent.    *)
(* CallsInv says so, together with IndexInv, which it leans on where       *)
(* mark_cancelled takes its spot market from the index.                    *)
(***************************************************************************)
EXTENDS Indexer, IndexStoreProofs, SequenceTheorems, FiniteSetTheorems

---------------------------------------------------------------------------
(* What is sound by itself: orders, events, the task and the requests.     *)

SoundState(order) ==
  /\ order \in ChainOrders
  /\ order.filled <= order.size
  /\ order.status # "absent" => order.size > 0
  /\ order.status = "open" => order.filled = 0
  /\ order.status = "partial_filled" => order.filled > 0

\* What each kind of event may have changed.
SoundChange(kind, old, new) ==
  /\ kind = "created" => /\ old.status = "absent"
                         /\ new.status = "open" /\ new.filled = 0
  /\ kind # "created" => old.status \in Cancellable
  /\ kind = "updated" => /\ new.status = old.status /\ new.filled = old.filled
                         /\ new.filled < new.size
  /\ kind = "filled" => /\ new.size = old.size /\ new.filled > old.filled
                        /\ new.status = IF new.filled = new.size THEN "filled"
                                        ELSE "partial_filled"
  /\ kind = "cancelled" => /\ new.status = "cancelled" /\ new.size = old.size
                           /\ new.filled = old.filled

MarketEvents == [kind : {"market", "resolved"}, market : Markets]

AnyOrderEvents == [kind : OrderEvents, key : Listed, old : ChainOrders, new : ChainOrders]

SoundOrderEvents ==
  {event \in AnyOrderEvents : /\ SoundState(event.old) /\ SoundState(event.new)
                              /\ event.new.status # "absent"
                              /\ SoundChange(event.kind, event.old, event.new)}

SoundEvents == MarketEvents \cup SoundOrderEvents

ChainSound == chain \in [Listed -> ChainOrders] /\ \A k \in Listed : SoundState(chain[k])

Placed(k) == k \in Listed /\ chain[k].status # "absent"

StreamSound ==
  /\ stream \in Seq(SoundEvents)
  /\ \A i \in 1 .. Len(stream) : stream[i].kind \in OrderEvents => Placed(stream[i].key)

\* The handler has not reached the book, or has left it behind.
BeforeBook ==
  \/ task.stage \in {"ensuring", "applying"}
  \/ task.stage = "hydrating" /\ task.resume = "applying"
AfterBook == task.stage \in {"indexing", "publishing", "trading", "sending"}

TaskSound ==
  /\ DOMAIN task = {"stage", "event", "spot", "todo", "answer", "resume"}
  /\ task.stage = "hydrating" =>
       \/ task.resume \in {"receiving", "connecting"}
       \/ task.resume = "applying" /\ task.todo = <<task.spot>>
  /\ BeforeBook \/ AfterBook =>
       /\ task.event \in SoundOrderEvents
       /\ Placed(task.event.key)
       /\ task.spot \in Spots
       /\ \/ task.spot = task.event.key[1]
          \/ task.event.key \in Anonymous /\ task.event.kind \in {"updated", "cancelled"}

\* Whatever the caller says.
IndexRequests == [kind : {"index"}, key : Listed, body : Bodies, is_new : BOOLEAN,
                  stage : {"applying", "indexing"}]

SoundRequest(q) ==
  \/ q = Nothing
  \/ q.kind = "book"
  \/ q \in IndexRequests
  \/ /\ q.kind = "index" /\ q.stage \in {"publishing", "sending"}
     /\ q.key \in touched
  \/ q.kind = "cancelled" /\ q.key \in Keys

RequestsSound ==
  DOMAIN requests = Requests /\ \A r \in Requests : SoundRequest(requests[r])

OrdersListed == DOMAIN orders \subseteq Listed

\* All that the calls of the index rest on.
CallsInv ==
  /\ IndexInv
  /\ ChainSound
  /\ StreamSound
  /\ TaskSound
  /\ RequestsSound
  /\ OrdersListed

---------------------------------------------------------------------------
(* Frames.                                                                 *)

\* A call of one method of the index.
IndexCall == IndexNext \/ \E key \in Keys, body \in OrderBodies : IndexOrder(key, body)

LEMMA IndexKept ==
  ASSUME IndexInv, UNCHANGED indexVars \/ IndexCall
  PROVE  IndexInv'
  BY IndexNextInv, IndexOrderStep DEF IndexCall

\* An order that is on the chain stays there.
LEMMA PlacedStays ==
  ASSUME NEW k, Placed(k), UNCHANGED chain
  PROVE  Placed(k)'
  BY DEF Placed

LEMMA KeyFact ==
  ASSUME NEW k \in Listed
  PROVE  /\ k \in Keys /\ k[1] \in Spots /\ k[2] \in OrderIds /\ k = <<k[1], k[2]>>
         /\ OrderPrice[k] \in Prices /\ OrderAmount[k] \in Amounts \ {0}
  BY ListedAssumption DEF Keys

LEMMA RequestsKept ==
  ASSUME RequestsSound, UNCHANGED requests, \A k \in Listed : Placed(k) => Placed(k)',
         touched \subseteq touched'
  PROVE  RequestsSound'
<1> SUFFICES ASSUME NEW r \in Requests PROVE SoundRequest(requests[r])'
  BY DEF RequestsSound
<1>1. SoundRequest(requests[r])
  BY DEF RequestsSound
<1> QED BY <1>1 DEF SoundRequest

\* A step of the task that makes no call, or one.
LEMMA TaskStepKeeps ==
  ASSUME CallsInv, TaskSound', StreamSound', UNCHANGED <<requests, touched, chain>>,
         UNCHANGED indexVars \/ IndexCall,
         UNCHANGED orders \/ \A k \in DOMAIN orders' : k \in DOMAIN orders \/ k \in Listed
  PROVE  CallsInv'
<1>1. IndexInv'
  BY IndexKept DEF CallsInv
<1>2. \A k \in Listed : Placed(k) => Placed(k)'
  BY DEF Placed
<1>3. RequestsSound'
  BY <1>2, RequestsKept DEF CallsInv
<1>4. OrdersListed'
  BY DEF OrdersListed, CallsInv
<1>5. ChainSound'
  BY DEF CallsInv, ChainSound
<1> QED BY <1>1, <1>3, <1>4, <1>5 DEF CallsInv

---------------------------------------------------------------------------
(* The chain.                                                              *)

LEMMA EmitKeeps ==
  ASSUME CallsInv, ChainSound', \A k \in Listed : Placed(k) => Placed(k)',
         NEW event \in SoundEvents, Emit(event),
         event.kind \in OrderEvents => Placed(event.key)'
  PROVE  CallsInv' /\ UNCHANGED indexVars
<1>1. UNCHANGED <<indexVars, task, requests, touched>>
  BY DEF Emit
<1>2. IndexInv'
  BY <1>1, IndexKept DEF CallsInv
<1>3. StreamSound'
  <2>1. CASE stream' = Append(stream, event)
    <3>1. /\ stream' \in Seq(SoundEvents) /\ Len(stream') = Len(stream) + 1
          /\ stream'[Len(stream) + 1] = event
          /\ \A i \in 1 .. Len(stream) : stream'[i] = stream[i]
      BY <2>1, AppendProperties DEF CallsInv, StreamSound
    <3>0. Len(stream) \in Nat
      BY DEF CallsInv, StreamSound
    <3>2. ASSUME NEW i \in 1 .. Len(stream'), stream'[i].kind \in OrderEvents
          PROVE  stream'[i].key \in Listed /\ chain'[stream'[i].key].status # "absent"
      <4>1. CASE i = Len(stream) + 1
        BY <3>1, <3>2, <4>1 DEF Placed
      <4>2. CASE i # Len(stream) + 1
        <5>1. i \in 1 .. Len(stream) /\ stream'[i] = stream[i]
          BY <3>0, <3>1, <4>2
        <5> QED BY <3>2, <5>1 DEF CallsInv, StreamSound, Placed
      <4> QED BY <4>1, <4>2
    <3> QED BY <3>1, <3>2 DEF StreamSound, Placed
  <2>2. CASE UNCHANGED stream
    BY <2>2 DEF CallsInv, StreamSound, Placed
  <2> QED BY <2>1, <2>2 DEF Emit
<1>4. TaskSound'
  BY <1>1 DEF CallsInv, TaskSound, BeforeBook, AfterBook, Placed
<1>5. RequestsSound'
  BY <1>1, RequestsKept DEF CallsInv
<1>6. OrdersListed'
  BY <1>1 DEF CallsInv, OrdersListed, indexVars
<1> QED BY <1>1, <1>2, <1>3, <1>4, <1>5, <1>6 DEF CallsInv

LEMMA OrderStepKeeps ==
  ASSUME CallsInv, NEW kind \in OrderEvents, NEW k \in Listed, NEW new,
         SoundState(new), new.status # "absent", SoundChange(kind, chain[k], new),
         OrderStep(kind, k, new)
  PROVE  CallsInv' /\ UNCHANGED indexVars
<1> PICK event : event = [kind |-> kind, key |-> k, old |-> chain[k], new |-> new]
  OBVIOUS
<1>1. /\ SoundState(chain[k]) /\ chain[k] \in ChainOrders /\ new \in ChainOrders
      /\ chain \in [Listed -> ChainOrders]
  BY DEF CallsInv, ChainSound, SoundState
<1>2. event \in SoundEvents
  BY <1>1 DEF SoundEvents, SoundOrderEvents, AnyOrderEvents
<1>3. chain' = [chain EXCEPT ![k] = new] /\ Emit(event)
  BY DEF OrderStep
<1>4. ChainSound'
  BY <1>1, <1>3 DEF CallsInv, ChainSound
<1>5. \A j \in Listed : Placed(j) => Placed(j)'
  BY <1>1, <1>3 DEF Placed
<1>6. Placed(event.key)'
  BY <1>1, <1>3 DEF Placed
<1> QED BY <1>2, <1>3, <1>4, <1>5, <1>6, EmitKeeps

\* What a placed order that rests on the chain looks like.
LEMMA RestingFact ==
  ASSUME CallsInv, NEW k \in Listed, Remaining(chain[k]) > 0
  PROVE  /\ chain[k] \in [status : Cancellable, size : Nat, filled : Nat]
         /\ chain[k].size \in 1 .. MaxAmount /\ chain[k].filled \in 0 .. MaxAmount
         /\ chain[k].filled < chain[k].size
         /\ Remaining(chain[k]) = chain[k].size - chain[k].filled
  BY MaxAmountAssumption DEF CallsInv, ChainSound, SoundState, ChainOrders, Remaining, Amounts,
       Cancellable, Statuses

LEMMA PlaceKeeps ==
  ASSUME CallsInv, NEW k \in Listed, Place(k)
  PROVE  CallsInv' /\ UNCHANGED indexVars
<1> DEFINE new == [status |-> "open", size |-> OrderAmount[k], filled |-> 0]
<1>1. OrderAmount[k] \in 1 .. MaxAmount
  BY KeyFact, MaxAmountAssumption DEF Amounts
<1>2. SoundState(new) /\ new.status # "absent"
  BY <1>1, MaxAmountAssumption DEF SoundState, ChainOrders, Amounts, Statuses, Cancellable
<1>3. SoundChange("created", chain[k], new)
  BY DEF Place, SoundChange, CallsInv, ChainSound, SoundState
<1>4. OrderStep("created", k, new)
  BY DEF Place
<1> HIDE DEF new
<1> QED BY <1>2, <1>3, <1>4, OrderStepKeeps DEF OrderEvents

LEMMA FillKeeps ==
  ASSUME CallsInv, NEW k \in Listed, Fill(k)
  PROVE  CallsInv' /\ UNCHANGED indexVars
<1> PICK amount \in 1 .. Remaining(chain[k]) :
      OrderStep("filled", k,
                [chain[k] EXCEPT !.filled = @ + amount,
                                 !.status = IF amount = Remaining(chain[k]) THEN "filled"
                                            ELSE "partial_filled"])
  BY DEF Fill
<1>1. PICK new :
        /\ new = [chain[k] EXCEPT !.filled = @ + amount,
                                  !.status = IF amount = Remaining(chain[k]) THEN "filled"
                                             ELSE "partial_filled"]
        /\ OrderStep("filled", k, new)
  OBVIOUS
<1>2. Remaining(chain[k]) > 0
  <2>1. Remaining(chain[k]) \in Nat
    BY MaxAmountAssumption DEF CallsInv, ChainSound, SoundState, ChainOrders, Remaining, Amounts
  <2> QED BY <1>1, <2>1
<1>3. /\ chain[k] \in [status : Cancellable, size : Nat, filled : Nat]
      /\ chain[k].size \in 1 .. MaxAmount /\ chain[k].filled \in 0 .. MaxAmount
      /\ Remaining(chain[k]) = chain[k].size - chain[k].filled
  BY <1>2, RestingFact
<1>4. /\ new \in [status : {"filled", "partial_filled"}, size : Nat, filled : Nat]
      /\ new.size = chain[k].size /\ new.filled = chain[k].filled + amount
      /\ new.filled <= new.size
      /\ new.status = IF new.filled = new.size THEN "filled" ELSE "partial_filled"
  <2> PICK status \in {"filled", "partial_filled"}, filled \in Nat :
        /\ status = IF amount = Remaining(chain[k]) THEN "filled" ELSE "partial_filled"
        /\ filled = chain[k].filled + amount
    BY <1>3
  <2>0. new = [chain[k] EXCEPT !.filled = filled, !.status = status]
    BY <1>1
  <2>1. /\ new \in [status : {"filled", "partial_filled"}, size : Nat, filled : Nat]
        /\ new.size = chain[k].size /\ new.filled = filled /\ new.status = status
    BY <1>3, <2>0
  <2>2. amount = Remaining(chain[k]) <=> new.filled = new.size
    BY <1>3, <2>1
  <2> QED BY <1>3, <2>1, <2>2
<1>5. SoundState(new) /\ new.status # "absent"
  BY <1>3, <1>4, MaxAmountAssumption DEF SoundState, ChainOrders, Amounts, Statuses, Cancellable
<1>6. SoundChange("filled", chain[k], new)
  BY <1>3, <1>4, MaxAmountAssumption DEF SoundChange
<1> QED BY <1>1, <1>5, <1>6, OrderStepKeeps DEF OrderEvents

LEMMA AmendKeeps ==
  ASSUME CallsInv, NEW k \in Listed, Amend(k)
  PROVE  CallsInv' /\ UNCHANGED indexVars
<1> PICK size \in Sizes : /\ size > chain[k].filled
                         /\ OrderStep("updated", k, [chain[k] EXCEPT !.size = size])
  BY DEF Amend
<1>1. PICK new : new = [chain[k] EXCEPT !.size = size] /\ OrderStep("updated", k, new)
  OBVIOUS
<1>2. /\ chain[k] \in [status : Cancellable, size : Nat, filled : Nat]
      /\ chain[k].filled \in 0 .. MaxAmount
  BY RestingFact DEF Amend
<1>3. size \in 1 .. MaxAmount
  BY ListedAssumption, MaxAmountAssumption DEF Amounts
<1>4. /\ new \in [status : Cancellable, size : Nat, filled : Nat]
      /\ new.status = chain[k].status /\ new.size = size /\ new.filled = chain[k].filled
  BY <1>1, <1>2, <1>3
<1>5. SoundState(new) /\ new.status # "absent"
  BY <1>1, <1>2, <1>3, <1>4, MaxAmountAssumption
     DEF CallsInv, ChainSound, SoundState, ChainOrders, Amounts, Statuses, Cancellable
<1>6. SoundChange("updated", chain[k], new)
  BY <1>1, <1>2, <1>3, <1>4, MaxAmountAssumption DEF SoundChange
<1> QED BY <1>1, <1>5, <1>6, OrderStepKeeps DEF OrderEvents

LEMMA WithdrawKeeps ==
  ASSUME CallsInv, NEW k \in Listed, Withdraw(k)
  PROVE  CallsInv' /\ UNCHANGED indexVars
<1>1. PICK new : /\ new = [chain[k] EXCEPT !.status = "cancelled"]
                 /\ OrderStep("cancelled", k, new)
  BY DEF Withdraw
<1>2. /\ chain[k] \in [status : Cancellable, size : Nat, filled : Nat]
      /\ chain[k].size \in 1 .. MaxAmount /\ chain[k].filled \in 0 .. MaxAmount
      /\ chain[k].filled < chain[k].size
  BY RestingFact DEF Withdraw
<1>3. /\ new \in [status : {"cancelled"}, size : Nat, filled : Nat]
      /\ new.size = chain[k].size /\ new.filled = chain[k].filled
  BY <1>1, <1>2
<1>4. SoundState(new) /\ new.status # "absent"
  BY <1>2, <1>3, MaxAmountAssumption DEF SoundState, ChainOrders, Amounts, Statuses, Cancellable
<1>5. SoundChange("cancelled", chain[k], new)
  BY <1>2, <1>3 DEF SoundChange
<1> QED BY <1>1, <1>4, <1>5, OrderStepKeeps DEF OrderEvents

LEMMA ChainStepKeeps ==
  ASSUME CallsInv, ChainStep
  PROVE  CallsInv' /\ UNCHANGED indexVars
<1>1. ASSUME NEW m \in Markets, NEW kind \in {"market", "resolved"}, UNCHANGED chain,
             Emit([kind |-> kind, market |-> m])
      PROVE  CallsInv' /\ UNCHANGED indexVars
  <2> DEFINE event == [kind |-> kind, market |-> m]
  <2>1. event \in SoundEvents /\ event.kind \notin OrderEvents
    BY DEF SoundEvents, MarketEvents, OrderEvents
  <2>2. ChainSound' /\ \A k \in Listed : Placed(k) => Placed(k)'
    BY <1>1 DEF CallsInv, ChainSound, Placed
  <2> HIDE DEF event
  <2> QED BY <1>1, <2>1, <2>2, EmitKeeps DEF event
<1>2. ASSUME NEW m \in Markets, CreateMarket(m) \/ SettleMarket(m)
      PROVE  CallsInv' /\ UNCHANGED indexVars
  BY <1>1, <1>2 DEF CreateMarket, SettleMarket
<1>3. ASSUME NEW k \in Listed, Place(k) \/ Fill(k) \/ Amend(k) \/ Withdraw(k)
      PROVE  CallsInv' /\ UNCHANGED indexVars
  BY <1>3, PlaceKeeps, FillKeeps, AmendKeeps, WithdrawKeeps
<1> QED BY <1>2, <1>3 DEF ChainStep

---------------------------------------------------------------------------
(* Requests.                                                               *)

LEMMA RequestChangeKeeps ==
  ASSUME CallsInv, NEW r \in Requests, NEW q, Go(r, q), SoundRequest(q)',
         UNCHANGED <<task, chain, stream>>, touched \subseteq touched',
         UNCHANGED indexVars \/ IndexCall,
         \A k \in DOMAIN orders' : k \in DOMAIN orders \/ k \in Listed
  PROVE  CallsInv'
<1>1. IndexInv'
  BY IndexKept DEF CallsInv
<1>2. \A k : Placed(k) <=> Placed(k)'
  BY DEF Placed
<1>3. ASSUME NEW p \in Requests
      PROVE  SoundRequest(requests[p])'
  <2>1. CASE p = r
    BY <2>1 DEF Go, CallsInv, RequestsSound, SoundRequest
  <2>2. CASE p # r
    BY <2>2 DEF Go, CallsInv, RequestsSound, SoundRequest, Placed
  <2> QED BY <2>1, <2>2
<1>4. RequestsSound'
  BY <1>3 DEF RequestsSound, CallsInv, Go
<1>5. OrdersListed'
  BY DEF OrdersListed, CallsInv
<1>6. ChainSound' /\ StreamSound' /\ TaskSound'
  BY DEF CallsInv, ChainSound, StreamSound, TaskSound, BeforeBook, AfterBook, Placed
<1> QED BY <1>1, <1>4, <1>5, <1>6 DEF CallsInv

\* The steps of requests that make no call which writes the index.
LEMMA QuietRequestKeeps ==
  ASSUME CallsInv, NEW r \in Requests,
         \/ GetBook(r) \/ GetBookWrite(r) \/ GetBookFails(r)
         \/ IndexFromEvent(r) \/ IndexApply(r) \/ IndexPublish(r) \/ IndexSend(r)
         \/ MarkCancelled(r)
  PROVE  CallsInv' /\ UNCHANGED indexVars
<1>1. UNCHANGED <<indexVars, task, chain, stream, touched>>
  BY DEF GetBook, GetBookWrite, GetBookFails, IndexFromEvent, IndexApply, IndexPublish,
         IndexSend, MarkCancelled, othersOfRequest, writtenVars, chainVars, streamVars
<1>2. UNCHANGED orders
  BY <1>1 DEF indexVars
<1>3. \A k : Placed(k)' <=> Placed(k)
  BY <1>1 DEF Placed
<1>4. ASSUME NEW q, Go(r, q), SoundRequest(q)'
      PROVE  CallsInv'
  BY <1>1, <1>2, <1>4, RequestChangeKeeps
<1>5. CASE GetBook(r)
  <2> PICK q : q.kind = "book" /\ Go(r, q)
    BY <1>5 DEF GetBook, Begin, Go
  <2>1. SoundRequest(q)'
    BY DEF SoundRequest
  <2> QED BY <1>1, <1>4, <2>1
<1>6. CASE GetBookWrite(r) \/ GetBookFails(r) \/ IndexSend(r)
  <2>1. Go(r, Nothing)
    BY <1>6 DEF GetBookWrite, GetBookFails, IndexSend
  <2>2. SoundRequest(Nothing)'
    BY DEF SoundRequest
  <2> QED BY <1>1, <1>4, <2>1, <2>2
<1>7. CASE IndexFromEvent(r)
  <2> PICK k \in Listed, body \in Bodies, skip_book \in BOOLEAN :
        Begin(r, [kind |-> "index", key |-> k, body |-> body, is_new |-> ~HasOrder(k),
                  stage |-> IF HasOrder(k) \/ skip_book THEN "indexing" ELSE "applying"])
    BY <1>7 DEF IndexFromEvent
  <2> PICK is_new \in BOOLEAN : is_new = ~HasOrder(k)
    OBVIOUS
  <2> PICK stage \in {"applying", "indexing"} :
        stage = IF HasOrder(k) \/ skip_book THEN "indexing" ELSE "applying"
    OBVIOUS
  <2> PICK q : /\ q = [kind |-> "index", key |-> k, body |-> body, is_new |-> is_new,
                       stage |-> stage]
               /\ Go(r, q)
    BY DEF Begin, Go
  <2>1. SoundRequest(q)'
    BY DEF SoundRequest, IndexRequests
  <2> QED BY <1>1, <1>4, <2>1
<1>8. CASE IndexApply(r)
  <2>1. requests[r] \in IndexRequests
    BY <1>8 DEF IndexApply, At, CallsInv, RequestsSound, SoundRequest
  <2>2. PICK q : q = [requests[r] EXCEPT !.stage = "indexing"] /\ Go(r, q)
    BY <1>8 DEF IndexApply
  <2>3. SoundRequest(q)'
    BY <2>1, <2>2 DEF SoundRequest, IndexRequests
  <2> QED BY <1>1, <1>4, <2>2, <2>3
<1>9. CASE IndexPublish(r)
  <2>1. requests[r].key \in touched
    BY <1>9 DEF IndexPublish, At, CallsInv, RequestsSound, SoundRequest, IndexRequests
  <2>2. PICK q : /\ q.kind = "index" /\ q.stage = "sending" /\ q.key = requests[r].key
                 /\ Go(r, q)
    BY <1>9 DEF IndexPublish, Go
  <2>3. SoundRequest(q)'
    BY <1>1, <2>1, <2>2 DEF SoundRequest
  <2> QED BY <1>1, <1>4, <2>2, <2>3
<1>10. CASE MarkCancelled(r)
  <2> PICK k \in DOMAIN orders :
        Begin(r, [kind |-> "cancelled", stage |-> "writing", key |-> <<ContextSpot(k), k[2]>>])
    BY <1>10 DEF MarkCancelled
  <2>1. PICK q :
          /\ q = [kind |-> "cancelled", stage |-> "writing", key |-> <<ContextSpot(k), k[2]>>]
          /\ Go(r, q)
    BY DEF Begin, Go
  <2>2. k \in Keys /\ ContextSpot(k) = k[1]
    BY DEF CallsInv, IndexInv, IndexTypeOK, IsMap, ContextRoundTrips
  <2>3. q.key \in Keys
    BY <2>1, <2>2 DEF Keys
  <2>4. SoundRequest(q)'
    BY <2>1, <2>3 DEF SoundRequest
  <2> QED BY <1>1, <1>4, <2>1, <2>4
<1> QED BY <1>5, <1>6, <1>7, <1>8, <1>9, <1>10

\* index_order_created adds at most the order that it is about.
LEMMA IndexOrderDomain ==
  ASSUME NEW key, NEW body, IndexOrder(key, body)
  PROVE  DOMAIN orders' \subseteq DOMAIN orders \cup {key}
  BY DEF IndexOrder, Put

LEMMA ChangeDomain ==
  ASSUME NEW key, NEW stored, Change(key, stored)
  PROVE  DOMAIN orders' = DOMAIN orders
  BY DEF Change

LEMMA IndexInsertKeeps ==
  ASSUME CallsInv, NEW r \in Requests, IndexInsert(r)
  PROVE  CallsInv' /\ IndexCall
<1> PICK k : k = requests[r].key
  OBVIOUS
<1>1. requests[r] \in IndexRequests /\ k \in Listed /\ k \in Keys
  BY KeyFact DEF IndexInsert, At, CallsInv, RequestsSound, SoundRequest, IndexRequests
<1>2. /\ IndexOrder(k, requests[r].body)
      /\ touched' = touched \cup {k}
      /\ UNCHANGED <<task, chain, stream>>
  BY DEF IndexInsert, Wrote, othersOfRequest, chainVars, streamVars
<1>3. requests[r].body \in OrderBodies
  BY <1>1, BodiesAssumption DEF IndexRequests
<1>7. IndexCall
  BY <1>1, <1>2, <1>3 DEF IndexCall
<1>4. PICK q : /\ q = Nothing \/ q = [requests[r] EXCEPT !.stage = "publishing"]
               /\ Go(r, q)
  BY DEF IndexInsert
<1>5. SoundRequest(q)'
  BY <1>1, <1>2, <1>4 DEF SoundRequest, IndexRequests
<1>6. DOMAIN orders' \subseteq DOMAIN orders \cup {k}
  BY <1>2, IndexOrderDomain
<1> QED BY <1>1, <1>2, <1>7, <1>4, <1>5, <1>6, RequestChangeKeeps

LEMMA MarkCancelledKeeps ==
  ASSUME CallsInv, NEW r \in Requests, MarkCancelledWrite(r)
  PROVE  CallsInv' /\ IndexCall
<1> PICK k : k = requests[r].key
  OBVIOUS
<1>1. k \in Keys
  BY DEF MarkCancelledWrite, At, CallsInv, RequestsSound, SoundRequest, IndexRequests
<1>2. /\ UpdateCancelled(k) /\ touched \subseteq touched' /\ Go(r, Nothing)
      /\ UNCHANGED <<task, chain, stream>>
  BY DEF MarkCancelledWrite, Wrote, othersOfRequest, chainVars, streamVars
<1>3. IndexCall
  BY <1>1, <1>2 DEF IndexCall, IndexNext
<1>4. SoundRequest(Nothing)'
  BY DEF SoundRequest
<1>5. DOMAIN orders' = DOMAIN orders
  BY <1>2, ChangeDomain DEF UpdateCancelled
<1> QED BY <1>2, <1>3, <1>4, <1>5, RequestChangeKeeps

---------------------------------------------------------------------------
(* The task.                                                               *)

\* Steps that neither handle an event nor call the index.
LEMMA QuietTaskKeeps ==
  ASSUME CallsInv,
         \/ Restart \/ Connect \/ ConnectFails \/ Disconnect \/ HydrateRead \/ HydrateWrite
         \/ HydrateFails \/ Ensure \/ Apply \/ PublishRead \/ PublishTrade \/ PublishSend
  PROVE  CallsInv' /\ UNCHANGED indexVars
<1>1. UNCHANGED <<indexVars, requests, touched, chain>> /\ (UNCHANGED stream \/ stream' = <<>>)
  BY DEF Restart, Connect, ConnectFails, Disconnect, HydrateRead, HydrateWrite, HydrateFails,
         Ensure, Apply, PublishRead, PublishTrade, PublishSend, httpVars, chainVars, streamVars
<1>2. UNCHANGED orders
  BY <1>1 DEF indexVars
<1>3. StreamSound'
  <2>1. CASE UNCHANGED stream
    BY <1>1, <2>1 DEF CallsInv, StreamSound, Placed
  <2>2. CASE stream' = <<>>
    BY <2>2 DEF StreamSound
  <2> QED BY <1>1, <2>1, <2>2
<1>4. SUFFICES TaskSound'
  BY <1>1, <1>2, <1>3, TaskStepKeeps
<1>5. ASSUME NEW stage \in {"stopped", "connecting", "receiving"}, task' = Idle(stage)
      PROVE  TaskSound'
  BY <1>5 DEF Idle, TaskSound, BeforeBook, AfterBook
<1> DEFINE Same == /\ DOMAIN task' = DOMAIN task /\ task'.event = task.event
                   /\ task'.spot = task.spot
<1>6. ASSUME Same, BeforeBook \/ AfterBook, task'.stage # "hydrating"
      PROVE  TaskSound'
  BY <1>1, <1>6 DEF CallsInv, TaskSound, BeforeBook, AfterBook, Placed
<1>7. CASE Connect \/ ConnectFails \/ Disconnect \/ PublishSend
  BY <1>5, <1>7 DEF Connect, ConnectFails, Disconnect, PublishSend
<1>8. CASE Restart
  <2>1. PICK list : task' = Hydrating(Idle("stopped"), list, "connecting")
    BY <1>8 DEF Restart
  <2>2. CASE list = <<>>
    BY <1>5, <2>1, <2>2 DEF Hydrating
  <2>3. CASE list # <<>>
    BY <2>1, <2>3 DEF Hydrating, Idle, TaskSound, BeforeBook, AfterBook
  <2> QED BY <2>2, <2>3
<1>9. CASE HydrateRead
  BY <1>1, <1>9 DEF HydrateRead, CallsInv, TaskSound, BeforeBook, AfterBook, Placed
<1>10. ASSUME NEW resume, task.stage = "hydrating", task' = NextSpot(task, resume),
              \/ resume = task.resume
              \/ task.resume = "applying" /\ resume = "indexing"
       PROVE  TaskSound'
  <2>1. CASE task.resume = "applying"
    <3>1. Tail(task.todo) = <<>>
      <4>1. task.todo = <<task.spot>>
        BY <1>10, <2>1 DEF CallsInv, TaskSound
      <4>2. Tail(<<task.spot>>) = <<>>
        OBVIOUS
      <4> QED BY <4>1, <4>2
    <3>2. Same /\ task'.stage = resume /\ BeforeBook
      BY <1>10, <2>1, <3>1 DEF NextSpot, CallsInv, TaskSound, BeforeBook
    <3> QED BY <1>6, <1>10, <2>1, <3>2
  <2>2. CASE task.resume # "applying"
    <3>1. task.resume \in {"receiving", "connecting"} /\ resume = task.resume
      BY <1>10, <2>2 DEF CallsInv, TaskSound
    <3> QED BY <1>10, <3>1 DEF NextSpot, CallsInv, TaskSound, BeforeBook, AfterBook
  <2> QED BY <2>1, <2>2
<1>11. CASE HydrateWrite \/ HydrateFails
  <2>1. CASE HydrateFails /\ task.resume = "applying"
    <3>1. task.stage = "hydrating" /\ task' = NextSpot(task, "indexing")
      BY <2>1 DEF HydrateFails
    <3> QED BY <1>10, <2>1, <3>1
  <2>2. CASE HydrateWrite \/ task.resume # "applying"
    <3>1. /\ task.stage = "hydrating"
          /\ task' = NextSpot(task, task.resume)
      BY <1>11, <2>2 DEF HydrateWrite, HydrateFails
    <3> QED BY <1>10, <3>1
  <2> QED BY <1>11, <2>1, <2>2
<1>12. CASE Ensure
  <2>1. CASE task.spot \in chain_hydrated
    <3>1. Same /\ task'.stage = "applying" /\ BeforeBook
      BY <1>12, <2>1 DEF Ensure, BeforeBook, CallsInv, TaskSound
    <3> QED BY <1>6, <3>1
  <2>2. CASE task.spot \notin chain_hydrated
    <3>1. task' = [task EXCEPT !.stage = "hydrating", !.todo = <<task.spot>>,
                              !.resume = "applying"]
      BY <1>12, <2>2 DEF Ensure, Hydrating
    <3>2. Same /\ task'.todo = <<task.spot>> /\ task'.resume = "applying"
          /\ task'.stage = "hydrating"
      BY <3>1 DEF CallsInv, TaskSound
    <3>3. BeforeBook
      BY <1>12 DEF Ensure, BeforeBook
    <3> QED BY <1>1, <3>2, <3>3 DEF CallsInv, TaskSound, BeforeBook, AfterBook, Placed
  <2> QED BY <2>1, <2>2
<1>13. CASE Apply
  BY <1>6, <1>13 DEF Apply, BeforeBook, CallsInv, TaskSound
<1>14. CASE PublishRead \/ PublishTrade
  <2>1. CASE task' = Idle("receiving")
    BY <1>5, <2>1
  <2>2. CASE task' # Idle("receiving")
    <3>1. Same /\ task'.stage \in {"trading", "sending"} /\ AfterBook
      BY <1>14, <2>2 DEF PublishRead, PublishTrade, AfterRead, AfterBook, CallsInv, TaskSound
    <3> QED BY <1>6, <3>1
  <2> QED BY <2>1, <2>2
<1> QED BY <1>7, <1>8, <1>9, <1>11, <1>12, <1>13, <1>14

\* What order_created is indexed with.
LEMMA OpenedFact ==
  ASSUME NEW k \in Listed, NEW amount \in Amounts
  PROVE  Opened(k, amount) \in OrderBodies
  BY ListedAssumption, MaxAmountAssumption
     DEF Opened, OrderBodies, Statuses, Cancellable, Amounts

LEMMA IndexEventKeeps ==
  ASSUME CallsInv, IndexEvent
  PROVE  CallsInv' /\ IndexCall
<1> PICK event, key : event = task.event /\ key = TaskKey
  OBVIOUS
<1>1. /\ event \in SoundOrderEvents /\ Placed(event.key)
      /\ key \in Keys
      /\ event.kind = "created" => key = event.key
  <2>1. /\ event \in SoundOrderEvents /\ Placed(event.key) /\ task.spot \in Spots
        /\ event.kind = "created" => task.spot = event.key[1]
    BY DEF IndexEvent, AfterBook, CallsInv, TaskSound
  <2> QED BY <2>1, KeyFact DEF TaskKey, Keys, Placed
<1>2. /\ UNCHANGED <<requests, touched, chain, stream>>
      /\ task' = [task EXCEPT !.stage = "publishing"] /\ task.stage = "indexing"
  BY DEF IndexEvent, httpVars, chainVars, streamVars
<1>3. /\ event.new.size \in Amounts \ {0} /\ event.new.filled \in Nat
      /\ Remaining(event.new) \in Amounts
      /\ event.kind = "filled" => event.new.filled - event.old.filled \in Amounts \ {0}
  BY <1>1, MaxAmountAssumption
     DEF SoundOrderEvents, AnyOrderEvents, SoundState, SoundChange, ChainOrders, Amounts, Remaining
<1>4. /\ event.kind \in OrderEvents
      /\ event.kind = "created" => IndexOrder(key, Opened(event.key, event.new.size))
      /\ event.kind = "updated" => UpdateAmount(key, event.new.size, Remaining(event.new))
      /\ event.kind = "filled" =>
           UpdateFill(key, event.new.filled - event.old.filled, Remaining(event.new),
                      event.new.status = "filled")
      /\ event.kind = "cancelled" => UpdateCancelled(key)
  BY <1>1 DEF IndexEvent, SoundOrderEvents, AnyOrderEvents
<1>5. IndexCall /\ \A k \in DOMAIN orders' : k \in DOMAIN orders \/ k \in Listed
  <2>1. CASE event.kind = "created"
    <3>1. PICK body : body = Opened(event.key, event.new.size)
      OBVIOUS
    <3>2. body \in OrderBodies
      BY <1>1, <1>3, <3>1, OpenedFact DEF Placed
    <3>3. IndexOrder(key, body)
      BY <1>4, <2>1, <3>1
    <3>4. DOMAIN orders' \subseteq DOMAIN orders \cup {key}
      BY <3>3, IndexOrderDomain
    <3> QED BY <1>1, <2>1, <3>2, <3>3, <3>4 DEF IndexCall, Placed
  <2>2. CASE event.kind # "created"
    <3> PICK fully \in BOOLEAN : fully = (event.new.status = "filled")
      OBVIOUS
    <3>1. \/ UpdateAmount(key, event.new.size, Remaining(event.new))
          \/ /\ event.kind = "filled"
             /\ UpdateFill(key, event.new.filled - event.old.filled, Remaining(event.new),
                           fully)
          \/ UpdateCancelled(key)
      BY <1>4, <2>2 DEF OrderEvents
    <3>2. IndexNext
      BY <1>1, <1>3, <3>1 DEF IndexNext
    <3>3. DOMAIN orders' = DOMAIN orders
      BY <3>1, ChangeDomain DEF UpdateAmount, UpdateFill, UpdateCancelled
    <3> QED BY <3>2, <3>3 DEF IndexCall
  <2> QED BY <2>1, <2>2
<1>6. TaskSound'
  BY <1>2 DEF CallsInv, TaskSound, BeforeBook, AfterBook, Placed
<1>7. StreamSound'
  BY <1>2 DEF CallsInv, StreamSound, Placed
<1> QED BY <1>2, <1>5, <1>6, <1>7, TaskStepKeeps

---------------------------------------------------------------------------
(* The stream.                                                             *)

LEMMA ReceiveFact ==
  ASSUME CallsInv, NEW event, Receive(event)
  PROVE  /\ event \in SoundEvents
         /\ event.kind \in OrderEvents => event \in SoundOrderEvents /\ Placed(event.key)
         /\ StreamSound'
         /\ UNCHANGED <<requests, touched, chain>>
<1>1. /\ stream \in Seq(SoundEvents) /\ stream # <<>> /\ stream' = Tail(stream)
      /\ event = Head(stream) /\ UNCHANGED <<requests, touched, chain>>
  BY DEF CallsInv, StreamSound, Receive, httpVars, chainVars
<1>2. /\ event \in SoundEvents /\ stream' \in Seq(SoundEvents)
      /\ Len(stream') = Len(stream) - 1
      /\ \A i \in 1 .. Len(stream') : stream'[i] = stream[i + 1]
  BY <1>1, HeadTailProperties
<1>3. Len(stream) \in Nat \ {0} /\ event = stream[1]
  BY <1>1
<1>4. event.kind \in OrderEvents => event \in SoundOrderEvents /\ Placed(event.key)
  BY <1>2, <1>3 DEF CallsInv, StreamSound, SoundEvents, MarketEvents, OrderEvents
<1>5. ASSUME NEW i \in 1 .. Len(stream'), stream'[i].kind \in OrderEvents
      PROVE  stream'[i].key \in Listed /\ chain'[stream'[i].key].status # "absent"
  <2>1. i + 1 \in 1 .. Len(stream) /\ stream'[i] = stream[i + 1]
    BY <1>2, <1>3
  <2> QED BY <1>1, <1>5, <2>1 DEF CallsInv, StreamSound, Placed
<1> QED BY <1>1, <1>2, <1>4, <1>5 DEF StreamSound, Placed

LEMMA HandlingFact ==
  ASSUME NEW stage \in {"ensuring", "applying"}, NEW event \in SoundOrderEvents, NEW spot \in Spots,
         Placed(event.key), UNCHANGED chain,
         spot = event.key[1] \/ (event.key \in Anonymous /\ event.kind \in {"updated", "cancelled"}),
         task' = Handling(stage, event, spot)
  PROVE  TaskSound'
<1>1. /\ DOMAIN task' = {"stage", "event", "spot", "todo", "answer", "resume"}
      /\ task'.stage = stage /\ task'.event = event /\ task'.spot = spot
  BY DEF Handling, Idle
<1> QED BY <1>1 DEF TaskSound, BeforeBook, AfterBook, Placed

\* The loops that hydrate several spot markets outside of a handler.
LEMMA HydratingFact ==
  ASSUME NEW todo, task' = Hydrating(Idle("receiving"), todo, "receiving")
  PROVE  TaskSound'
  BY DEF Hydrating, Idle, TaskSound, BeforeBook, AfterBook

LEMMA ReceiveMarketKeeps ==
  ASSUME CallsInv, ReceiveMarket \/ ReceiveResolved
  PROVE  CallsInv' /\ IndexCall
<1>1. ASSUME NEW m \in Markets, Receive([kind |-> "market", market |-> m]), IndexMarket(m),
             task' = Hydrating(Idle("receiving"), SpotsOf[m], "receiving")
      PROVE  CallsInv' /\ IndexCall
  <2>1. IndexCall /\ UNCHANGED orders
    BY <1>1 DEF IndexCall, IndexNext, IndexMarket
  <2>2. TaskSound'
    BY <1>1, HydratingFact
  <2>3. StreamSound' /\ UNCHANGED <<requests, touched, chain>>
    BY <1>1, ReceiveFact
  <2> QED BY <2>1, <2>2, <2>3, TaskStepKeeps
<1>2. ASSUME NEW m \in Markets, Receive([kind |-> "resolved", market |-> m]),
             ResolveMarket(m), UNCHANGED task
      PROVE  CallsInv' /\ IndexCall
  <2>1. IndexCall /\ UNCHANGED orders
    BY <1>2 DEF IndexCall, IndexNext, ResolveMarket
  <2>2. StreamSound' /\ UNCHANGED <<requests, touched, chain>>
    BY <1>2, ReceiveFact
  <2>3. TaskSound'
    BY <1>2, <2>2 DEF CallsInv, TaskSound, BeforeBook, AfterBook, Placed
  <2> QED BY <2>1, <2>2, <2>3, TaskStepKeeps
<1> QED BY <1>1, <1>2 DEF ReceiveMarket, ReceiveResolved

LEMMA ReceiveOrderKeeps ==
  ASSUME CallsInv,
         ReceiveCreated \/ ReceiveCancelled \/ ReceiveUpdated \/ ReceiveFilled
  PROVE  CallsInv' /\ (UNCHANGED indexVars \/ IndexCall)
<1> PICK event : event = Head(stream)
  OBVIOUS
<1>1. Receive(event) /\ event.kind \in {"created", "updated", "filled", "cancelled"}
  BY DEF ReceiveCreated, ReceiveCancelled, ReceiveUpdated, ReceiveFilled, ReceiveOrderEvent
<1>2. /\ event \in SoundOrderEvents /\ Placed(event.key) /\ StreamSound'
      /\ UNCHANGED <<requests, touched, chain>>
  BY <1>1, ReceiveFact DEF OrderEvents
<1>3. event.key \in Listed /\ event.key[1] \in Spots /\ OrderPrice[event.key] \in Prices
  BY <1>2, KeyFact DEF Placed
<1>4. SUFFICES TaskSound' /\ UNCHANGED orders /\ (UNCHANGED indexVars \/ IndexCall)
  BY <1>2, TaskStepKeeps
<1>5. ASSUME NEW stage \in {"ensuring", "applying"}, Resolve(event, stage),
             event.kind \in {"updated", "cancelled"}
      PROVE  TaskSound'
  <2> DEFINE found == IF event.key \in Anonymous THEN SpotsWithOrder(event.key[2])
                      ELSE {event.key[1]}
  <2>1. CASE Cardinality(found) = 1
    <3>1. found \subseteq Spots /\ (event.key \notin Anonymous => found = {event.key[1]})
      BY <1>3 DEF SpotsWithOrder
    <3>2. PICK s : found = {s}
      <4>1. IsFiniteSet(found)
        BY <3>1, SpotsAssumption, FS_Subset
      <4> QED BY <2>1, <4>1, FS_Singleton
    <3>3. PICK spot : spot = CHOOSE t \in found : TRUE
      OBVIOUS
    <3>4. spot = s /\ spot \in Spots
      BY <3>1, <3>2, <3>3
    <3>5. event.key \notin Anonymous => spot = event.key[1]
      BY <3>1, <3>2, <3>4
    <3>6. task' = Handling(stage, event, spot)
      BY <1>5, <2>1, <3>3 DEF Resolve
    <3> HIDE DEF found
    <3> QED BY <1>2, <1>5, <3>4, <3>5, <3>6, HandlingFact
  <2>2. CASE Cardinality(found) # 1
    BY <1>5, <2>2, HydratingFact DEF Resolve
  <2> QED BY <2>1, <2>2
<1>6. CASE ReceiveCreated
  <2>1. UNCHANGED indexVars /\ UNCHANGED orders
    BY <1>6 DEF ReceiveCreated, indexVars
  <2>2. CASE UNCHANGED task
    BY <1>2, <2>1, <2>2 DEF CallsInv, TaskSound, BeforeBook, AfterBook, Placed
  <2>3. CASE task' = Handling("ensuring", event, event.key[1])
    BY <1>2, <1>3, <2>1, <2>3, HandlingFact
  <2> QED BY <1>6, <2>1, <2>2, <2>3 DEF ReceiveCreated
<1>7. CASE ReceiveFilled
  <2>1. RecordTrade(event.key[1], OrderPrice[event.key])
        /\ task' = Handling("ensuring", event, event.key[1])
    BY <1>7 DEF ReceiveFilled
  <2>2. IndexCall /\ UNCHANGED orders
    BY <1>3, <2>1 DEF IndexCall, IndexNext, RecordTrade
  <2>3. TaskSound'
    BY <1>2, <1>3, <2>1, HandlingFact
  <2> QED BY <2>2, <2>3
<1>8. CASE ReceiveCancelled
  BY <1>5, <1>8 DEF ReceiveCancelled, ReceiveOrderEvent, indexVars
<1>9. CASE ReceiveUpdated
  BY <1>5, <1>9 DEF ReceiveUpdated, ReceiveOrderEvent, indexVars
<1> QED BY <1>6, <1>7, <1>8, <1>9

---------------------------------------------------------------------------
LEMMA CallsInitInv == Init => CallsInv
<1> SUFFICES ASSUME Init PROVE CallsInv
  OBVIOUS
<1>1. IndexInv /\ DOMAIN orders = {}
  BY IndexInitInv, EmptyFact DEF Init, IndexInit
<1>2. ChainSound
  BY MaxAmountAssumption
     DEF Init, ChainSound, SoundState, ChainOrders, Amounts, Statuses, Cancellable
<1>3. StreamSound
  BY DEF Init, StreamSound
<1>4. TaskSound
  BY DEF Init, Idle, TaskSound, BeforeBook, AfterBook
<1>5. RequestsSound
  BY DEF Init, RequestsSound, SoundRequest
<1> QED BY <1>1, <1>2, <1>3, <1>4, <1>5 DEF CallsInv, OrdersListed

LEMMA CallsNextInv ==
  ASSUME CallsInv, [Next]_vars
  PROVE  CallsInv' /\ (UNCHANGED indexVars \/ IndexCall)
<1>1. CASE UNCHANGED vars
  <2>1. /\ UNCHANGED <<indexVars, task, requests, chain, stream, touched>>
        /\ UNCHANGED orders
    BY <1>1 DEF vars, indexVars, chainVars, streamVars
  <2>2. TaskSound' /\ StreamSound'
    BY <2>1 DEF CallsInv, TaskSound, BeforeBook, AfterBook, StreamSound, Placed
  <2> QED BY <2>1, <2>2, TaskStepKeeps
<1>2. CASE ChainStep
  BY <1>2, ChainStepKeeps
<1>3. CASE IndexerStep \/ Disconnect
  BY <1>3, QuietTaskKeeps, IndexEventKeeps, ReceiveMarketKeeps, ReceiveOrderKeeps DEF IndexerStep
<1>4. ASSUME NEW r \in Requests,
             \/ GetBook(r) \/ GetBookFails(r) \/ IndexFromEvent(r) \/ MarkCancelled(r)
             \/ RequestStep(r)
      PROVE  CallsInv' /\ (UNCHANGED indexVars \/ IndexCall)
  BY <1>4, QuietRequestKeeps, IndexInsertKeeps, MarkCancelledKeeps DEF RequestStep
<1> QED BY <1>1, <1>2, <1>3, <1>4 DEF Next

\* What the index is called with is sound in every state of the indexer and
\* the requests beside it, and the invariants of the index hold
\* (processor.rs:76-383, orders.rs:157-239).
THEOREM IndexerSafety == Spec => []CallsInv
<1>1. CallsInv /\ [Next]_vars => CallsInv'
  BY CallsNextInv
<1> QED
  BY CallsInitInv, <1>1, PTL DEF Spec

\* In the running program every market is found under the slug it shows and
\* under no other (store.rs:144-156, processor.rs:94-115).
THEOREM IndexerKeepsSlugs == Spec => []SlugsAreInverse
<1>1. CallsInv => SlugsAreInverse
  BY DEF CallsInv, IndexInv
<1> QED
  BY IndexerSafety, <1>1, PTL

\* In the running program the context that is found for an order by its uuid
\* leads back to it, so mark_cancelled writes the order it was asked about
\* (store.rs:298-345, orders.rs:157-183).
THEOREM IndexerKeepsContexts == Spec => []ContextRoundTrips
<1>1. CallsInv => ContextRoundTrips
  BY DEF CallsInv, IndexInv
<1> QED
  BY IndexerSafety, <1>1, PTL
=============================================================================
