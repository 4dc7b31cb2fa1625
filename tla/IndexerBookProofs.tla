------------------------- MODULE IndexerBookProofs -------------------------
(***************************************************************************)
(* The books follow the stream, for any markets, orders, requests and      *)
(* bounds: TypeOK and BookTracksStream of Indexer.                         *)
(*                                                                         *)
(* A level is a number of units, so an event that changes one order moves  *)
(* one level by what it changes of that order's remainder (UnitsChange).   *)
(* That the book's saturating arithmetic loses nothing then needs that the *)
(* level fits before and after each event: of each state that the chain    *)
(* was in while the events were on their way (History).                    *)
(***************************************************************************)
EXTENDS IndexerTrackingProofs, WellFoundedInduction

---------------------------------------------------------------------------
(* Levels are counts of units.                                             *)

\* An order rests at a level, if it rests.
AtLevel(k, s, side, price) == k[1] = s /\ OrderSide[k] = side /\ OrderPrice[k] = price

LEMMA UnitFact ==
  ASSUME NEW resting, NEW s, NEW side, NEW price
  PROVE  /\ \A unit \in UnitsAt(resting, s, side, price) :
              /\ unit[1] \in Listed /\ unit = <<unit[1], unit[2]>>
              /\ AtLevel(unit[1], s, side, price) /\ unit[2] \in 1 .. Remaining(resting[unit[1]])
         /\ \A k \in Listed : \A n \in 1 .. Remaining(resting[k]) :
              AtLevel(k, s, side, price) => <<k, n>> \in UnitsAt(resting, s, side, price)
<1>1. ASSUME NEW unit \in UnitsAt(resting, s, side, price)
      PROVE  /\ unit[1] \in Listed /\ unit = <<unit[1], unit[2]>>
             /\ AtLevel(unit[1], s, side, price) /\ unit[2] \in 1 .. Remaining(resting[unit[1]])
  <2> PICK k \in Listed : /\ AtLevel(k, s, side, price)
                          /\ unit \in {k} \X (1 .. Remaining(resting[k]))
    BY DEF UnitsAt, AtLevel
  <2> QED OBVIOUS
<1>2. ASSUME NEW k \in Listed, NEW n \in 1 .. Remaining(resting[k]), AtLevel(k, s, side, price)
      PROVE  <<k, n>> \in UnitsAt(resting, s, side, price)
  <2>1. <<k, n>> \in {k} \X (1 .. Remaining(resting[k]))
    OBVIOUS
  <2> QED BY <1>2, <2>1 DEF UnitsAt, AtLevel
<1> QED BY <1>1, <1>2

\* A level is made of its orders alone.
LEMMA UnitsSame ==
  ASSUME NEW a, NEW b, NEW s, NEW side, NEW price,
         \A k \in Listed : AtLevel(k, s, side, price) => Remaining(a[k]) = Remaining(b[k])
  PROVE  UnitsAt(a, s, side, price) = UnitsAt(b, s, side, price)
<1>1. ASSUME NEW unit \in UnitsAt(a, s, side, price)
      PROVE  unit \in UnitsAt(b, s, side, price)
  BY UnitFact
<1>2. ASSUME NEW unit \in UnitsAt(b, s, side, price)
      PROVE  unit \in UnitsAt(a, s, side, price)
  BY UnitFact
<1> QED BY <1>1, <1>2

\* The units of the other orders.
OtherUnits(resting, k, s, side, price) ==
  {unit \in UnitsAt(resting, s, side, price) : unit[1] # k}

LEMMA UnitsSplit ==
  ASSUME NEW resting, NEW s, NEW side, NEW price, NEW k \in Listed, AtLevel(k, s, side, price),
         Remaining(resting[k]) \in Nat,
         IsFiniteSet(OtherUnits(resting, k, s, side, price))
  PROVE  /\ IsFiniteSet(UnitsAt(resting, s, side, price))
         /\ Cardinality(UnitsAt(resting, s, side, price))
              = Cardinality(OtherUnits(resting, k, s, side, price)) + Remaining(resting[k])
<1> DEFINE others == OtherUnits(resting, k, s, side, price)
           own == {k} \X (1 .. Remaining(resting[k]))
<1>1. UnitsAt(resting, s, side, price) = others \cup own
  <2>1. ASSUME NEW unit \in UnitsAt(resting, s, side, price)
        PROVE  unit \in others \cup own
    BY UnitFact DEF OtherUnits
  <2>2. ASSUME NEW unit \in own
        PROVE  unit \in UnitsAt(resting, s, side, price)
    <3>1. unit = <<k, unit[2]>> /\ unit[2] \in 1 .. Remaining(resting[k])
      OBVIOUS
    <3> QED BY <3>1, UnitFact
  <2> QED BY <2>1, <2>2 DEF OtherUnits
<1>2. others \cap own = {}
  BY DEF OtherUnits
<1>3. IsFiniteSet(own) /\ Cardinality(own) = Remaining(resting[k])
  <2> PICK n \in Nat : n = Remaining(resting[k])
    OBVIOUS
  <2>1. IsFiniteSet(1 .. n) /\ Cardinality(1 .. n) = n
    BY FS_Interval
  <2>2. IsFiniteSet({k}) /\ Cardinality({k}) = 1
    BY FS_Singleton
  <2>3. IsFiniteSet({k} \X (1 .. n)) /\ Cardinality({k} \X (1 .. n)) = 1 * n
    <3>1. Cardinality({k} \X (1 .. n)) = Cardinality({k}) * Cardinality(1 .. n)
          /\ IsFiniteSet({k} \X (1 .. n))
      BY <2>1, <2>2, FS_Product
    <3> QED BY <2>1, <2>2, <3>1, Zenon
  <2> QED BY <2>3
<1> HIDE DEF others, own
<1>4. /\ IsFiniteSet(others \cup own) /\ Cardinality(others \cap own) = 0
      /\ Cardinality(others \cup own)
           = Cardinality(others) + Cardinality(own) - Cardinality(others \cap own)
      /\ Cardinality(others) \in Nat
  BY <1>2, <1>3, FS_Union, FS_EmptySet, FS_CardinalityType DEF others
<1> QED BY <1>1, <1>3, <1>4 DEF others

\* One order changes its level by what changes of its remainder.
LEMMA UnitsChange ==
  ASSUME NEW a, NEW b, NEW s, NEW side, NEW price, NEW k \in Listed, AtLevel(k, s, side, price),
         \A j \in Listed \ {k} : b[j] = a[j],
         Remaining(a[k]) \in Nat, Remaining(b[k]) \in Nat,
         IsFiniteSet(UnitsAt(a, s, side, price))
  PROVE  /\ IsFiniteSet(UnitsAt(b, s, side, price))
         /\ \E n \in Nat : /\ Cardinality(UnitsAt(a, s, side, price)) = n + Remaining(a[k])
                           /\ Cardinality(UnitsAt(b, s, side, price)) = n + Remaining(b[k])
<1>1. OtherUnits(a, k, s, side, price) = OtherUnits(b, k, s, side, price)
  <2>1. ASSUME NEW unit \in OtherUnits(a, k, s, side, price)
        PROVE  unit \in OtherUnits(b, k, s, side, price)
    <3>1. /\ unit[1] \in Listed \ {k} /\ unit = <<unit[1], unit[2]>>
          /\ AtLevel(unit[1], s, side, price) /\ unit[2] \in 1 .. Remaining(a[unit[1]])
      BY UnitFact DEF OtherUnits
    <3>2. unit[2] \in 1 .. Remaining(b[unit[1]])
      BY <3>1
    <3> QED BY <3>1, <3>2, UnitFact DEF OtherUnits
  <2>2. ASSUME NEW unit \in OtherUnits(b, k, s, side, price)
        PROVE  unit \in OtherUnits(a, k, s, side, price)
    <3>1. /\ unit[1] \in Listed \ {k} /\ unit = <<unit[1], unit[2]>>
          /\ AtLevel(unit[1], s, side, price) /\ unit[2] \in 1 .. Remaining(b[unit[1]])
      BY UnitFact DEF OtherUnits
    <3>2. unit[2] \in 1 .. Remaining(a[unit[1]])
      BY <3>1
    <3> QED BY <3>1, <3>2, UnitFact DEF OtherUnits
  <2> QED BY <2>1, <2>2
<1>2. IsFiniteSet(OtherUnits(a, k, s, side, price))
  BY FS_Subset DEF OtherUnits
<1>3. Cardinality(OtherUnits(a, k, s, side, price)) \in Nat
  BY <1>2, FS_CardinalityType
<1>4. Cardinality(UnitsAt(a, s, side, price))
        = Cardinality(OtherUnits(a, k, s, side, price)) + Remaining(a[k])
  BY <1>2, UnitsSplit
<1>5. /\ IsFiniteSet(UnitsAt(b, s, side, price))
      /\ Cardinality(UnitsAt(b, s, side, price))
           = Cardinality(OtherUnits(b, k, s, side, price)) + Remaining(b[k])
  BY <1>1, <1>2, UnitsSplit
<1> QED BY <1>1, <1>3, <1>4, <1>5

LevelFits(resting, s, side, price) ==
  /\ IsFiniteSet(UnitsAt(resting, s, side, price))
  /\ Cardinality(UnitsAt(resting, s, side, price)) <= MaxAmount

LevelsFit(resting) == \A s, side, price : LevelFits(resting, s, side, price)

LEMMA RestingUnits ==
  ASSUME NEW resting, NEW s, NEW side \in Sides, NEW price \in Prices,
         LevelFits(resting, s, side, price)
  PROVE  /\ Resting(ChainLevels(resting, s)[side], price)
              = Cardinality(UnitsAt(resting, s, side, price))
         /\ Cardinality(UnitsAt(resting, s, side, price)) \in Amounts
<1>1. Cardinality(UnitsAt(resting, s, side, price)) \in Nat
  BY FS_CardinalityType DEF LevelFits
<1>2. Cardinality(UnitsAt(resting, s, side, price)) \in Amounts
  BY <1>1, MaxAmountAssumption DEF LevelFits, Amounts
<1> PICK levels : levels = ChainLevels(resting, s)[side]
  OBVIOUS
<1>3. levels = [p \in {q \in Prices : UnitsAt(resting, s, side, q) # {}} |->
                  Cardinality(UnitsAt(resting, s, side, p))]
  BY DEF ChainLevels
<1>4. CASE UnitsAt(resting, s, side, price) = {}
  <2>1. Resting(levels, price) = 0
    BY <1>3, <1>4 DEF Resting
  <2> QED BY <1>2, <1>4, <2>1, FS_EmptySet
<1>5. CASE UnitsAt(resting, s, side, price) # {}
  <2>1. Resting(levels, price) = Cardinality(UnitsAt(resting, s, side, price))
    BY <1>3, <1>5 DEF Resting
  <2> QED BY <1>2, <2>1
<1> QED BY <1>4, <1>5

LEMMA ChainLevelsFact ==
  ASSUME NEW resting, NEW s, LevelsFit(resting)
  PROVE  ChainLevels(resting, s) \in [Sides -> Levels]
<1> SUFFICES ASSUME NEW side \in Sides
             PROVE  ChainLevels(resting, s)[side] \in Levels
  BY DEF ChainLevels
<1> PICK at : at = {p \in Prices : UnitsAt(resting, s, side, p) # {}}
  OBVIOUS
<1>1. ChainLevels(resting, s)[side] = [p \in at |-> Cardinality(UnitsAt(resting, s, side, p))]
  BY DEF ChainLevels
<1>2. \A p \in at : Cardinality(UnitsAt(resting, s, side, p)) \in Amounts
  BY RestingUnits DEF LevelsFit
<1>3. ChainLevels(resting, s)[side] \in [at -> Amounts] /\ at \in SUBSET Prices
  BY <1>1, <1>2
<1> QED BY <1>3 DEF Levels

---------------------------------------------------------------------------
(* The states that the chain was in.                                       *)

\* A state for each event of the stream, from what was received, state 0, to
\* what the chain is in now; each event tells what one order was and became.
Recorded(states) ==
  \A k \in Listed : \A i \in 1 .. Len(stream) :
    Own(i, k) => stream[i].old = states[i - 1][k] /\ states[i][k] = stream[i].new

Undisturbed(states) ==
  \A k \in Listed : \A i, j \in 0 .. Len(stream) :
    i <= j /\ (\A between \in i + 1 .. j : ~Own(between, k)) => states[j][k] = states[i][k]

IsHistory(states) ==
  /\ states \in [0 .. Len(stream) -> [Listed -> ChainOrders]]
  /\ states[Len(stream)] = chain
  /\ \A i \in 0 .. Len(stream) : LevelsFit(states[i])
  /\ \A k \in Listed : states[0][k] = Received(k)
  /\ Recorded(states)
  /\ Undisturbed(states)

History ==
  /\ \E states : IsHistory(states)
  /\ view \in [Listed -> ChainOrders] /\ LevelsFit(view)
  /\ BeforeBook => task.event.old = view[task.event.key]
  /\ ~connected => stream = <<>> /\ ~BeforeBook

\* A step that brings no event further.
LEMMA HistoryStays ==
  ASSUME History, UNCHANGED <<view, chain, stream>>, connected => connected',
         BeforeBook' <=> BeforeBook, BeforeBook => task'.event = task.event
  PROVE  History'
<1> PICK states : IsHistory(states)
  BY DEF History
<1>1. \A k : Received(k)' = Received(k) /\ \A i : Own(i, k)' <=> Own(i, k)
  BY DEF Received, Own
<1>2. IsHistory(states)'
  BY <1>1 DEF IsHistory, Recorded, Undisturbed
<1>3. LevelsFit(view)'
  BY DEF History
<1> QED BY <1>2, <1>3 DEF History

LEMMA ReachedHistory ==
  ASSUME CallsInv, History, Reached, UNCHANGED connected
  PROVE  History'
<1> PICK states : IsHistory(states)
  BY DEF History
<1> PICK event : event = task.event
  OBVIOUS
<1>0. Len(stream) \in Nat
  BY DEF CallsInv, StreamSound
<1>1. /\ UNCHANGED <<chain, stream, connected>> /\ BeforeBook /\ ~BeforeBook'
      /\ view' = Viewed(view, <<event>>) /\ event.kind \in OrderEvents
  BY HandlerFact DEF Reached, BeforeBook
<1>2. DOMAIN view' = Listed /\ \A k \in Listed : view'[k] = Received(k)
  BY <1>1, ViewedOne DEF Received
<1>3. \A k : k \in Listed => Received(k)' = Received(k) /\ \A i : Own(i, k)' <=> Own(i, k)
  BY <1>1, <1>2 DEF Received, Own
<1>4. IsHistory(states)'
  BY <1>1, <1>3 DEF IsHistory, Recorded, Undisturbed
<1>5. view' = states[0] /\ states[0] \in [Listed -> ChainOrders] /\ LevelsFit(states[0])
  <2>1. /\ states[0] \in [Listed -> ChainOrders] /\ LevelsFit(states[0])
        /\ \A k \in Listed : states[0][k] = Received(k)
    BY <1>0 DEF IsHistory
  <2>2. view' = [k \in Listed |-> view'[k]]
    BY <1>1, Zenon DEF Viewed
  <2> QED BY <1>2, <2>1, <2>2
<1>6. LevelsFit(view')
  BY <1>5
<1> QED BY <1>1, <1>4, <1>5, <1>6 DEF History

\* The first event of the stream leaves it.
LEMMA ArrivesHistory ==
  ASSUME CallsInv, History, NEW event, Arrives(event), UNCHANGED connected,
         Taken(event) \/ Skipped(event) \/ Elsewhere(event)
  PROVE  History'
<1> PICK states : IsHistory(states)
  BY DEF History
<1> PICK n : n = Len(stream')
  OBVIOUS
<1>1. /\ n \in Nat /\ Len(stream) = n + 1 /\ event = stream[1]
      /\ \A i \in 1 .. n : stream'[i] = stream[i + 1]
      /\ event.kind \in OrderEvents => event \in SoundOrderEvents /\ Placed(event.key)
      /\ ~BeforeBook /\ UNCHANGED <<chain, connected>>
  BY ArrivesFact DEF Arrives
<1>2. connected /\ connected'
  BY <1>1 DEF History, Arrives
<1>3. \A k \in Listed : \A i \in 1 .. n : Own(i, k)' <=> Own(i + 1, k)
  BY <1>1 DEF Own
<1>4. \A k \in Listed : Received(k) = view[k] /\ states[0][k] = view[k]
  BY <1>1 DEF Received, IsHistory
<1>5. /\ states[1] \in [Listed -> ChainOrders] /\ LevelsFit(states[1])
      /\ \A k \in Listed :
           states[1][k] = IF event.kind \in OrderEvents /\ event.key = k THEN event.new ELSE view[k]
  <2>0. 0 \in 0 .. Len(stream) /\ 1 \in 0 .. Len(stream) /\ 1 \in 1 .. Len(stream)
    BY <1>1
  <2>1. states[1] \in [Listed -> ChainOrders] /\ LevelsFit(states[1])
    BY <2>0 DEF IsHistory
  <2>2. ASSUME NEW k \in Listed
        PROVE  states[1][k] = IF event.kind \in OrderEvents /\ event.key = k THEN event.new
                              ELSE view[k]
    <3>1. CASE Own(1, k)
      BY <1>1, <2>0, <3>1 DEF IsHistory, Recorded, Own
    <3>2. CASE ~Own(1, k)
      <4>1. \A between \in 0 + 1 .. 1 : ~Own(between, k)
        BY <3>2
      <4>2. states[1][k] = states[0][k]
        BY <2>0, <4>1 DEF IsHistory, Undisturbed
      <4> QED BY <1>1, <1>4, <3>2, <4>2 DEF Own
    <3> QED BY <3>1, <3>2
  <2> QED BY <2>1, <2>2
<1>6. /\ DOMAIN view' = Listed /\ view' = [k \in Listed |-> view'[k]]
      /\ \A k \in Listed :
           view'[k] = IF event.kind \in OrderEvents /\ event.key = k /\ ~BeforeBook'
                      THEN event.new ELSE view[k]
  <2>1. DOMAIN view = Listed /\ view = [k \in Listed |-> view[k]]
    BY DEF History
  <2>2. CASE Taken(event) \/ Elsewhere(event)
    BY <2>1, <2>2 DEF Taken, Elsewhere
  <2>3. CASE Skipped(event)
    <3>1. view' = [k \in Listed |-> view'[k]]
      BY <2>3, Zenon DEF Skipped, Viewed
    <3> QED BY <2>3, <3>1, ViewedOne DEF Skipped
  <2> QED BY <2>2, <2>3
<1>7. \A k \in Listed : Received(k)' = states[1][k]
  BY <1>1, <1>5, <1>6 DEF Received, Taken, Skipped, Elsewhere
<1> PICK later : later = [i \in 0 .. n |-> states[i + 1]]
  OBVIOUS
<1>8. \A i \in 0 .. n : i + 1 \in 0 .. Len(stream) /\ later[i] = states[i + 1]
  BY <1>1
<1>9. IsHistory(later)'
  <2>1. later \in [0 .. n -> [Listed -> ChainOrders]]
    BY <1>8 DEF IsHistory
  <2>2. later[n] = chain' /\ \A i \in 0 .. n : LevelsFit(later[i])
    BY <1>1, <1>8 DEF IsHistory
  <2>3. \A k \in Listed : later[0][k] = Received(k)'
    BY <1>1, <1>7, <1>8
  <2>4. ASSUME NEW k \in Listed, NEW i \in 1 .. n, Own(i, k)'
        PROVE  stream'[i].old = later[i - 1][k] /\ later[i][k] = stream'[i].new
    <3>1. /\ i + 1 \in 1 .. Len(stream) /\ Own(i + 1, k) /\ stream'[i] = stream[i + 1]
          /\ later[i - 1] = states[(i + 1) - 1] /\ later[i] = states[i + 1]
      BY <1>1, <1>3, <1>8, <2>4
    <3> QED BY <3>1 DEF IsHistory, Recorded
  <2>5. ASSUME NEW k \in Listed, NEW i \in 0 .. n, NEW j \in 0 .. n, i <= j,
               \A between \in i + 1 .. j : ~Own(between, k)'
        PROVE  later[j][k] = later[i][k]
    <3> PICK first, last : first = i + 1 /\ last = j + 1
      OBVIOUS
    <3>1. ASSUME NEW between \in first + 1 .. last
          PROVE  ~Own(between, k)
      <4>1. between - 1 \in i + 1 .. j /\ between - 1 \in 1 .. n /\ (between - 1) + 1 = between
        BY <1>1
      <4> QED BY <1>3, <2>5, <4>1
    <3>2. first \in 0 .. Len(stream) /\ last \in 0 .. Len(stream) /\ first <= last
      BY <1>1, <2>5
    <3>3. states[last][k] = states[first][k]
      <4>1. Undisturbed(states)
        BY DEF IsHistory
      <4> QED BY <3>1, <3>2, <4>1, Zenon DEF Undisturbed
    <3> QED BY <1>8, <3>3
  <2>6. Recorded(later)'
    BY <2>4 DEF Recorded
  <2>7. Undisturbed(later)'
    BY <2>5, Zenon DEF Undisturbed
  <2> QED BY <2>1, <2>2, <2>3, <2>6, <2>7 DEF IsHistory
<1>10. view' \in [Listed -> ChainOrders] /\ LevelsFit(view')
  <2>1. CASE Skipped(event)
    <3>1. \A k \in Listed : view'[k] = states[1][k]
      BY <1>5, <1>6, <2>1 DEF Skipped
    <3>2. view' = states[1]
      BY <1>5, <1>6, <3>1
    <3> QED BY <1>5, <3>2
  <2>2. CASE Taken(event) \/ Elsewhere(event)
    BY <2>2 DEF Taken, Elsewhere, History
  <2> QED BY <2>1, <2>2
<1>11. BeforeBook' => task'.event.old = view'[task'.event.key]
  <2> SUFFICES ASSUME BeforeBook' PROVE task'.event.old = view'[task'.event.key]
    OBVIOUS
  <2>1. event.kind \in OrderEvents /\ task'.event = event /\ UNCHANGED view
    BY DEF Taken, Skipped, Elsewhere
  <2>2. event.key \in Listed /\ Own(1, event.key) /\ 1 \in 1 .. Len(stream)
    BY <1>1, <2>1 DEF Placed, Own
  <2>3. stream[1].old = states[0][event.key]
    BY <2>2 DEF IsHistory, Recorded
  <2> QED BY <1>1, <1>4, <2>1, <2>2, <2>3
<1> QED BY <1>2, <1>9, <1>10, <1>11 DEF History

LEMMA RemainingFact ==
  ASSUME NEW order, SoundState(order)
  PROVE  Remaining(order) \in Amounts /\ Remaining(order) \in Nat
  BY MaxAmountAssumption DEF SoundState, ChainOrders, Amounts, Remaining

LEMMA AnyOrderStep ==
  ASSUME NEW k, Place(k) \/ Fill(k) \/ Amend(k) \/ Withdraw(k)
  PROVE  \E kind, new : OrderStep(kind, k, new)
<1>1. CASE Place(k)
  BY <1>1, Zenon DEF Place
<1>2. CASE Fill(k)
  BY <1>2, Zenon DEF Fill
<1>3. CASE Amend(k)
  BY <1>3, Zenon DEF Amend
<1>4. CASE Withdraw(k)
  BY <1>4, Zenon DEF Withdraw
<1> QED BY <1>1, <1>2, <1>3, <1>4

\* The chain's levels always fit.
LEMMA ChainFits ==
  ASSUME CallsInv, CallsInv', LevelsFit(chain), ChainStep
  PROVE  LevelsFit(chain')
<1>1. ASSUME NEW kind, NEW k \in Listed, NEW new, OrderStep(kind, k, new)
      PROVE  LevelsFit(chain')
  <2> PICK before, after : before = chain /\ after = chain'
    OBVIOUS
  <2>1. /\ after = [before EXCEPT ![k] = new] /\ before \in [Listed -> ChainOrders]
        /\ Cardinality(UnitsAt(after, k[1], OrderSide[k], OrderPrice[k])) <= MaxAmount
    BY <1>1 DEF OrderStep, CallsInv, ChainSound
  <2>2. Remaining(before[k]) \in Nat
    BY RemainingFact DEF CallsInv, ChainSound
  <2>3. Remaining(after[k]) \in Nat
    <3>1. SoundState(after[k])
      BY DEF CallsInv, ChainSound
    <3> QED BY <3>1, RemainingFact
  <2>4. \A j \in Listed \ {k} : after[j] = before[j]
    BY <2>1
  <2>5. ASSUME NEW s, NEW side, NEW price
        PROVE  LevelFits(after, s, side, price)
    <3>1. LevelFits(before, s, side, price)
      BY DEF LevelsFit
    <3>2. CASE AtLevel(k, s, side, price)
      <4>1. IsFiniteSet(UnitsAt(after, s, side, price))
        BY <2>2, <2>3, <2>4, <3>1, <3>2, UnitsChange DEF LevelFits
      <4> QED BY <2>1, <3>2, <4>1 DEF LevelFits, AtLevel
    <3>3. CASE ~AtLevel(k, s, side, price)
      <4>1. \A j \in Listed :
              AtLevel(j, s, side, price) => Remaining(before[j]) = Remaining(after[j])
        BY <2>4, <3>3
      <4>2. UnitsAt(before, s, side, price) = UnitsAt(after, s, side, price)
        BY <4>1, UnitsSame
      <4> QED BY <3>1, <4>2 DEF LevelFits
    <3> QED BY <3>2, <3>3
  <2>6. LevelsFit(after)
    BY <2>5 DEF LevelsFit
  <2> QED BY <2>6
<1>2. ASSUME NEW m \in Markets, CreateMarket(m) \/ SettleMarket(m)
      PROVE  LevelsFit(chain')
  BY <1>2 DEF CreateMarket, SettleMarket
<1> QED BY <1>1, <1>2, AnyOrderStep DEF ChainStep

LEMMA ChainStepHeard ==
  ASSUME CallsInv, ChainStep
  PROVE  /\ UNCHANGED connected
         /\ connected => stream' # stream
         /\ ~connected => UNCHANGED stream
<1>1. ASSUME NEW event, Emit(event)
      PROVE  /\ UNCHANGED connected
             /\ connected => stream' # stream
             /\ ~connected => UNCHANGED stream
  <2>1. Append(stream, event) # stream
    <3>1. stream \in Seq(SoundEvents)
      BY DEF CallsInv, StreamSound
    <3>2. Len(Append(stream, event)) = Len(stream) + 1 /\ Len(stream) \in Nat
      BY <3>1
    <3> QED BY <3>2
  <2> QED BY <1>1, <2>1 DEF Emit
<1>2. ASSUME NEW m \in Markets, CreateMarket(m) \/ SettleMarket(m)
      PROVE  \E event : Emit(event)
  BY <1>2 DEF CreateMarket, SettleMarket
<1>3. ASSUME NEW k \in Listed, Place(k) \/ Fill(k) \/ Amend(k) \/ Withdraw(k)
      PROVE  \E event : Emit(event)
  <2> PICK kind, new : OrderStep(kind, k, new)
    BY <1>3, AnyOrderStep
  <2> QED BY Zenon DEF OrderStep
<1> QED BY <1>1, <1>2, <1>3 DEF ChainStep

\* An event that the indexer hears of makes the chain's new state the last one.
LEMMA HeardHistory ==
  ASSUME CallsInv, CallsInv', History, LevelsFit(chain'), NEW event, Makes(event),
         stream' = Append(stream, event), UNCHANGED view, connected, connected'
  PROVE  History'
<1> PICK states : IsHistory(states)
  BY DEF History
<1> PICK n : n = Len(stream)
  OBVIOUS
<1> PICK now : now = chain'
  OBVIOUS
<1> PICK more : more = [i \in 0 .. n + 1 |-> IF i = n + 1 THEN now ELSE states[i]]
  OBVIOUS
<1>1. /\ n \in Nat /\ Len(stream') = n + 1 /\ stream'[n + 1] = event
      /\ \A i \in 1 .. n : stream'[i] = stream[i]
  <2>1. stream \in Seq(SoundEvents)
    BY DEF CallsInv, StreamSound
  <2>2. n \in Nat /\ Len(stream') = n + 1
    BY <2>1
  <2>3. stream'[n + 1] = event /\ \A i \in 1 .. n : stream'[i] = stream[i]
    BY <2>1
  <2> QED BY <2>2, <2>3
<1>2. more[n + 1] = now /\ \A i \in 0 .. n : more[i] = states[i] /\ i \in 0 .. n + 1
  BY <1>1
<1>3. /\ states[n] = chain /\ now \in [Listed -> ChainOrders]
      /\ \A k \in Listed :
           IF event.kind \in OrderEvents /\ event.key = k
           THEN event.old = chain[k] /\ now[k] = event.new
           ELSE now[k] = chain[k]
  BY DEF IsHistory, Makes, CallsInv, ChainSound
<1>4. /\ \A k \in Listed : \A i \in 1 .. n : Own(i, k)' <=> Own(i, k)
      /\ \A k \in Listed : Own(n + 1, k)' <=> (event.kind \in OrderEvents /\ event.key = k)
  BY <1>1 DEF Own
<1>5. \A k : Received(k)' = Received(k)
  BY DEF Makes, Received, BeforeBook
<1>6. more \in [0 .. n + 1 -> [Listed -> ChainOrders]]
  <2>1. \A i \in 0 .. n + 1 : more[i] \in [Listed -> ChainOrders]
    <3>1. \A i \in 0 .. n : states[i] \in [Listed -> ChainOrders]
      BY DEF IsHistory
    <3> QED BY <1>1, <1>2, <1>3, <3>1
  <2> QED BY <2>1
<1>7. \A i \in 0 .. n + 1 : LevelsFit(more[i])
  <2>1. \A i \in 0 .. n : LevelsFit(states[i])
    BY DEF IsHistory
  <2>2. LevelsFit(now)
    OBVIOUS
  <2> QED BY <1>1, <1>2, <2>1, <2>2
<1>8. \A k \in Listed : more[0][k] = Received(k)'
  <2>1. 0 \in 0 .. n /\ \A k \in Listed : states[0][k] = Received(k)
    BY <1>1 DEF IsHistory
  <2> QED BY <1>2, <1>5, <2>1
<1>9. Recorded(more)'
  <2> SUFFICES ASSUME NEW k \in Listed, NEW i \in 1 .. Len(stream'), Own(i, k)'
               PROVE  stream'[i].old = more[i - 1][k] /\ more[i][k] = stream'[i].new
    BY Zenon DEF Recorded
  <2>0. i \in 1 .. n + 1
    BY <1>1
  <2>1. CASE i = n + 1
    <3>1. event.kind \in OrderEvents /\ event.key = k
      BY <1>4, <2>1
    <3>2. n \in 0 .. n /\ more[i - 1] = states[n] /\ more[i] = now /\ stream'[i] = event
      BY <1>1, <1>2, <2>1
    <3> QED BY <1>3, <3>1, <3>2
  <2>2. CASE i # n + 1
    <3>1. i \in 1 .. n /\ i - 1 \in 0 .. n /\ i \in 0 .. n
      BY <1>1, <2>0, <2>2
    <3>2. stream[i].old = states[i - 1][k] /\ states[i][k] = stream[i].new
      BY <1>4, <3>1 DEF IsHistory, Recorded
    <3> QED BY <1>1, <1>2, <3>1, <3>2
  <2> QED BY <2>1, <2>2
<1>10. Undisturbed(more)'
  <2> SUFFICES ASSUME NEW k \in Listed, NEW i \in 0 .. Len(stream'), NEW j \in 0 .. Len(stream'),
                      i <= j /\ \A between \in i + 1 .. j : ~Own(between, k)'
               PROVE  more[j][k] = more[i][k]
    BY DEF Undisturbed
  <2>0. i \in 0 .. n + 1 /\ j \in 0 .. n + 1
    BY <1>1
  <2>1. ASSUME NEW last \in 0 .. n, i <= last, last <= j
        PROVE  more[last][k] = more[i][k]
    <3>1. i \in 0 .. n /\ \A between \in i + 1 .. last : ~Own(between, k)
      BY <1>1, <1>4, <2>0, <2>1
    <3>2. states[last][k] = states[i][k]
      BY <2>1, <3>1 DEF IsHistory, Undisturbed
    <3> QED BY <1>2, <3>1, <3>2
  <2>2. CASE j = n + 1 /\ i # n + 1
    <3>1. more[n][k] = more[i][k] /\ n \in 0 .. n
      BY <1>1, <2>0, <2>1, <2>2
    <3>2. ~(event.kind \in OrderEvents /\ event.key = k)
      BY <1>1, <1>4, <2>0, <2>2
    <3> QED BY <1>2, <1>3, <2>2, <3>1, <3>2
  <2>3. CASE j # n + 1
    BY <1>1, <2>0, <2>1, <2>3
  <2> QED BY <2>2, <2>3
<1>11. IsHistory(more)'
  BY <1>1, <1>2, <1>6, <1>7, <1>8, <1>9, <1>10 DEF IsHistory
<1>12. LevelsFit(view')
  BY DEF History
<1> QED BY <1>11, <1>12 DEF History, Makes, BeforeBook

\* One that it does not hear of is at once what was last received.
LEMMA UnheardHistory ==
  ASSUME CallsInv, CallsInv', History, LevelsFit(chain'), NEW event, Makes(event),
         UNCHANGED stream, view' = Viewed(view, <<event>>), ~connected, ~connected'
  PROVE  History'
<1> PICK states : IsHistory(states)
  BY DEF History
<1> PICK now : now = chain'
  OBVIOUS
<1>1. stream = <<>> /\ stream' = <<>> /\ ~BeforeBook /\ ~BeforeBook'
  BY DEF History, Makes, BeforeBook
<1>2. \A k \in Listed : view[k] = chain[k]
  BY <1>1 DEF IsHistory, Received
<1>3. now \in [Listed -> ChainOrders]
  BY DEF CallsInv, ChainSound
<1>4. view' = now
  <2>1. ASSUME NEW k \in Listed
        PROVE  view'[k] = now[k]
    <3>1. CASE event.kind \in OrderEvents
      BY <1>2, <3>1, ViewedOne DEF Makes
    <3>2. CASE event.kind \notin OrderEvents
      <4>1. \A i \in 1 .. Len(<<event>>) :
              ~(<<event>>[i].kind \in OrderEvents /\ <<event>>[i].key = k)
        BY <3>2
      <4> QED BY <1>2, <3>2, <4>1, ViewedOther DEF Makes
    <3> QED BY <3>1, <3>2
  <2>2. view' = [k \in Listed |-> view'[k]]
    BY Zenon DEF Viewed
  <2> QED BY <1>3, <2>1, <2>2
<1> PICK only : only = [i \in 0 .. 0 |-> now]
  OBVIOUS
<1>5. IsHistory(only)'
  <2>1. Len(stream') = 0 /\ only[0] = now /\ only \in [0 .. 0 -> [Listed -> ChainOrders]]
        /\ \A i \in 0 .. 0 : LevelsFit(only[i])
    BY <1>1, <1>3
  <2>2. \A k \in Listed : only[0][k] = Received(k)'
    BY <1>1, <1>4, <2>1 DEF Received
  <2>3. Recorded(only)' /\ Undisturbed(only)'
    BY <2>1 DEF Recorded, Undisturbed
  <2> QED BY <2>1, <2>2, <2>3 DEF IsHistory
<1> QED BY <1>1, <1>3, <1>4, <1>5 DEF History

Smaller == {pair \in Nat \X Nat : pair[1] < pair[2]}

LEMMA SmallerWellFounded == IsWellFoundedOn(Smaller, Nat)
<1>1. Smaller = OpToRel(<, Nat)
  BY Zenon DEF Smaller, OpToRel
<1> QED BY <1>1, NatLessThanWellFounded, Zenon

LEMMA LastFact ==
  ASSUME NEW n \in Nat, NEW S \in SUBSET (1 .. n), S # {}
  PROVE  Max(S) \in S /\ \A x \in S : x <= Max(S)
<1> DEFINE below == {n - x : x \in S}
<1>1. below \subseteq Nat /\ below # {}
  <2>1. \A x \in S : n - x \in Nat
    OBVIOUS
  <2> QED BY <2>1
<1> HIDE DEF below
<1>2. PICK d \in below : \A e \in below : ~(<<e, d>> \in Smaller)
  BY <1>1, WFMin, SmallerWellFounded
<1>3. \A e, f \in Nat : e < f => <<e, f>> \in Smaller
  BY DEF Smaller
<1>4. PICK m \in S : d = n - m
  BY DEF below
<1>5. ASSUME NEW x \in S
      PROVE  x <= m
  <2>1. n - x \in below
    BY DEF below
  <2>2. ~(n - x < d)
    BY <1>1, <1>2, <1>3, <2>1
  <2> QED BY <1>4, <2>2
<1>6. \E x \in S : \A y \in S : x >= y
  BY <1>4, <1>5
<1>7. Max(S) \in S /\ \A y \in S : Max(S) >= y
  BY <1>6, Zenon DEF Max
<1> QED BY <1>7

\* When the connection breaks, all that was lost is seen at once.
LEMMA DisconnectHistory ==
  ASSUME CallsInv, History, Disconnect
  PROVE  History'
<1> PICK states : IsHistory(states)
  BY DEF History
<1> PICK n : n = Len(stream)
  OBVIOUS
<1> PICK now : now = chain
  OBVIOUS
<1>1. /\ UNCHANGED chain /\ task.stage = "receiving" /\ task' = Idle("stopped")
      /\ stream' = <<>> /\ view' = Viewed(view, stream)
  BY DEF Disconnect, chainVars
<1>2. ~BeforeBook /\ ~BeforeBook'
  BY <1>1 DEF Idle, BeforeBook
<1>3. n \in Nat /\ states[n] = now /\ now \in [Listed -> ChainOrders] /\ LevelsFit(now)
      /\ \A k \in Listed : states[0][k] = view[k]
  BY <1>2 DEF IsHistory, CallsInv, StreamSound, ChainSound, Received
<1>4. ASSUME NEW k \in Listed
      PROVE  view'[k] = now[k]
  <2> DEFINE own == {i \in 1 .. Len(stream) : stream[i].kind \in OrderEvents /\ stream[i].key = k}
  <2>1. view'[k] = IF own = {} THEN view[k] ELSE stream[Max(own)].new
    BY <1>1 DEF Viewed
  <2>2. CASE own = {}
    <3>1. \A between \in 0 + 1 .. n : ~Own(between, k)
      BY <2>2 DEF Own
    <3>2. 0 \in 0 .. Len(stream) /\ n \in 0 .. Len(stream) /\ 0 <= n
      BY <1>3
    <3>3. states[n][k] = states[0][k]
      BY <3>1, <3>2 DEF IsHistory, Undisturbed
    <3> QED BY <1>3, <2>1, <2>2, <3>3
  <2>3. CASE own # {}
    <3> PICK last : last = Max(own)
      OBVIOUS
    <3>1. last \in own /\ \A i \in own : i <= last
      <4>1. own \in SUBSET (1 .. n) /\ own # {}
        BY <2>3
      <4> HIDE DEF own
      <4> QED BY <1>3, <4>1, LastFact
    <3>2. last \in 1 .. n /\ Own(last, k)
      BY <3>1 DEF Own
    <3>3. states[last][k] = stream[last].new
      BY <3>2 DEF IsHistory, Recorded
    <3>4. \A between \in last + 1 .. n : ~Own(between, k)
      <4> SUFFICES ASSUME NEW between \in last + 1 .. n, Own(between, k) PROVE FALSE
        OBVIOUS
      <4>1. between \in 1 .. n /\ ~(between <= last)
        BY <1>3, <3>2
      <4>2. between \in own
        BY <4>1 DEF Own
      <4> QED BY <3>1, <4>1, <4>2
    <3>5. last \in 0 .. Len(stream) /\ n \in 0 .. Len(stream) /\ last <= n
      BY <1>3, <3>2
    <3>6. states[n][k] = states[last][k]
      BY <3>4, <3>5 DEF IsHistory, Undisturbed
    <3> QED BY <1>3, <2>1, <2>3, <3>3, <3>6
  <2> QED BY <2>2, <2>3
<1>5. view' = now
  <2>1. view' = [k \in Listed |-> view'[k]]
    BY <1>1, Zenon DEF Viewed
  <2> QED BY <1>3, <1>4, <2>1
<1> PICK only : only = [i \in 0 .. 0 |-> now]
  OBVIOUS
<1>6. IsHistory(only)'
  <2>1. Len(stream') = 0 /\ only[0] = now /\ only \in [0 .. 0 -> [Listed -> ChainOrders]]
        /\ (\A i \in 0 .. 0 : LevelsFit(only[i])) /\ now = chain'
    BY <1>1, <1>3
  <2>2. \A k \in Listed : only[0][k] = Received(k)'
    BY <1>2, <1>5, <2>1 DEF Received
  <2>3. Recorded(only)' /\ Undisturbed(only)'
    BY <2>1 DEF Recorded, Undisturbed
  <2> QED BY <2>1, <2>2, <2>3 DEF IsHistory
<1> QED BY <1>1, <1>2, <1>3, <1>5, <1>6 DEF History

LEMMA HistoryInit == Init => History
<1> SUFFICES ASSUME Init PROVE History
  OBVIOUS
<1> PICK now : now = chain
  OBVIOUS
<1>1. /\ stream = <<>> /\ view = now /\ task.stage = "stopped" /\ ~BeforeBook
      /\ \A k \in Listed : now[k].status = "absent"
  BY DEF Init, Idle, BeforeBook
<1>2. now \in [Listed -> ChainOrders]
  BY CallsInitInv DEF CallsInv, ChainSound
<1>3. ASSUME NEW s, NEW side, NEW price
      PROVE  LevelFits(now, s, side, price)
  <2>1. \A k \in Listed : Remaining(now[k]) = 0
    BY <1>1 DEF Remaining, Cancellable
  <2>2. UnitsAt(now, s, side, price) = {}
    <3> SUFFICES ASSUME NEW unit \in UnitsAt(now, s, side, price) PROVE FALSE
      OBVIOUS
    <3>1. unit[1] \in Listed /\ unit[2] \in 1 .. Remaining(now[unit[1]])
      BY UnitFact
    <3> QED BY <2>1, <3>1
  <2> QED BY <2>2, FS_EmptySet, MaxAmountAssumption DEF LevelFits
<1>4. LevelsFit(now)
  BY <1>3 DEF LevelsFit
<1> PICK only : only = [i \in 0 .. 0 |-> now]
  OBVIOUS
<1>5. IsHistory(only)
  <2>1. Len(stream) = 0 /\ only[0] = now /\ only \in [0 .. 0 -> [Listed -> ChainOrders]]
        /\ (\A i \in 0 .. 0 : LevelsFit(only[i]))
    BY <1>1, <1>2, <1>4
  <2>2. \A k \in Listed : only[0][k] = Received(k)
    BY <1>1, <2>1 DEF Received
  <2>3. Recorded(only) /\ Undisturbed(only)
    BY <2>1 DEF Recorded, Undisturbed
  <2> QED BY <2>1, <2>2, <2>3 DEF IsHistory
<1> QED BY <1>1, <1>2, <1>4, <1>5 DEF History

\* The steps of a handler that has left the book behind.
LEMMA AfterBookQuiet ==
  ASSUME CallsInv, IndexEvent \/ PublishRead \/ PublishTrade \/ PublishSend
  PROVE  /\ UNCHANGED <<bookVars, view, exact, chain, stream, connected>>
         /\ ~BeforeBook /\ ~BeforeBook'
<1>1. /\ UNCHANGED <<bookVars, view, exact, chain, stream, connected>>
      /\ task.stage \in {"indexing", "publishing", "trading", "sending"}
  BY DEF IndexEvent, PublishRead, PublishTrade, PublishSend, chainVars, streamVars, ghostVars
<1>2. task'.stage \in {"publishing", "trading", "sending", "receiving"}
  <2>1. "stage" \in DOMAIN task
    BY DEF CallsInv, TaskSound
  <2>2. CASE IndexEvent
    <3>1. task' = [task EXCEPT !.stage = "publishing"]
      BY <2>2, Zenon DEF IndexEvent
    <3> QED BY <2>1, <3>1
  <2>3. CASE PublishRead
    BY <2>1, <2>3 DEF PublishRead, AfterRead, Idle
  <2>4. CASE PublishTrade \/ PublishSend
    BY <2>1, <2>4 DEF PublishTrade, PublishSend, Idle
  <2> QED BY <2>2, <2>3, <2>4
<1> QED BY <1>1, <1>2 DEF BeforeBook

LEMMA PassiveStream ==
  ASSUME \/ Restart \/ Connect \/ ConnectFails \/ HydrateRead \/ HydrateWrite \/ Ensure
         \/ (HydrateFails /\ task.resume # "applying")
  PROVE  UNCHANGED <<view, chain, stream>> /\ (connected => connected')
  BY DEF Restart, Connect, ConnectFails, HydrateRead, HydrateWrite, HydrateFails, Ensure,
         chainVars, streamVars, ghostVars

LEMMA HistoryNext ==
  ASSUME TrackInv, CallsInv', History, [Next]_vars
  PROVE  History'
<1>0. CallsInv
  BY DEF TrackInv
<1>1. CASE UNCHANGED vars
  <2>1. UNCHANGED <<view, chain, stream, connected, task>>
    BY <1>1 DEF vars, chainVars, streamVars, ghostVars
  <2> QED BY <2>1, HistoryStays DEF BeforeBook
<1>2. CASE ChainStep
  <2>1. PICK event : Makes(event)
    BY <1>2, ChainStepMakes
  <2>2. LevelsFit(chain)
    <3> PICK states : IsHistory(states)
      BY DEF History
    <3>1. Len(stream) \in 0 .. Len(stream)
      BY <1>0 DEF CallsInv, StreamSound
    <3> QED BY <3>1 DEF IsHistory
  <2>3. LevelsFit(chain')
    BY <1>0, <1>2, <2>2, ChainFits
  <2>4. /\ UNCHANGED connected /\ (connected => stream' # stream)
        /\ (~connected => UNCHANGED stream)
    BY <1>0, <1>2, ChainStepHeard
  <2>5. CASE connected
    BY <1>0, <2>1, <2>3, <2>4, <2>5, HeardHistory DEF Makes
  <2>6. CASE ~connected
    <3>1. view' = Viewed(view, <<event>>)
      <4>1. Append(stream, event) # stream
        <5>1. stream \in Seq(SoundEvents)
          BY <1>0 DEF CallsInv, StreamSound
        <5>2. Len(Append(stream, event)) = Len(stream) + 1 /\ Len(stream) \in Nat
          BY <5>1
        <5> QED BY <5>2
      <4> QED BY <2>1, <2>4, <2>6, <4>1 DEF Makes
    <3> QED BY <1>0, <2>1, <2>3, <2>4, <2>6, <3>1, UnheardHistory
  <2> QED BY <2>5, <2>6
<1>3. CASE Disconnect
  BY <1>0, <1>3, DisconnectHistory
<1>4. CASE \/ Restart \/ Connect \/ ConnectFails \/ HydrateRead \/ HydrateWrite \/ Ensure
           \/ (HydrateFails /\ task.resume # "applying")
  <2>1. Passive
    BY <1>0, <1>4, PassiveFact
  <2>2. UNCHANGED <<view, chain, stream>> /\ (connected => connected')
    BY <1>4, PassiveStream
  <2> QED BY <2>1, <2>2, HistoryStays DEF Passive
<1>5. CASE Apply \/ (HydrateFails /\ task.resume = "applying")
  <2>1. Reached
    BY <1>0, <1>5, ReachedFact
  <2>2. UNCHANGED connected
    BY <1>5 DEF Apply, HydrateFails, streamVars
  <2> QED BY <1>0, <2>1, <2>2, ReachedHistory
<1>6. CASE IndexEvent \/ PublishRead \/ PublishTrade \/ PublishSend
  BY <1>0, <1>6, AfterBookQuiet, HistoryStays
<1>7. CASE \/ ReceiveMarket \/ ReceiveResolved
           \/ ReceiveCreated \/ ReceiveCancelled \/ ReceiveUpdated \/ ReceiveFilled
  <2>1. PICK event : Arrives(event) /\ (Taken(event) \/ Skipped(event) \/ Elsewhere(event))
    BY <1>7, ReceiveMarketArrives, ReceiveOrderArrives
  <2>2. UNCHANGED connected
    BY <1>7 DEF ReceiveMarket, ReceiveResolved, ReceiveCreated, ReceiveCancelled,
                ReceiveUpdated, ReceiveFilled, ReceiveOrderEvent, Receive
  <2> QED BY <1>0, <2>1, <2>2, ArrivesHistory
<1>8. ASSUME NEW r \in Requests,
             \/ GetBook(r) \/ GetBookFails(r) \/ IndexFromEvent(r) \/ MarkCancelled(r)
             \/ RequestStep(r)
      PROVE  History'
  <2>1. RequestOnly
    BY <1>0, <1>8, RequestFact
  <2>2. UNCHANGED <<task, view, chain, stream, connected>>
    BY <1>8 DEF GetBook, GetBookFails, IndexFromEvent, MarkCancelled, RequestStep, GetBookWrite,
                IndexApply, IndexInsert, IndexPublish, IndexSend, MarkCancelledWrite,
                othersOfRequest, chainVars, streamVars
  <2> QED BY <2>2, HistoryStays DEF BeforeBook
<1> QED BY <1>1, <1>2, <1>3, <1>4, <1>5, <1>6, <1>7, <1>8 DEF Next, IndexerStep

---------------------------------------------------------------------------
(* The arithmetic of a book.                                               *)

LEMMA RestingAmount ==
  ASSUME NEW levels \in Levels, NEW price
  PROVE  Resting(levels, price) \in Amounts
<1> PICK P \in SUBSET Prices : levels \in [P -> Amounts]
  BY DEF Levels
<1> QED BY MaxAmountAssumption DEF Resting, Amounts

LEMMA SetLevelFact ==
  ASSUME NEW levels \in Levels, NEW price \in Prices, NEW size \in Amounts
  PROVE  /\ SetLevel(levels, price, size) \in Levels
         /\ \A p \in Prices : Resting(SetLevel(levels, price, size), p) =
              IF p = price THEN size ELSE Resting(levels, p)
<1> PICK P \in SUBSET Prices : levels \in [P -> Amounts]
  BY DEF Levels
<1>1. CASE size = 0
  <2>1. SetLevel(levels, price, size) = [p \in P \ {price} |-> levels[p]]
    BY <1>1 DEF SetLevel
  <2>2. SetLevel(levels, price, size) \in [P \ {price} -> Amounts]
    BY <2>1
  <2>3. P \ {price} \in SUBSET Prices
    OBVIOUS
  <2> QED BY <1>1, <2>1, <2>2, <2>3 DEF Levels, Resting
<1>2. CASE size # 0
  <2>1. SetLevel(levels, price, size)
          = [p \in P \cup {price} |-> IF p = price THEN size ELSE levels[p]]
    BY <1>2 DEF SetLevel
  <2>2. SetLevel(levels, price, size) \in [P \cup {price} -> Amounts]
    BY <2>1
  <2>3. P \cup {price} \in SUBSET Prices
    OBVIOUS
  <2> QED BY <2>1, <2>2, <2>3 DEF Levels, Resting
<1> QED BY <1>1, <1>2

LEMMA AsBookFact ==
  ASSUME NEW levels
  PROVE  AsBook(levels).levels = levels
  BY DEF AsBook, EmptyBook

\* One level, and no other, has the new size.
OneLevel(before, after, side, price, size) ==
  /\ after \in [Sides -> Levels]
  /\ \A other \in Sides, p \in Prices :
       Resting(after[other], p) = IF other = side /\ p = price THEN size
                                  ELSE Resting(before[other], p)

LEMMA LevelChangeFact ==
  ASSUME NEW levels \in [Sides -> Levels], NEW side \in Sides, NEW price \in Prices,
         NEW size \in Amounts, NEW trade
  PROVE  OneLevel(levels, LevelChange(AsBook(levels), side, price, size, trade).levels,
                  side, price, size)
<1>1. LevelChange(AsBook(levels), side, price, size, trade).levels
        = [levels EXCEPT ![side] = SetLevel(levels[side], price, size)]
  BY AsBookFact DEF LevelChange
<1>2. /\ SetLevel(levels[side], price, size) \in Levels
      /\ \A p \in Prices : Resting(SetLevel(levels[side], price, size), p) =
           IF p = price THEN size ELSE Resting(levels[side], p)
  BY SetLevelFact
<1> PICK set : set = SetLevel(levels[side], price, size)
  OBVIOUS
<1> PICK after : after = [levels EXCEPT ![side] = set]
  OBVIOUS
<1>3. after \in [Sides -> Levels] /\ after[side] = set
      /\ \A other \in Sides : other # side => after[other] = levels[other]
  BY <1>2
<1>4. OneLevel(levels, after, side, price, size)
  BY <1>2, <1>3 DEF OneLevel
<1> QED BY <1>1, <1>4

LEMMA SaturatingFact ==
  ASSUME NEW a \in Amounts, NEW b \in Nat
  PROVE  SaturatingAdd(a, b) \in Amounts /\ SaturatingSub(a, b) \in Amounts
  BY MaxAmountAssumption DEF SaturatingAdd, SaturatingSub, Amounts

LEMMA GrownFact ==
  ASSUME NEW levels \in [Sides -> Levels], NEW side \in Sides, NEW price \in Prices,
         NEW amount \in Nat
  PROVE  OneLevel(levels, Grown(AsBook(levels), side, price, amount).levels, side, price,
                  SaturatingAdd(Resting(levels[side], price), amount))
<1>1. SaturatingAdd(Resting(levels[side], price), amount) \in Amounts
  BY RestingAmount, SaturatingFact
<1> QED BY <1>1, LevelChangeFact, AsBookFact DEF Grown

LEMMA ShrunkFact ==
  ASSUME NEW levels \in [Sides -> Levels], NEW side \in Sides, NEW price \in Prices,
         NEW amount \in Nat, NEW trade
  PROVE  OneLevel(levels, Shrunk(AsBook(levels), side, price, amount, trade).levels, side, price,
                  SaturatingSub(Resting(levels[side], price), amount))
<1>1. SaturatingSub(Resting(levels[side], price), amount) \in Amounts
  BY RestingAmount, SaturatingFact
<1> QED BY <1>1, LevelChangeFact, AsBookFact DEF Shrunk

LEMMA SameFact ==
  ASSUME NEW levels \in [Sides -> Levels], NEW side \in Sides, NEW price \in Prices
  PROVE  OneLevel(levels, AsBook(levels).levels, side, price, Resting(levels[side], price))
  BY AsBookFact DEF OneLevel

\* An event moves its level by what it changes of its order's remainder.
Moved(size, event) ==
  IF Remaining(event.new) > Remaining(event.old)
  THEN SaturatingAdd(size, Remaining(event.new) - Remaining(event.old))
  ELSE SaturatingSub(size, Remaining(event.old) - Remaining(event.new))

LEMMA AppliedFact ==
  ASSUME NEW levels \in [Sides -> Levels], NEW event \in SoundOrderEvents,
         NEW side, side = OrderSide[event.key], NEW price, price = OrderPrice[event.key]
  PROVE  OneLevel(levels, Applied(levels, event), side, price,
                  Moved(Resting(levels[side], price), event))
<1> PICK before, after : before = event.old /\ after = event.new
  OBVIOUS
<1> PICK size : size = Resting(levels[side], price)
  OBVIOUS
<1>1. /\ side \in Sides /\ price \in Prices /\ price # 0 /\ event.kind \in OrderEvents
      /\ SoundState(before) /\ SoundState(after) /\ SoundChange(event.kind, before, after)
  BY ListedAssumption DEF SoundOrderEvents, AnyOrderEvents
<1>2. /\ Remaining(before) \in Nat /\ Remaining(after) \in Nat
      /\ before.size \in Nat /\ before.filled \in Nat /\ after.size \in Nat /\ after.filled \in Nat
      /\ before.filled <= before.size /\ after.filled <= after.size
      /\ after.status # "absent" => after.size > 0
  BY <1>1, MaxAmountAssumption, RemainingFact DEF SoundState, ChainOrders, Amounts
<1>3. size \in Nat /\ size \in Amounts
  BY <1>1, RestingAmount, MaxAmountAssumption DEF Amounts
<1>4. Remaining(before) = Remaining(after) => Moved(size, event) = size
  BY <1>2, <1>3 DEF Moved, SaturatingSub
<1>5. CASE event.kind = "created"
  <2>1. Remaining(before) = 0 /\ Remaining(after) = after.size /\ after.size > 0
    BY <1>1, <1>2, <1>5 DEF SoundChange, Remaining, Cancellable
  <2>2. Applied(levels, event) = Grown(AsBook(levels), side, price, after.size).levels
    BY <1>1, <1>2, <1>5, <2>1 DEF Applied, Created
  <2>3. Moved(size, event) = SaturatingAdd(size, after.size)
    BY <1>2, <2>1 DEF Moved
  <2> QED BY <1>1, <1>2, <2>2, <2>3, GrownFact
<1>6. CASE event.kind = "updated"
  <2>1. /\ Remaining(before) = before.size - before.filled
        /\ Remaining(after) = after.size - after.filled /\ after.filled = before.filled
    BY <1>1, <1>6 DEF SoundChange, Remaining
  <2>2. /\ SaturatingSub(after.size, Remaining(after)) = after.filled
        /\ SaturatingSub(before.size, after.filled) = Remaining(before)
    BY <1>2, <2>1 DEF SaturatingSub
  <2>3. Applied(levels, event) =
          Updated(AsBook(levels), side, price, before.size, after.size, Remaining(after)).levels
    BY <1>6 DEF Applied
  <2>4. CASE Remaining(before) = Remaining(after)
    <3>1. Applied(levels, event) = AsBook(levels).levels
      BY <2>2, <2>3, <2>4 DEF Updated
    <3> QED BY <1>1, <1>4, <2>4, <3>1, SameFact
  <2>5. CASE Remaining(after) > Remaining(before)
    <3>1. Applied(levels, event) =
            Grown(AsBook(levels), side, price, Remaining(after) - Remaining(before)).levels
      BY <1>1, <1>2, <2>2, <2>3, <2>5 DEF Updated
    <3>2. Moved(size, event) = SaturatingAdd(size, Remaining(after) - Remaining(before))
      BY <2>5 DEF Moved
    <3>3. Remaining(after) - Remaining(before) \in Nat
      BY <1>2, <2>5
    <3> QED BY <1>1, <3>1, <3>2, <3>3, GrownFact
  <2>6. CASE Remaining(after) < Remaining(before)
    <3>1. Applied(levels, event) =
            Shrunk(AsBook(levels), side, price,
                   Remaining(before) - Remaining(after), NoPrice).levels
      BY <1>1, <1>2, <2>2, <2>3, <2>6 DEF Updated
    <3>2. Moved(size, event) = SaturatingSub(size, Remaining(before) - Remaining(after))
      BY <1>2, <2>6 DEF Moved
    <3>3. Remaining(before) - Remaining(after) \in Nat
      BY <1>2, <2>6
    <3> QED BY <1>1, <3>1, <3>2, <3>3, ShrunkFact
  <2> QED BY <1>2, <2>4, <2>5, <2>6
<1>7. CASE event.kind = "filled"
  <2> PICK amount : amount = after.filled - before.filled
    OBVIOUS
  <2>1. /\ amount \in Nat /\ amount > 0
        /\ Remaining(before) - Remaining(after) = amount /\ Remaining(after) < Remaining(before)
    BY <1>1, <1>2, <1>7 DEF SoundChange, Remaining, Cancellable
  <2>2. Applied(levels, event) = Shrunk(AsBook(levels), side, price, amount, price).levels
    BY <1>1, <1>7, <2>1 DEF Applied, Filled
  <2>3. Moved(size, event) = SaturatingSub(size, amount)
    BY <1>2, <2>1 DEF Moved
  <2> QED BY <1>1, <2>1, <2>2, <2>3, ShrunkFact
<1>8. CASE event.kind = "cancelled"
  <2> PICK amount : amount = Remaining(before)
    OBVIOUS
  <2>1. Remaining(after) = 0 /\ amount \in Nat
    BY <1>1, <1>2, <1>8 DEF SoundChange, Remaining, Cancellable
  <2>2. Applied(levels, event) = Cancelled(AsBook(levels), side, price, amount).levels
    BY <1>8 DEF Applied
  <2>3. CASE amount = 0
    <3>1. Applied(levels, event) = AsBook(levels).levels
      BY <2>2, <2>3 DEF Cancelled
    <3> QED BY <1>1, <1>4, <2>1, <2>3, <3>1, SameFact
  <2>4. CASE amount # 0
    <3>1. Applied(levels, event) = Shrunk(AsBook(levels), side, price, amount, NoPrice).levels
      BY <1>1, <2>2, <2>4 DEF Cancelled
    <3>2. Moved(size, event) = SaturatingSub(size, amount)
      BY <2>1 DEF Moved
    <3> QED BY <1>1, <2>1, <3>1, <3>2, ShrunkFact
  <2> QED BY <2>3, <2>4
<1> QED BY <1>1, <1>5, <1>6, <1>7, <1>8 DEF OrderEvents

\* An order is added, whatever the request says it is.
LEMMA CreatedFact ==
  ASSUME NEW levels \in [Sides -> Levels], NEW body \in OrderBodies
  PROVE  Created(AsBook(levels), body.side, body.price, body.size).levels \in [Sides -> Levels]
<1>1. body.side \in Sides /\ body.price \in Prices /\ body.size \in Nat
  BY MaxAmountAssumption DEF OrderBodies, Amounts
<1>2. Grown(AsBook(levels), body.side, body.price, body.size).levels \in [Sides -> Levels]
  BY <1>1, GrownFact DEF OneLevel
<1> QED BY <1>2, AsBookFact DEF Created

---------------------------------------------------------------------------
(* What every variable holds.                                              *)

BooksTyped == books \in [Spots -> [Sides -> Levels]] /\ chain_hydrated \subseteq Spots

ExactTyped == IsMap(exact, Spots, SUBSET (Sides \X Prices))

\* What the task's answer may be at each of its stages.
Answers(stage) ==
  IF stage \in {"trading", "sending"} THEN Statuses
  ELSE IF stage = "hydrating" THEN {Nothing} \cup [Sides -> Levels] ELSE {Nothing}

TaskTyped ==
  /\ task.stage \in Stages /\ task.todo \in Seq(Spots)
  /\ task.stage = "hydrating" <=> task.todo # <<>>
  /\ task.answer \in Answers(task.stage)
  /\ ~BeforeBook /\ ~AfterBook => task.event = Nothing /\ task.spot = Nothing

RequestTyped(q) ==
  q # Nothing =>
    /\ q.kind \in Served
    /\ q.kind = "book" => q.spot \in Spots /\ q.levels \in [Sides -> Levels]
    /\ q.kind = "index" /\ q.stage = "publishing" => HasOrder(q.key)
    /\ q.kind = "index" /\ q.stage = "sending" => q.status \in Statuses
    /\ q.kind = "cancelled" => q.key \in Listed

RequestsTyped == \A r \in Requests : RequestTyped(requests[r])

TypeInv ==
  /\ BooksTyped
  /\ ExactTyped
  /\ TaskTyped
  /\ RequestsTyped
  /\ published \in [Listed -> Statuses \cup {"none"}]
  /\ missed \cup touched \cup late \subseteq Listed

LEMMA TypeInvSuffices ==
  ASSUME TrackInv, History, TypeInv
  PROVE  TypeOK
<1>1. IndexTypeOK /\ traded \in [Listed -> Nat] /\ chain \in [Listed -> ChainOrders]
      /\ view \in [Listed -> ChainOrders]
  BY DEF TrackInv, CallsInv, IndexInv, Tracking, TradesTracked, ChainSound, History
<1>2. task.spot \in Spots <=> task.event # Nothing
  <2>1. CASE BeforeBook \/ AfterBook
    <3>1. task.event \in SoundOrderEvents /\ task.spot \in Spots
      BY <2>1, HandlerFact DEF TrackInv
    <3>2. task.event # Nothing
      BY <3>1, NothingAssumption DEF SoundOrderEvents, AnyOrderEvents
    <3> QED BY <3>1, <3>2
  <2>2. CASE ~BeforeBook /\ ~AfterBook
    BY <2>2, NothingAssumption DEF TypeInv, TaskTyped
  <2> QED BY <2>1, <2>2
<1>3. \A r \in Requests : requests[r] # Nothing => requests[r].kind \in Served
  BY DEF TypeInv, RequestsTyped, RequestTyped
<1> QED BY <1>1, <1>2, <1>3 DEF TypeOK, TypeInv, BooksTyped, ExactTyped, TaskTyped

LEMMA TypeInvInit == Init => TypeInv
<1> SUFFICES ASSUME Init PROVE TypeInv
  OBVIOUS
<1>1. EmptyBook.levels \in [Sides -> Levels]
  <2>1. NoLevels \in [{} -> Amounts] /\ {} \in SUBSET Prices
    BY DEF NoLevels
  <2>2. NoLevels \in Levels
    BY <2>1 DEF Levels
  <2>3. EmptyBook.levels = [side \in Sides |-> NoLevels]
    BY DEF EmptyBook
  <2> QED BY <2>2, <2>3
<1>2. BooksTyped
  BY <1>1 DEF Init, BooksTyped
<1>3. ExactTyped
  BY DEF Init, ExactTyped, IsMap
<1>4. TaskTyped
  BY DEF Init, Idle, TaskTyped, Stages, Answers
<1>5. RequestsTyped
  BY DEF Init, RequestsTyped, RequestTyped
<1>6. published \in [Listed -> Statuses \cup {"none"}] 
      /\ missed \cup touched \cup late \subseteq Listed
  BY DEF Init
<1> QED BY <1>2, <1>3, <1>4, <1>5, <1>6 DEF TypeInv

LEMMA ChainBookFact ==
  ASSUME History, CallsInv, NEW s
  PROVE  ChainBook(s) \in [Sides -> Levels]
<1>1. LevelsFit(chain)
  <2> PICK states : IsHistory(states)
    BY DEF History
  <2>1. Len(stream) \in 0 .. Len(stream)
    BY DEF CallsInv, StreamSound
  <2> QED BY <2>1 DEF IsHistory
<1>2. ChainLevels(chain, s) \in [Sides -> Levels]
  BY <1>1, ChainLevelsFact
<1>3. ASSUME NEW levels \in Levels, NEW side
      PROVE  Shown(levels, side, ChainDepth) \in Levels
  <2> PICK P \in SUBSET Prices : levels \in [P -> Amounts]
    BY DEF Levels
  <2> PICK Q : Q = {q \in DOMAIN levels :
                      Cardinality({r \in DOMAIN levels : Better(side, r, q)}) < ChainDepth}
    OBVIOUS
  <2>1. Shown(levels, side, ChainDepth) = [p \in Q |-> levels[p]]
    BY DEF Shown
  <2>2. Q \in SUBSET Prices /\ Shown(levels, side, ChainDepth) \in [Q -> Amounts]
    BY <2>1
  <2> QED BY <2>2 DEF Levels
<1> QED BY <1>2, <1>3 DEF ChainBook, ToDepth

\* What list_spot_markets returns.
LEMMA SpotListFact ==
  ASSUME IndexTypeOK, NEW list \in SpotLists
  PROVE  list \in Seq(Spots)
<1>1. DOMAIN spot_to_market \subseteq Spots
  BY DEF IndexTypeOK, IsMap
<1>2. Cardinality(DOMAIN spot_to_market) \in Nat
  BY <1>1, SpotsAssumption, FS_Subset, FS_CardinalityType
<1> PICK n \in Nat : n = Cardinality(DOMAIN spot_to_market)
  BY <1>2
<1>3. list \in [1 .. n -> Spots]
  BY <1>1 DEF SpotLists
<1> QED BY <1>3

LEMMA TodoTail ==
  ASSUME NEW todo \in Seq(Spots), todo # <<>>
  PROVE  Head(todo) \in Spots /\ Tail(todo) \in Seq(Spots)
  OBVIOUS

\* Leaving a loop, or going on in it.
LEMMA HydratingTyped ==
  ASSUME NEW todo \in Seq(Spots), NEW stage \in Stages \ {"hydrating", "trading", "sending"},
         NEW resume \in {"receiving", "connecting"},
         task' = Hydrating(Idle(stage), todo, resume)
  PROVE  TaskTyped'
<1>1. CASE todo = <<>>
  BY <1>1 DEF Hydrating, Idle, TaskTyped, Stages, Answers
<1>2. CASE todo # <<>>
  BY <1>2 DEF Hydrating, Idle, TaskTyped, Stages, Answers, BeforeBook, AfterBook
<1> QED BY <1>1, <1>2

---------------------------------------------------------------------------
(* What a step may do to the books.                                        *)

\* Events of some orders are lost or left out.
LeavesOut ==
  /\ UNCHANGED bookVars
  /\ \E keys \in SUBSET Listed :
       /\ exact' = Without(exact, SpotsIn(keys))
       /\ \A k \in Listed \ keys : view'[k] = view[k]

\* A book is replaced by an answer of the chain.
Rereads ==
  \E s \in Spots, levels \in [Sides -> Levels] : HydrateBook(s, levels) /\ UNCHANGED view

\* A request adds its order.
Adds ==
  \E k \in Listed, body \in OrderBodies :
    /\ books' = [books EXCEPT ![k[1]] =
                   Created(AsBook(@), body.side, body.price, body.size).levels]
    /\ exact' = Without(exact, {k[1]})
    /\ UNCHANGED <<view, chain_hydrated>>

LEMMA LeftOutFact ==
  ASSUME NEW event, event.kind \in OrderEvents => event.key \in Listed, LeftOut(event),
         UNCHANGED bookVars
  PROVE  LeavesOut
<1> PICK keys : keys = OrdersOf(event)
  OBVIOUS
<1>1. keys \in SUBSET Listed
  BY DEF OrdersOf
<1>2. ASSUME NEW k \in Listed \ keys
      PROVE  view'[k] = view[k]
  <2>1. view' = Viewed(view, <<event>>)
    BY DEF LeftOut
  <2>2. CASE event.kind \in OrderEvents
    <3>1. k # event.key
      BY <1>2, <2>2 DEF OrdersOf
    <3> QED BY <2>1, <2>2, <3>1, ViewedOne
  <2>3. CASE event.kind \notin OrderEvents
    <3>1. \A i \in 1 .. Len(<<event>>) :
            ~(<<event>>[i].kind \in OrderEvents /\ <<event>>[i].key = k)
      BY <2>3
    <3> QED BY <2>1, <3>1, ViewedOther
  <2> QED BY <2>2, <2>3
<1>3. exact' = Without(exact, SpotsIn(keys))
  BY DEF LeftOut
<1> QED BY <1>1, <1>2, <1>3 DEF LeavesOut

LEMMA ChainStepEmits ==
  ASSUME ChainStep
  PROVE  \E event : Emit(event) /\ (event.kind \in OrderEvents => event.key \in Listed)
<1>1. ASSUME NEW m \in Markets, CreateMarket(m)
      PROVE  \E event : Emit(event) /\ (event.kind \in OrderEvents => event.key \in Listed)
  <2> PICK event : event = [kind |-> "market", market |-> m]
    OBVIOUS
  <2>1. Emit(event) /\ event.kind \notin OrderEvents
    BY <1>1 DEF CreateMarket, OrderEvents
  <2> QED BY <2>1
<1>2. ASSUME NEW m \in Markets, SettleMarket(m)
      PROVE  \E event : Emit(event) /\ (event.kind \in OrderEvents => event.key \in Listed)
  <2> PICK event : event = [kind |-> "resolved", market |-> m]
    OBVIOUS
  <2>1. Emit(event) /\ event.kind \notin OrderEvents
    BY <1>2 DEF SettleMarket, OrderEvents
  <2> QED BY <2>1
<1>3. ASSUME NEW k \in Listed, Place(k) \/ Fill(k) \/ Amend(k) \/ Withdraw(k)
      PROVE  \E event : Emit(event) /\ (event.kind \in OrderEvents => event.key \in Listed)
  <2> PICK kind, new : OrderStep(kind, k, new)
    BY <1>3, AnyOrderStep
  <2> PICK event : event = [kind |-> kind, key |-> k, old |-> chain[k], new |-> new]
    OBVIOUS
  <2>1. Emit(event) /\ event.key = k
    BY Zenon DEF OrderStep
  <2> QED BY <2>1
<1> QED BY <1>1, <1>2, <1>3 DEF ChainStep

LEMMA DisconnectLeavesOut ==
  ASSUME CallsInv, Disconnect
  PROVE  LeavesOut
<1> PICK keys : keys = UNION {OrdersOf(stream[i]) : i \in 1 .. Len(stream)}
  OBVIOUS
<1>1. /\ UNCHANGED bookVars /\ exact' = Without(exact, SpotsIn(keys))
      /\ view' = Viewed(view, stream)
  BY Zenon DEF Disconnect
<1>2. \A i \in 1 .. Len(stream) : OrdersOf(stream[i]) \in SUBSET Listed
  <2> SUFFICES ASSUME NEW i \in 1 .. Len(stream) PROVE OrdersOf(stream[i]) \in SUBSET Listed
    OBVIOUS
  <2>1. stream[i].kind \in OrderEvents => stream[i].key \in Listed
    BY DEF CallsInv, StreamSound, Placed
  <2> QED BY <2>1 DEF OrdersOf
<1>3. keys \in SUBSET Listed
  BY <1>2
<1>4. ASSUME NEW k \in Listed \ keys
      PROVE  view'[k] = view[k]
  <2>1. \A i \in 1 .. Len(stream) : ~(stream[i].kind \in OrderEvents /\ stream[i].key = k)
    <3> SUFFICES ASSUME NEW i \in 1 .. Len(stream),
                        stream[i].kind \in OrderEvents /\ stream[i].key = k
                 PROVE  FALSE
      OBVIOUS
    <3>1. k \in OrdersOf(stream[i])
      BY DEF OrdersOf
    <3> QED BY <1>4, <3>1
  <2> QED BY <1>1, <2>1, ViewedOther
<1> QED BY <1>1, <1>3, <1>4 DEF LeavesOut

LEMMA BookStep ==
  ASSUME TrackInv, TypeInv, [Next]_vars
  PROVE  UNCHANGED <<bookVars, view, exact>> \/ LeavesOut \/ Rereads \/ Adds \/ Apply
<1>0. CallsInv
  BY DEF TrackInv
<1>1. CASE UNCHANGED vars
  BY <1>1 DEF vars, ghostVars
<1>2. CASE ChainStep
  <2>1. PICK event : Emit(event) /\ (event.kind \in OrderEvents => event.key \in Listed)
    BY <1>2, ChainStepEmits
  <2>2. CASE connected
    BY <2>1, <2>2 DEF Emit, ghostVars
  <2>3. CASE ~connected
    <3>1. LeftOut(event) /\ UNCHANGED bookVars
      BY <2>1, <2>3 DEF Emit, LeftOut
    <3> QED BY <2>1, <3>1, LeftOutFact
  <2> QED BY <2>2, <2>3
<1>3. CASE Disconnect
  BY <1>0, <1>3, DisconnectLeavesOut
<1>4. CASE Restart \/ Connect \/ ConnectFails \/ HydrateRead \/ Ensure
  BY <1>4 DEF Restart, Connect, ConnectFails, HydrateRead, Ensure, ghostVars
<1>5. CASE HydrateWrite
  <2>1. /\ task.stage = "hydrating" /\ task.answer # Nothing
        /\ HydrateBook(Head(task.todo), task.answer) /\ UNCHANGED view
    BY <1>5 DEF HydrateWrite
  <2>2. Head(task.todo) \in Spots /\ task.answer \in [Sides -> Levels]
    BY <2>1, TodoTail DEF TypeInv, TaskTyped, Answers
  <2> QED BY <2>1, <2>2 DEF Rereads
<1>6. CASE HydrateFails
  <2>1. CASE task.resume = "applying"
    <3>1. BeforeBook /\ LeftOut(task.event) /\ UNCHANGED bookVars
      BY <1>6, <2>1 DEF HydrateFails, BeforeBook
    <3>2. task.event.key \in Listed
      BY <1>0, <3>1, HandlerFact DEF Placed
    <3> QED BY <3>1, <3>2, LeftOutFact
  <2>2. CASE task.resume # "applying"
    BY <1>6, <2>2 DEF HydrateFails, ghostVars
  <2> QED BY <2>1, <2>2
<1>7. CASE IndexEvent \/ PublishRead \/ PublishTrade \/ PublishSend
  BY <1>0, <1>7, AfterBookQuiet
<1>8. CASE ReceiveMarket \/ ReceiveResolved
  BY <1>8 DEF ReceiveMarket, ReceiveResolved, Receive, ghostVars
<1>9. CASE ReceiveCreated \/ ReceiveCancelled \/ ReceiveUpdated \/ ReceiveFilled
  <2> PICK event : event = Head(stream)
    OBVIOUS
  <2>1. Receive(event)
    BY <1>9 DEF ReceiveCreated, ReceiveCancelled, ReceiveUpdated, ReceiveFilled,
                ReceiveOrderEvent
  <2>2. UNCHANGED bookVars /\ (event.kind \in OrderEvents => event.key \in Listed)
    BY <1>0, <2>1, ReceiveFact DEF Receive, Placed
  <2>3. UNCHANGED ghostVars \/ LeftOut(event)
    BY <1>9 DEF ReceiveCreated, ReceiveCancelled, ReceiveUpdated, ReceiveFilled, Resolve
  <2> QED BY <2>2, <2>3, LeftOutFact DEF ghostVars
<1>10. ASSUME NEW r \in Requests,
              \/ GetBook(r) \/ GetBookFails(r) \/ IndexFromEvent(r) \/ MarkCancelled(r)
              \/ RequestStep(r)
       PROVE  UNCHANGED <<bookVars, view, exact>> \/ Rereads \/ Adds
  <2>1. CASE GetBookWrite(r)
    <3>1. /\ requests[r] # Nothing /\ requests[r].kind = "book" /\ UNCHANGED view
          /\ HydrateBook(requests[r].spot, requests[r].levels)
      BY <2>1 DEF GetBookWrite, At, othersOfRequest
    <3>2. requests[r].spot \in Spots /\ requests[r].levels \in [Sides -> Levels]
      BY <3>1 DEF TypeInv, RequestsTyped, RequestTyped
    <3> QED BY <3>1, <3>2 DEF Rereads
  <2>2. CASE IndexApply(r)
    <3> PICK k, body : k = requests[r].key /\ body = requests[r].body
      OBVIOUS
    <3>1. /\ requests[r] # Nothing /\ requests[r].kind = "index"
          /\ requests[r].stage = "applying" /\ UNCHANGED <<view, chain_hydrated>>
          /\ books' = [books EXCEPT ![k[1]] =
                        Created(AsBook(@), body.side, body.price, body.size).levels]
          /\ exact' = Without(exact, {k[1]})
      BY <2>2, Zenon DEF IndexApply, At, othersOfRequest
    <3>2. k \in Listed /\ body \in OrderBodies
      BY <1>0, <3>1, BodiesAssumption DEF CallsInv, RequestsSound, SoundRequest, IndexRequests
    <3> QED BY <3>1, <3>2 DEF Adds
  <2>3. CASE \/ GetBook(r) \/ GetBookFails(r) \/ IndexFromEvent(r) \/ MarkCancelled(r)
             \/ IndexInsert(r) \/ IndexPublish(r) \/ IndexSend(r) \/ MarkCancelledWrite(r)
    BY <2>3 DEF GetBook, GetBookFails, IndexFromEvent, MarkCancelled, IndexInsert, IndexPublish,
                IndexSend, MarkCancelledWrite, othersOfRequest
  <2> QED BY <1>10, <2>1, <2>2, <2>3 DEF RequestStep
<1> QED BY <1>1, <1>2, <1>3, <1>4, <1>5, <1>6, <1>7, <1>8, <1>9, <1>10 DEF Next, IndexerStep

LEMMA HydratedFact ==
  ASSUME NEW levels, NEW answer \in [Sides -> Levels]
  PROVE  /\ Hydrated(AsBook(levels), answer, NoPrice).levels \in [Sides -> Levels]
         /\ \A side \in Sides, price \in Prices :
              Resting(Hydrated(AsBook(levels), answer, NoPrice).levels[side], price)
                = Resting(answer[side], price)
<1> PICK after : after = Hydrated(AsBook(levels), answer, NoPrice).levels
  OBVIOUS
<1>1. after = [side \in Sides |-> [p \in {q \in DOMAIN answer[side] : answer[side][q] > 0} |->
                                     answer[side][p]]]
  BY DEF Hydrated
<1>2. ASSUME NEW side \in Sides
      PROVE  /\ after[side] \in Levels
             /\ \A price \in Prices : Resting(after[side], price) = Resting(answer[side], price)
  <2> PICK P \in SUBSET Prices : answer[side] \in [P -> Amounts]
    BY DEF Levels
  <2> PICK Q : Q = {q \in DOMAIN answer[side] : answer[side][q] > 0}
    OBVIOUS
  <2>1. after[side] = [p \in Q |-> answer[side][p]]
    BY <1>1
  <2>2. Q \in SUBSET Prices /\ after[side] \in [Q -> Amounts]
    BY <2>1
  <2>3. \A p \in P : p \notin Q => answer[side][p] = 0
    BY MaxAmountAssumption DEF Amounts
  <2>4. ASSUME NEW price \in Prices
        PROVE  Resting(after[side], price) = Resting(answer[side], price)
    BY <2>1, <2>3 DEF Resting
  <2> QED BY <2>2, <2>4 DEF Levels
<1>3. after \in [Sides -> Levels]
  BY <1>1, <1>2
<1> QED BY <1>2, <1>3

LEMMA BooksStayTyped ==
  ASSUME TrackInv, TypeInv, [Next]_vars
  PROVE  BooksTyped' /\ ExactTyped'
<1> USE DEF BooksTyped, ExactTyped, TypeInv
<1>0. ASSUME NEW keys
      PROVE  IsMap(Without(exact, keys), Spots, SUBSET (Sides \X Prices))
  BY DEF Without, IsMap
<1>1. CASE UNCHANGED <<bookVars, view, exact>>
  BY <1>1 DEF bookVars
<1>2. CASE LeavesOut
  BY <1>0, <1>2 DEF LeavesOut, bookVars
<1>3. CASE Rereads
  <2> PICK s \in Spots, levels \in [Sides -> Levels] : HydrateBook(s, levels)
    BY <1>3 DEF Rereads
  <2>1. Hydrated(AsBook(books[s]), levels, NoPrice).levels \in [Sides -> Levels]
    BY HydratedFact
  <2>2. books' \in [Spots -> [Sides -> Levels]]
    BY <2>1 DEF HydrateBook
  <2>3. ASSUME NEW set \in SUBSET (Sides \X Prices)
        PROVE  IsMap(Put(exact, s, set), Spots, SUBSET (Sides \X Prices))
    BY <2>3 DEF Put, IsMap
  <2>4. IsMap(exact', Spots, SUBSET (Sides \X Prices))
    BY <1>0, <2>3 DEF HydrateBook
  <2> QED BY <2>2, <2>4 DEF HydrateBook
<1>4. CASE Adds
  <2> PICK k \in Listed, body \in OrderBodies :
        /\ books' = [books EXCEPT ![k[1]] =
                      Created(AsBook(@), body.side, body.price, body.size).levels]
        /\ exact' = Without(exact, {k[1]})
    BY <1>4, Zenon DEF Adds
  <2>1. Created(AsBook(books[k[1]]), body.side, body.price, body.size).levels
          \in [Sides -> Levels]
    BY KeyFact, CreatedFact
  <2>2. books' \in [Spots -> [Sides -> Levels]]
    BY <2>1
  <2> QED BY <1>0, <1>4, <2>2 DEF Adds
<1>5. CASE Apply
  <2>1. task.event \in SoundOrderEvents /\ task.spot \in Spots
    BY <1>5, HandlerFact DEF TrackInv, Apply, BeforeBook
  <2>2. Applied(books[task.spot], task.event) \in [Sides -> Levels]
    BY <2>1, AppliedFact DEF OneLevel
  <2>3. books' \in [Spots -> [Sides -> Levels]]
    BY <1>5, <2>2 DEF Apply
  <2> QED BY <1>0, <1>5, <2>3 DEF Apply
<1> QED BY <1>1, <1>2, <1>3, <1>4, <1>5, BookStep

LEMMA IdleTyped ==
  ASSUME NEW stage \in {"stopped", "connecting", "receiving"}, task' = Idle(stage)
  PROVE  TaskTyped'
  BY DEF Idle, TaskTyped, Stages, Answers

LEMMA HandlingTyped ==
  ASSUME NEW stage \in {"ensuring", "applying"}, NEW event, NEW spot,
         task' = Handling(stage, event, spot)
  PROVE  TaskTyped'
<1>1. BeforeBook' /\ task'.stage = stage /\ task'.todo = <<>> /\ task'.answer = Nothing
  BY DEF Handling, Idle, BeforeBook
<1> QED BY <1>1 DEF TaskTyped, Stages, Answers

\* A handler goes to a stage with nothing to hydrate.
LEMMA HandlerTyped ==
  ASSUME NEW stage \in Stages \ {"hydrating"}, NEW answer \in Answers(stage),
         task'.stage = stage, task'.todo = <<>>, task'.answer = answer, BeforeBook' \/ AfterBook'
  PROVE  TaskTyped'
  BY DEF TaskTyped

\* The loop of hydrations goes on or ends.
LEMMA NextSpotTyped ==
  ASSUME CallsInv, TaskTyped, task.stage = "hydrating", NEW resume, task' = NextSpot(task, resume),
         resume = task.resume \/ (task.resume = "applying" /\ resume = "indexing")
  PROVE  TaskTyped'
<1> PICK todo : todo = task.todo
  OBVIOUS
<1>1. /\ todo \in Seq(Spots) /\ todo # <<>>
      /\ DOMAIN task = {"stage", "event", "spot", "todo", "answer", "resume"}
  BY DEF TaskTyped, CallsInv, TaskSound
<1>2. CASE Tail(todo) = <<>>
  <2>1. /\ task'.stage = resume /\ task'.todo = <<>> /\ task'.answer = Nothing
        /\ task'.event = task.event /\ task'.spot = task.spot
    BY <1>1, <1>2 DEF NextSpot
  <2>2. resume \in {"receiving", "connecting", "applying", "indexing"}
    BY DEF CallsInv, TaskSound
  <2>3. resume \in {"receiving", "connecting"} => task.event = Nothing /\ task.spot = Nothing
    BY DEF CallsInv, TaskSound, TaskTyped, BeforeBook, AfterBook
  <2> QED BY <2>1, <2>2, <2>3 DEF TaskTyped, Stages, Answers, BeforeBook, AfterBook
<1>3. CASE Tail(todo) # <<>>
  <2>1. /\ UNCHANGED <<task.stage, task.event, task.spot, task.resume>>
        /\ task'.todo = Tail(todo) /\ task'.answer = Nothing
    BY <1>1, <1>3 DEF NextSpot
  <2>2. Tail(todo) \in Seq(Spots)
    BY <1>1
  <2> QED BY <1>3, <2>1, <2>2 DEF TaskTyped, Stages, Answers, BeforeBook, AfterBook
<1> QED BY <1>2, <1>3

LEMMA TaskStaysTyped ==
  ASSUME TrackInv, History, TypeInv, [Next]_vars
  PROVE  TaskTyped'
<1>0. /\ CallsInv /\ TaskTyped /\ IndexTypeOK
      /\ DOMAIN task = {"stage", "event", "spot", "todo", "answer", "resume"}
  BY DEF TrackInv, TypeInv, CallsInv, IndexInv, TaskSound
<1>1. CASE UNCHANGED task
  BY <1>0, <1>1 DEF TaskTyped, BeforeBook, AfterBook
<1>2. CASE Restart
  <2>1. PICK list \in SpotLists : task' = Hydrating(Idle("stopped"), list, "connecting")
    BY <1>2 DEF Restart
  <2>2. list \in Seq(Spots)
    BY <1>0, SpotListFact
  <2> QED BY <2>1, <2>2, HydratingTyped DEF Stages
<1>3. CASE Connect \/ ConnectFails \/ Disconnect \/ PublishSend
  BY <1>3, IdleTyped DEF Connect, ConnectFails, Disconnect, PublishSend
<1>4. CASE HydrateRead
  <2> PICK answer : answer = ChainBook(Head(task.todo))
    OBVIOUS
  <2>1. answer \in [Sides -> Levels]
    BY <1>0, ChainBookFact
  <2>2. /\ UNCHANGED <<task.stage, task.event, task.spot, task.resume, task.todo>>
        /\ task.stage = "hydrating" /\ task'.answer = answer
    BY <1>0, <1>4 DEF HydrateRead
  <2> QED BY <1>0, <2>1, <2>2 DEF TaskTyped, Answers, BeforeBook, AfterBook
<1>5. CASE HydrateWrite \/ HydrateFails
  <2>1. /\ task.stage = "hydrating"
        /\ \/ task' = NextSpot(task, task.resume)
           \/ task.resume = "applying" /\ task' = NextSpot(task, "indexing")
    BY <1>5 DEF HydrateWrite, HydrateFails
  <2> QED BY <1>0, <2>1, NextSpotTyped
<1>6. CASE Ensure
  <2>1. task.stage = "ensuring" /\ task.todo = <<>> /\ task.answer = Nothing /\ task.spot \in Spots
    BY <1>0, <1>6, HandlerFact DEF Ensure, TaskTyped, Answers, BeforeBook
  <2>2. CASE task.spot \in chain_hydrated
    <3>1. task' = [task EXCEPT !.stage = "applying"]
      BY <1>6, <2>2 DEF Ensure
    <3>2. task'.stage = "applying" /\ task'.todo = <<>> /\ task'.answer = Nothing /\ BeforeBook'
      BY <1>0, <2>1, <3>1 DEF BeforeBook
    <3> QED BY <3>2, HandlerTyped DEF Stages, Answers
  <2>3. CASE task.spot \notin chain_hydrated
    <3>1. task' = [task EXCEPT !.stage = "hydrating", !.todo = <<task.spot>>,
                               !.resume = "applying"]
      BY <1>6, <2>3 DEF Ensure, Hydrating
    <3>2. /\ task'.stage = "hydrating" /\ task'.todo = <<task.spot>> /\ task'.answer = Nothing
          /\ BeforeBook'
      BY <1>0, <2>1, <3>1 DEF BeforeBook
    <3> QED BY <2>1, <3>2 DEF TaskTyped, Stages, Answers
  <2> QED BY <2>2, <2>3
<1>7. CASE Apply
  <2>1. task.stage = "applying" /\ task' = [task EXCEPT !.stage = "indexing"]
    BY <1>7 DEF Apply
  <2>2. task'.stage = "indexing" /\ task'.todo = <<>> /\ task'.answer = Nothing /\ AfterBook'
    BY <1>0, <2>1 DEF TaskTyped, Answers, AfterBook
  <2> QED BY <2>2, HandlerTyped DEF Stages, Answers
<1>8. CASE IndexEvent
  <2>1. task.stage = "indexing" /\ task' = [task EXCEPT !.stage = "publishing"]
    BY <1>8, Zenon DEF IndexEvent
  <2>2. task'.stage = "publishing" /\ task'.todo = <<>> /\ task'.answer = Nothing /\ AfterBook'
    BY <1>0, <2>1 DEF TaskTyped, Answers, AfterBook
  <2> QED BY <2>2, HandlerTyped DEF Stages, Answers
<1>9. CASE PublishRead
  <2>1. CASE HasOrder(TaskKey)
    <3> PICK status : status = orders[TaskKey].status
      OBVIOUS
    <3>1. /\ task.stage = "publishing"
          /\ task' = [task EXCEPT !.stage = AfterRead, !.answer = status]
          /\ AfterRead \in {"trading", "sending"}
      BY <1>9, <2>1 DEF PublishRead, AfterRead
    <3>2. status \in Statuses
      BY <1>0, <2>1 DEF IndexTypeOK, IsMap, HasOrder, StoredOrders
    <3>3. /\ task'.stage \in {"trading", "sending"} /\ task'.todo = <<>> /\ task'.answer = status
          /\ AfterBook'
      BY <1>0, <3>1 DEF TaskTyped, AfterBook
    <3> QED BY <3>2, <3>3, HandlerTyped DEF Stages, Answers
  <2>2. CASE ~HasOrder(TaskKey)
    BY <1>9, <2>2, IdleTyped DEF PublishRead
  <2> QED BY <2>1, <2>2
<1>10. CASE PublishTrade
  <2>1. task.stage = "trading" /\ task' = [task EXCEPT !.stage = "sending"]
    BY <1>10 DEF PublishTrade
  <2>2. /\ task'.stage = "sending" /\ task'.todo = <<>> /\ task'.answer \in Statuses
        /\ AfterBook'
    BY <1>0, <2>1 DEF TaskTyped, Answers, AfterBook
  <2> QED BY <2>2, HandlerTyped DEF Stages, Answers
<1>11. CASE ReceiveMarket
  <2>1. PICK m \in Markets : task' = Hydrating(Idle("receiving"), SpotsOf[m], "receiving")
    BY <1>11 DEF ReceiveMarket
  <2>2. SpotsOf[m] \in Seq(Spots)
    <3>1. PICK yes, no \in Spots : SpotsOf[m] = <<yes, no>>
      BY SpotsOfAssumption
    <3>2. <<yes, no>> \in Seq(Spots)
      OBVIOUS
    <3> QED BY <3>1, <3>2
  <2> QED BY <2>1, <2>2, HydratingTyped DEF Stages
<1>12. ASSUME NEW event, NEW stage \in {"ensuring", "applying"}, Resolve(event, stage)
       PROVE  TaskTyped'
  <2>1. \/ \E spot : task' = Handling(stage, event, spot)
        \/ \E list \in SpotLists : task' = Hydrating(Idle("receiving"), list, "receiving")
    BY <1>12, Zenon DEF Resolve
  <2> QED BY <1>0, <2>1, SpotListFact, HandlingTyped, HydratingTyped DEF Stages
<1>13. CASE ReceiveCreated \/ ReceiveFilled
  <2>1. UNCHANGED task \/ \E event, spot : task' = Handling("ensuring", event, spot)
    <3> PICK now : now = Head(stream)
      OBVIOUS
    <3>1. \/ UNCHANGED task
          \/ task' = Handling("ensuring", now, now.key[1])
      BY <1>13 DEF ReceiveCreated, ReceiveFilled
    <3> QED BY <3>1
  <2> QED BY <1>1, <2>1, HandlingTyped
<1>14. CASE ReceiveCancelled \/ ReceiveUpdated
  BY <1>12, <1>14 DEF ReceiveCancelled, ReceiveUpdated
<1>15. CASE \/ UNCHANGED vars \/ ChainStep \/ ReceiveResolved
            \/ \E r \in Requests :
                 \/ GetBook(r) \/ GetBookFails(r) \/ IndexFromEvent(r) \/ MarkCancelled(r)
                 \/ RequestStep(r)
  <2>1. UNCHANGED task
    <3>1. CASE UNCHANGED vars \/ ReceiveResolved
      BY <3>1 DEF vars, ReceiveResolved
    <3>2. CASE ChainStep
      <4>1. \E event : Makes(event)
        BY <3>2, ChainStepMakes
      <4> QED BY <4>1 DEF Makes
    <3>3. CASE \E r \in Requests :
                 \/ GetBook(r) \/ GetBookFails(r) \/ IndexFromEvent(r) \/ MarkCancelled(r)
                 \/ RequestStep(r)
      <4>1. RequestOnly
        BY <1>0, <3>3, RequestFact
      <4> QED BY <4>1 DEF RequestOnly
    <3> QED BY <1>15, <3>1, <3>2, <3>3
  <2> QED BY <1>1, <2>1
<1> QED BY <1>2, <1>3, <1>4, <1>5, <1>6, <1>7, <1>8, <1>9, <1>10, <1>11, <1>13, <1>14, <1>15
        DEF Next, IndexerStep

\* No order leaves the index.
LEMMA OrdersStay ==
  ASSUME UNCHANGED indexVars \/ IndexCall, NEW key, HasOrder(key)
  PROVE  HasOrder(key)'
<1> USE DEF HasOrder
<1>1. CASE UNCHANGED indexVars
  BY <1>1 DEF indexVars
<1>2. CASE \E m \in Markets : IndexMarket(m) \/ ResolveMarket(m)
  BY <1>2 DEF IndexMarket, ResolveMarket
<1>3. CASE \E s \in Spots, price \in Prices : RecordTrade(s, price)
  BY <1>3 DEF RecordTrade
<1>4. ASSUME NEW k \in Keys, NEW body, IndexOrder(k, body)
      PROVE  HasOrder(key)'
  BY <1>4, InsertFact
<1>5. ASSUME NEW k \in Keys, NEW stored, Change(k, stored)
      PROVE  HasOrder(key)'
  BY <1>5, ChangeFact
<1>6. ASSUME NEW k \in Keys, NEW amount, NEW remaining, NEW fully,
             UpdateCancelled(k) \/ UpdateAmount(k, amount, remaining)
               \/ UpdateFill(k, amount, remaining, fully)
      PROVE  HasOrder(key)'
  BY <1>5, <1>6 DEF UpdateCancelled, UpdateAmount, UpdateFill
<1>7. CASE IndexNext
  <2>1. CASE \E k \in Keys, body \in Bodies : IndexOrder(k, body)
    BY <1>4, <2>1
  <2>2. CASE \E k \in Keys :
               \/ UpdateCancelled(k)
               \/ \E amount, remaining \in Amounts, fully \in BOOLEAN :
                    UpdateAmount(k, amount, remaining) \/ UpdateFill(k, amount, remaining, fully)
    BY <1>6, <2>2
  <2> HIDE DEF HasOrder
  <2> QED BY <1>2, <1>3, <1>7, <2>1, <2>2, Zenon DEF IndexNext
<1>8. CASE \E k \in Keys, body \in OrderBodies : IndexOrder(k, body)
  BY <1>4, <1>8
<1> QED BY <1>1, <1>7, <1>8 DEF IndexCall

LEMMA RequestTypedStays ==
  ASSUME UNCHANGED indexVars \/ IndexCall, NEW q, RequestTyped(q)
  PROVE  RequestTyped(q)'
<1>1. HasOrder(q.key) => HasOrder(q.key)'
  BY OrdersStay
<1> QED BY <1>1 DEF RequestTyped

\* One request becomes q.
LEMMA RequestGoes ==
  ASSUME CallsInv, RequestsTyped, UNCHANGED indexVars \/ IndexCall,
         NEW r \in Requests, NEW q, Go(r, q), RequestTyped(q)'
  PROVE  RequestsTyped'
<1> SUFFICES ASSUME NEW p \in Requests PROVE RequestTyped(requests[p])'
  BY DEF RequestsTyped
<1>1. requests'[p] = IF p = r THEN q ELSE requests[p]
  BY DEF Go, CallsInv, RequestsSound
<1>2. CASE p = r
  BY <1>1, <1>2 DEF RequestTyped
<1>3. CASE p # r
  <2> PICK old : old = requests[p]
    OBVIOUS
  <2>1. RequestTyped(old)
    BY DEF RequestsTyped
  <2>2. RequestTyped(old)'
    BY <2>1, RequestTypedStays
  <2> QED BY <1>1, <1>3, <2>2 DEF RequestTyped
<1> QED BY <1>2, <1>3

LEMMA RequestsStayTyped ==
  ASSUME TrackInv, History, TypeInv, [Next]_vars
  PROVE  RequestsTyped'
<1>0. /\ CallsInv /\ RequestsTyped /\ IndexTypeOK /\ ContextRoundTrips /\ RequestsSound
      /\ OrdersListed /\ (UNCHANGED indexVars \/ IndexCall)
  BY CallsNextInv DEF TrackInv, TypeInv, CallsInv, IndexInv
<1>1. ASSUME UNCHANGED requests
      PROVE  RequestsTyped'
  <2> SUFFICES ASSUME NEW p \in Requests PROVE RequestTyped(requests[p])'
    BY DEF RequestsTyped
  <2> PICK q : q = requests[p]
    OBVIOUS
  <2>1. RequestTyped(q)'
    BY <1>0, RequestTypedStays DEF RequestsTyped
  <2> QED BY <1>1, <2>1 DEF RequestTyped
<1>2. CASE UNCHANGED vars \/ ChainStep \/ IndexerStep \/ Disconnect
  <2>1. UNCHANGED requests
    <3>1. CASE ChainStep
      BY <3>1, ChainStepEmits DEF Emit
    <3>2. CASE UNCHANGED vars \/ Disconnect
      BY <3>2 DEF vars, Disconnect, httpVars
    <3>3. CASE \/ Restart \/ Connect \/ ConnectFails \/ HydrateRead \/ HydrateWrite
               \/ HydrateFails \/ Ensure \/ Apply \/ IndexEvent \/ PublishRead
               \/ PublishTrade \/ PublishSend
      BY <3>3 DEF Restart, Connect, ConnectFails, HydrateRead, HydrateWrite, HydrateFails,
                  Ensure, Apply, IndexEvent, PublishRead, PublishTrade, PublishSend, httpVars
    <3>4. CASE \/ ReceiveMarket \/ ReceiveResolved
               \/ ReceiveCreated \/ ReceiveCancelled \/ ReceiveUpdated \/ ReceiveFilled
      BY <3>4 DEF ReceiveMarket, ReceiveResolved, ReceiveCreated, ReceiveCancelled,
                  ReceiveUpdated, ReceiveFilled, ReceiveOrderEvent, Receive, httpVars
    <3> QED BY <1>2, <3>1, <3>2, <3>3, <3>4 DEF IndexerStep
  <2> QED BY <1>1, <2>1
<1>3. ASSUME NEW r \in Requests,
             \/ GetBook(r) \/ GetBookFails(r) \/ IndexFromEvent(r) \/ MarkCancelled(r)
             \/ RequestStep(r)
      PROVE  RequestsTyped'
  <2>1. CASE GetBook(r)
    <3> PICK s \in Spots :
          Begin(r, [kind |-> "book", stage |-> "writing", spot |-> s, levels |-> ChainBook(s),
                    asks_price |-> AsksPrice(s)])
      BY <2>1 DEF GetBook
    <3> PICK answer, asks : answer = ChainBook(s) /\ asks = AsksPrice(s)
      OBVIOUS
    <3> PICK q : q = [kind |-> "book", stage |-> "writing", spot |-> s, levels |-> answer,
                      asks_price |-> asks]
      OBVIOUS
    <3>1. Go(r, q) /\ q.kind \in Served /\ answer \in [Sides -> Levels]
      BY <1>0, ChainBookFact DEF Begin, Go
    <3>2. RequestTyped(q)'
      BY <3>1 DEF RequestTyped
    <3> QED BY <1>0, <3>1, <3>2, RequestGoes
  <2>2. CASE IndexFromEvent(r)
    <3> PICK k, body, is_new, stage :
          /\ Begin(r, [kind |-> "index", key |-> k, body |-> body, is_new |-> is_new,
                       stage |-> stage])
          /\ stage \in {"indexing", "applying"}
      BY <2>2 DEF IndexFromEvent
    <3> PICK q : q = [kind |-> "index", key |-> k, body |-> body, is_new |-> is_new,
                      stage |-> stage]
      OBVIOUS
    <3>1. Go(r, q) /\ q.kind \in Served
      BY DEF Begin, Go
    <3>2. RequestTyped(q)'
      BY <3>1 DEF RequestTyped
    <3> QED BY <1>0, <3>1, <3>2, RequestGoes
  <2>3. CASE MarkCancelled(r)
    <3> PICK k \in DOMAIN orders :
          Begin(r, [kind |-> "cancelled", stage |-> "writing", key |-> <<ContextSpot(k), k[2]>>])
      BY <2>3 DEF MarkCancelled
    <3>1. <<ContextSpot(k), k[2]>> = k /\ k \in Listed
      BY <1>0 DEF ContextRoundTrips, IndexTypeOK, IsMap, Keys, OrdersListed
    <3> PICK q : q = [kind |-> "cancelled", stage |-> "writing", key |-> k]
      OBVIOUS
    <3>2. Go(r, q) /\ q.kind \in Served
      BY <3>1 DEF Begin, Go
    <3>3. RequestTyped(q)'
      BY <3>1, <3>2 DEF RequestTyped
    <3> QED BY <1>0, <3>2, <3>3, RequestGoes
  <2>4. CASE GetBookWrite(r) \/ GetBookFails(r) \/ IndexSend(r) \/ MarkCancelledWrite(r)
    <3>1. Go(r, Nothing)
      BY <2>4 DEF GetBookWrite, GetBookFails, IndexSend, MarkCancelledWrite
    <3>2. RequestTyped(Nothing)'
      BY DEF RequestTyped
    <3> QED BY <1>0, <3>1, <3>2, RequestGoes
  <2> PICK old : old = requests[r]
    OBVIOUS
  <2>5. RequestTyped(old) /\ SoundRequest(old)
    BY <1>0 DEF RequestsTyped, RequestsSound
  <2>6. CASE IndexApply(r)
    <3> PICK q : q = [old EXCEPT !.stage = "indexing"]
      OBVIOUS
    <3>1. /\ old # Nothing /\ old.kind = "index" /\ old.stage = "applying"
          /\ Go(r, q)
      BY <2>6, Zenon DEF IndexApply, At
    <3>2. old \in IndexRequests
      BY <2>5, <3>1 DEF SoundRequest
    <3>3. q.kind = "index" /\ q.stage = "indexing"
      BY <3>2 DEF IndexRequests
    <3>4. RequestTyped(q)'
      BY <2>5, <3>1, <3>3 DEF RequestTyped
    <3> QED BY <1>0, <3>1, <3>4, RequestGoes
  <2>7. CASE IndexInsert(r)
    <3> PICK q : q = IF old.is_new /\ old.key[1] \in DOMAIN spot_to_market
                     THEN [old EXCEPT !.stage = "publishing"] ELSE Nothing
      OBVIOUS
    <3>1. /\ old # Nothing /\ old.kind = "index" /\ old.stage = "indexing"
          /\ IndexOrder(old.key, old.body)
          /\ Go(r, q)
      BY <2>7, Zenon DEF IndexInsert, At
    <3>2. old \in IndexRequests
      BY <2>5, <3>1 DEF SoundRequest
    <3>3. CASE old.is_new /\ old.key[1] \in DOMAIN spot_to_market
      <4>1. q.kind = "index" /\ q.stage = "publishing" /\ q.key = old.key
        BY <3>2, <3>3 DEF IndexRequests
      <4>2. HasOrder(q.key)'
        BY <3>1, <3>3, <4>1, InsertFact DEF HasOrder
      <4>3. RequestTyped(q)'
        BY <2>5, <3>1, <4>1, <4>2 DEF RequestTyped
      <4> QED BY <1>0, <3>1, <4>3, RequestGoes
    <3>4. CASE ~(old.is_new /\ old.key[1] \in DOMAIN spot_to_market)
      <4>1. q = Nothing
        BY <3>4
      <4>2. RequestTyped(q)'
        BY <4>1 DEF RequestTyped
      <4> QED BY <1>0, <3>1, <4>2, RequestGoes
    <3> QED BY <3>3, <3>4
  <2>8. CASE IndexPublish(r)
    <3> PICK status : status = orders[old.key].status
      OBVIOUS
    <3> PICK q : q = [kind |-> "index", stage |-> "sending", key |-> old.key, status |-> status]
      OBVIOUS
    <3>1. old # Nothing /\ old.kind = "index" /\ old.stage = "publishing" /\ Go(r, q)
      BY <2>8 DEF IndexPublish, At
    <3>2. status \in Statuses /\ old.kind \in Served
      BY <1>0, <2>5, <3>1 DEF RequestTyped, HasOrder, IndexTypeOK, IsMap, StoredOrders
    <3>3. RequestTyped(q)'
      BY <3>1, <3>2 DEF RequestTyped
    <3> QED BY <1>0, <3>1, <3>3, RequestGoes
  <2> QED BY <1>3, <2>1, <2>2, <2>3, <2>4, <2>6, <2>7, <2>8 DEF RequestStep
<1> QED BY <1>2, <1>3 DEF Next

\* What the user hub was sent last.
LEMMA PublishedStaysTyped ==
  ASSUME TrackInv, TypeInv, [Next]_vars
  PROVE  published' \in [Listed -> Statuses \cup {"none"}]
<1>0. published \in [Listed -> Statuses \cup {"none"}] /\ CallsInv
  BY DEF TrackInv, TypeInv
<1>1. ASSUME NEW key, NEW status \in Statuses, published' = [published EXCEPT ![key] = status]
      PROVE  published' \in [Listed -> Statuses \cup {"none"}]
  BY <1>0, <1>1
<1>2. CASE PublishSend
  <2>1. published' = [published EXCEPT ![TaskKey] = task.answer] /\ task.answer \in Statuses
    BY <1>2 DEF PublishSend, TypeInv, TaskTyped, Answers
  <2> QED BY <1>1, <2>1
<1>3. ASSUME NEW r \in Requests, IndexSend(r)
      PROVE  published' \in [Listed -> Statuses \cup {"none"}]
  <2>1. /\ published' = [published EXCEPT ![requests[r].key] = requests[r].status]
        /\ requests[r].status \in Statuses
    BY <1>3 DEF IndexSend, At, TypeInv, RequestsTyped, RequestTyped
  <2> QED BY <1>1, <2>1
<1>4. CASE UNCHANGED vars \/ ChainStep \/ Disconnect
  <2>1. UNCHANGED published
    <3>1. CASE ChainStep
      BY <3>1, ChainStepEmits DEF Emit, userVars
    <3>2. CASE UNCHANGED vars \/ Disconnect
      BY <3>2 DEF vars, Disconnect, userVars
    <3> QED BY <1>4, <3>1, <3>2
  <2> QED BY <1>0, <2>1
<1>5. CASE \/ Restart \/ Connect \/ ConnectFails \/ HydrateRead \/ HydrateWrite \/ HydrateFails
           \/ Ensure \/ Apply \/ IndexEvent \/ PublishRead \/ PublishTrade
  <2>1. UNCHANGED published
    BY <1>5 DEF Restart, Connect, ConnectFails, HydrateRead, HydrateWrite, HydrateFails,
                Ensure, Apply, IndexEvent, PublishRead, PublishTrade, userVars
  <2> QED BY <1>0, <2>1
<1>6. CASE \/ ReceiveMarket \/ ReceiveResolved
           \/ ReceiveCreated \/ ReceiveCancelled \/ ReceiveUpdated \/ ReceiveFilled
  <2>1. UNCHANGED published
    BY <1>6 DEF ReceiveMarket, ReceiveResolved, ReceiveCreated, ReceiveCancelled,
                ReceiveUpdated, ReceiveFilled, ReceiveOrderEvent, Receive, userVars
  <2> QED BY <1>0, <2>1
<1>7. ASSUME NEW r \in Requests,
             \/ GetBook(r) \/ GetBookWrite(r) \/ GetBookFails(r) \/ IndexFromEvent(r)
             \/ IndexApply(r) \/ IndexInsert(r) \/ IndexPublish(r)
             \/ MarkCancelled(r) \/ MarkCancelledWrite(r)
      PROVE  published' \in [Listed -> Statuses \cup {"none"}]
  <2>1. UNCHANGED published
    BY <1>7 DEF GetBook, GetBookWrite, GetBookFails, IndexFromEvent, IndexApply, IndexInsert,
                IndexPublish, MarkCancelled, MarkCancelledWrite, userVars
  <2> QED BY <1>0, <2>1
<1> QED BY <1>2, <1>3, <1>4, <1>5, <1>6, <1>7 DEF Next, IndexerStep, RequestStep

\* Which orders events were lost of, and which requests wrote.
LEMMA MarkedStayListed ==
  ASSUME TrackInv, TypeInv, [Next]_vars
  PROVE  missed' \cup touched' \cup late' \subseteq Listed
<1>0. missed \cup touched \cup late \subseteq Listed /\ CallsInv /\ RequestsSound
  BY DEF TrackInv, TypeInv, CallsInv
<1>1. CASE ChainStep
  <2>1. PICK event : Emit(event) /\ (event.kind \in OrderEvents => event.key \in Listed)
    BY <1>1, ChainStepEmits
  <2>2. OrdersOf(event) \subseteq Listed
    BY <2>1 DEF OrdersOf
  <2>3. UNCHANGED <<touched, late>> /\ (UNCHANGED missed \/ missed' = missed \cup OrdersOf(event))
    BY <2>1 DEF Emit
  <2> QED BY <1>0, <2>2, <2>3
<1>2. CASE Disconnect
  <2> PICK lost : lost = UNION {OrdersOf(stream[i]) : i \in 1 .. Len(stream)}
    OBVIOUS
  <2>1. UNCHANGED <<touched, late>> /\ missed' = missed \cup lost
    BY <1>2 DEF Disconnect, httpVars
  <2>2. \A i \in 1 .. Len(stream) : OrdersOf(stream[i]) \subseteq Listed
    <3> SUFFICES ASSUME NEW i \in 1 .. Len(stream) PROVE OrdersOf(stream[i]) \subseteq Listed
      OBVIOUS
    <3>1. stream[i].kind \in OrderEvents => stream[i].key \in Listed
      BY <1>0 DEF CallsInv, StreamSound, Placed
    <3> QED BY <3>1 DEF OrdersOf
  <2>3. lost \subseteq Listed
    BY <2>2
  <2> QED BY <1>0, <2>1, <2>3
<1>3. CASE UNCHANGED vars \/ IndexerStep
  <2>1. UNCHANGED <<missed, touched>> /\ late' \subseteq late
    <3>1. CASE UNCHANGED vars
      BY <3>1 DEF vars, streamVars
    <3>2. CASE \/ Restart \/ Connect \/ ConnectFails \/ HydrateRead \/ HydrateWrite
               \/ HydrateFails \/ Ensure \/ Apply \/ IndexEvent \/ PublishRead
               \/ PublishTrade \/ PublishSend
      BY <3>2 DEF Restart, Connect, ConnectFails, HydrateRead, HydrateWrite, HydrateFails,
                  Ensure, Apply, IndexEvent, PublishRead, PublishTrade, PublishSend, httpVars,
                  streamVars
    <3>3. CASE \/ ReceiveMarket \/ ReceiveResolved
               \/ ReceiveCreated \/ ReceiveCancelled \/ ReceiveUpdated \/ ReceiveFilled
      BY <3>3 DEF ReceiveMarket, ReceiveResolved, ReceiveCreated, ReceiveCancelled,
                  ReceiveUpdated, ReceiveFilled, ReceiveOrderEvent, Receive, httpVars
    <3> QED BY <1>3, <3>1, <3>2, <3>3 DEF IndexerStep
  <2> QED BY <1>0, <2>1
<1>4. ASSUME NEW r \in Requests,
             \/ GetBook(r) \/ GetBookFails(r) \/ IndexFromEvent(r) \/ MarkCancelled(r)
             \/ RequestStep(r)
      PROVE  missed' \cup touched' \cup late' \subseteq Listed
  <2>1. UNCHANGED missed
    BY <1>0, <1>4, RequestFact DEF RequestOnly
  <2>2. CASE IndexInsert(r)
    <3>1. /\ requests[r] # Nothing /\ requests[r].kind = "index"
          /\ requests[r].stage = "indexing" /\ Wrote(requests[r].key)
      BY <2>2, Zenon DEF IndexInsert, At
    <3>2. requests[r].key \in Listed
      BY <1>0, <3>1 DEF RequestsSound, SoundRequest, IndexRequests
    <3> QED BY <1>0, <2>1, <3>1, <3>2 DEF Wrote
  <2>3. CASE MarkCancelledWrite(r)
    <3>1. Wrote(requests[r].key) /\ requests[r].key \in Listed
      BY <2>3 DEF MarkCancelledWrite, At, TypeInv, RequestsTyped, RequestTyped
    <3> QED BY <1>0, <2>1, <3>1 DEF Wrote
  <2>4. CASE \/ GetBook(r) \/ GetBookWrite(r) \/ GetBookFails(r) \/ IndexFromEvent(r)
             \/ IndexApply(r) \/ IndexPublish(r) \/ IndexSend(r) \/ MarkCancelled(r)
    <3>1. UNCHANGED <<touched, late>>
      BY <2>4 DEF GetBook, GetBookWrite, GetBookFails, IndexFromEvent, IndexApply, IndexPublish,
                  IndexSend, MarkCancelled, writtenVars
    <3> QED BY <1>0, <2>1, <3>1
  <2> QED BY <1>4, <2>2, <2>3, <2>4 DEF RequestStep
<1> QED BY <1>1, <1>2, <1>3, <1>4 DEF Next

LEMMA TypeInvNext ==
  ASSUME TrackInv, History, TypeInv, [Next]_vars
  PROVE  TypeInv'
<1>1. BooksTyped' /\ ExactTyped'
  BY BooksStayTyped
<1>2. TaskTyped' /\ RequestsTyped'
  BY TaskStaysTyped, RequestsStayTyped
<1>3. published' \in [Listed -> Statuses \cup {"none"}] 
      /\ missed' \cup touched' \cup late' \subseteq Listed
  BY PublishedStaysTyped, MarkedStayListed
<1> QED BY <1>1, <1>2, <1>3 DEF TypeInv

---------------------------------------------------------------------------
(* The books follow the view.                                              *)

Shows(s, side, price) ==
  /\ Resting(books[s][side], price) <= Resting(ChainLevels(view, s)[side], price)
  /\ <<side, price>> \notin exact[s] =>
       Resting(books[s][side], price) = Resting(ChainLevels(view, s)[side], price)

LEMMA ShowsFact ==
  BookTracksStream <=>
    \A s \in DOMAIN exact, side \in Sides, price \in Prices : Shows(s, side, price)
  BY DEF BookTracksStream, Shows

LEMMA ShowsNext ==
  ASSUME \A s \in DOMAIN exact', side \in Sides, price \in Prices : Shows(s, side, price)'
  PROVE  BookTracksStream'
<1>1. (BookTracksStream <=>
         \A s \in DOMAIN exact, side \in Sides, price \in Prices : Shows(s, side, price))'
  BY ShowsFact, PTL
<1> QED BY <1>1

\* A level whose orders are as they were.
LEMMA LevelStays ==
  ASSUME NEW a, NEW b, LevelsFit(a), LevelsFit(b), NEW s, NEW side \in Sides, NEW price \in Prices,
         \A k \in Listed : AtLevel(k, s, side, price) => b[k] = a[k]
  PROVE  Resting(ChainLevels(b, s)[side], price) = Resting(ChainLevels(a, s)[side], price)
<1>1. UnitsAt(a, s, side, price) = UnitsAt(b, s, side, price)
  BY UnitsSame
<1> QED BY <1>1, RestingUnits DEF LevelsFit

\* What was read at the view shows no more than what rests there, and all of
\* it where the answer was not cut off.
LEMMA ReadFact ==
  ASSUME NEW s, NEW side \in Sides, NEW price \in Prices, LevelsFit(view),
         NEW levels, levels = ToDepth(ChainLevels(view, s))
  PROVE  /\ Resting(levels[side], price) <= Resting(ChainLevels(view, s)[side], price)
         /\ price \in DOMAIN levels[side] \/ price \notin DOMAIN ChainLevels(view, s)[side]
            => Resting(levels[side], price) = Resting(ChainLevels(view, s)[side], price)
<1> PICK real : real = ChainLevels(view, s)[side]
  OBVIOUS
<1> PICK P : P = {q \in DOMAIN real :
                    Cardinality({r \in DOMAIN real : Better(side, r, q)}) < ChainDepth}
  OBVIOUS
<1>1. levels[side] = [p \in P |-> real[p]] /\ P \subseteq DOMAIN real
  BY DEF ToDepth, Shown
<1>2. Resting(real, price) \in Nat
  BY RestingUnits, MaxAmountAssumption DEF LevelsFit, Amounts
<1> QED BY <1>1, <1>2 DEF Resting

LEMMA LeavesOutTracks ==
  ASSUME TypeInv, BookTracksStream, LevelsFit(view), LevelsFit(view'), LeavesOut
  PROVE  BookTracksStream'
<1> PICK keys \in SUBSET Listed :
      /\ exact' = Without(exact, SpotsIn(keys))
      /\ \A k \in Listed \ keys : view'[k] = view[k]
  BY DEF LeavesOut
<1> PICK after : after = view'
  OBVIOUS
<1> SUFFICES ASSUME NEW s \in DOMAIN exact', NEW side \in Sides, NEW price \in Prices
             PROVE  Shows(s, side, price)'
  BY ShowsNext
<1>1. s \in DOMAIN exact /\ s \notin SpotsIn(keys) /\ exact'[s] = exact[s]
  BY DEF Without
<1>2. \A k \in Listed : AtLevel(k, s, side, price) => after[k] = view[k]
  BY <1>1 DEF AtLevel, SpotsIn
<1>3. Resting(ChainLevels(after, s)[side], price) = Resting(ChainLevels(view, s)[side], price)
  BY <1>2, LevelStays
<1>4. Shows(s, side, price)
  BY <1>1, ShowsFact
<1>5. books'[s][side] = books[s][side]
  BY DEF LeavesOut, bookVars
<1> QED BY <1>1, <1>3, <1>4, <1>5 DEF Shows

LEMMA RereadsTracks ==
  ASSUME TypeInv, BookTracksStream, LevelsFit(view), Rereads
  PROVE  BookTracksStream'
<1> PICK spot \in Spots, levels \in [Sides -> Levels] : HydrateBook(spot, levels) /\ UNCHANGED view
  BY DEF Rereads
<1> SUFFICES ASSUME NEW s \in DOMAIN exact', NEW side \in Sides, NEW price \in Prices
             PROVE  Shows(s, side, price)'
  BY ShowsNext
<1>1. CASE s = spot
  <2> PICK set : set = {l \in Sides \X Prices : /\ l[2] \in DOMAIN ChainLevels(view, s)[l[1]]
                                               /\ l[2] \notin DOMAIN levels[l[1]]}
    OBVIOUS
  <2>1. levels = ToDepth(ChainLevels(view, s)) /\ exact'[s] = set
    BY <1>1 DEF HydrateBook, Without, Put
  <2>2. Resting(books'[s][side], price) = Resting(levels[side], price)
    <3>1. books'[s] = Hydrated(AsBook(books[s]), levels, NoPrice).levels
      BY <1>1 DEF HydrateBook, TypeInv, BooksTyped
    <3> QED BY <3>1, HydratedFact
  <2>3. <<side, price>> \notin set =>
          price \in DOMAIN levels[side] \/ price \notin DOMAIN ChainLevels(view, s)[side]
    OBVIOUS
  <2>4. UNCHANGED view
    OBVIOUS
  <2> QED BY <2>1, <2>2, <2>3, <2>4, ReadFact DEF Shows
<1>2. CASE s # spot
  <2>1. s \in DOMAIN exact /\ exact'[s] = exact[s] /\ books'[s] = books[s]
    BY <1>2 DEF HydrateBook, Without, Put, TypeInv, BooksTyped, ExactTyped, IsMap
  <2>2. Shows(s, side, price)
    BY <2>1, ShowsFact
  <2> QED BY <2>1, <2>2 DEF Shows
<1> QED BY <1>1, <1>2

LEMMA AddsTracks ==
  ASSUME TypeInv, BookTracksStream, Adds
  PROVE  BookTracksStream'
<1> PICK k \in Listed, body \in OrderBodies :
      /\ books' = [books EXCEPT ![k[1]] =
                    Created(AsBook(@), body.side, body.price, body.size).levels]
      /\ exact' = Without(exact, {k[1]}) /\ UNCHANGED view
  BY Zenon DEF Adds
<1> SUFFICES ASSUME NEW s \in DOMAIN exact', NEW side \in Sides, NEW price \in Prices
             PROVE  Shows(s, side, price)'
  BY ShowsNext
<1>1. s \in DOMAIN exact /\ exact'[s] = exact[s] /\ s # k[1]
  BY DEF Without
<1>2. books'[s] = books[s]
  BY <1>1 DEF TypeInv, BooksTyped, ExactTyped, IsMap
<1>3. Shows(s, side, price)
  BY <1>1, ShowsFact
<1> QED BY <1>1, <1>2, <1>3 DEF Shows

\* The one level that an event moves: no sum saturates, as the chain's fits.
LEMMA MovedFact ==
  ASSUME NEW event, Remaining(event.old) \in Nat, Remaining(event.new) \in Nat, NEW n \in Nat,
         n + Remaining(event.new) <= MaxAmount,
         NEW shown \in Nat, shown <= n + Remaining(event.old)
  PROVE  /\ Moved(shown, event) <= n + Remaining(event.new)
         /\ shown = n + Remaining(event.old) => Moved(shown, event) = n + Remaining(event.new)
<1> PICK old, new : old = Remaining(event.old) /\ new = Remaining(event.new)
  OBVIOUS
<1>1. CASE new > old
  <2>1. shown + (new - old) <= MaxAmount /\ shown + (new - old) <= n + new
    BY MaxAmountAssumption
  <2>2. Moved(shown, event) = shown + (new - old)
    BY <1>1, <2>1, MaxAmountAssumption DEF Moved, SaturatingAdd
  <2> QED BY <2>1, <2>2
<1>2. CASE ~(new > old)
  <2>1. Moved(shown, event) = IF shown > old - new THEN shown - (old - new) ELSE 0
    BY <1>2 DEF Moved, SaturatingSub
  <2> QED BY <1>2, <2>1
<1> QED BY <1>1, <1>2

LEMMA ApplyTracks ==
  ASSUME CallsInv, TypeInv, History, BookTracksStream, LevelsFit(view'), Apply
  PROVE  BookTracksStream'
<1> PICK event, key, spot : event = task.event /\ key = event.key /\ spot = task.spot
  OBVIOUS
<1> PICK after : after = view'
  OBVIOUS
<1>1. BeforeBook /\ event \in SoundOrderEvents /\ event.kind \in OrderEvents /\ spot \in Spots
      /\ key \in Listed /\ LevelsFit(view)
  BY HandlerFact DEF Apply, BeforeBook, Placed, History
<1>2. /\ books' = [books EXCEPT ![spot] = Applied(@, event)]
      /\ after = Viewed(view, <<event>>)
      /\ exact' = IF spot = key[1] THEN exact ELSE Without(exact, {spot, key[1]})
  BY DEF Apply
<1>3. /\ view[key] = event.old /\ after[key] = event.new
      /\ \A k \in Listed \ {key} : after[k] = view[k]
  BY <1>1, <1>2, ViewedOne DEF History
<1>4. books \in [Spots -> [Sides -> Levels]] /\ DOMAIN exact \subseteq Spots
  BY DEF TypeInv, BooksTyped, ExactTyped, IsMap
<1> SUFFICES ASSUME NEW s \in DOMAIN exact', NEW side \in Sides, NEW price \in Prices
             PROVE  Shows(s, side, price)'
  BY ShowsNext
<1>5. s \in DOMAIN exact /\ exact'[s] = exact[s] /\ (s = spot => spot = key[1])
      /\ (s = key[1] => spot = key[1])
  BY <1>2 DEF Without
<1>6. Shows(s, side, price)
  BY <1>5, ShowsFact
<1>7. CASE s # spot
  <2>1. books'[s] = books[s]
    BY <1>2, <1>4, <1>5, <1>7
  <2>2. \A k \in Listed : AtLevel(k, s, side, price) => after[k] = view[k]
    BY <1>3, <1>5, <1>7 DEF AtLevel
  <2>3. Resting(ChainLevels(after, s)[side], price) = Resting(ChainLevels(view, s)[side], price)
    BY <1>1, <2>2, LevelStays
  <2> QED BY <1>5, <1>6, <2>1, <2>3 DEF Shows
<1>8. CASE s = spot
  <2>1. /\ books'[s] = Applied(books[s], event) /\ books[s] \in [Sides -> Levels]
        /\ s = key[1]
    BY <1>1, <1>2, <1>4, <1>5, <1>8
  <2>2. OneLevel(books[s], books'[s], OrderSide[key], OrderPrice[key],
                 Moved(Resting(books[s][OrderSide[key]], OrderPrice[key]), event))
    BY <1>1, <2>1, AppliedFact
  <2>3. CASE ~(side = OrderSide[key] /\ price = OrderPrice[key])
    <3>1. Resting(books'[s][side], price) = Resting(books[s][side], price)
      BY <2>2, <2>3 DEF OneLevel
    <3>2. \A k \in Listed : AtLevel(k, s, side, price) => after[k] = view[k]
      BY <1>3, <2>3 DEF AtLevel
    <3>3. Resting(ChainLevels(after, s)[side], price) = Resting(ChainLevels(view, s)[side], price)
      BY <1>1, <3>2, LevelStays
    <3> QED BY <1>5, <1>6, <3>1, <3>3 DEF Shows
  <2>4. CASE side = OrderSide[key] /\ price = OrderPrice[key]
    <3> PICK shown : shown = Resting(books[s][side], price)
      OBVIOUS
    <3>1. Resting(books'[s][side], price) = Moved(shown, event) /\ shown \in Nat
      <4>1. Resting(books'[s][side], price) = Moved(shown, event)
        BY <2>2, <2>4 DEF OneLevel
      <4>2. shown \in Amounts
        BY <2>1, RestingAmount
      <4> QED BY <4>1, <4>2, MaxAmountAssumption DEF Amounts
    <3>2. Remaining(view[key]) \in Nat /\ Remaining(after[key]) \in Nat
      BY <1>1, <1>3, RemainingFact DEF SoundOrderEvents
    <3>3. AtLevel(key, s, side, price) /\ LevelFits(view, s, side, price)
          /\ LevelFits(after, s, side, price)
      BY <1>1, <2>1, <2>4 DEF AtLevel, LevelsFit
    <3>4. PICK n \in Nat :
            /\ Cardinality(UnitsAt(view, s, side, price)) = n + Remaining(view[key])
            /\ Cardinality(UnitsAt(after, s, side, price)) = n + Remaining(after[key])
      BY <1>1, <1>3, <3>2, <3>3, UnitsChange DEF LevelFits
    <3>5. /\ Resting(ChainLevels(view, s)[side], price) = n + Remaining(event.old)
          /\ Resting(ChainLevels(after, s)[side], price) = n + Remaining(event.new)
      BY <1>3, <3>3, <3>4, RestingUnits
    <3>6. n + Remaining(event.new) <= MaxAmount
      BY <1>3, <3>3, <3>4 DEF LevelFits
    <3>7. /\ Moved(shown, event) <= n + Remaining(event.new)
          /\ shown = n + Remaining(event.old) => Moved(shown, event) = n + Remaining(event.new)
      BY <1>3, <1>6, <3>1, <3>2, <3>5, <3>6, MovedFact DEF Shows
    <3> QED BY <1>5, <1>6, <3>1, <3>5, <3>7 DEF Shows
  <2> QED BY <2>3, <2>4
<1> QED BY <1>7, <1>8

---------------------------------------------------------------------------
BookInv == TrackInv /\ History /\ TypeInv /\ BookTracksStream

LEMMA BookInitInv == Init => BookInv
<1> SUFFICES ASSUME Init PROVE BookInv
  OBVIOUS
<1>1. TrackInv /\ History /\ TypeInv
  BY TrackInitInv, HistoryInit, TypeInvInit
<1>2. BookTracksStream
  <2> SUFFICES ASSUME NEW s \in Spots, NEW side \in Sides, NEW price \in Prices
               PROVE  Shows(s, side, price)
    BY ShowsFact DEF Init
  <2>1. Resting(books[s][side], price) = 0
    BY DEF Init, EmptyBook, NoLevels, Resting
  <2>2. UnitsAt(view, s, side, price) = {}
    <3> SUFFICES ASSUME NEW unit \in UnitsAt(view, s, side, price) PROVE FALSE
      OBVIOUS
    <3>1. unit[1] \in Listed /\ unit[2] \in 1 .. Remaining(view[unit[1]])
      BY UnitFact
    <3>2. Remaining(view[unit[1]]) = 0
      BY <3>1 DEF Init, Remaining, Cancellable
    <3> QED BY <3>1, <3>2
  <2>3. Resting(ChainLevels(view, s)[side], price) = 0
    <3>1. LevelFits(view, s, side, price)
      BY <1>1 DEF History, LevelsFit
    <3>2. Resting(ChainLevels(view, s)[side], price) = Cardinality(UnitsAt(view, s, side, price))
      BY <3>1, RestingUnits
    <3> QED BY <2>2, <3>2, FS_EmptySet
  <2> QED BY <2>1, <2>3 DEF Shows
<1> QED BY <1>1, <1>2 DEF BookInv

LEMMA BookNextInv ==
  ASSUME BookInv, [Next]_vars
  PROVE  BookInv'
<1>1. TrackInv' /\ CallsInv'
  BY TrackNextInv DEF BookInv, TrackInv
<1>2. History'
  BY <1>1, HistoryNext DEF BookInv
<1>3. TypeInv'
  BY TypeInvNext DEF BookInv
<1>4. LevelsFit(view) /\ LevelsFit(view')
  BY <1>2 DEF BookInv, History
<1>5. BookTracksStream'
  <2>1. UNCHANGED <<bookVars, view, exact>> \/ LeavesOut \/ Rereads \/ Adds \/ Apply
    BY BookStep DEF BookInv
  <2>2. CASE UNCHANGED <<bookVars, view, exact>>
    <3> SUFFICES ASSUME NEW s \in DOMAIN exact', NEW side \in Sides, NEW price \in Prices
                 PROVE  Shows(s, side, price)'
      BY ShowsNext
    <3>1. Shows(s, side, price)
      BY <2>2, ShowsFact DEF BookInv
    <3> QED BY <2>2, <3>1 DEF Shows, bookVars
  <2>3. CASE LeavesOut
    BY <1>4, <2>3, LeavesOutTracks DEF BookInv
  <2>4. CASE Rereads
    BY <1>4, <2>4, RereadsTracks DEF BookInv
  <2>5. CASE Adds
    BY <2>5, AddsTracks DEF BookInv
  <2>6. CASE Apply
    BY <1>4, <2>6, ApplyTracks DEF BookInv, TrackInv
  <2> QED BY <2>1, <2>2, <2>3, <2>4, <2>5, <2>6
<1> QED BY <1>1, <1>2, <1>3, <1>5 DEF BookInv

\* In every state of the indexer and the requests beside it the chain's levels
\* were in range in each state that the events on their way lead through, and
\* a book that was read at one of them follows (processor.rs:130-383,
\* book_store.rs:126-251).
THEOREM BooksFollow == Spec => []BookInv
<1>1. BookInv /\ [Next]_vars => BookInv'
  BY BookNextInv
<1> QED BY <1>1, BookInitInv, PTL DEF Spec

\* Every variable of the indexer keeps its type: an answer of the chain, a
\* status and an event are what the step that uses them takes them for, whatever
\* steps of the requests come between (processor.rs:94-383, book_store.rs:88-251).
THEOREM IndexerTypeCorrect == Spec => []TypeOK
<1>1. BookInv => TypeOK
  BY TypeInvSuffices DEF BookInv
<1> QED BY <1>1, BooksFollow, PTL

\* A book that was in step with the stream stays in step with it, each of its
\* levels exactly or, below the depth it was read with, from below
\* (processor.rs:130-383, book_store.rs:126-251).
THEOREM BooksTrackStream == Spec => []BookTracksStream
<1>1. BookInv => BookTracksStream
  BY DEF BookInv
<1> QED BY <1>1, BooksFollow, PTL
=============================================================================
