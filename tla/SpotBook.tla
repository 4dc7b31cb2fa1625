------------------------------ MODULE SpotBook ------------------------------
(***************************************************************************)
(* One aggregated order book (struct SpotBook of indexer/book_store.rs)    *)
(* and the arithmetic that events apply to it.  A side maps each price     *)
(* that has resting quantity to that quantity, exactly as the BTreeMaps of *)
(* the code do; a price that is not in the map has no level.               *)
(*                                                                         *)
(* A book is created by the first write that touches it and every such     *)
(* write increments its sequence number, so "the HashMap has no entry" is  *)
(* the book with sequence 0.                                               *)
(***************************************************************************)
EXTENDS Naturals, FiniteSets

CONSTANTS Prices,      \* the prices that occur, 0 included: no event may rest there
          MaxAmount,   \* u64::MAX, where saturating_add stops
          NoPrice      \* Option::None of last_trade_price

ASSUME PricesAssumption == Prices \subseteq Nat
ASSUME NoPriceAssumption == NoPrice \notin Prices
ASSUME MaxAmountAssumption == MaxAmount \in Nat \ {0}

Sides == {"buy", "sell"}
Amounts == 0 .. MaxAmount
Levels == UNION {[P -> Amounts] : P \in SUBSET Prices}
LastPrices == Prices \cup {NoPrice}

SpotBooks == [levels : [Sides -> Levels],
              sequence : Nat,
              last_trade_price : LastPrices]

NoLevels == [price \in {} |-> 0]

EmptyBook == [levels |-> [side \in Sides |-> NoLevels],
              sequence |-> 0,
              last_trade_price |-> NoPrice]

---------------------------------------------------------------------------
\* Mutant: the addition does not saturate.
AddUnbounded(a, b) == a + b

SaturatingAdd(a, b) == IF a + b > MaxAmount THEN MaxAmount ELSE a + b
SaturatingSub(a, b) == IF a > b THEN a - b ELSE 0

Resting(levels, price) == IF price \in DOMAIN levels THEN levels[price] ELSE 0

\* Mutant: an emptied level stays.
SetLevelKept(levels, price, size) ==
  [p \in DOMAIN levels \cup {price} |-> IF p = price THEN size ELSE levels[p]]

\* A level of size 0 is removed, never stored.
SetLevel(levels, price, size) ==
  IF size = 0
  THEN [p \in DOMAIN levels \ {price} |-> levels[p]]
  ELSE [p \in DOMAIN levels \cup {price} |-> IF p = price THEN size ELSE levels[p]]

\* BookStore::apply_level_change: the level, the sequence and, for a fill,
\* the last trade price change together.
LevelChange(book, side, price, size, trade) ==
  [levels |-> [book.levels EXCEPT ![side] = SetLevel(@, price, size)],
   sequence |-> book.sequence + 1,
   last_trade_price |-> IF trade = NoPrice THEN book.last_trade_price ELSE trade]

Grown(book, side, price, amount) ==
  LevelChange(book, side, price,
              SaturatingAdd(Resting(book.levels[side], price), amount), NoPrice)

Shrunk(book, side, price, amount, trade) ==
  LevelChange(book, side, price,
              SaturatingSub(Resting(book.levels[side], price), amount), trade)

---------------------------------------------------------------------------
(* The four events.  Each returns the book unchanged on its early return.  *)

Created(book, side, price, amount) ==
  IF price = 0 \/ amount = 0 THEN book ELSE Grown(book, side, price, amount)

Cancelled(book, side, price, amount) ==
  IF price = 0 \/ amount = 0 THEN book ELSE Shrunk(book, side, price, amount, NoPrice)

\* Mutant: what was filled is forgotten.
UpdatedUnfilled(book, side, price, oldAmount, newAmount, newRemaining) ==
  IF price = 0 \/ oldAmount = newRemaining THEN book
  ELSE IF newRemaining > oldAmount
  THEN Grown(book, side, price, newRemaining - oldAmount)
  ELSE Shrunk(book, side, price, oldAmount - newRemaining, NoPrice)

\* The event names the old and the new total amount and the new remainder;
\* the level moves by the difference between the remainders.
Updated(book, side, price, oldAmount, newAmount, newRemaining) ==
  LET filled == SaturatingSub(newAmount, newRemaining)
      oldRemaining == SaturatingSub(oldAmount, filled)
  IN IF price = 0 \/ oldRemaining = newRemaining THEN book
     ELSE IF newRemaining > oldRemaining
     THEN Grown(book, side, price, newRemaining - oldRemaining)
     ELSE Shrunk(book, side, price, oldRemaining - newRemaining, NoPrice)

Filled(book, side, price, amount) ==
  IF price = 0 \/ amount = 0 THEN book ELSE Shrunk(book, side, price, amount, price)

\* Mutant: the levels that the chain no longer has stay.
HydratedOver(book, chainLevels, trade) ==
  [levels |-> [side \in Sides |->
                 [p \in DOMAIN chainLevels[side] \cup DOMAIN book.levels[side] |->
                    IF p \in DOMAIN chainLevels[side] THEN chainLevels[side][p]
                    ELSE book.levels[side][p]]],
   sequence |-> book.sequence + 1,
   last_trade_price |-> IF trade = NoPrice THEN book.last_trade_price ELSE trade]

\* Mutant: a hydration does not count as a write.
HydratedUncounted(book, chainLevels, trade) ==
  [levels |-> [side \in Sides |->
                 [p \in {q \in DOMAIN chainLevels[side] : chainLevels[side][q] > 0} |->
                    chainLevels[side][p]]],
   sequence |-> book.sequence,
   last_trade_price |-> IF trade = NoPrice THEN book.last_trade_price ELSE trade]

\* hydrate_from_chain: both sides are replaced by the levels of the chain's
\* answer that are not empty.
Hydrated(book, chainLevels, trade) ==
  [levels |-> [side \in Sides |->
                 [p \in {q \in DOMAIN chainLevels[side] : chainLevels[side][q] > 0} |->
                    chainLevels[side][p]]],
   sequence |-> book.sequence + 1,
   last_trade_price |-> IF trade = NoPrice THEN book.last_trade_price ELSE trade]

---------------------------------------------------------------------------
(* What readers are shown.                                                 *)

Better(side, p, q) == IF side = "buy" THEN p > q ELSE p < q

\* book_to_response: the depth best prices of a side.
Shown(levels, side, depth) ==
  [p \in {q \in DOMAIN levels :
            Cardinality({r \in DOMAIN levels : Better(side, r, q)}) < depth} |-> levels[p]]

Snapshot(book, depth) ==
  [levels |-> [side \in Sides |-> Shown(book.levels[side], side, depth)],
   sequence |-> book.sequence,
   last_trade_price |-> book.last_trade_price]

\* quote_from_book: a snapshot of the best level of each side.
Quote(book) == Snapshot(book, 1)
=============================================================================
