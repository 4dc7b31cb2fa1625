--------------------------- MODULE BookFeedProofs ---------------------------
(***************************************************************************)
(* Type correctness of BookFeed, NoEmptyLevels, CopyIsSound,               *)
(* GapsAreRehydrations and QuoteIsLatest for every set of spots, prices    *)
(* and readers, every amount width, ring capacity and snapshot depth.      *)
(***************************************************************************)
EXTENDS BookFeed, TLAPS

---------------------------------------------------------------------------
(* The pure operators of SpotBook.                                         *)

\* A member of Levels is a function from some prices to amounts.
LEMMA LevelsFact ==
  ASSUME NEW levels
  PROVE  levels \in Levels <=>
           /\ levels = [p \in DOMAIN levels |-> levels[p]]
           /\ DOMAIN levels \subseteq Prices
           /\ \A p \in DOMAIN levels : levels[p] \in Amounts
<1>1. ASSUME levels \in Levels
      PROVE  /\ levels = [p \in DOMAIN levels |-> levels[p]]
             /\ DOMAIN levels \subseteq Prices
             /\ \A p \in DOMAIN levels : levels[p] \in Amounts
  <2>1. PICK P \in SUBSET Prices : levels \in [P -> Amounts]
    BY <1>1 DEF Levels
  <2> QED
    BY <2>1
<1>2. ASSUME levels = [p \in DOMAIN levels |-> levels[p]],
             DOMAIN levels \subseteq Prices,
             \A p \in DOMAIN levels : levels[p] \in Amounts
      PROVE  levels \in Levels
  <2>1. levels \in [DOMAIN levels -> Amounts]
    BY <1>2
  <2> QED
    BY <1>2, <2>1 DEF Levels
<1> QED
  BY <1>1, <1>2

LEMMA NoLevelsType == NoLevels \in Levels
  BY LevelsFact DEF NoLevels

LEMMA EmptyBookType == EmptyBook \in SpotBooks
  BY NoLevelsType DEF EmptyBook, SpotBooks, LastPrices

LEMMA AmountArithmetic ==
  ASSUME NEW a \in Amounts, NEW b \in Amounts
  PROVE  SaturatingAdd(a, b) \in Amounts /\ SaturatingSub(a, b) \in Amounts
  BY MaxAmountAssumption DEF SaturatingAdd, SaturatingSub, Amounts

LEMMA RestingType ==
  ASSUME NEW levels \in Levels, NEW price
  PROVE  Resting(levels, price) \in Amounts
<1>1. 0 \in Amounts
  BY MaxAmountAssumption DEF Amounts
<1> QED
  BY <1>1, LevelsFact DEF Resting

\* SetLevel keeps the type, changes one price only, reads back what was set
\* and never stores an empty level.
LEMMA SetLevelFact ==
  ASSUME NEW levels \in Levels, NEW price \in Prices, NEW size \in Amounts
  PROVE  /\ SetLevel(levels, price, size) \in Levels
         /\ Resting(SetLevel(levels, price, size), price) = size
         /\ \A p : p # price =>
              /\ p \in DOMAIN SetLevel(levels, price, size) <=> p \in DOMAIN levels
              /\ p \in DOMAIN levels => SetLevel(levels, price, size)[p] = levels[p]
         /\ price \in DOMAIN SetLevel(levels, price, size) <=> size # 0
         /\ size # 0 => SetLevel(levels, price, size)[price] = size
<1>0. DOMAIN levels \subseteq Prices /\ \A p \in DOMAIN levels : levels[p] \in Amounts
  BY LevelsFact
<1>1. CASE size = 0
  <2> DEFINE new == [p \in DOMAIN levels \ {price} |-> levels[p]]
  <2>1. SetLevel(levels, price, size) = new
    BY <1>1 DEF SetLevel
  <2>2. new \in Levels
    BY <1>0, LevelsFact
  <2> QED
    BY <1>1, <2>1, <2>2 DEF Resting
<1>2. CASE size # 0
  <2> DEFINE new == [p \in DOMAIN levels \cup {price} |-> IF p = price THEN size ELSE levels[p]]
  <2>1. SetLevel(levels, price, size) = new
    BY <1>2 DEF SetLevel
  <2>2. new \in Levels
    BY <1>0, LevelsFact
  <2> QED
    BY <1>2, <2>1, <2>2 DEF Resting
<1> QED
  BY <1>1, <1>2

LEMMA LevelChangeType ==
  ASSUME NEW book \in SpotBooks, NEW side \in Sides, NEW price \in Prices,
         NEW size \in Amounts, NEW trade \in LastPrices
  PROVE  /\ LevelChange(book, side, price, size, trade) \in SpotBooks
         /\ LevelChange(book, side, price, size, trade).sequence = book.sequence + 1
<1>1. SetLevel(book.levels[side], price, size) \in Levels
  BY SetLevelFact DEF SpotBooks
<1> QED
  BY <1>1 DEF LevelChange, SpotBooks

\* An event leaves the book alone or changes exactly one level.
OneLevelChanged(book, next, side, price) ==
  \E size \in Amounts, trade \in LastPrices :
    next = LevelChange(book, side, price, size, trade)

LEMMA GrownFact ==
  ASSUME NEW book \in SpotBooks, NEW side \in Sides, NEW price \in Prices,
         NEW amount \in Amounts
  PROVE  OneLevelChanged(book, Grown(book, side, price, amount), side, price)
<1>1. SaturatingAdd(Resting(book.levels[side], price), amount) \in Amounts
  BY RestingType, AmountArithmetic DEF SpotBooks
<1>2. NoPrice \in LastPrices
  BY DEF LastPrices
<1> QED
  BY <1>1, <1>2 DEF Grown, OneLevelChanged

LEMMA ShrunkFact ==
  ASSUME NEW book \in SpotBooks, NEW side \in Sides, NEW price \in Prices,
         NEW amount \in Amounts, NEW trade \in LastPrices
  PROVE  OneLevelChanged(book, Shrunk(book, side, price, amount, trade), side, price)
<1>1. SaturatingSub(Resting(book.levels[side], price), amount) \in Amounts
  BY RestingType, AmountArithmetic DEF SpotBooks
<1> QED
  BY <1>1 DEF Shrunk, OneLevelChanged

LEMMA EventFact ==
  ASSUME NEW book \in SpotBooks, NEW side \in Sides, NEW price \in Prices,
         NEW a \in Amounts, NEW b \in Amounts, NEW c \in 0 .. b
  PROVE  /\ \/ Created(book, side, price, a) = book
            \/ OneLevelChanged(book, Created(book, side, price, a), side, price)
         /\ \/ Cancelled(book, side, price, a) = book
            \/ OneLevelChanged(book, Cancelled(book, side, price, a), side, price)
         /\ \/ Filled(book, side, price, a) = book
            \/ OneLevelChanged(book, Filled(book, side, price, a), side, price)
         /\ \/ Updated(book, side, price, a, b, c) = book
            \/ OneLevelChanged(book, Updated(book, side, price, a, b, c), side, price)
<1>1. NoPrice \in LastPrices /\ price \in LastPrices
  BY DEF LastPrices
<1>2. c \in Amounts
  BY MaxAmountAssumption DEF Amounts
<1> DEFINE old == SaturatingSub(a, SaturatingSub(b, c))
<1>3. old \in Amounts
  BY <1>2, AmountArithmetic
<1>4. (c > old => c - old \in Amounts) /\ (~(c > old) => old - c \in Amounts)
  <2> HIDE DEF old
  <2> QED
    BY <1>2, <1>3, MaxAmountAssumption DEF Amounts
<1>5. Updated(book, side, price, a, b, c) =
        IF price = 0 \/ old = c THEN book
        ELSE IF c > old THEN Grown(book, side, price, c - old)
        ELSE Shrunk(book, side, price, old - c, NoPrice)
  BY DEF Updated
<1>6. \/ Updated(book, side, price, a, b, c) = book
      \/ OneLevelChanged(book, Updated(book, side, price, a, b, c), side, price)
  <2> HIDE DEF old
  <2> QED
    BY <1>1, <1>4, <1>5, GrownFact, ShrunkFact
<1> QED
  BY <1>1, <1>6, GrownFact, ShrunkFact DEF Created, Cancelled, Filled

LEMMA HydratedFact ==
  ASSUME NEW book \in SpotBooks, NEW levels \in [Sides -> Levels], NEW trade \in LastPrices
  PROVE  /\ Hydrated(book, levels, trade) \in SpotBooks
         /\ Hydrated(book, levels, trade).sequence = book.sequence + 1
         /\ \A side \in Sides :
              \A p \in DOMAIN Hydrated(book, levels, trade).levels[side] :
                Hydrated(book, levels, trade).levels[side][p] > 0
<1> DEFINE kept(side) == {q \in DOMAIN levels[side] : levels[side][q] > 0}
           new(side) == [p \in kept(side) |-> levels[side][p]]
<1>1. ASSUME NEW side \in Sides
      PROVE  new(side) \in Levels /\ \A p \in DOMAIN new(side) : new(side)[p] > 0
  <2>1. levels[side] \in Levels
    OBVIOUS
  <2>2. DOMAIN levels[side] \subseteq Prices
        /\ \A p \in DOMAIN levels[side] : levels[side][p] \in Amounts
    BY <2>1, LevelsFact
  <2>3. DOMAIN new(side) \subseteq Prices
        /\ \A p \in DOMAIN new(side) : new(side)[p] \in Amounts /\ new(side)[p] > 0
    BY <2>2
  <2>4. new(side) = [p \in DOMAIN new(side) |-> new(side)[p]]
    OBVIOUS
  <2> HIDE DEF new
  <2> QED
    BY <2>3, <2>4, LevelsFact
<1>2. Hydrated(book, levels, trade) =
        [levels |-> [side \in Sides |-> new(side)],
         sequence |-> book.sequence + 1,
         last_trade_price |-> IF trade = NoPrice THEN book.last_trade_price ELSE trade]
  BY DEF Hydrated
<1> HIDE DEF new
<1> QED
  BY <1>1, <1>2 DEF SpotBooks

\* What a snapshot shows is part of the book.
LEMMA ShownFact ==
  ASSUME NEW levels \in Levels, NEW side, NEW depth
  PROVE  /\ Shown(levels, side, depth) \in Levels
         /\ DOMAIN Shown(levels, side, depth) \subseteq DOMAIN levels
         /\ \A p \in DOMAIN Shown(levels, side, depth) :
              Shown(levels, side, depth)[p] = levels[p]
<1> DEFINE kept == {q \in DOMAIN levels :
                      Cardinality({r \in DOMAIN levels : Better(side, r, q)}) < depth}
           new == [p \in kept |-> levels[p]]
<1>1. DOMAIN levels \subseteq Prices /\ \A p \in DOMAIN levels : levels[p] \in Amounts
  BY LevelsFact
<1>2. kept \subseteq DOMAIN levels
  OBVIOUS
<1>3. Shown(levels, side, depth) = new
  BY DEF Shown
<1> HIDE DEF kept
<1>4. new = [p \in DOMAIN new |-> new[p]] /\ DOMAIN new \subseteq Prices
      /\ \A p \in DOMAIN new : new[p] \in Amounts
  BY <1>1, <1>2
<1>5. new \in Levels
  BY <1>4, LevelsFact
<1> QED
  BY <1>2, <1>3, <1>5

LEMMA SnapshotFact ==
  ASSUME NEW book \in SpotBooks, NEW depth
  PROVE  /\ Snapshot(book, depth) \in Copies
         /\ Snapshot(book, depth).sequence = book.sequence
         /\ Snapshot(book, depth).last_trade_price = book.last_trade_price
         /\ \A side \in Sides :
              Snapshot(book, depth).levels[side] = Shown(book.levels[side], side, depth)
<1>1. \A side \in Sides : Shown(book.levels[side], side, depth) \in Levels
  BY ShownFact DEF SpotBooks
<1> QED
  BY <1>1 DEF Snapshot, Copies, SpotBooks

---------------------------------------------------------------------------
(* The inductive invariant.                                                *)

HistoryIsCurrent ==
  \A s \in Spots :
    /\ history[s][books[s].sequence].levels = books[s].levels
    /\ history[s][books[s].sequence].last_trade_price = books[s].last_trade_price

\* A delta says everything about the step from the version before its own.
Explains(delta, s) ==
  /\ delta.sequence \in 1 .. books[s].sequence
  /\ history[s][delta.sequence].levels =
       [history[s][delta.sequence - 1].levels EXCEPT
          ![delta.side] = SetLevel(@, delta.price, delta.size)]
  /\ history[s][delta.sequence].last_trade_price = delta.last_trade_price

ChannelIsHistory ==
  \A s \in Spots : \A i \in 1 .. Len(channel[s]) : Explains(channel[s][i], s)

\* After the last delta the book was only rehydrated.
NothingUnannounced ==
  \A s \in Spots : channel[s] # <<>> =>
    /\ s \in publishers
    /\ \A n \in channel[s][Len(channel[s])].sequence + 1 .. books[s].sequence :
         history[s][n].hydrated

QuotedIfPublished == \A s \in Spots : quotes[s].sequence > 0 => s \in quote_publishers
QuoteNotAhead == \A s \in Spots : quotes[s].sequence <= books[s].sequence

FeedInv ==
  /\ FeedTypeOK
  /\ HistoryIsCurrent
  /\ ChannelIsHistory
  /\ NothingUnannounced
  /\ QuotedIfPublished
  /\ QuoteNotAhead
  /\ NoEmptyLevels
  /\ CopyIsSound
  /\ GapsAreRehydrations
  /\ QuoteIsLatest

LEMMA ChannelUnchanged ==
  ASSUME ChannelIsHistory, books' = books, history' = history, channel' = channel
  PROVE  ChannelIsHistory'
<1>1. ASSUME NEW s \in Spots, NEW i \in 1 .. Len(channel[s]), Explains(channel[s][i], s)
      PROVE  Explains(channel[s][i], s)'
  BY <1>1 DEF Explains
<1> QED
  BY <1>1 DEF ChannelIsHistory

LEMMA InitInv == FeedInit => FeedInv
<1> SUFFICES ASSUME FeedInit PROVE FeedInv
  OBVIOUS
<1>1. EmptyBook \in SpotBooks /\ EmptyBook.sequence = 0
      /\ EmptyBook.last_trade_price = NoPrice
      /\ \A side \in Sides : EmptyBook.levels[side] = NoLevels
  BY EmptyBookType DEF EmptyBook
<1>2. ASSUME NEW depth
      PROVE  /\ Snapshot(EmptyBook, depth) \in Copies
             /\ Snapshot(EmptyBook, depth).sequence = 0
             /\ Snapshot(EmptyBook, depth).last_trade_price = NoPrice
             /\ \A side \in Sides : Snapshot(EmptyBook, depth).levels[side] = NoLevels
  <2>1. ASSUME NEW side \in Sides
        PROVE  Snapshot(EmptyBook, depth).levels[side] = NoLevels
    BY <1>1 DEF Snapshot, Shown, NoLevels
  <2> QED
    BY <1>1, <2>1, SnapshotFact
<1>3. 0 \in 0 .. MaxSequence
  BY MaxSequenceAssumption
<1>4. \A s \in Spots, n \in 0 .. MaxSequence : history[s][n] = Version(EmptyBook, FALSE)
  BY DEF FeedInit
<1>5. Version(EmptyBook, FALSE) \in Versions
  BY <1>1 DEF Version, Versions, SpotBooks
<1>6. \A r \in Readers : readers[r] \in ReaderStates
                         /\ readers[r].copy = Snapshot(EmptyBook, Depth)
  <2> SUFFICES ASSUME NEW r \in Readers
               PROVE  readers[r] \in ReaderStates /\ readers[r].copy = Snapshot(EmptyBook, Depth)
    OBVIOUS
  <2>1. PICK s \in Spots : readers[r] = [spot |-> s, opening |-> FALSE, task |-> "none",
                                        next |-> 1, copy |-> Snapshot(EmptyBook, Depth),
                                        complete |-> TRUE]
    BY DEF FeedInit
  <2>2. Snapshot(EmptyBook, Depth) \in Copies
    BY <1>2
  <2> QED
    BY <2>1, <2>2 DEF ReaderStates
<1>7. FeedTypeOK
  <2>1. books \in [Spots -> SpotBooks] /\ \A s \in Spots : books[s].sequence <= MaxSequence
    BY <1>1, MaxSequenceAssumption DEF FeedInit, StoreInit
  <2>2. channel \in [Spots -> Seq(Deltas)]
    BY DEF FeedInit, StoreInit
  <2>3. quotes \in [Spots -> Copies]
    BY <1>2 DEF Quote, FeedInit, StoreInit
  <2>4. history \in [Spots -> [0 .. MaxSequence -> Versions]]
    BY <1>5 DEF FeedInit
  <2>5. readers \in [Readers -> ReaderStates]
    BY <1>6 DEF FeedInit
  <2> QED
    BY <2>1, <2>2, <2>3, <2>4, <2>5 DEF FeedTypeOK, FeedInit, StoreInit
<1>8. HistoryIsCurrent
  BY <1>1, <1>3, <1>4 DEF HistoryIsCurrent, Version, FeedInit, StoreInit
<1>9. NoEmptyLevels
  BY <1>1 DEF NoEmptyLevels, NoLevels, FeedInit, StoreInit
<1>10. CopyIsSound
  <2> SUFFICES ASSUME NEW r \in Readers
               PROVE  SoundCopy(readers[r], history[readers[r].spot],
                                books[readers[r].spot].sequence)
    BY DEF CopyIsSound
  <2>1. readers[r].spot \in Spots
    BY <1>6 DEF ReaderStates
  <2>2. history[readers[r].spot][0] = Version(EmptyBook, FALSE)
    BY <1>3, <1>4, <2>1
  <2>3. readers[r].copy.levels = EmptyBook.levels
    <3>1. readers[r].copy.levels = [side \in Sides |-> readers[r].copy.levels[side]]
      BY <1>2, <1>6 DEF Copies
    <3> QED
      BY <1>1, <1>2, <1>6, <3>1 DEF EmptyBook
  <2>4. books[readers[r].spot].sequence = 0
    BY <1>1, <2>1 DEF FeedInit, StoreInit
  <2>5. /\ readers[r].copy.sequence = 0
        /\ readers[r].copy.last_trade_price = NoPrice
    BY <1>2, <1>6
  <2>6. /\ Version(EmptyBook, FALSE).levels = EmptyBook.levels
        /\ Version(EmptyBook, FALSE).last_trade_price = NoPrice
    BY <1>1 DEF Version
  <2> DEFINE version == history[readers[r].spot][readers[r].copy.sequence]
  <2>7. /\ version.levels = readers[r].copy.levels
        /\ version.last_trade_price = readers[r].copy.last_trade_price
    BY <2>2, <2>3, <2>5, <2>6
  <2> HIDE DEF version
  <2>8. readers[r].copy.sequence <= books[readers[r].spot].sequence
    BY <2>4, <2>5
  <2> QED
    BY <2>7, <2>8 DEF version, SoundCopy
<1>11. QuotedIfPublished /\ QuoteNotAhead /\ QuoteIsLatest
  <2>1. \A s \in Spots : quotes[s].sequence = 0 /\ books[s].sequence = 0
    BY <1>1, <1>2 DEF Quote, FeedInit, StoreInit
  <2> QED
    BY <2>1 DEF QuotedIfPublished, QuoteNotAhead, QuoteIsLatest
<1>12. ChannelIsHistory /\ NothingUnannounced /\ GapsAreRehydrations
  BY DEF ChannelIsHistory, NothingUnannounced, GapsAreRehydrations, FeedInit, StoreInit
<1> QED
  BY <1>7, <1>8, <1>9, <1>10, <1>11, <1>12 DEF FeedInv

---------------------------------------------------------------------------
(* A write, whether by an event or by a rehydration, adds the next version *)
(* and leaves all earlier versions as they were.                           *)

WriteStep(s, book, hydrated) ==
  /\ book \in SpotBooks
  /\ book.sequence = books[s].sequence + 1
  /\ book.sequence <= MaxSequence
  /\ \A side \in Sides : \A p \in DOMAIN book.levels[side] : book.levels[side][p] > 0
  /\ books' = [books EXCEPT ![s] = book]
  /\ history' = [history EXCEPT ![s][book.sequence] = Version(book, hydrated)]
  /\ readers' = readers

LEMMA EventStep ==
  ASSUME FeedInv, NEW s \in Spots, ApplyEvent(s)
  PROVE  \E side \in Sides, price \in Prices, size \in Amounts, trade \in LastPrices :
           LET book == LevelChange(books[s], side, price, size, trade)
           IN /\ WriteStep(s, book, FALSE)
              /\ channel' = IF s \in publishers
                            THEN [channel EXCEPT ![s] = Append(@, Delta(book, side, price))]
                            ELSE channel
              /\ quotes' = IF s \in quote_publishers
                           THEN [quotes EXCEPT ![s] = Quote(book)] ELSE quotes
              /\ UNCHANGED <<chain_hydrated, publishers, quote_publishers>>
<1>1. books[s] \in SpotBooks /\ books \in [Spots -> SpotBooks]
  BY DEF FeedInv, FeedTypeOK
<1>0. PICK side \in Sides, price \in Prices :
        \E next : /\ next = books[s] \/ OneLevelChanged(books[s], next, side, price)
                  /\ Write(s, next, side, price)
  <2>1. PICK side \in Sides, price \in Prices :
          \/ \E amount \in Amounts :
               \/ ApplyCreated(s, side, price, amount)
               \/ ApplyCancelled(s, side, price, amount)
               \/ ApplyFilled(s, side, price, amount)
          \/ \E old, new \in Amounts : \E remaining \in 0 .. new :
               ApplyUpdated(s, side, price, old, new, remaining)
    BY DEF ApplyEvent, EventWrite
  <2>2. ASSUME NEW amount \in Amounts,
               \/ ApplyCreated(s, side, price, amount)
               \/ ApplyCancelled(s, side, price, amount)
               \/ ApplyFilled(s, side, price, amount)
        PROVE  \E next : /\ next = books[s] \/ OneLevelChanged(books[s], next, side, price)
                         /\ Write(s, next, side, price)
    <3>1. 0 \in 0 .. amount
      BY DEF Amounts
    <3> QED
      BY <1>1, <2>2, <3>1, EventFact DEF ApplyCreated, ApplyCancelled, ApplyFilled
  <2>3. ASSUME NEW old \in Amounts, NEW new \in Amounts, NEW remaining \in 0 .. new,
               ApplyUpdated(s, side, price, old, new, remaining)
        PROVE  \E next : /\ next = books[s] \/ OneLevelChanged(books[s], next, side, price)
                         /\ Write(s, next, side, price)
    BY <1>1, <2>3, EventFact DEF ApplyUpdated
  <2> QED
    BY <2>1, <2>2, <2>3
<1>2. PICK next : /\ next = books[s] \/ OneLevelChanged(books[s], next, side, price)
                  /\ Write(s, next, side, price)
  BY <1>0
<1>3. next # books[s]
  <2>1. books' # books /\ books' = [books EXCEPT ![s] = next]
    BY <1>2 DEF ApplyEvent, Write
  <2> QED
    BY <1>1, <2>1
<1>4. PICK size \in Amounts, trade \in LastPrices :
        next = LevelChange(books[s], side, price, size, trade)
  BY <1>2, <1>3 DEF OneLevelChanged
<1>5. next \in SpotBooks /\ next.sequence = books[s].sequence + 1
  BY <1>1, <1>4, LevelChangeType
<1>6. ASSUME NEW x \in Sides, NEW p \in DOMAIN next.levels[x]
      PROVE  next.levels[x][p] > 0
  <2>1. books[s].levels[x] \in Levels /\ books[s].levels[side] \in Levels
    BY <1>1 DEF SpotBooks
  <2>2. \A q \in DOMAIN books[s].levels[x] : books[s].levels[x][q] > 0
    BY DEF FeedInv, NoEmptyLevels
  <2>3. CASE x # side
    <3>1. next.levels[x] = books[s].levels[x]
      BY <1>1, <1>4, <2>3 DEF LevelChange, SpotBooks
    <3> QED
      BY <2>2, <3>1
  <2>4. CASE x = side
    <3>1. next.levels[x] = SetLevel(books[s].levels[side], price, size)
      BY <1>1, <1>4, <2>4 DEF LevelChange, SpotBooks
    <3>2. size # 0 => size > 0
      BY MaxAmountAssumption DEF Amounts
    <3> QED
      BY <2>1, <2>2, <2>4, <3>1, <3>2, SetLevelFact
  <2> QED
    BY <2>3, <2>4
<1>7. books'[s] = next
  BY <1>1, <1>2 DEF Write
<1>8. WriteStep(s, next, FALSE)
  BY <1>2, <1>5, <1>6, <1>7 DEF WriteStep, Write, ApplyEvent, Remember
<1>9. /\ channel' = IF s \in publishers
                    THEN [channel EXCEPT ![s] = Append(@, Delta(next, side, price))]
                    ELSE channel
      /\ quotes' = IF s \in quote_publishers
                   THEN [quotes EXCEPT ![s] = Quote(next)] ELSE quotes
      /\ UNCHANGED <<chain_hydrated, publishers, quote_publishers>>
  BY <1>2, <1>3 DEF Write
<1> QED
  BY <1>4, <1>8, <1>9

LEMMA HydrateStep ==
  ASSUME FeedInv, NEW s \in Spots, Hydrate(s)
  PROVE  /\ \E book : WriteStep(s, book, TRUE)
         /\ chain_hydrated' = chain_hydrated \cup {s}
         /\ UNCHANGED <<publishers, channel, quote_publishers, quotes>>
<1>1. books[s] \in SpotBooks /\ books \in [Spots -> SpotBooks]
  BY DEF FeedInv, FeedTypeOK
<1>2. PICK answer \in ChainAnswers : HydrateFromChain(s, answer.levels, answer.last_trade_price)
  BY DEF Hydrate, HydrateWrite
<1>3. answer.levels \in [Sides -> Levels] /\ answer.last_trade_price \in LastPrices
  BY ChainAnswersAssumption
<1> DEFINE book == Hydrated(books[s], answer.levels, answer.last_trade_price)
<1>4. /\ book \in SpotBooks
      /\ book.sequence = books[s].sequence + 1
      /\ \A side \in Sides : \A p \in DOMAIN book.levels[side] : book.levels[side][p] > 0
  BY <1>1, <1>3, HydratedFact
<1>5. books' = [books EXCEPT ![s] = book] /\ books[s].sequence < MaxSequence
  BY <1>2 DEF HydrateFromChain
<1> HIDE DEF book
<1>6. books'[s] = book
  BY <1>1, <1>5
<1>7. book.sequence <= MaxSequence
  BY <1>1, <1>4, <1>5, MaxSequenceAssumption DEF SpotBooks
<1>8. WriteStep(s, book, TRUE)
  BY <1>4, <1>5, <1>6, <1>7 DEF WriteStep, Hydrate, Remember
<1> QED
  BY <1>2, <1>8 DEF HydrateFromChain

LEMMA WriteFact ==
  ASSUME FeedInv, NEW s \in Spots, NEW book, NEW hydrated \in BOOLEAN,
         WriteStep(s, book, hydrated)
  PROVE  /\ books' \in [Spots -> SpotBooks]
         /\ \A t \in Spots : books'[t].sequence <= MaxSequence
         /\ books'[s] = book
         /\ \A t \in Spots : t # s => books'[t] = books[t]
         /\ \A t \in Spots : books[t].sequence <= books'[t].sequence
         /\ history' \in [Spots -> [0 .. MaxSequence -> Versions]]
         /\ history'[s][book.sequence] = Version(book, hydrated)
         /\ \A t \in Spots : \A n \in 0 .. books[t].sequence : history'[t][n] = history[t][n]
         /\ HistoryIsCurrent'
         /\ NoEmptyLevels'
         /\ CopyIsSound'
<1>1. /\ books \in [Spots -> SpotBooks]
      /\ history \in [Spots -> [0 .. MaxSequence -> Versions]]
      /\ readers \in [Readers -> ReaderStates]
      /\ \A t \in Spots : books[t].sequence <= MaxSequence
  BY DEF FeedInv, FeedTypeOK
<1>2. /\ book \in SpotBooks
      /\ book.sequence = books[s].sequence + 1
      /\ book.sequence <= MaxSequence
      /\ books' = [books EXCEPT ![s] = book]
      /\ history' = [history EXCEPT ![s][book.sequence] = Version(book, hydrated)]
      /\ readers' = readers
      /\ \A side \in Sides : \A p \in DOMAIN book.levels[side] : book.levels[side][p] > 0
  BY DEF WriteStep
<1>3. \A t \in Spots : books[t].sequence \in Nat
  BY <1>1 DEF SpotBooks
<1>4. Version(book, hydrated) \in Versions
  BY <1>2 DEF Version, Versions, SpotBooks
<1>5. /\ books' \in [Spots -> SpotBooks]
      /\ books'[s] = book
      /\ \A t \in Spots : t # s => books'[t] = books[t]
  BY <1>1, <1>2
<1>6. /\ \A t \in Spots : books'[t].sequence <= MaxSequence
      /\ \A t \in Spots : books[t].sequence <= books'[t].sequence
  BY <1>1, <1>2, <1>3, <1>5
<1>7. book.sequence \in 0 .. MaxSequence
  BY <1>2, <1>3, MaxSequenceAssumption
<1>8. /\ history' \in [Spots -> [0 .. MaxSequence -> Versions]]
      /\ history'[s][book.sequence] = Version(book, hydrated)
      /\ \A t \in Spots, n \in 0 .. MaxSequence :
           (t # s \/ n # book.sequence) => history'[t][n] = history[t][n]
  BY <1>1, <1>2, <1>4, <1>7
<1>9. ASSUME NEW t \in Spots, NEW n \in 0 .. books[t].sequence
      PROVE  history'[t][n] = history[t][n]
  <2>1. n \in 0 .. MaxSequence /\ (t = s => n # book.sequence)
    BY <1>1, <1>2, <1>3, MaxSequenceAssumption
  <2> QED
    BY <1>8, <2>1
<1>10. HistoryIsCurrent'
  <2>1. ASSUME NEW t \in Spots
        PROVE  /\ history'[t][books'[t].sequence].levels = books'[t].levels
               /\ history'[t][books'[t].sequence].last_trade_price = books'[t].last_trade_price
    <3>1. CASE t = s
      BY <1>5, <1>8, <3>1 DEF Version
    <3>2. CASE t # s
      <4>1. books[t].sequence \in 0 .. books[t].sequence
        BY <1>3
      <4> QED
        BY <1>5, <1>9, <3>2, <4>1 DEF FeedInv, HistoryIsCurrent
    <3> QED
      BY <3>1, <3>2
  <2> QED
    BY <2>1 DEF HistoryIsCurrent
<1>11. NoEmptyLevels'
  <2>1. ASSUME NEW t \in Spots, NEW side \in Sides
        PROVE  \A p \in DOMAIN books'[t].levels[side] : books'[t].levels[side][p] > 0
    BY <1>2, <1>5 DEF FeedInv, NoEmptyLevels
  <2> QED
    BY <2>1 DEF NoEmptyLevels
<1>12. CopyIsSound'
  <2>1. ASSUME NEW r \in Readers
        PROVE  /\ readers[r].spot \in Spots
               /\ readers[r].copy.sequence <= books'[readers[r].spot].sequence
               /\ history'[readers[r].spot][readers[r].copy.sequence]
                    = history[readers[r].spot][readers[r].copy.sequence]
    <3>1. readers[r].spot \in Spots /\ readers[r].copy.sequence \in Nat
      BY <1>1 DEF ReaderStates, Copies
    <3>2. readers[r].copy.sequence <= books[readers[r].spot].sequence
      BY DEF FeedInv, CopyIsSound, SoundCopy
    <3>3. readers[r].copy.sequence \in 0 .. books[readers[r].spot].sequence
      BY <1>3, <3>1, <3>2
    <3>4. books'[readers[r].spot].sequence \in Nat
      BY <1>5, <3>1 DEF SpotBooks
    <3> QED
      BY <1>3, <1>6, <1>9, <3>1, <3>2, <3>3, <3>4
  <2> QED
    <3>1. ASSUME NEW r \in Readers
          PROVE  SoundCopy(readers[r], history'[readers[r].spot], books'[readers[r].spot].sequence)
      <4>1. SoundCopy(readers[r], history[readers[r].spot], books[readers[r].spot].sequence)
        BY DEF FeedInv, CopyIsSound
      <4> QED
        BY <2>1, <4>1 DEF SoundCopy
    <3> QED
      BY <1>2, <3>1 DEF CopyIsSound
<1> QED
  BY <1>5, <1>6, <1>8, <1>9, <1>10, <1>11, <1>12

---------------------------------------------------------------------------
LEMMA EventInv ==
  ASSUME FeedInv, NEW s \in Spots, ApplyEvent(s)
  PROVE  FeedInv'
<1>1. PICK side \in Sides, price \in Prices, size \in Amounts, trade \in LastPrices :
        LET book == LevelChange(books[s], side, price, size, trade)
        IN /\ WriteStep(s, book, FALSE)
           /\ channel' = IF s \in publishers
                         THEN [channel EXCEPT ![s] = Append(@, Delta(book, side, price))]
                         ELSE channel
           /\ quotes' = IF s \in quote_publishers
                        THEN [quotes EXCEPT ![s] = Quote(book)] ELSE quotes
           /\ UNCHANGED <<chain_hydrated, publishers, quote_publishers>>
  BY EventStep
<1> DEFINE book == LevelChange(books[s], side, price, size, trade)
           delta == Delta(book, side, price)
           last == books[s].sequence
<1>2. /\ books \in [Spots -> SpotBooks] /\ channel \in [Spots -> Seq(Deltas)]
      /\ quotes \in [Spots -> Copies] /\ books[s] \in SpotBooks
      /\ \A t \in Spots : books[t].sequence \in Nat
  BY DEF FeedInv, FeedTypeOK, SpotBooks
<1>3. /\ book.levels = [books[s].levels EXCEPT ![side] = SetLevel(@, price, size)]
      /\ book.sequence = last + 1
      /\ book \in SpotBooks
  BY <1>1, <1>2, LevelChangeType DEF LevelChange
<1>4. WriteStep(s, book, FALSE)
  BY <1>1
<1>5. channel' = IF s \in publishers THEN [channel EXCEPT ![s] = Append(@, delta)] ELSE channel
  BY <1>1
<1>6. quotes' = IF s \in quote_publishers THEN [quotes EXCEPT ![s] = Quote(book)] ELSE quotes
  BY <1>1
<1>7. /\ delta \in Deltas
      /\ delta.sequence = last + 1 /\ delta.side = side /\ delta.price = price
      /\ delta.size = size /\ delta.last_trade_price = book.last_trade_price
  <2>1. books[s].levels[side] \in Levels /\ books[s].levels \in [Sides -> Levels]
    BY <1>2 DEF SpotBooks
  <2>2. book.levels[side] = SetLevel(books[s].levels[side], price, size)
    BY <1>3, <2>1
  <2>3. Resting(book.levels[side], price) = size
    BY <2>1, <2>2, SetLevelFact
  <2> QED
    BY <1>2, <1>3, <2>3 DEF Delta, Deltas, SpotBooks
<1> HIDE DEF book, delta
<1>8. /\ books' \in [Spots -> SpotBooks]
      /\ \A t \in Spots : books'[t].sequence <= MaxSequence
      /\ books'[s] = book
      /\ \A t \in Spots : t # s => books'[t] = books[t]
      /\ \A t \in Spots : books[t].sequence <= books'[t].sequence
      /\ history' \in [Spots -> [0 .. MaxSequence -> Versions]]
      /\ history'[s][last + 1] = Version(book, FALSE)
      /\ \A t \in Spots : \A n \in 0 .. books[t].sequence : history'[t][n] = history[t][n]
      /\ HistoryIsCurrent' /\ NoEmptyLevels' /\ CopyIsSound'
  BY <1>3, <1>4, WriteFact
<1>9. FeedTypeOK'
  <2>1. channel' \in [Spots -> Seq(Deltas)]
    BY <1>2, <1>5, <1>7
  <2>2. Quote(book) \in Copies
    BY <1>3, SnapshotFact DEF Quote
  <2>3. quotes' \in [Spots -> Copies]
    BY <1>2, <1>6, <2>2
  <2>4. readers' = readers
    BY <1>4 DEF WriteStep
  <2> QED
    BY <1>1, <1>8, <2>1, <2>3, <2>4 DEF FeedInv, FeedTypeOK
\* The channels: a spot's old deltas stay, and delta may follow them.
<1>10. \A t \in Spots : t # s => channel'[t] = channel[t]
  BY <1>2, <1>5
<1>11. /\ s \in publishers => channel'[s] = Append(channel[s], delta)
       /\ s \notin publishers => channel'[s] = <<>> /\ channel[s] = <<>>
  <2>1. s \notin publishers => channel[s] = <<>>
    BY DEF FeedInv, NothingUnannounced
  <2> QED
    BY <1>2, <1>5, <2>1
<1>12. ASSUME NEW t \in Spots, NEW i \in 1 .. Len(channel'[t])
       PROVE  \/ /\ i \in 1 .. Len(channel[t]) /\ channel'[t][i] = channel[t][i]
              \/ /\ t = s /\ s \in publishers /\ i = Len(channel[s]) + 1
                 /\ channel'[t][i] = delta
  <2>1. channel[t] \in Seq(Deltas)
    BY <1>2
  <2>2. CASE t = s /\ s \in publishers
    <3>1. channel'[t] = Append(channel[s], delta)
      BY <1>11, <2>2
    <3> HIDE DEF delta
    <3> QED
      BY <1>7, <2>1, <2>2, <3>1
  <2>3. CASE t # s \/ s \notin publishers
    <3>1. channel'[t] = channel[t]
      BY <1>10, <1>11, <2>3
    <3> QED
      BY <3>1
  <2> QED
    BY <2>2, <2>3
<1>13. ChannelIsHistory'
  <2> SUFFICES ASSUME NEW t \in Spots, NEW i \in 1 .. Len(channel'[t])
               PROVE  Explains(channel[t][i], t)'
    BY DEF ChannelIsHistory
  <2>1. CASE i \in 1 .. Len(channel[t]) /\ channel'[t][i] = channel[t][i]
    <3> DEFINE d == channel[t][i]
    <3>1. /\ d.sequence \in 1 .. books[t].sequence
          /\ history[t][d.sequence].levels =
               [history[t][d.sequence - 1].levels EXCEPT
                  ![d.side] = SetLevel(@, d.price, d.size)]
          /\ history[t][d.sequence].last_trade_price = d.last_trade_price
      <4>1. Explains(channel[t][i], t)
        BY <2>1 DEF FeedInv, ChannelIsHistory
      <4> QED
        BY <4>1 DEF Explains
    <3> HIDE DEF d
    <3>2. d.sequence \in 0 .. books[t].sequence /\ d.sequence - 1 \in 0 .. books[t].sequence
      BY <1>2, <3>1
    <3>3. books'[t].sequence \in Nat /\ books[t].sequence <= books'[t].sequence
      BY <1>8 DEF SpotBooks
    <3>4. d.sequence \in 1 .. books'[t].sequence
      BY <1>2, <3>1, <3>3
    <3>5. history'[t][d.sequence] = history[t][d.sequence]
          /\ history'[t][d.sequence - 1] = history[t][d.sequence - 1]
      BY <1>8, <3>2
    <3>6. channel'[t][i] = d
      BY <2>1 DEF d
    <3> QED
      BY <3>1, <3>4, <3>5, <3>6 DEF Explains
  <2>2. CASE t = s /\ channel'[t][i] = delta
    <3>1. last \in 0 .. last /\ last + 1 - 1 = last /\ last + 1 \in 1 .. last + 1
      BY <1>2
    <3>2. history'[s][last].levels = books[s].levels
      BY <1>8, <3>1 DEF FeedInv, HistoryIsCurrent
    <3>3. history'[s][last + 1].levels = book.levels
          /\ history'[s][last + 1].last_trade_price = book.last_trade_price
      BY <1>8 DEF Version
    <3>4. delta.sequence \in 1 .. books'[s].sequence
      BY <1>3, <1>7, <1>8, <3>1
    <3>5. history'[s][delta.sequence].levels = [history'[s][delta.sequence - 1].levels EXCEPT
               ![delta.side] = SetLevel(@, delta.price, delta.size)]
      <4>1. delta.sequence = last + 1 /\ delta.sequence - 1 = last
        BY <1>3, <1>7, <3>1
      <4> HIDE DEF delta, last
      <4> QED
        BY <1>3, <1>7, <3>2, <3>3, <4>1
    <3>6. history'[s][delta.sequence].last_trade_price = delta.last_trade_price
      BY <1>7, <3>3
    <3> QED
      BY <2>2, <3>4, <3>5, <3>6 DEF Explains
  <2> QED
    BY <1>12, <2>1, <2>2
<1>14. NothingUnannounced'
  <2> SUFFICES ASSUME NEW t \in Spots, channel'[t] # <<>>
               PROVE  /\ t \in publishers'
                      /\ \A n \in channel'[t][Len(channel'[t])].sequence + 1 .. books'[t].sequence :
                           history'[t][n].hydrated
    BY DEF NothingUnannounced
  <2>1. CASE t = s
    <3>1. s \in publishers /\ channel'[s] = Append(channel[s], delta)
      BY <1>11, <2>1
    <3>2. channel'[s][Len(channel'[s])] = delta
      BY <1>2, <1>7, <3>1
    <3>3. books'[s].sequence = last + 1 /\ delta.sequence = last + 1 /\ last \in Nat
      BY <1>2, <1>3, <1>7, <1>8
    <3> QED
      BY <1>1, <2>1, <3>1, <3>2, <3>3
  <2>2. CASE t # s
    <3>1. channel'[t] = channel[t] /\ books'[t] = books[t]
      BY <1>8, <1>10, <2>2
    <3>2. channel[t] \in Seq(Deltas) /\ channel[t] # <<>>
      BY <1>2, <3>1
    <3>3. channel[t][Len(channel[t])].sequence \in Nat
      <4>1. Len(channel[t]) \in 1 .. Len(channel[t])
        BY <3>2
      <4>2. channel[t][Len(channel[t])] \in Deltas
        BY <3>2, <4>1
      <4> QED
        BY <4>2 DEF Deltas
    <3>4. \A n \in channel[t][Len(channel[t])].sequence + 1 .. books[t].sequence :
            n \in 0 .. books[t].sequence /\ history[t][n].hydrated
      BY <1>2, <3>2, <3>3 DEF FeedInv, NothingUnannounced
    <3> QED
      BY <1>1, <1>8, <3>1, <3>2, <3>4 DEF FeedInv, NothingUnannounced
  <2> QED
    BY <2>1, <2>2
<1>15. GapsAreRehydrations'
  <2> SUFFICES ASSUME NEW t \in Spots, NEW i \in 1 .. Len(channel'[t]) - 1,
                      NEW n \in channel'[t][i].sequence + 1 .. channel'[t][i + 1].sequence - 1
               PROVE  history'[t][n].hydrated
    BY DEF GapsAreRehydrations
  <2>1. channel'[t] \in Seq(Deltas) /\ channel[t] \in Seq(Deltas)
    BY <1>2, <1>9 DEF FeedTypeOK
  <2>2. i \in 1 .. Len(channel'[t]) /\ i + 1 \in 1 .. Len(channel'[t])
    BY <2>1
  <2>3. /\ i \in 1 .. Len(channel[t]) /\ channel'[t][i] = channel[t][i]
    <3>1. i # Len(channel[s]) + 1 \/ t # s
      BY <1>7, <1>11, <2>1, <2>2
    <3> QED
      BY <1>12, <2>2, <3>1
  <2>4. channel[t][i].sequence \in Nat /\ channel[t][i].sequence \in 1 .. books[t].sequence
    <3>1. channel[t][i].sequence \in 1 .. books[t].sequence
      BY <2>3 DEF FeedInv, ChannelIsHistory, Explains
    <3> QED
      BY <1>2, <3>1
  <2>5. CASE i + 1 \in 1 .. Len(channel[t]) /\ channel'[t][i + 1] = channel[t][i + 1]
    <3>1. i \in 1 .. Len(channel[t]) - 1
      BY <2>1, <2>3, <2>5
    <3>2. history[t][n].hydrated
      BY <2>3, <2>5, <3>1 DEF FeedInv, GapsAreRehydrations
    <3>3. channel[t][i + 1].sequence \in 1 .. books[t].sequence
      BY <2>5 DEF FeedInv, ChannelIsHistory, Explains
    <3>4. n \in 0 .. books[t].sequence
      BY <1>2, <2>3, <2>4, <2>5, <3>3
    <3> QED
      BY <1>8, <3>2, <3>4
  <2>6. CASE t = s /\ i + 1 = Len(channel[s]) + 1 /\ channel'[t][i + 1] = delta
    <3>1. i = Len(channel[s]) /\ channel[s] # <<>>
      BY <2>1, <2>2, <2>3, <2>6
    <3>2. n \in channel[s][Len(channel[s])].sequence + 1 .. last /\ n \in 0 .. last
      BY <1>2, <1>7, <2>3, <2>4, <2>6, <3>1
    <3>3. history[s][n].hydrated
      BY <3>1, <3>2 DEF FeedInv, NothingUnannounced
    <3> QED
      BY <1>8, <2>6, <3>2, <3>3
  <2> QED
    BY <1>12, <2>2, <2>5, <2>6
<1>16. QuotedIfPublished' /\ QuoteNotAhead' /\ QuoteIsLatest'
  <2>1. ASSUME NEW t \in Spots
        PROVE  /\ quotes'[t].sequence > 0 => t \in quote_publishers'
               /\ quotes'[t].sequence <= books'[t].sequence
               /\ quotes'[t].sequence > 0 =>
                    /\ \A x \in Sides :
                         quotes'[t].levels[x]
                           = Shown(history'[t][quotes'[t].sequence].levels[x], x, 1)
                    /\ \A n \in quotes'[t].sequence + 1 .. books'[t].sequence :
                         history'[t][n].hydrated
    <3>1. CASE t = s /\ s \in quote_publishers
      <4>1. quotes'[s] = Quote(book)
        BY <1>2, <1>6, <3>1
      <4>2. /\ Quote(book).sequence = last + 1
            /\ \A x \in Sides : Quote(book).levels[x] = Shown(book.levels[x], x, 1)
        BY <1>3, SnapshotFact DEF Quote
      <4>3. history'[s][last + 1].levels = book.levels
        BY <1>8 DEF Version
      <4>4. books'[s].sequence = last + 1 /\ last \in Nat
        BY <1>2, <1>3, <1>8
      <4>5. t \in quote_publishers'
        BY <1>1, <3>1
      <4> HIDE DEF last
      <4>6. last + 1 \in Nat /\ last + 1 > 0 /\ \A n \in (last + 1) + 1 .. last + 1 : FALSE
        BY <4>4
      <4> QED
        BY <3>1, <4>1, <4>2, <4>3, <4>4, <4>5, <4>6
    <3>2. CASE t = s /\ s \notin quote_publishers
      <4>1. quotes'[s] = quotes[s] /\ quotes[s].sequence \in Nat
        BY <1>2, <1>6, <3>2 DEF Copies
      <4>2. quotes[s].sequence = 0
        BY <3>2, <4>1 DEF FeedInv, QuotedIfPublished
      <4>3. books'[s].sequence \in Nat
        BY <1>3, <1>8 DEF SpotBooks
      <4> QED
        BY <3>2, <4>1, <4>2, <4>3
    <3>3. CASE t # s
      <4>1. quotes'[t] = quotes[t] /\ books'[t] = books[t] /\ quotes[t].sequence \in Nat
        BY <1>2, <1>6, <1>8, <3>3 DEF Copies
      <4>2. quotes[t].sequence \in 0 .. books[t].sequence
        BY <1>2, <4>1 DEF FeedInv, QuoteNotAhead
      <4>3. history'[t][quotes[t].sequence] = history[t][quotes[t].sequence]
        BY <1>8, <4>2
      <4>4. \A n \in quotes[t].sequence + 1 .. books[t].sequence : history'[t][n] = history[t][n]
        <5>1. \A n \in quotes[t].sequence + 1 .. books[t].sequence : n \in 0 .. books[t].sequence
          BY <1>2, <4>1
        <5> QED
          BY <1>8, <5>1
      <4>5. /\ quotes[t].sequence > 0 => t \in quote_publishers
            /\ quotes[t].sequence <= books[t].sequence
            /\ quotes[t].sequence > 0 =>
                 /\ \A x \in Sides :
                      quotes[t].levels[x]
                        = Shown(history[t][quotes[t].sequence].levels[x], x, 1)
                 /\ \A n \in quotes[t].sequence + 1 .. books[t].sequence :
                      history[t][n].hydrated
        BY DEF FeedInv, QuotedIfPublished, QuoteNotAhead, QuoteIsLatest
      <4>6. quote_publishers' = quote_publishers
        BY <1>1
      <4> HIDE DEF last
      <4>7. quotes'[t].sequence > 0 =>
              /\ \A x \in Sides :
                   quotes'[t].levels[x]
                     = Shown(history'[t][quotes'[t].sequence].levels[x], x, 1)
              /\ \A n \in quotes'[t].sequence + 1 .. books'[t].sequence :
                   history'[t][n].hydrated
        BY <4>1, <4>3, <4>4, <4>5
      <4>8. quotes'[t].sequence > 0 => t \in quote_publishers'
        BY <4>1, <4>5, <4>6
      <4>9. quotes'[t].sequence <= books'[t].sequence
        BY <4>1, <4>5
      <4> QED
        BY <4>7, <4>8, <4>9
    <3> QED
      BY <3>1, <3>2, <3>3
  <2> QED
    BY <2>1 DEF QuotedIfPublished, QuoteNotAhead, QuoteIsLatest
<1> QED
  BY <1>8, <1>9, <1>13, <1>14, <1>15, <1>16 DEF FeedInv

LEMMA HydrateInv ==
  ASSUME FeedInv, NEW s \in Spots, Hydrate(s)
  PROVE  FeedInv'
<1>1. PICK book : WriteStep(s, book, TRUE)
  BY HydrateStep
<1>2. /\ chain_hydrated' = chain_hydrated \cup {s}
      /\ UNCHANGED <<publishers, channel, quote_publishers, quotes>>
  BY HydrateStep
<1> DEFINE last == books[s].sequence
<1>3. /\ book \in SpotBooks /\ book.sequence = last + 1 /\ readers' = readers
  BY <1>1 DEF WriteStep
<1>4. /\ channel \in [Spots -> Seq(Deltas)] /\ quotes \in [Spots -> Copies]
      /\ \A t \in Spots : books[t].sequence \in Nat
  BY DEF FeedInv, FeedTypeOK, SpotBooks
<1>5. /\ books' \in [Spots -> SpotBooks]
      /\ \A t \in Spots : books'[t].sequence <= MaxSequence
      /\ books'[s] = book
      /\ \A t \in Spots : t # s => books'[t] = books[t]
      /\ \A t \in Spots : books[t].sequence <= books'[t].sequence
      /\ history' \in [Spots -> [0 .. MaxSequence -> Versions]]
      /\ history'[s][last + 1] = Version(book, TRUE)
      /\ \A t \in Spots : \A n \in 0 .. books[t].sequence : history'[t][n] = history[t][n]
      /\ HistoryIsCurrent' /\ NoEmptyLevels' /\ CopyIsSound'
  <2> HIDE DEF last
  <2>1. /\ books' \in [Spots -> SpotBooks]
        /\ \A t \in Spots : books'[t].sequence <= MaxSequence
        /\ books'[s] = book
        /\ \A t \in Spots : t # s => books'[t] = books[t]
        /\ \A t \in Spots : books[t].sequence <= books'[t].sequence
        /\ history' \in [Spots -> [0 .. MaxSequence -> Versions]]
        /\ history'[s][book.sequence] = Version(book, TRUE)
        /\ \A t \in Spots : \A n \in 0 .. books[t].sequence : history'[t][n] = history[t][n]
        /\ HistoryIsCurrent' /\ NoEmptyLevels' /\ CopyIsSound'
    BY <1>1, WriteFact
  <2>2. book.sequence = last + 1
    BY <1>3
  <2> QED
    BY <2>1, <2>2
<1>6. FeedTypeOK'
  <2>1. /\ chain_hydrated' \subseteq Spots /\ publishers' \subseteq Spots
        /\ quote_publishers' \subseteq Spots
        /\ channel' \in [Spots -> Seq(Deltas)] /\ quotes' \in [Spots -> Copies]
        /\ readers' \in [Readers -> ReaderStates]
    BY <1>2, <1>3 DEF FeedInv, FeedTypeOK
  <2>2. /\ books' \in [Spots -> SpotBooks]
        /\ \A t \in Spots : books'[t].sequence <= MaxSequence
        /\ history' \in [Spots -> [0 .. MaxSequence -> Versions]]
    BY <1>5
  <2> QED
    BY <2>1, <2>2 DEF FeedTypeOK
\* What a range of later sequence numbers holds after the step.
<1>7. ASSUME NEW t \in Spots, NEW low \in Nat,
             \A n \in low + 1 .. books[t].sequence : history[t][n].hydrated
      PROVE  \A n \in low + 1 .. books'[t].sequence : history'[t][n].hydrated
  <2> SUFFICES ASSUME NEW n \in low + 1 .. books'[t].sequence
               PROVE  history'[t][n].hydrated
    OBVIOUS
  <2>0. books'[t].sequence \in Nat
    BY <1>5 DEF SpotBooks
  <2>1. CASE n \in low + 1 .. books[t].sequence
    <3>1. n \in 0 .. books[t].sequence
      BY <1>4, <2>1
    <3> QED
      BY <1>5, <1>7, <2>1, <3>1
  <2>2. CASE n \notin low + 1 .. books[t].sequence
    <3>1. t = s /\ n = last + 1
      BY <1>3, <1>4, <1>5, <2>0, <2>2
    <3> QED
      BY <1>5, <3>1 DEF Version
  <2> QED
    BY <2>1, <2>2
<1>8. ChannelIsHistory'
  <2> SUFFICES ASSUME NEW t \in Spots, NEW i \in 1 .. Len(channel[t])
               PROVE  Explains(channel[t][i], t)'
    BY <1>2 DEF ChannelIsHistory
  <2> DEFINE d == channel[t][i]
  <2>1. /\ d.sequence \in 1 .. books[t].sequence
        /\ history[t][d.sequence].levels =
             [history[t][d.sequence - 1].levels EXCEPT
                ![d.side] = SetLevel(@, d.price, d.size)]
        /\ history[t][d.sequence].last_trade_price = d.last_trade_price
    <3>1. Explains(channel[t][i], t)
      BY DEF FeedInv, ChannelIsHistory
    <3> QED
      BY <3>1 DEF Explains
  <2> HIDE DEF d
  <2>2. d.sequence \in 0 .. books[t].sequence /\ d.sequence - 1 \in 0 .. books[t].sequence
    BY <1>4, <2>1
  <2>3. books'[t].sequence \in Nat
    BY <1>5 DEF SpotBooks
  <2>4. d.sequence \in 1 .. books'[t].sequence
    BY <1>4, <1>5, <2>1, <2>3
  <2>5. history'[t][d.sequence] = history[t][d.sequence]
        /\ history'[t][d.sequence - 1] = history[t][d.sequence - 1]
    BY <1>5, <2>2
  <2>6. channel'[t][i] = d
    BY <1>2 DEF d
  <2> QED
    BY <2>1, <2>4, <2>5, <2>6 DEF Explains
<1>9. NothingUnannounced'
  <2> SUFFICES ASSUME NEW t \in Spots, channel[t] # <<>>
               PROVE  /\ t \in publishers
                      /\ \A n \in channel[t][Len(channel[t])].sequence + 1 .. books'[t].sequence :
                           history'[t][n].hydrated
    BY <1>2 DEF NothingUnannounced
  <2>1. Len(channel[t]) \in 1 .. Len(channel[t])
    BY <1>4
  <2>2. channel[t][Len(channel[t])] \in Deltas
    BY <1>4, <2>1
  <2>3. channel[t][Len(channel[t])].sequence \in Nat
    BY <2>2 DEF Deltas
  <2> QED
    BY <1>7, <2>3 DEF FeedInv, NothingUnannounced
<1>10. GapsAreRehydrations'
  <2> SUFFICES ASSUME NEW t \in Spots, NEW i \in 1 .. Len(channel[t]) - 1,
                      NEW n \in channel[t][i].sequence + 1 .. channel[t][i + 1].sequence - 1
               PROVE  history'[t][n].hydrated
    BY <1>2 DEF GapsAreRehydrations
  <2>1. i \in 1 .. Len(channel[t]) /\ i + 1 \in 1 .. Len(channel[t])
    BY <1>4
  <2>2. /\ channel[t][i].sequence \in 1 .. books[t].sequence
        /\ channel[t][i + 1].sequence \in 1 .. books[t].sequence
    BY <2>1 DEF FeedInv, ChannelIsHistory, Explains
  <2>3. n \in 0 .. books[t].sequence
    BY <1>4, <2>2
  <2> QED
    BY <1>5, <2>3 DEF FeedInv, GapsAreRehydrations
<1>11. QuotedIfPublished' /\ QuoteNotAhead' /\ QuoteIsLatest'
  <2>1. ASSUME NEW t \in Spots
        PROVE  /\ quotes[t].sequence > 0 => t \in quote_publishers
               /\ quotes[t].sequence <= books'[t].sequence
               /\ quotes[t].sequence > 0 =>
                    /\ \A x \in Sides :
                         quotes[t].levels[x]
                           = Shown(history'[t][quotes[t].sequence].levels[x], x, 1)
                    /\ \A n \in quotes[t].sequence + 1 .. books'[t].sequence :
                         history'[t][n].hydrated
    <3>1. quotes[t].sequence \in Nat /\ books'[t].sequence \in Nat
      BY <1>4, <1>5 DEF Copies, SpotBooks
    <3>2. quotes[t].sequence \in 0 .. books[t].sequence
      BY <1>4, <3>1 DEF FeedInv, QuoteNotAhead
    <3>3. history'[t][quotes[t].sequence] = history[t][quotes[t].sequence]
      BY <1>5, <3>2
    <3>4. quotes[t].sequence <= books'[t].sequence
      BY <1>4, <1>5, <3>1, <3>2
    <3> QED
      BY <1>7, <3>1, <3>3, <3>4 DEF FeedInv, QuotedIfPublished, QuoteIsLatest
  <2> QED
    BY <1>2, <2>1 DEF QuotedIfPublished, QuoteNotAhead, QuoteIsLatest
<1> QED
  BY <1>5, <1>6, <1>8, <1>9, <1>10, <1>11 DEF FeedInv

---------------------------------------------------------------------------
(* Steps that write no book.                                               *)

LEMMA ReaderStepInv ==
  ASSUME FeedInv, NEW r \in Readers, NEW reader \in ReaderStates,
         SoundCopy(reader, history[reader.spot], books[reader.spot].sequence),
         readers' = [readers EXCEPT ![r] = reader],
         UNCHANGED <<books, chain_hydrated, channel, quote_publishers, quotes, history>>,
         publishers \subseteq publishers', publishers' \subseteq Spots
  PROVE  FeedInv'
<1>1. readers \in [Readers -> ReaderStates]
  BY DEF FeedInv, FeedTypeOK
<1>2. FeedTypeOK'
  BY <1>1 DEF FeedInv, FeedTypeOK
<1>3. CopyIsSound'
  <2>1. books' = books /\ history' = history
    OBVIOUS
  <2>2. \A q \in Readers : readers'[q] = IF q = r THEN reader ELSE readers[q]
    BY <1>1
  <2> QED
    BY <2>1, <2>2 DEF FeedInv, CopyIsSound
<1>4. HistoryIsCurrent' /\ ChannelIsHistory' /\ NoEmptyLevels' /\ GapsAreRehydrations'
  <2>1. HistoryIsCurrent'
    BY DEF FeedInv, HistoryIsCurrent
  <2>2. ChannelIsHistory'
    BY ChannelUnchanged DEF FeedInv
  <2>3. NoEmptyLevels'
    BY DEF FeedInv, NoEmptyLevels
  <2>4. GapsAreRehydrations'
    BY DEF FeedInv, GapsAreRehydrations
  <2> QED
    BY <2>1, <2>2, <2>3, <2>4
<1>5. NothingUnannounced'
  BY DEF FeedInv, NothingUnannounced
<1>6. QuotedIfPublished' /\ QuoteNotAhead' /\ QuoteIsLatest'
  BY DEF FeedInv, QuotedIfPublished, QuoteNotAhead, QuoteIsLatest
<1> QED
  BY <1>2, <1>3, <1>4, <1>5, <1>6 DEF FeedInv

LEMMA QuoteSubscribeInv ==
  ASSUME FeedInv, NEW s \in Spots, QuoteSubscribe(s)
  PROVE  FeedInv'
<1>1. /\ quote_publishers' = quote_publishers \cup {s}
      /\ UNCHANGED <<books, chain_hydrated, channel, publishers, quotes, readers, history>>
  BY DEF QuoteSubscribe, SubscribeQuote
<1>2. FeedTypeOK'
  BY <1>1 DEF FeedInv, FeedTypeOK
<1>3. HistoryIsCurrent' /\ ChannelIsHistory' /\ NoEmptyLevels' /\ GapsAreRehydrations'
      /\ NothingUnannounced' /\ CopyIsSound'
  <2>1. /\ books' = books /\ history' = history /\ channel' = channel
        /\ publishers' = publishers /\ readers' = readers
    BY <1>1
  <2>2. CopyIsSound'
    BY <2>1 DEF FeedInv, CopyIsSound
  <2>3. HistoryIsCurrent'
    BY <2>1 DEF FeedInv, HistoryIsCurrent
  <2>4. ChannelIsHistory'
    BY <2>1, ChannelUnchanged DEF FeedInv
  <2>5. NoEmptyLevels'
    BY <2>1 DEF FeedInv, NoEmptyLevels
  <2>6. GapsAreRehydrations'
    BY <2>1 DEF FeedInv, GapsAreRehydrations
  <2>7. NothingUnannounced'
    BY <2>1 DEF FeedInv, NothingUnannounced
  <2> QED
    BY <2>2, <2>3, <2>4, <2>5, <2>6, <2>7
<1>4. QuotedIfPublished' /\ QuoteNotAhead' /\ QuoteIsLatest'
  BY <1>1 DEF FeedInv, QuotedIfPublished, QuoteNotAhead, QuoteIsLatest
<1> QED
  BY <1>2, <1>3, <1>4 DEF FeedInv

\* A snapshot of a book as it is now is a sound copy.
LEMMA SnapshotIsSound ==
  ASSUME FeedInv, NEW reader \in ReaderStates
  PROVE  LET new == WithSnapshot(reader, books[reader.spot])
         IN /\ new.spot = reader.spot /\ new \in ReaderStates
            /\ SoundCopy(new, history[reader.spot], books[reader.spot].sequence)
<1> DEFINE book == books[reader.spot]
           new == WithSnapshot(reader, book)
<1>1. reader.spot \in Spots /\ book \in SpotBooks
  BY DEF ReaderStates, FeedInv, FeedTypeOK
<1>2. /\ Snapshot(book, Depth) \in Copies
      /\ Snapshot(book, Depth).sequence = book.sequence
      /\ Snapshot(book, Depth).last_trade_price = book.last_trade_price
      /\ \A side \in Sides :
           Snapshot(book, Depth).levels[side] = Shown(book.levels[side], side, Depth)
  BY <1>1, SnapshotFact
<1>3. /\ history[reader.spot][book.sequence].levels = book.levels
      /\ history[reader.spot][book.sequence].last_trade_price = book.last_trade_price
  BY <1>1 DEF FeedInv, HistoryIsCurrent
<1> HIDE DEF book
<1>4. FitsDepth(book) \in BOOLEAN
  BY DEF FitsDepth
<1>5. new = [spot |-> reader.spot, opening |-> reader.opening, task |-> reader.task,
             next |-> reader.next, copy |-> Snapshot(book, Depth), complete |-> FitsDepth(book)]
  <2>1. reader = [spot |-> reader.spot, opening |-> reader.opening, task |-> reader.task,
                  next |-> reader.next, copy |-> reader.copy, complete |-> reader.complete]
    BY DEF ReaderStates
  <2>2. new = [[reader EXCEPT !.copy = Snapshot(book, Depth)] EXCEPT !.complete = FitsDepth(book)]
    BY DEF WithSnapshot
  <2> QED
    BY <2>1, <2>2, Zenon
<1>6. new \in ReaderStates
  BY <1>2, <1>4, <1>5 DEF ReaderStates
<1>7. new.spot = reader.spot /\ new.copy = Snapshot(book, Depth) /\ new.complete = FitsDepth(book)
  BY <1>5
<1> HIDE DEF new
<1>8. \A side \in Sides :
        /\ DOMAIN Snapshot(book, Depth).levels[side] \subseteq DOMAIN book.levels[side]
        /\ \A p \in DOMAIN Snapshot(book, Depth).levels[side] :
             Snapshot(book, Depth).levels[side][p] = book.levels[side][p]
  BY <1>1, <1>2, ShownFact DEF SpotBooks
<1>9. FitsDepth(book) => Snapshot(book, Depth).levels = book.levels
  <2> SUFFICES ASSUME FitsDepth(book) PROVE Snapshot(book, Depth).levels = book.levels
    OBVIOUS
  <2>1. \A side \in Sides : Snapshot(book, Depth).levels[side] = book.levels[side]
    BY <1>2 DEF FitsDepth
  <2>2. Snapshot(book, Depth).levels \in [Sides -> Levels] /\ book.levels \in [Sides -> Levels]
    BY <1>1, <1>2 DEF Copies, SpotBooks
  <2> QED
    BY <2>1, <2>2
<1>10. book.sequence <= books[reader.spot].sequence
  BY <1>1 DEF book, SpotBooks
<1>11. SoundCopy(new, history[reader.spot], books[reader.spot].sequence)
  BY <1>2, <1>3, <1>7, <1>8, <1>9, <1>10 DEF SoundCopy
<1> QED
  BY <1>6, <1>7, <1>11 DEF new, book

LEMMA SendSnapshotInv ==
  ASSUME FeedInv, NEW r \in Readers, NEW s \in Spots, SendSnapshot(r, s)
  PROVE  FeedInv'
<1> DEFINE asked == [readers[r] EXCEPT !.spot = s, !.opening = TRUE]
           reader == WithSnapshot(asked, books[s])
<1>1. readers \in [Readers -> ReaderStates] /\ publishers \subseteq Spots
  BY DEF FeedInv, FeedTypeOK
<1>2. asked \in ReaderStates /\ asked.spot = s
  BY <1>1 DEF ReaderStates
<1>3. readers' = [readers EXCEPT ![r] = reader] /\ UNCHANGED <<storeVars, history>>
  BY DEF SendSnapshot
<1> HIDE DEF asked
<1>4. reader \in ReaderStates /\ SoundCopy(reader, history[s], books[s].sequence)
      /\ reader.spot = s
  BY <1>2, SnapshotIsSound
<1> HIDE DEF reader
<1> QED
  BY <1>1, <1>3, <1>4, ReaderStepInv DEF storeVars

\* The steps that leave the copy alone keep it sound.
LEMMA SameCopyInv ==
  ASSUME FeedInv, NEW r \in Readers, NEW reader \in ReaderStates,
         reader.spot = readers[r].spot, reader.copy = readers[r].copy,
         reader.complete = readers[r].complete,
         readers' = [readers EXCEPT ![r] = reader],
         UNCHANGED <<books, chain_hydrated, channel, quote_publishers, quotes, history>>,
         publishers \subseteq publishers', publishers' \subseteq Spots
  PROVE  FeedInv'
<1>1. SoundCopy(readers[r], history[readers[r].spot], books[readers[r].spot].sequence)
  BY DEF FeedInv, CopyIsSound
<1>2. SoundCopy(reader, history[reader.spot], books[reader.spot].sequence)
  BY <1>1 DEF SoundCopy
<1> QED
  BY <1>2, ReaderStepInv

LEMMA SubscribeInv ==
  ASSUME FeedInv, NEW r \in Readers, Subscribe(r)
  PROVE  FeedInv'
<1> DEFINE spot == readers[r].spot
           reader == [readers[r] EXCEPT !.opening = FALSE, !.task = "live",
                                        !.next = Len(channel[spot]) + 1]
<1>1. readers \in [Readers -> ReaderStates] /\ publishers \subseteq Spots
      /\ channel \in [Spots -> Seq(Deltas)]
  BY DEF FeedInv, FeedTypeOK
<1>2. spot \in Spots /\ Len(channel[spot]) + 1 \in Nat \ {0}
  BY <1>1 DEF ReaderStates
<1>3. /\ reader \in ReaderStates /\ reader.spot = spot
      /\ reader.copy = readers[r].copy /\ reader.complete = readers[r].complete
  BY <1>1, <1>2 DEF ReaderStates
<1>4. /\ readers' = [readers EXCEPT ![r] = reader]
      /\ publishers' = publishers \cup {spot}
      /\ UNCHANGED <<books, chain_hydrated, channel, quote_publishers, quotes, history>>
  BY <1>1 DEF Subscribe, OpenChannel
<1> HIDE DEF reader
<1> QED
  BY <1>1, <1>2, <1>3, <1>4, SameCopyInv

LEMMA UnsubscribeInv ==
  ASSUME FeedInv, NEW r \in Readers, Unsubscribe(r)
  PROVE  FeedInv'
<1> DEFINE reader == [readers[r] EXCEPT !.task = "none"]
<1>1. readers \in [Readers -> ReaderStates] /\ publishers \subseteq Spots
  BY DEF FeedInv, FeedTypeOK
<1>2. /\ reader \in ReaderStates /\ reader.spot = readers[r].spot
      /\ reader.copy = readers[r].copy /\ reader.complete = readers[r].complete
  BY <1>1 DEF ReaderStates
<1>3. readers' = [readers EXCEPT ![r] = reader] /\ UNCHANGED <<storeVars, history>>
  BY <1>1 DEF Unsubscribe
<1> HIDE DEF reader
<1> QED
  BY <1>1, <1>2, <1>3, SameCopyInv DEF storeVars

LEMMA LagInv ==
  ASSUME FeedInv, NEW r \in Readers, Lag(r)
  PROVE  FeedInv'
<1> DEFINE spot == readers[r].spot
           reader == [readers[r] EXCEPT !.next = Len(channel[spot]) + 1 - Capacity,
                                        !.task = "lagged"]
<1>1. readers \in [Readers -> ReaderStates] /\ publishers \subseteq Spots
      /\ channel \in [Spots -> Seq(Deltas)]
  BY DEF FeedInv, FeedTypeOK
<1>2. spot \in Spots /\ Len(channel[spot]) \in Nat /\ readers[r].next \in Nat \ {0}
  BY <1>1 DEF ReaderStates
<1>3. Len(channel[spot]) + 1 - Capacity \in Nat \ {0}
  <2> DEFINE length == Len(channel[spot])
             next == readers[r].next
  <2>1. length + 1 - next > Capacity
    BY DEF Lag, Behind
  <2>2. length \in Nat /\ next \in Nat \ {0}
    BY <1>2
  <2> HIDE DEF length, next
  <2>3. length + 1 - Capacity \in Nat \ {0}
    BY <2>1, <2>2, CapacityAssumption
  <2> QED
    BY <2>3 DEF length
<1>4. /\ reader \in ReaderStates /\ reader.spot = spot
      /\ reader.copy = readers[r].copy /\ reader.complete = readers[r].complete
  BY <1>1, <1>3 DEF ReaderStates
<1>5. readers' = [readers EXCEPT ![r] = reader] /\ UNCHANGED <<storeVars, history>>
  BY <1>1 DEF Lag
<1> HIDE DEF reader
<1> QED
  BY <1>1, <1>4, <1>5, SameCopyInv DEF storeVars

LEMMA ResyncInv ==
  ASSUME FeedInv, NEW r \in Readers, Resync(r)
  PROVE  FeedInv'
<1> DEFINE live == [readers[r] EXCEPT !.task = "live"]
           reader == WithSnapshot(live, books[readers[r].spot])
<1>1. readers \in [Readers -> ReaderStates] /\ publishers \subseteq Spots
  BY DEF FeedInv, FeedTypeOK
<1>2. live \in ReaderStates /\ live.spot = readers[r].spot
  BY <1>1 DEF ReaderStates
<1>3. readers' = [readers EXCEPT ![r] = reader] /\ UNCHANGED <<storeVars, history>>
  BY DEF Resync
<1> HIDE DEF live
<1>4. /\ reader \in ReaderStates /\ reader.spot = readers[r].spot
      /\ SoundCopy(reader, history[reader.spot], books[reader.spot].sequence)
  BY <1>2, SnapshotIsSound
<1> HIDE DEF reader
<1> QED
  BY <1>1, <1>3, <1>4, ReaderStepInv DEF storeVars

\* A delta numbered one above the copy turns the copy into the next version.
LEMMA ForwardInv ==
  ASSUME FeedInv, NEW r \in Readers, Forward(r)
  PROVE  FeedInv'
<1> DEFINE spot == readers[r].spot
           copy == readers[r].copy
           delta == channel[spot][readers[r].next]
           new == ApplyDelta(copy, delta)
           next == readers[r].next + 1
           reader == [readers[r] EXCEPT !.next = next, !.copy = new]
<1>1. readers \in [Readers -> ReaderStates] /\ publishers \subseteq Spots
      /\ channel \in [Spots -> Seq(Deltas)] /\ books \in [Spots -> SpotBooks]
      /\ history \in [Spots -> [0 .. MaxSequence -> Versions]]
      /\ \A s \in Spots : books[s].sequence <= MaxSequence
  BY DEF FeedInv, FeedTypeOK
<1>2. /\ spot \in Spots /\ copy \in Copies /\ readers[r].next \in Nat \ {0}
      /\ books[spot].sequence \in Nat /\ copy.sequence \in Nat
  BY <1>1 DEF ReaderStates, Copies, SpotBooks
<1>3. SoundCopy(readers[r], history[spot], books[spot].sequence)
  BY DEF FeedInv, CopyIsSound
<1>4. readers' = [readers EXCEPT ![r] = reader] /\ UNCHANGED <<storeVars, history>>
  BY <1>1 DEF Forward
<1>5. next \in Nat \ {0}
  BY <1>2
<1> HIDE DEF next
<1>6. CASE delta.sequence # copy.sequence + 1
  <2>1. new = copy
    BY <1>6 DEF ApplyDelta
  <2> HIDE DEF new
  <2>2. /\ reader \in ReaderStates /\ reader.spot = spot
        /\ reader.copy = copy /\ reader.complete = readers[r].complete
    BY <1>1, <1>2, <1>5, <2>1 DEF ReaderStates
  <2> HIDE DEF reader
  <2> QED
    BY <1>1, <1>4, <2>2, SameCopyInv DEF storeVars
<1>7. CASE delta.sequence = copy.sequence + 1
  <2>1. readers[r].next \in 1 .. Len(channel[spot])
    <3>1. Behind(r) \in 1 .. Capacity /\ Behind(r) = Len(channel[spot]) + 1 - readers[r].next
      BY DEF Forward, Behind
    <3>2. Len(channel[spot]) \in Nat
      BY <1>1, <1>2
    <3> QED
      BY <1>2, <3>1, <3>2, CapacityAssumption
  <2> DEFINE before == history[spot][copy.sequence]
             after == history[spot][delta.sequence]
  <2>2. /\ delta.sequence \in 1 .. books[spot].sequence
        /\ after.levels = [before.levels EXCEPT
                             ![delta.side] = SetLevel(@, delta.price, delta.size)]
        /\ after.last_trade_price = delta.last_trade_price
    <3>1. delta.sequence - 1 = copy.sequence
      BY <1>2, <1>7
    <3>2. /\ delta.sequence \in 1 .. books[spot].sequence
          /\ history[spot][delta.sequence].levels =
               [history[spot][delta.sequence - 1].levels EXCEPT
                  ![delta.side] = SetLevel(@, delta.price, delta.size)]
          /\ history[spot][delta.sequence].last_trade_price = delta.last_trade_price
      <4>1. Explains(channel[spot][readers[r].next], spot)
        <5> HIDE DEF new, reader
        <5> QED
          BY <1>2, <2>1 DEF FeedInv, ChannelIsHistory
      <4> HIDE DEF copy, new, reader
      <4> QED
        BY <4>1 DEF Explains
    <3> HIDE DEF delta, copy, new, reader
    <3> QED
      BY <3>1, <3>2
  <2>3. delta \in Deltas
    BY <1>1, <1>2, <2>1
  <2>4. before \in Versions
    <3>1. copy.sequence \in 0 .. books[spot].sequence
      <4>1. copy.sequence <= books[spot].sequence
        BY <1>3 DEF SoundCopy
      <4> HIDE DEF copy, delta, new, reader, spot
      <4> QED
        BY <1>2, <4>1
    <3> HIDE DEF copy, delta, new, reader, spot, before, after
    <3>2. /\ history[spot] \in [0 .. MaxSequence -> Versions]
          /\ books[spot].sequence <= MaxSequence /\ books[spot].sequence \in Nat
      <4>1. /\ history \in [Spots -> [0 .. MaxSequence -> Versions]]
            /\ \A s \in Spots : books[s].sequence <= MaxSequence
        BY DEF FeedInv, FeedTypeOK
      <4> QED
        BY <1>2, <4>1
    <3>3. copy.sequence \in 0 .. MaxSequence
      BY <3>1, <3>2, MaxSequenceAssumption
    <3> USE DEF before
    <3> QED
      BY <3>2, <3>3
  <2>5. /\ delta.side \in Sides /\ delta.price \in Prices /\ delta.size \in Amounts
        /\ delta.sequence \in Nat /\ delta.last_trade_price \in LastPrices
    BY <2>3 DEF Deltas
  <2>6. copy.levels \in [Sides -> Levels] /\ before.levels \in [Sides -> Levels]
    BY <1>2, <2>4 DEF Copies, Versions
  <2>7. /\ new.levels = [copy.levels EXCEPT
                           ![delta.side] = SetLevel(@, delta.price, delta.size)]
        /\ new.sequence = delta.sequence
        /\ new.last_trade_price = delta.last_trade_price
        /\ new = [levels |-> new.levels, sequence |-> new.sequence,
                  last_trade_price |-> new.last_trade_price]
    BY <1>7 DEF ApplyDelta
  <2> HIDE DEF new, delta, copy, before, after
  <2>8. SetLevel(copy.levels[delta.side], delta.price, delta.size) \in Levels
    BY <2>5, <2>6, SetLevelFact
  <2>9. new \in Copies
    BY <2>5, <2>6, <2>7, <2>8 DEF Copies
  <2>10. reader \in ReaderStates /\ reader.spot = spot /\ reader.copy = new
         /\ reader.complete = readers[r].complete
    BY <1>1, <1>2, <1>5, <2>9 DEF ReaderStates
  <2>11. /\ \A side \in Sides :
              /\ DOMAIN copy.levels[side] \subseteq DOMAIN before.levels[side]
              /\ \A price \in DOMAIN copy.levels[side] :
                   copy.levels[side][price] = before.levels[side][price]
         /\ readers[r].complete => copy.levels = before.levels
    BY <1>3 DEF SoundCopy, copy, before
  <2>12. ASSUME NEW side \in Sides
         PROVE  /\ DOMAIN new.levels[side] \subseteq DOMAIN after.levels[side]
                /\ \A price \in DOMAIN new.levels[side] :
                     new.levels[side][price] = after.levels[side][price]
    <3>1. CASE side # delta.side
      BY <2>2, <2>6, <2>7, <2>11, <3>1
    <3>2. CASE side = delta.side
      <4>1. /\ new.levels[side] = SetLevel(copy.levels[side], delta.price, delta.size)
            /\ after.levels[side] = SetLevel(before.levels[side], delta.price, delta.size)
        BY <2>2, <2>5, <2>6, <2>7, <3>2
      <4>2. copy.levels[side] \in Levels /\ before.levels[side] \in Levels
        BY <2>6
      <4> QED
        BY <2>5, <2>11, <4>1, <4>2, SetLevelFact
    <3> QED
      BY <3>1, <3>2
  <2>13. readers[r].complete => new.levels = after.levels
    BY <2>2, <2>7, <2>11
  <2>14. delta.sequence <= books[spot].sequence
    BY <1>2, <2>2, <2>5
  <2> HIDE DEF reader, spot
  <2>15. SoundCopy(reader, history[reader.spot], books[reader.spot].sequence)
    <3>1. history[reader.spot][reader.copy.sequence] = after
      BY <2>7, <2>10 DEF after
    <3>2. /\ reader.copy.sequence <= books[reader.spot].sequence
          /\ reader.copy.last_trade_price = after.last_trade_price
      BY <2>2, <2>7, <2>10, <2>14
    <3> QED
      BY <2>10, <2>12, <2>13, <3>1, <3>2 DEF SoundCopy
  <2> QED
    BY <1>1, <1>4, <2>10, <2>15, ReaderStepInv DEF storeVars
<1> QED
  BY <1>6, <1>7

---------------------------------------------------------------------------
LEMMA NextInv == FeedInv /\ [FeedNext]_feedVars => FeedInv'
<1> SUFFICES ASSUME FeedInv, [FeedNext]_feedVars PROVE FeedInv'
  OBVIOUS
<1>1. ASSUME NEW s \in Spots, ApplyEvent(s) PROVE FeedInv'
  BY <1>1, EventInv
<1>2. ASSUME NEW s \in Spots, Hydrate(s) PROVE FeedInv'
  BY <1>2, HydrateInv
<1>3. ASSUME NEW s \in Spots, QuoteSubscribe(s) PROVE FeedInv'
  BY <1>3, QuoteSubscribeInv
<1>4. ASSUME NEW r \in Readers, NEW s \in Spots, SendSnapshot(r, s) PROVE FeedInv'
  BY <1>4, SendSnapshotInv
<1>5. ASSUME NEW r \in Readers, Subscribe(r) PROVE FeedInv'
  BY <1>5, SubscribeInv
<1>6. ASSUME NEW r \in Readers, Unsubscribe(r) PROVE FeedInv'
  BY <1>6, UnsubscribeInv
<1>7. ASSUME NEW r \in Readers, Forward(r) PROVE FeedInv'
  BY <1>7, ForwardInv
<1>8. ASSUME NEW r \in Readers, Lag(r) PROVE FeedInv'
  BY <1>8, LagInv
<1>9. ASSUME NEW r \in Readers, Resync(r) PROVE FeedInv'
  BY <1>9, ResyncInv
<1>10. CASE UNCHANGED feedVars
  <2>1. /\ UNCHANGED <<books, chain_hydrated, publishers, channel, quote_publishers, quotes>>
        /\ UNCHANGED <<readers, history>>
    BY <1>10 DEF feedVars, storeVars
  <2>2. FeedTypeOK'
    BY <2>1 DEF FeedInv, FeedTypeOK
  <2>3. HistoryIsCurrent'
    BY <2>1 DEF FeedInv, HistoryIsCurrent
  <2>4. ChannelIsHistory'
    BY <2>1, ChannelUnchanged DEF FeedInv
  <2>5. NoEmptyLevels'
    BY <2>1 DEF FeedInv, NoEmptyLevels
  <2>6. GapsAreRehydrations'
    BY <2>1 DEF FeedInv, GapsAreRehydrations
  <2>7. NothingUnannounced'
    BY <2>1 DEF FeedInv, NothingUnannounced
  <2>8. QuotedIfPublished' /\ QuoteNotAhead' /\ QuoteIsLatest'
    BY <2>1 DEF FeedInv, QuotedIfPublished, QuoteNotAhead, QuoteIsLatest
  <2>9. CopyIsSound'
    BY <2>1 DEF FeedInv, CopyIsSound
  <2> QED
    BY <2>2, <2>3, <2>4, <2>5, <2>6, <2>7, <2>8, <2>9 DEF FeedInv
<1> QED
  BY <1>1, <1>2, <1>3, <1>4, <1>5, <1>6, <1>7, <1>8, <1>9, <1>10 DEF FeedNext

LEMMA SpecInv == FeedSpec => []FeedInv
  BY InitInv, NextInv, PTL DEF FeedSpec

---------------------------------------------------------------------------
\* Every variable of the store and of its subscriptions keeps its type.
THEOREM FeedTypeCorrect == FeedSpec => []FeedTypeOK
<1>1. FeedInv => FeedTypeOK
  BY DEF FeedInv
<1> QED
  BY <1>1, SpecInv, PTL

\* However many events and rehydrations are mixed, no book ever stores a level
\* without quantity (book_store.rs:109-118, 279-291).
THEOREM BooksHaveNoEmptyLevels == FeedSpec => []NoEmptyLevels
<1>1. FeedInv => NoEmptyLevels
  BY DEF FeedInv
<1> QED
  BY <1>1, SpecInv, PTL

\* The sequence numbers are enough for a client to keep a copy that is never
\* wrong, whatever the ring's capacity, the snapshot depth and the lag
\* (book_store.rs:253-326, session.rs:31-72).
THEOREM CopiesAreSound == FeedSpec => []CopyIsSound
<1>1. FeedInv => CopyIsSound
  BY DEF FeedInv
<1> QED
  BY <1>1, SpecInv, PTL

\* Every event applied to a subscribed book is on its channel
\* (book_store.rs:316-322).
THEOREM EventsAreAnnounced == FeedSpec => []GapsAreRehydrations
<1>1. FeedInv => GapsAreRehydrations
  BY DEF FeedInv
<1> QED
  BY <1>1, SpecInv, PTL

\* The last quote on a channel is the top of the book as of the last event
\* (book_store.rs:323-355).
THEOREM QuotesAreLatest == FeedSpec => []QuoteIsLatest
<1>1. FeedInv => QuoteIsLatest
  BY DEF FeedInv
<1> QED
  BY <1>1, SpecInv, PTL
=============================================================================
