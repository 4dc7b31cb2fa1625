------------------------------ MODULE BookStore ------------------------------
(***************************************************************************)
(* The order books of every spot market behind one lock, and the broadcast *)
(* channels that announce their changes (indexer/book_store.rs).           *)
(*                                                                         *)
(* Every method takes the lock once, so each is one atomic action here.    *)
(* Who calls a method, and with what, is the business of Indexer.tla; here *)
(* any call may come at any time.                                          *)
(***************************************************************************)
EXTENDS SpotBook, Sequences

CONSTANTS Spots,         \* normalised spot market keys
          ChainAnswers,  \* what get_book and the last trade lookup may answer with
          MaxSequence    \* bound: no book is written more often than this

ASSUME ChainAnswersAssumption ==
  ChainAnswers \subseteq [levels : [Sides -> Levels], last_trade_price : LastPrices]
ASSUME MaxSequenceAssumption == MaxSequence \in Nat

VARIABLES
  books,             \* books: the SpotBook of each spot
  chain_hydrated,    \* chain_hydrated: spots whose book was read from the chain
  publishers,        \* spots that have a delta channel
  channel,           \* every delta sent on a spot's channel, oldest first
  quote_publishers,  \* spots that have a quote channel
  quotes             \* the last quote sent on a spot's quote channel,
                     \* with sequence 0 before the first

storeVars == <<books, chain_hydrated, publishers, channel, quote_publishers, quotes>>

\* OrderBookDelta: one level with its new absolute size, 0 when it is gone.
Deltas == [sequence : Nat, side : Sides, price : Prices, size : Amounts,
           last_trade_price : LastPrices]

Delta(book, side, price) ==
  [sequence |-> book.sequence, side |-> side, price |-> price,
   size |-> Resting(book.levels[side], price),
   last_trade_price |-> book.last_trade_price]

StoreInit ==
  /\ books = [s \in Spots |-> EmptyBook]
  /\ chain_hydrated = {}
  /\ publishers = {}
  /\ channel = [s \in Spots |-> <<>>]
  /\ quote_publishers = {}
  /\ quotes = [s \in Spots |-> Quote(EmptyBook)]

---------------------------------------------------------------------------
\* Mutant: a level that is gone is not announced.
WriteUnlessGone(s, book, side, price) ==
  /\ book.sequence <= MaxSequence
  /\ books' = [books EXCEPT ![s] = book]
  /\ channel' = IF /\ book # books[s] /\ s \in publishers
                   /\ price \in DOMAIN book.levels[side]
                THEN [channel EXCEPT ![s] = Append(@, Delta(book, side, price))]
                ELSE channel
  /\ UNCHANGED <<chain_hydrated, publishers, quote_publishers, quotes>>

\* Mutant: the quote of the book before the change is sent.
WriteQuoteBefore(s, book, side, price) ==
  LET changed == book # books[s]
  IN /\ book.sequence <= MaxSequence
     /\ books' = [books EXCEPT ![s] = book]
     /\ channel' = IF changed /\ s \in publishers
                   THEN [channel EXCEPT ![s] = Append(@, Delta(book, side, price))]
                   ELSE channel
     /\ quotes' = IF changed /\ s \in quote_publishers
                  THEN [quotes EXCEPT ![s] = Quote(books[s])] ELSE quotes
     /\ UNCHANGED <<chain_hydrated, publishers, quote_publishers>>

\* The tail shared by the four event methods: store the book and, unless the
\* method returned early, publish_delta to the channels that exist.
Write(s, book, side, price) ==
  LET changed == book # books[s]
  IN /\ book.sequence <= MaxSequence
     /\ books' = [books EXCEPT ![s] = book]
     /\ channel' = IF changed /\ s \in publishers
                   THEN [channel EXCEPT ![s] = Append(@, Delta(book, side, price))]
                   ELSE channel
     /\ quotes' = IF changed /\ s \in quote_publishers
                  THEN [quotes EXCEPT ![s] = Quote(book)]
                  ELSE quotes
     /\ UNCHANGED <<chain_hydrated, publishers, quote_publishers>>

ApplyCreated(s, side, price, amount) ==
  Write(s, Created(books[s], side, price, amount), side, price)

ApplyCancelled(s, side, price, amount) ==
  Write(s, Cancelled(books[s], side, price, amount), side, price)

ApplyUpdated(s, side, price, oldAmount, newAmount, newRemaining) ==
  Write(s, Updated(books[s], side, price, oldAmount, newAmount, newRemaining), side, price)

ApplyFilled(s, side, price, amount) ==
  Write(s, Filled(books[s], side, price, amount), side, price)

\* Replaces the book and announces nothing.
HydrateFromChain(s, levels, trade) ==
  /\ books[s].sequence < MaxSequence
  /\ books' = [books EXCEPT ![s] = Hydrated(@, levels, trade)]
  /\ chain_hydrated' = chain_hydrated \cup {s}
  /\ UNCHANGED <<publishers, channel, quote_publishers, quotes>>

\* The first subscriber creates the channel.
OpenChannel(s) ==
  /\ publishers' = publishers \cup {s}
  /\ UNCHANGED <<books, chain_hydrated, channel, quote_publishers, quotes>>

SubscribeQuote(s) ==
  /\ quote_publishers' = quote_publishers \cup {s}
  /\ UNCHANGED <<books, chain_hydrated, publishers, channel, quotes>>

EventWrite(s) ==
  \E side \in Sides, price \in Prices :
    \/ \E amount \in Amounts :
         \/ ApplyCreated(s, side, price, amount)
         \/ ApplyCancelled(s, side, price, amount)
         \/ ApplyFilled(s, side, price, amount)
    \/ \E old, new \in Amounts : \E remaining \in 0 .. new :
         ApplyUpdated(s, side, price, old, new, remaining)

HydrateWrite(s) ==
  \E answer \in ChainAnswers : HydrateFromChain(s, answer.levels, answer.last_trade_price)

---------------------------------------------------------------------------
\* A stored level always holds quantity: a reader never sees a price with
\* nothing behind it, whatever mix of events and chain answers wrote the book
\* (book_store.rs:109-118, 279-291).
NoEmptyLevels ==
  \A s \in Spots, side \in Sides :
    \A price \in DOMAIN books[s].levels[side] : books[s].levels[side][price] > 0
=============================================================================
