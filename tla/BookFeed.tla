------------------------------ MODULE BookFeed ------------------------------
(***************************************************************************)
(* BookStore with the tasks that forward a spot's delta channel to         *)
(* websocket clients (ws/process/orderbook.rs, ws/process/session.rs) and  *)
(* the copy of the book that such a client keeps.                          *)
(*                                                                         *)
(* A client is outside the repository.  The one modelled here does what    *)
(* the sequence numbers in the messages are there for: it replaces its     *)
(* copy by each snapshot and applies a delta only when the delta's number  *)
(* is one above its copy's.                                                *)
(***************************************************************************)
EXTENDS BookStore

CONSTANTS Readers,   \* subscriptions to orderbook_delta
          Capacity,  \* size of the broadcast ring (4096 in the code)
          Depth      \* levels per side in a snapshot

ASSUME CapacityAssumption == Capacity \in Nat \ {0}
ASSUME DepthAssumption == Depth \in Nat \ {0}

VARIABLES
  readers,  \* the subscriptions
  history   \* ghost: what each sequence number of a spot's book stood for

feedVars == <<storeVars, readers, history>>

Copies == [levels : [Sides -> Levels], sequence : Nat, last_trade_price : LastPrices]

\* spot      the subscribed spot
\* opening   handle_subscribe has sent its snapshot and not yet subscribed
\* task      the forwarding task: "none", "live", or "lagged" when it was told
\*           that it missed deltas and has not yet sent the snapshot for them
\* next      index in the channel of the next delta the task receives
\* copy      the client's copy of the book
\* complete  ghost: the snapshot behind the copy held every level of the book
ReaderStates == [spot : Spots, opening : BOOLEAN, task : {"none", "live", "lagged"},
                 next : Nat \ {0}, copy : Copies, complete : BOOLEAN]

Versions == [levels : [Sides -> Levels], last_trade_price : LastPrices, hydrated : BOOLEAN]

Version(book, hydrated) ==
  [levels |-> book.levels, last_trade_price |-> book.last_trade_price, hydrated |-> hydrated]

FeedTypeOK ==
  /\ books \in [Spots -> SpotBooks]
  /\ \A s \in Spots : books[s].sequence <= MaxSequence
  /\ chain_hydrated \subseteq Spots
  /\ publishers \subseteq Spots
  /\ channel \in [Spots -> Seq(Deltas)]
  /\ quote_publishers \subseteq Spots
  /\ quotes \in [Spots -> Copies]
  /\ readers \in [Readers -> ReaderStates]
  /\ history \in [Spots -> [0 .. MaxSequence -> Versions]]

FeedInit ==
  /\ StoreInit
  /\ readers \in [Readers -> {[spot |-> s, opening |-> FALSE, task |-> "none",
                               next |-> 1, copy |-> Snapshot(EmptyBook, Depth),
                               complete |-> TRUE] : s \in Spots}]
  /\ history = [s \in Spots |-> [n \in 0 .. MaxSequence |-> Version(EmptyBook, FALSE)]]

Remember(s, hydrated) ==
  history' = [history EXCEPT ![s][books'[s].sequence] = Version(books'[s], hydrated)]

---------------------------------------------------------------------------
ApplyEvent(s) ==
  /\ EventWrite(s)
  /\ books' # books
  /\ Remember(s, FALSE)
  /\ UNCHANGED readers

Hydrate(s) ==
  /\ HydrateWrite(s)
  /\ Remember(s, TRUE)
  /\ UNCHANGED readers

QuoteSubscribe(s) ==
  /\ s \notin quote_publishers
  /\ SubscribeQuote(s)
  /\ UNCHANGED <<readers, history>>

FitsDepth(book) == \A side \in Sides : Shown(book.levels[side], side, Depth) = book.levels[side]

WithSnapshot(reader, book) ==
  [reader EXCEPT !.copy = Snapshot(book, Depth), !.complete = FitsDepth(book)]

\* handle_subscribe, first half: after a successful rehydrate the snapshot is
\* read and sent.  An earlier subscription of the same client keeps forwarding
\* until the second half replaces it, so only a new one changes its spot.
SendSnapshot(r, s) ==
  /\ s \in chain_hydrated
  /\ ~readers[r].opening
  /\ readers[r].task = "none" \/ readers[r].spot = s
  /\ readers' = [readers EXCEPT ![r] =
                   WithSnapshot([@ EXCEPT !.spot = s, !.opening = TRUE], books[s])]
  /\ UNCHANGED <<storeVars, history>>

\* handle_subscribe, second half: a new task takes over from here on.
Subscribe(r) ==
  /\ readers[r].opening
  /\ OpenChannel(readers[r].spot)
  /\ readers' = [readers EXCEPT ![r].opening = FALSE,
                                ![r].task = "live",
                                ![r].next = Len(channel[readers[r].spot]) + 1]
  /\ UNCHANGED history

Unsubscribe(r) ==
  /\ ~readers[r].opening
  /\ readers[r].task # "none"
  /\ readers' = [readers EXCEPT ![r].task = "none"]
  /\ UNCHANGED <<storeVars, history>>

Behind(r) == Len(channel[readers[r].spot]) + 1 - readers[r].next

\* The client's use of one delta.
ApplyDelta(copy, delta) ==
  IF delta.sequence = copy.sequence + 1
  THEN [levels |-> [copy.levels EXCEPT ![delta.side] = SetLevel(@, delta.price, delta.size)],
        sequence |-> delta.sequence,
        last_trade_price |-> delta.last_trade_price]
  ELSE copy

Forward(r) ==
  /\ readers[r].task = "live"
  /\ Behind(r) \in 1 .. Capacity
  /\ readers' = [readers EXCEPT
                   ![r].next = @ + 1,
                   ![r].copy = ApplyDelta(@, channel[readers[r].spot][readers[r].next])]
  /\ UNCHANGED <<storeVars, history>>

\* RecvError::Lagged: the task continues at the oldest delta the ring retains ...
Lag(r) ==
  /\ readers[r].task = "live"
  /\ Behind(r) > Capacity
  /\ readers' = [readers EXCEPT
                   ![r].next = Len(channel[readers[r].spot]) + 1 - Capacity,
                   ![r].task = "lagged"]
  /\ UNCHANGED <<storeVars, history>>

\* ... and first sends a snapshot, which may already include those deltas.
Resync(r) ==
  /\ readers[r].task = "lagged"
  /\ readers' = [readers EXCEPT ![r] =
                   WithSnapshot([@ EXCEPT !.task = "live"], books[@.spot])]
  /\ UNCHANGED <<storeVars, history>>

FeedNext ==
  \/ \E s \in Spots : ApplyEvent(s) \/ Hydrate(s) \/ QuoteSubscribe(s)
  \/ \E r \in Readers :
       \/ \E s \in Spots : SendSnapshot(r, s)
       \/ Subscribe(r) \/ Unsubscribe(r) \/ Forward(r) \/ Lag(r) \/ Resync(r)

FeedSpec == FeedInit /\ [][FeedNext]_feedVars

---------------------------------------------------------------------------
\* The copy of a reader against the versions of its book, up to the latest.
SoundCopy(reader, versions, latest) ==
  LET copy == reader.copy
      version == versions[copy.sequence]
  IN /\ copy.sequence <= latest
     /\ copy.last_trade_price = version.last_trade_price
     /\ \A side \in Sides :
          /\ DOMAIN copy.levels[side] \subseteq DOMAIN version.levels[side]
          /\ \A price \in DOMAIN copy.levels[side] :
               copy.levels[side][price] = version.levels[side][price]
     /\ reader.complete => copy.levels = version.levels

\* Every level in a client's copy is the level the book had at the copy's
\* sequence number, and nothing of that book is missing when the snapshot was
\* not cut by the depth: a lost delta, a silent rehydration between two
\* deltas, the gap between snapshot and subscription, or deltas older than a
\* resync snapshot leave the copy old, never wrong
\* (book_store.rs:119, 293, orderbook.rs:32-45, session.rs:43-66).
CopyIsSound ==
  \A r \in Readers :
    SoundCopy(readers[r], history[readers[r].spot], books[readers[r].spot].sequence)

\* Between two deltas of a channel the only sequence numbers that are missing
\* are those of rehydrations, which are not announced: no event is applied to
\* a book that has subscribers without being sent to them
\* (book_store.rs:119-123, 316-322).
GapsAreRehydrations ==
  \A s \in Spots : \A i \in 1 .. Len(channel[s]) - 1 :
    \A n \in channel[s][i].sequence + 1 .. channel[s][i + 1].sequence - 1 :
      history[s][n].hydrated

\* The last quote sent is the top of the book as it then was, and the book
\* has since changed by rehydrations only: a quote subscriber that has read
\* everything is never behind an event (book_store.rs:323-355).
QuoteIsLatest ==
  \A s \in Spots : quotes[s].sequence > 0 =>
    /\ \A side \in Sides :
         quotes[s].levels[side]
           = Shown(history[s][quotes[s].sequence].levels[side], side, 1)
    /\ \A n \in quotes[s].sequence + 1 .. books[s].sequence : history[s][n].hydrated
=============================================================================
