----------------------------- MODULE WsSession -----------------------------
(***************************************************************************)
(* One websocket connection (ws/mod.rs, ws/process/): the loop that reads  *)
(* requests and writes messages, the session with its subscriptions, the   *)
(* forwarding task of each, and the broadcast rings that the tasks read.   *)
(*                                                                         *)
(* What a message says is the business of BookFeed.  Here a change of a    *)
(* book is a version number, and a user message is the user it is for.     *)
(* Clients spell a spot market or an address in several ways: the session  *)
(* keeps a subscription under the client's spelling, cancels ignoring case *)
(* and reads the ring of the normalised spot market.                       *)
(***************************************************************************)
EXTENDS Naturals, Sequences, FiniteSets, FiniteSetsExt

CONSTANTS Spots,       \* normalised spot market keys
          Users,       \* addresses as the indexer spells them
          Hub,         \* the one ring of the user hub
          Keys,        \* subscriptions that a client may ask for, as it spells them
          SpotOf,      \* normalize_spot_market_key, by spelling
          Folded,      \* one spelling for all that differ in case only
          Capacity,    \* messages that a ring retains (4096, users 512)
          MaxTasks,    \* bound: subscriptions of the connection
          MaxWrites    \* bound: versions and user messages

Newer(a, b) == IF a > b THEN a ELSE b

BookChannels == {"orderbook_delta", "quote"}
Channels == BookChannels \cup {"user"}
Topics == Spots \cup {Hub}
Names == {key.name : key \in Keys}
Tasks == 1 .. MaxTasks

ASSUME KeysAssumption ==
  /\ \A key \in Keys : DOMAIN key = {"channel", "name"} /\ key.channel \in Channels
  /\ \A key \in Keys : key.channel \in BookChannels => SpotOf[key.name] \in Spots
ASSUME RingAssumption == Hub \notin Spots /\ Capacity \in Nat \ {0}
ASSUME BoundsAssumption == MaxTasks \in Nat /\ MaxWrites \in Nat

VARIABLES
  log,       \* by topic: "event" or "hydration" for each version of a book,
             \* the user of each message of the hub
  open,      \* handle_socket runs
  loop,      \* its place: in select!, or in a handler of ws/process
  session,   \* WsSession.tasks: the task under each key, 0 when there is none
  tasks,     \* the spawned forwarding tasks
  outbound,  \* the channel from the tasks to the loop
  copy,      \* the version of a book or quote that the client has
  heard      \* the user messages that the client has

vars == <<log, open, loop, session, tasks, outbound, copy, heard>>
clientVars == <<copy, heard>>

\* status    "live", "aborted" while a poll that abort() does not interrupt
\*           goes on, or "ended"
\* stage     "receiving", "lagged" when it has missed deltas, "resyncing" when
\*           it has read the snapshot for them
\* next      the next message of the ring it receives
\* version   the version of the snapshot that it is about to send
\* sent, from  ghost: the version sent when the client subscribed; the first
\*           message it owes the client, or can only end at once that is gone
\* skipped   ghost: messages that it never received because it lagged
\* shared    ghost: another task ran for the same channel and spot market
Select == [stage |-> "select"]
NoTask == [status |-> "none"]

TaskStates ==
  [key : Keys, status : {"live", "aborted", "ended"},
   stage : {"receiving", "lagged", "resyncing"}, next : Nat \ {0}, version : Nat,
   sent : Nat, from : Nat \ {0}, skipped : SUBSET (1 .. MaxWrites), shared : BOOLEAN]

Messages == [kind : {"snapshot", "delta", "quote", "user"}, topic : Topics, version : Nat]

Topic(key) == IF key.channel = "user" THEN Hub ELSE SpotOf[key.name]
Version(topic) == Len(log[topic])
Running(t) == tasks[t].status \in {"live", "aborted"}

\* The messages of a topic: a hydration is a version that is not announced.
Ring(topic) == {i \in DOMAIN log[topic] : topic \in Spots => log[topic][i] = "event"}
Retained(topic) == {i \in Ring(topic) : Cardinality({j \in Ring(topic) : j > i}) < Capacity}
Pending(t) == {i \in Ring(Topic(tasks[t].key)) : i >= tasks[t].next}

\* Mutant: the filter compares the address as it is spelled.
WantedAsSpelled(t, i) ==
  tasks[t].key.channel = "user" => log[Hub][i] = tasks[t].key.name

\* The filter of a user subscription ignores case.
Wanted(t, i) ==
  tasks[t].key.channel = "user" => Folded[log[Hub][i]] = Folded[tasks[t].key.name]

TypeOK ==
  /\ DOMAIN log = Topics
  /\ \A s \in Spots : log[s] \in Seq({"event", "hydration"})
  /\ log[Hub] \in Seq(Users)
  /\ open \in BOOLEAN
  /\ loop \in {Select} \cup [stage : {"snapshot", "subscribe"}, key : Keys, sent : Nat]
  /\ session \in [Keys -> 0 .. MaxTasks]
  /\ tasks \in [Tasks -> TaskStates \cup {NoTask}]
  /\ \A t \in Tasks : Running(t) => tasks[t].next <= Version(Topic(tasks[t].key)) + 1
  /\ outbound \in Seq(Messages)
  /\ ~open => outbound = <<>>
  /\ copy \in [BookChannels -> [Spots -> Nat]]
  /\ heard \subseteq 1 .. MaxWrites

Init ==
  /\ log = [topic \in Topics |-> <<>>]
  /\ open = TRUE
  /\ loop = Select
  /\ session = [key \in Keys |-> 0]
  /\ tasks = [t \in Tasks |-> NoTask]
  /\ outbound = <<>>
  /\ copy = [channel \in BookChannels |-> [s \in Spots |-> 0]]
  /\ heard = {}

---------------------------------------------------------------------------
(* The rest of the program.                                                *)

Writes == Cardinality(UNION {{<<topic, i>> : i \in DOMAIN log[topic]} : topic \in Topics})

Publish(topic, entry) ==
  /\ Writes < MaxWrites
  /\ log' = [log EXCEPT ![topic] = Append(@, entry)]

\* The indexer, a request or another connection writes a book ...
WriteBook ==
  /\ \E s \in Spots, entry \in {"event", "hydration"} : Publish(s, entry)
  /\ UNCHANGED <<open, loop, session, tasks, outbound, clientVars>>

\* ... or publishes an order or a trade.
PublishUser ==
  /\ \E user \in Users : Publish(Hub, user)
  /\ UNCHANGED <<open, loop, session, tasks, outbound, clientVars>>

---------------------------------------------------------------------------
(* The session.                                                            *)

\* WsSession::cancel of the tasks in a set.  A task that is in the middle of
\* a poll finishes it; any other never runs again.
Aborted(cancelled, polled) ==
  [t \in Tasks |-> IF t \in cancelled
                   THEN [tasks[t] EXCEPT !.status = IF t \in polled THEN "aborted"
                                                        ELSE "ended"]
                   ELSE tasks[t]]

\* Running for the same channel and spot market.
Peers(key) == {t \in Tasks : /\ Running(t) /\ tasks[t].key.channel = key.channel
                             /\ Topic(tasks[t].key) = Topic(key)}

NewTask(key, sent, others) ==
  [key |-> key, status |-> "live", stage |-> "receiving", next |-> Version(Topic(key)) + 1,
   version |-> 0, sent |-> sent, from |-> Version(Topic(key)) + 1, skipped |-> {},
   shared |-> others # {}]

Unspawned(t) == tasks[t] = NoTask /\ \A u \in 1 .. t - 1 : tasks[u] # NoTask

\* Mutant: the earlier task is left to run.
SpawnBeside(t, key, sent) ==
  /\ Unspawned(t)
  /\ tasks' = [u \in Tasks |->
                 IF u = t THEN NewTask(key, sent, Peers(key))
                 ELSE IF u \in Peers(key) THEN [tasks[u] EXCEPT !.shared = TRUE]
                 ELSE tasks[u]]
  /\ session' = [session EXCEPT ![key] = t]

\* subscribe_orderbook, subscribe_quote and subscribe_user of the session: the
\* receiver starts at the end of the ring, the task of an earlier subscription
\* under the same spelling is cancelled, and the new one is spawned.
Spawn(t, key, sent) ==
  LET old == {session[key]} \ {0}
  IN /\ Unspawned(t)
     /\ \E polled \in SUBSET old :
          LET others == Peers(key) \ (old \ polled)
          IN tasks' = [u \in Tasks |->
                         IF u = t THEN NewTask(key, sent, others)
                         ELSE IF u \in others
                         THEN [Aborted(old, polled)[u] EXCEPT !.shared = TRUE]
                         ELSE Aborted(old, polled)[u]]
     /\ session' = [session EXCEPT ![key] = t]

\* The end of handle_socket: the session and the channel are dropped, the
\* tasks are not aborted.
Close ==
  /\ open' = FALSE
  /\ loop' = Select
  /\ session' = [key \in Keys |-> 0]
  /\ tasks' = [t \in Tasks |-> IF Running(t) THEN [tasks[t] EXCEPT !.from = tasks[t].next]
                               ELSE tasks[t]]
  /\ outbound' = <<>>
  /\ UNCHANGED <<log, clientVars>>

---------------------------------------------------------------------------
(* The loop.                                                               *)

Receives == open /\ loop = Select

\* A close frame, a broken socket or a failed send.
Disconnect == Receives /\ Close

\* handle_subscribe of orderbook_delta and quote: the book is read from the
\* chain again (nothing happens when that fails) ...
Rehydrate(key) ==
  /\ Receives
  /\ key.channel \in BookChannels
  /\ \E t \in Tasks : Unspawned(t)
  /\ Publish(SpotOf[key.name], "hydration")
  /\ loop' = [stage |-> "snapshot", key |-> key, sent |-> 0]
  /\ UNCHANGED <<open, session, tasks, outbound, clientVars>>

\* ... the snapshot overtakes what is in the outbound channel ...
SendSnapshot ==
  LET key == loop.key
      spot == SpotOf[key.name]
  IN /\ open /\ loop.stage = "snapshot"
     /\ copy' = [copy EXCEPT ![key.channel][spot] = Newer(@, Version(spot))]
     /\ loop' = [stage |-> "subscribe", key |-> key, sent |-> Version(spot)]
     /\ UNCHANGED <<log, open, session, tasks, outbound, heard>>

SnapshotFails == open /\ loop.stage = "snapshot" /\ Close

\* ... and the subscription follows.
Subscribe(t) ==
  /\ open /\ loop.stage = "subscribe"
  /\ Spawn(t, loop.key, loop.sent)
  /\ loop' = Select
  /\ UNCHANGED <<log, open, outbound, clientVars>>

SubscribeUser(t, key) ==
  /\ Receives
  /\ key.channel = "user"
  /\ Spawn(t, key, 0)
  /\ UNCHANGED <<log, open, loop, outbound, clientVars>>

\* cancel_channel: the subscriptions under a spelling, ignoring case, or, of
\* a request without one, all of the channel.
Named(channel, name) ==
  {key \in Keys : key.channel = channel /\ Folded[key.name] = Folded[name]}

Unsubscribe(keys) ==
  LET cancelled == {session[key] : key \in keys} \ {0}
  IN /\ Receives
     /\ cancelled # {}
     /\ \E polled \in SUBSET cancelled : tasks' = Aborted(cancelled, polled)
     /\ session' = [key \in Keys |-> IF key \in keys THEN 0 ELSE session[key]]
     /\ UNCHANGED <<log, open, loop, outbound, clientVars>>

UnsubscribeAny ==
  \E channel \in Channels :
    \/ Unsubscribe({key \in Keys : key.channel = channel})
    \/ \E name \in Names : Unsubscribe(Named(channel, name))

\* The client keeps the newest snapshot or quote, and applies a delta that
\* follows on its copy.
Use(message) ==
  CASE message.kind = "snapshot" ->
         copy' = [copy EXCEPT !["orderbook_delta"][message.topic] = Newer(@, message.version)]
    [] message.kind = "delta" ->
         copy' = [copy EXCEPT !["orderbook_delta"][message.topic] =
                    IF message.version = @ + 1 THEN message.version ELSE @]
    [] message.kind = "quote" ->
         copy' = [copy EXCEPT !["quote"][message.topic] = Newer(@, message.version)]
    [] OTHER -> copy' = copy

Deliver ==
  /\ Receives
  /\ outbound # <<>>
  /\ Use(Head(outbound))
  /\ heard' = heard \cup {m.version : m \in {n \in {Head(outbound)} : n.kind = "user"}}
  /\ outbound' = Tail(outbound)
  /\ UNCHANGED <<log, open, loop, session, tasks>>

---------------------------------------------------------------------------
(* The forwarding tasks.                                                   *)

\* Mutant: the channel of a closed connection is not noticed.
SendAlways(t, after, message) ==
  /\ outbound' = Append(outbound, message)
  /\ tasks' = [tasks EXCEPT ![t] = after]

\* Mutant: a failed send does not end the task.
SendAnyway(t, after, message) ==
  /\ outbound' = IF open THEN Append(outbound, message) ELSE outbound
  /\ tasks' = [tasks EXCEPT ![t] = after]

\* outbound.send: when the connection is gone it fails and the task ends.
Send(t, after, message) ==
  /\ outbound' = IF open THEN Append(outbound, message) ELSE outbound
  /\ tasks' = [tasks EXCEPT ![t] = [after EXCEPT !.status = IF open THEN @ ELSE "ended"]]

othersOfTask == <<log, open, loop, session, clientVars>>

Kind(channel) ==
  CASE channel = "orderbook_delta" -> "delta"
    [] channel = "quote" -> "quote"
    [] OTHER -> "user"

Forward(t) ==
  LET task == tasks[t]
      i == Min(Pending(t))
      after == [task EXCEPT !.next = i + 1]
  IN /\ Running(t) /\ task.stage = "receiving"
     /\ Pending(t) # {} /\ i \in Retained(Topic(task.key))
     /\ IF Wanted(t, i)
        THEN Send(t, after, [kind |-> Kind(task.key.channel), topic |-> Topic(task.key),
                             version |-> i])
        ELSE tasks' = [tasks EXCEPT ![t] = after] /\ UNCHANGED outbound
     /\ UNCHANGED othersOfTask

\* Mutant: the task of an order book skips what it missed, as the others do.
LagSilently(t) ==
  LET task == tasks[t]
      retained == Retained(Topic(task.key))
      lost == Pending(t) \ retained
  IN /\ Running(t) /\ task.stage = "receiving"
     /\ lost # {}
     /\ tasks' = [tasks EXCEPT ![t].next = Min(retained),
                               ![t].skipped = @ \cup {i \in lost : Wanted(t, i)}]
     /\ UNCHANGED <<outbound, othersOfTask>>

\* Mutant: a receiver that lagged continues at the end of the ring.
LagToEnd(t) ==
  LET task == tasks[t]
  IN /\ Running(t) /\ task.stage = "receiving"
     /\ Pending(t) \ Retained(Topic(task.key)) # {}
     /\ tasks' = [tasks EXCEPT ![t] =
                    [@ EXCEPT !.next = Version(Topic(task.key)) + 1,
                              !.skipped = @ \cup {i \in Pending(t) : Wanted(t, i)},
                              !.stage = IF task.key.channel = "orderbook_delta"
                                        THEN "lagged" ELSE @]]
     /\ UNCHANGED <<outbound, othersOfTask>>

\* RecvError::Lagged: the receiver continues at the oldest message that is
\* retained.  Only the task of an order book does something about the rest.
Lag(t) ==
  LET task == tasks[t]
      retained == Retained(Topic(task.key))
      lost == Pending(t) \ retained
  IN /\ Running(t) /\ task.stage = "receiving"
     /\ lost # {}
     /\ tasks' = [tasks EXCEPT ![t] =
                    IF task.key.channel = "orderbook_delta"
                    THEN [task EXCEPT !.next = Min(retained), !.stage = "lagged"]
                    ELSE [task EXCEPT !.next = Min(retained),
                                      !.skipped = @ \cup {i \in lost : Wanted(t, i)}]]
     /\ UNCHANGED <<outbound, othersOfTask>>

ResyncRead(t) ==
  /\ Running(t) /\ tasks[t].stage = "lagged"
  /\ tasks' = [tasks EXCEPT ![t].stage = "resyncing",
                            ![t].version = Version(Topic(tasks[t].key))]
  /\ UNCHANGED <<outbound, othersOfTask>>

ResyncSend(t) ==
  LET task == tasks[t]
  IN /\ Running(t) /\ task.stage = "resyncing"
     /\ Send(t, [task EXCEPT !.stage = "receiving", !.version = 0],
             [kind |-> "snapshot", topic |-> Topic(task.key), version |-> task.version])
     /\ UNCHANGED othersOfTask

\* The poll of an aborted task comes to its end.
Reap(t) ==
  /\ tasks[t].status = "aborted"
  /\ tasks' = [tasks EXCEPT ![t].status = "ended"]
  /\ UNCHANGED <<outbound, othersOfTask>>

TaskStep(t) == Forward(t) \/ Lag(t) \/ ResyncRead(t) \/ ResyncSend(t)

LoopStep == SendSnapshot \/ (\E t \in Tasks : Subscribe(t)) \/ Deliver

Next ==
  \/ WriteBook \/ PublishUser
  \/ Disconnect \/ SnapshotFails
  \/ \E key \in Keys : Rehydrate(key) \/ \E t \in Tasks : SubscribeUser(t, key)
  \/ UnsubscribeAny
  \/ LoopStep
  \/ \E t \in Tasks : TaskStep(t) \/ Reap(t)

Spec == Init /\ [][Next]_vars

\* The connection's own task and the forwarding tasks run on.  Nothing is
\* assumed of the writers, of new requests or of how long it stays open.
Fairness ==
  /\ WF_vars(LoopStep)
  /\ \A t \in Tasks : WF_vars(TaskStep(t)) /\ WF_vars(Reap(t))

FairSpec == Spec /\ Fairness

---------------------------------------------------------------------------
\* Every task that forwards to an open connection, but for the last poll of a
\* cancelled one, is the subscription that the session has under its key: in
\* whatever order subscriptions of the same and of differently spelled markets
\* come and go, each one can still be cancelled (session.rs:38, 69-70, 131-136).
NoStrayForwarder ==
  open =>
    /\ \A t \in Tasks : Running(t) /\ tasks[t].status = "live" => session[tasks[t].key] = t
    /\ \A key \in Keys : session[key] # 0 =>
         Running(session[key]) /\ tasks[session[key]].key = key

\* The client has everything that t has to forward.
Drained(t) == /\ Running(t) /\ tasks[t].status = "live" /\ tasks[t].stage = "receiving"
              /\ Pending(t) = {} /\ outbound = <<>>

Unseen(t) == tasks[t].sent + 1 .. tasks[t].from - 1

\* A client that has all that its one subscription of a book forwards has the
\* latest version, or the version after its own was a rehydration, which is
\* not announced, or was written between its snapshot and its subscription: no
\* lag, resync, cancelled task or snapshot that overtakes older deltas leaves
\* it behind for another reason (orderbook.rs:32-45, session.rs:43-66).
BookStaleOnlyByGap ==
  open => \A t \in Tasks :
    Drained(t) /\ tasks[t].key.channel = "orderbook_delta" /\ ~tasks[t].shared =>
      LET s == Topic(tasks[t].key)
          next == copy["orderbook_delta"][s] + 1
      IN next <= Version(s) => log[s][next] = "hydration" \/ next \in Unseen(t)

\* The same of a quote, for any number of subscriptions, although a quote task
\* that lags skips quotes silently: the ring retains the last one, so only an
\* event between snapshot and subscription can stay unseen
\* (quote.rs:31-39, session.rs:80-95).
QuoteIsCurrent ==
  open => \A t \in Tasks : Drained(t) /\ tasks[t].key.channel = "quote" =>
    LET s == Topic(tasks[t].key)
    IN \A i \in copy["quote"][s] + 1 .. Version(s) :
         log[s][i] = "hydration" \/ i \in Unseen(t)

\* Each message for a subscribed user, however the client spells the address,
\* reaches it or is on its way, once the task has passed it, unless the task
\* lagged behind the whole hub's messages (session.rs:103-125, user.rs:15-16).
UserHears ==
  open => \A t \in Tasks : Running(t) /\ tasks[t].key.channel = "user" =>
    \A i \in tasks[t].from .. tasks[t].next - 1 :
      Folded[log[Hub][i]] = Folded[tasks[t].key.name] /\ i \notin tasks[t].skipped =>
        \/ i \in heard
        \/ \E k \in DOMAIN outbound : outbound[k].kind = "user" /\ outbound[k].version = i

\* Every task comes to an end or to rest with all it has to forward forwarded,
\* and of a connection that is gone, whose tasks nobody aborts, those remain
\* that had no message since; what is queued for an open connection is sent
\* (ws/mod.rs:77-86, session.rs:46, 80-95, 118-125).
ForwardersSettle ==
  <>[](/\ open => outbound = <<>>
       /\ \A t \in Tasks : Running(t) =>
            /\ tasks[t].status = "live"
            /\ \A i \in Ring(Topic(tasks[t].key)) \ tasks[t].skipped :
                 Wanted(t, i) /\ i >= tasks[t].from => open /\ i < tasks[t].next)
=============================================================================
