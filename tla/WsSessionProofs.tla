-------------------------- MODULE WsSessionProofs --------------------------
(***************************************************************************)
(* The connection, for any spot markets, users, spellings, ring capacity   *)
(* and bounds: its types, NoStrayForwarder, UserHears, QuoteIsCurrent and  *)
(* BookStaleOnlyByGap of WsSession.                                        *)
(*                                                                         *)
(* Typed is the invariant of the whole connection.  UserHeard, QuoteCurrent*)
(* and BookCurrent add to it what is under way: which messages a task has  *)
(* passed and the client is still to get.  A step is either one of the     *)
(* rest of the program (Publishes), one that no running task notices       *)
(* (Spawns, Unsubscribe, Reap), one of the loop or one of a task (Moves),  *)
(* and each kind has one lemma per invariant.                              *)
(***************************************************************************)
EXTENDS WsSession, SequenceTheorems, FiniteSetTheorems, WellFoundedInduction, TLAPS

---------------------------------------------------------------------------
(* The inductive invariant.                                                *)

Written == UNION {{<<topic, i>> : i \in DOMAIN log[topic]} : topic \in Topics}

\* What the counter of writes bounds.
Counted ==
  /\ IsFiniteSet(Written)
  /\ Writes <= MaxWrites
  /\ \A topic \in Topics : Version(topic) <= Writes

SoundTask(t) ==
  LET task == tasks[t]
  IN /\ task.stage # "receiving" => task.key.channel = "orderbook_delta"
     /\ task.from <= task.next
     /\ task.key.channel \in BookChannels =>
          task.sent <= copy[task.key.channel][Topic(task.key)]

SoundMessage(message) ==
  /\ message.kind = "user" => message.topic = Hub /\ message.version \in DOMAIN log[Hub]
  /\ message.kind # "user" => message.topic \in Spots
  /\ message.kind = "delta" => message.version \in Ring(message.topic)

SoundLoop ==
  loop.stage # "select" =>
    /\ loop.key.channel \in BookChannels
    /\ loop.stage = "subscribe" => loop.sent <= copy[loop.key.channel][Topic(loop.key)]

\* The session has exactly the tasks that were not cancelled.
Owned ==
  open =>
    /\ \A t \in Tasks : tasks[t].status = "live" => session[tasks[t].key] = t
    /\ \A key \in Keys : session[key] # 0 =>
         tasks[session[key]].status = "live" /\ tasks[session[key]].key = key

Typed ==
  /\ TypeOK
  /\ Counted
  /\ SoundLoop
  /\ Owned
  /\ \A t \in Tasks : Running(t) => SoundTask(t)
  /\ \A k \in DOMAIN outbound : SoundMessage(outbound[k])

---------------------------------------------------------------------------
(* Numbers, rings and keys.                                                *)

Below == {pair \in Nat \X Nat : pair[1] < pair[2]}

LEMMA BelowWellFounded == IsWellFoundedOn(Below, Nat)
<1>1. Below = OpToRel(<, Nat)
  BY Zenon DEF Below, OpToRel
<1> QED BY <1>1, NatLessThanWellFounded, Zenon

LEMMA MinFact ==
  ASSUME NEW S \in SUBSET Nat, S # {}
  PROVE  Min(S) \in S /\ \A x \in S : Min(S) <= x
<1>1. PICK m \in S : \A y \in S : ~(<<y, m>> \in Below)
  BY WFMin, BelowWellFounded
<1>2. \A y \in S : m <= y
  <2> SUFFICES ASSUME NEW y \in S, y < m PROVE FALSE
    OBVIOUS
  <2>1. <<y, m>> \in Below
    BY DEF Below
  <2> QED BY <1>1, <2>1
<1> QED BY <1>2 DEF Min

LEMMA MaxFact ==
  ASSUME NEW n \in Nat, NEW S \in SUBSET (1 .. n), S # {}
  PROVE  \E m \in S : \A x \in S : x <= m
<1> DEFINE D == {n - x : x \in S}
<1>1. D \subseteq Nat /\ D # {}
  <2>1. \A x \in S : n - x \in Nat
    OBVIOUS
  <2> QED BY <2>1
<1>2. Min(D) \in D /\ \A x \in D : Min(D) <= x
  BY <1>1, MinFact
<1>3. PICK m \in S : Min(D) = n - m
  BY <1>2
<1>4. \A x \in S : n - m <= n - x
  BY <1>2, <1>3
<1> QED BY <1>4

LEMMA TopicFact ==
  ASSUME NEW key \in Keys
  PROVE  /\ key.channel \in Channels /\ Topic(key) \in Topics
         /\ key.channel \in BookChannels => Topic(key) \in Spots /\ Topic(key) = SpotOf[key.name]
         /\ key.channel = "user" <=> key.channel \notin BookChannels
         /\ key.channel = "user" => Topic(key) = Hub
BY KeysAssumption, RingAssumption DEF Topic, Topics, Channels, BookChannels

LEMMA LogFact ==
  ASSUME TypeOK, NEW topic \in Topics
  PROVE  /\ Version(topic) \in Nat /\ DOMAIN log[topic] = 1 .. Version(topic)
         /\ Ring(topic) \subseteq 1 .. Version(topic) /\ Ring(topic) \subseteq Nat
         /\ \A i \in 1 .. Version(topic) :
              topic \in Spots => log[topic][i] \in {"event", "hydration"}
         /\ Ring(Hub) = 1 .. Version(Hub)
<1>1. topic \in Spots => log[topic] \in Seq({"event", "hydration"})
  BY DEF TypeOK
<1>2. topic = Hub => log[topic] \in Seq(Users)
  BY DEF TypeOK
<1>3. Version(topic) \in Nat /\ DOMAIN log[topic] = 1 .. Version(topic)
  BY <1>1, <1>2, LenProperties DEF Topics, Version
<1>4. DOMAIN log[Hub] = 1 .. Version(Hub)
  BY LenProperties DEF TypeOK, Version
<1> QED BY <1>1, <1>3, <1>4, RingAssumption DEF Ring

LEMMA RetainedFact ==
  ASSUME TypeOK, NEW topic \in Topics
  PROVE  /\ Retained(topic) \subseteq Ring(topic)
         /\ Ring(topic) # {} => Retained(topic) # {}
         /\ \A x \in Ring(topic) \ Retained(topic), r \in Retained(topic) : x < r
<1> DEFINE Above(i) == {j \in Ring(topic) : j > i}
<1>1. Ring(topic) \subseteq 1 .. Version(topic) /\ Version(topic) \in Nat
  BY LogFact
<1>2. IsFiniteSet(Ring(topic))
  <2>1. IsFiniteSet(1 .. Version(topic))
    BY <1>1, FS_Interval
  <2> QED BY <1>1, <2>1, FS_Subset
<1>3. Retained(topic) = {i \in Ring(topic) : Cardinality(Above(i)) < Capacity}
  BY DEF Retained
<1>4. ASSUME Ring(topic) # {} PROVE Retained(topic) # {}
  <2>1. PICK m \in Ring(topic) : \A x \in Ring(topic) : x <= m
    BY <1>1, <1>4, MaxFact
  <2>2. Above(m) = {}
    BY <1>1, <2>1
  <2>3. Cardinality(Above(m)) < Capacity
    BY <2>2, FS_EmptySet, RingAssumption
  <2> QED BY <1>3, <2>3
<1>5. ASSUME NEW x \in Ring(topic) \ Retained(topic), NEW r \in Retained(topic) PROVE x < r
  <2> SUFFICES ASSUME r <= x PROVE FALSE
    BY <1>1, <1>3
  <2>1. Above(x) \subseteq Above(r) /\ Above(r) \subseteq Ring(topic)
    BY <1>1, <1>3
  <2>2. IsFiniteSet(Above(r)) /\ Cardinality(Above(r)) \in Nat
    BY <1>2, <2>1, FS_Subset, FS_CardinalityType
  <2>3. IsFiniteSet(Above(x)) /\ Cardinality(Above(x)) <= Cardinality(Above(r))
    BY <2>1, <2>2, FS_Subset
  <2>4. Cardinality(Above(x)) \in Nat
    BY <2>3, FS_CardinalityType
  <2>5. Cardinality(Above(r)) < Capacity /\ ~(Cardinality(Above(x)) < Capacity)
    BY <1>3
  <2> QED BY <2>2, <2>3, <2>4, <2>5, RingAssumption
<1> QED BY <1>3, <1>4, <1>5

---------------------------------------------------------------------------
(* What the steps do.                                                      *)

Entry(topic, entry) ==
  \/ topic \in Spots /\ entry \in {"event", "hydration"}
  \/ topic = Hub /\ entry \in Users

LEMMA PublishFact ==
  ASSUME Typed, NEW topic \in Topics, NEW entry, Entry(topic, entry), Publish(topic, entry)
  PROVE  /\ DOMAIN log' = Topics
         /\ \A s \in Spots : log'[s] \in Seq({"event", "hydration"})
         /\ log'[Hub] \in Seq(Users)
         /\ \A q \in Topics : /\ Version(q)' \in {Version(q), Version(q) + 1}
                              /\ \A i \in 1 .. Version(q) : log'[q][i] = log[q][i]
         /\ Counted'
<1>1. /\ DOMAIN log = Topics
      /\ \A s \in Spots : log[s] \in Seq({"event", "hydration"})
      /\ log[Hub] \in Seq(Users)
  BY DEF Typed, TypeOK
<1>2. /\ \A q \in Topics : q # topic => log'[q] = log[q]
      /\ log'[topic] = Append(log[topic], entry)
      /\ DOMAIN log' = Topics
  BY <1>1 DEF Publish
<1>3. PICK S : log[topic] \in Seq(S) /\ entry \in S
  BY <1>1 DEF Entry
<1>4. /\ log'[topic] \in Seq(S)
      /\ Len(log'[topic]) = Len(log[topic]) + 1
      /\ \A i \in 1 .. Len(log[topic]) : log'[topic][i] = log[topic][i]
      /\ Len(log[topic]) \in Nat
      /\ DOMAIN log[topic] = 1 .. Len(log[topic])
      /\ DOMAIN log'[topic] = 1 .. Len(log[topic]) + 1
  BY <1>2, <1>3, AppendProperties, LenProperties
<1>5. \A s \in Spots : log'[s] \in Seq({"event", "hydration"})
  <2> TAKE s \in Spots
  <2>1. CASE s = topic
    <3>1. entry \in {"event", "hydration"}
      BY <2>1, RingAssumption DEF Entry
    <3> QED BY <1>1, <1>2, <2>1, <3>1, AppendProperties
  <2>2. CASE s # topic
    BY <1>1, <1>2, <2>2 DEF Topics
  <2> QED BY <2>1, <2>2
<1>6. log'[Hub] \in Seq(Users)
  <2>1. CASE Hub = topic
    <3>1. entry \in Users
      BY <2>1, RingAssumption DEF Entry
    <3> QED BY <1>1, <1>2, <2>1, <3>1, AppendProperties
  <2>2. CASE Hub # topic
    BY <1>1, <1>2, <2>2 DEF Topics
  <2> QED BY <2>1, <2>2
<1>7. \A q \in Topics : /\ Version(q)' \in {Version(q), Version(q) + 1}
                        /\ \A i \in 1 .. Version(q) : log'[q][i] = log[q][i]
  BY <1>2, <1>4 DEF Version
<1>8. Counted'
  <2> DEFINE new == <<topic, Version(topic) + 1>>
  <2>1. Written' = Written \cup {new}
    <3>1. DOMAIN log'[topic] = DOMAIN log[topic] \cup {Version(topic) + 1}
      <4> DEFINE n == Len(log[topic])
      <4>1. 1 .. n + 1 = (1 .. n) \cup {n + 1}
        BY <1>4
      <4> QED BY <1>4, <4>1 DEF Version
    <3>2. \A q \in Topics : DOMAIN log'[q] = IF q = topic THEN DOMAIN log[q] \cup {Version(q) + 1}
                                             ELSE DOMAIN log[q]
      BY <1>2, <3>1
    <3>3. \A q \in Topics :
            {<<q, i>> : i \in DOMAIN log'[q]} =
            IF q = topic THEN {<<q, i>> : i \in DOMAIN log[q]} \cup {new}
            ELSE {<<q, i>> : i \in DOMAIN log[q]}
      BY <3>2
    <3> HIDE DEF new
    <3> QED BY <3>3 DEF Written
  <2>2. new \notin Written
    <3>1. ~(Version(topic) + 1 \in DOMAIN log[topic])
      BY <1>4 DEF Version
    <3> QED BY <3>1 DEF Written
  <2>3. IsFiniteSet(Written) /\ Writes = Cardinality(Written) /\ Writes \in Nat
    <3>1. Writes = Cardinality(Written)
      BY DEF Writes, Written
    <3> QED BY <3>1, FS_CardinalityType DEF Typed, Counted
  <2>4. IsFiniteSet(Written') /\ Cardinality(Written') = Writes + 1
    BY <2>1, <2>2, <2>3, FS_AddElement
  <2>5. Writes' = Writes + 1
    BY <2>4 DEF Writes, Written
  <2>6. Writes < MaxWrites
    BY DEF Publish
  <2>7. \A q \in Topics : Version(q)' <= Writes'
    <3> TAKE q \in Topics
    <3>1. Version(q) <= Writes /\ Version(q) \in Nat
      BY LogFact DEF Typed, Counted
    <3> QED BY <1>7, <2>3, <2>5, <3>1
  <2> QED BY <2>3, <2>4, <2>5, <2>6, <2>7, BoundsAssumption DEF Counted
<1> QED BY <1>2, <1>5, <1>6, <1>7, <1>8

\* Tasks.
LEMMA TaskFact ==
  ASSUME Typed, NEW t \in Tasks
  PROVE  /\ tasks[t] \in TaskStates \/ tasks[t] = NoTask
         /\ Running(t) => tasks[t] \in TaskStates /\ SoundTask(t) /\ tasks[t].key \in Keys
                          /\ tasks[t].next <= Version(Topic(tasks[t].key)) + 1
         /\ DOMAIN tasks = Tasks
<1>1. Running(t) => tasks[t] # NoTask
  BY DEF Running, NoTask
<1> QED BY <1>1 DEF Typed, TypeOK, TaskStates

\* What a task has read and still has to read.
LEMMA PendingFact ==
  ASSUME Typed, NEW t \in Tasks, Running(t)
  PROVE  /\ Pending(t) \subseteq Ring(Topic(tasks[t].key)) /\ Pending(t) \subseteq Nat
         /\ Topic(tasks[t].key) \in Topics
         /\ \A i \in Ring(Topic(tasks[t].key)) : i \in Pending(t) <=> ~(i < tasks[t].next)
         /\ tasks[t].next \in Nat
<1>1. tasks[t] \in TaskStates /\ tasks[t].key \in Keys /\ tasks[t].next \in Nat
  BY TaskFact DEF TaskStates
<1>2. Topic(tasks[t].key) \in Topics
  BY <1>1, TopicFact
<1>3. Ring(Topic(tasks[t].key)) \subseteq Nat
  BY <1>2, LogFact DEF Typed
<1> QED BY <1>1, <1>2, <1>3 DEF Pending

\* The fields that no step of the task itself changes.
Kept(old, new) ==
  /\ new \in TaskStates /\ new.key = old.key /\ new.sent = old.sent /\ new.from = old.from
  /\ new.shared = old.shared
  /\ new.status \in {old.status, "ended"}

\* A step of a task: what becomes of it and what it sends.
Moves(t, new, sends) ==
  /\ Running(t) /\ Kept(tasks[t], new) /\ tasks' = [tasks EXCEPT ![t] = new]
  /\ UNCHANGED othersOfTask
  /\ open => new.status = tasks[t].status
  /\ IF sends = {} THEN UNCHANGED outbound
     ELSE open /\ \E message \in sends : sends = {message} /\ outbound' = Append(outbound, message)

Announced(t, i) ==
  [kind |-> Kind(tasks[t].key.channel), topic |-> Topic(tasks[t].key), version |-> i]

LEMMA ForwardFact ==
  ASSUME Typed, NEW t \in Tasks, Forward(t)
  PROVE  \E i \in Pending(t), new \in TaskStates :
           /\ \A j \in Pending(t) : i <= j
           /\ Moves(t, new, IF open /\ Wanted(t, i) THEN {Announced(t, i)} ELSE {})
           /\ new.stage = "receiving" /\ new.next = i + 1 /\ new.skipped = tasks[t].skipped
           /\ new.version = tasks[t].version /\ tasks[t].stage = "receiving"
<1> DEFINE i == Min(Pending(t))
           after == [tasks[t] EXCEPT !.next = i + 1]
           message == Announced(t, i)
           new == IF Wanted(t, i)
                  THEN [after EXCEPT !.status = IF open THEN @ ELSE "ended"] ELSE after
<1>1. tasks[t] \in TaskStates /\ Running(t) /\ tasks[t].stage = "receiving" /\ Pending(t) # {}
  BY TaskFact DEF Forward
<1>2. i \in Pending(t) /\ i \in Nat /\ \A j \in Pending(t) : i <= j
  BY <1>1, PendingFact, MinFact
<1>3. after \in TaskStates
  BY <1>1, <1>2 DEF TaskStates
<1>4. new \in TaskStates
  BY <1>3 DEF TaskStates
<1>5. /\ new.stage = "receiving" /\ new.next = i + 1 /\ new.skipped = tasks[t].skipped
      /\ new.version = tasks[t].version
      /\ Kept(tasks[t], new) /\ (open => new.status = tasks[t].status)
  BY <1>1, <1>4 DEF TaskStates, Kept
<1>6. /\ tasks' = [tasks EXCEPT ![t] = new] /\ UNCHANGED othersOfTask
      /\ outbound' = IF open /\ Wanted(t, i) THEN Append(outbound, message) ELSE outbound
  BY DEF Forward, Send, Announced
<1> HIDE DEF i, new, message
<1>7. Moves(t, new, IF open /\ Wanted(t, i) THEN {message} ELSE {})
  BY <1>1, <1>5, <1>6 DEF Moves
<1> QED BY <1>1, <1>2, <1>4, <1>5, <1>7 DEF message

LEMMA LagFact ==
  ASSUME Typed, NEW t \in Tasks, Lag(t)
  PROVE  \E next \in Ring(Topic(tasks[t].key)), new \in TaskStates :
           /\ Moves(t, new, {})
           /\ new.next = next /\ next > tasks[t].next /\ new.version = tasks[t].version
           /\ tasks[t].stage = "receiving"
           /\ new.stage = IF tasks[t].key.channel = "orderbook_delta" THEN "lagged" ELSE "receiving"
           /\ \A i \in Ring(Topic(tasks[t].key)) :
                tasks[t].key.channel # "orderbook_delta" /\ Wanted(t, i)
                  /\ i >= tasks[t].next /\ i < next => i \in new.skipped
           /\ tasks[t].skipped \subseteq new.skipped
<1> DEFINE topic == Topic(tasks[t].key)
           retained == Retained(topic)
           next == Min(retained)
           lost == Pending(t) \ retained
           skips == {i \in lost : Wanted(t, i)}
           new == IF tasks[t].key.channel = "orderbook_delta"
                  THEN [tasks[t] EXCEPT !.next = next, !.stage = "lagged"]
                  ELSE [tasks[t] EXCEPT !.next = next, !.skipped = @ \cup skips]
<1>1. tasks[t] \in TaskStates /\ Running(t) /\ tasks[t].stage = "receiving" /\ lost # {}
  BY TaskFact DEF Lag
<1>2. /\ Pending(t) \subseteq Ring(topic) /\ topic \in Topics /\ tasks[t].next \in Nat
      /\ \A i \in Ring(topic) : i \in Pending(t) <=> ~(i < tasks[t].next)
  BY <1>1, PendingFact
<1>3. /\ Ring(topic) \subseteq 1 .. Version(topic) /\ Version(topic) \in Nat
      /\ Version(topic) <= MaxWrites
  <2>1. Version(topic) <= Writes /\ Writes <= MaxWrites /\ IsFiniteSet(Written)
    BY <1>2 DEF Typed, Counted
  <2>2. Writes \in Nat
    BY <2>1, FS_CardinalityType DEF Writes, Written
  <2> QED BY <1>2, <2>1, <2>2, LogFact, BoundsAssumption DEF Typed
<1>4. /\ retained \subseteq Ring(topic) /\ retained # {}
      /\ \A x \in Ring(topic) \ retained, r \in retained : x < r
  BY <1>1, <1>2, RetainedFact DEF Typed
<1>5. next \in retained /\ \A r \in retained : next <= r
  <2>1. retained \subseteq Nat
    BY <1>3, <1>4
  <2> QED BY <1>4, <2>1, MinFact
<1>6. next \in Ring(topic) /\ next \in Nat \ {0} /\ next > tasks[t].next
  <2>1. PICK x \in lost : TRUE
    BY <1>1
  <2>2. x \in Ring(topic) /\ x \notin retained /\ x >= tasks[t].next
    BY <1>2, <1>3, <2>1
  <2>3. x < next
    BY <1>4, <1>5, <2>2
  <2>4. next \in Ring(topic) /\ next \in Nat \ {0} /\ x \in Nat
    BY <1>3, <1>4, <1>5, <2>2
  <2> QED BY <1>2, <2>2, <2>3, <2>4
<1>7. skips \subseteq 1 .. MaxWrites
  BY <1>2, <1>3, BoundsAssumption
<1>8. tasks' = [tasks EXCEPT ![t] = new] /\ UNCHANGED othersOfTask /\ UNCHANGED outbound
  <2>1. tasks' = [tasks EXCEPT ![t] = new]
    BY Zenon DEF Lag
  <2>2. UNCHANGED <<outbound, othersOfTask>>
    BY Zenon DEF Lag
  <2> QED BY <2>1, <2>2
<1>9. \A i \in Ring(topic) : Wanted(t, i) /\ i >= tasks[t].next /\ i < next => i \in skips
  <2> TAKE i \in Ring(topic)
  <2> SUFFICES ASSUME Wanted(t, i), i >= tasks[t].next, i < next PROVE i \in skips
    OBVIOUS
  <2>1. i \in Pending(t)
    BY <1>2, <1>3
  <2>2. i \notin retained
    BY <1>3, <1>5, <1>6
  <2> QED BY <2>1, <2>2
<1> HIDE DEF next, skips
<1>10. new \in TaskStates
  BY <1>1, <1>6, <1>7 DEF TaskStates
<1>11. /\ new.next = next /\ new.version = tasks[t].version
       /\ new.stage = IF tasks[t].key.channel = "orderbook_delta" THEN "lagged" ELSE "receiving"
       /\ tasks[t].key.channel # "orderbook_delta" => skips \subseteq new.skipped
       /\ tasks[t].skipped \subseteq new.skipped
       /\ Kept(tasks[t], new) /\ new.status = tasks[t].status
  BY <1>1, <1>10 DEF TaskStates, Kept
<1> HIDE DEF new
<1>12. Moves(t, new, {})
  BY <1>1, <1>8, <1>11 DEF Moves
<1> QED BY <1>1, <1>6, <1>9, <1>10, <1>11, <1>12

LEMMA ResyncReadFact ==
  ASSUME Typed, NEW t \in Tasks, ResyncRead(t)
  PROVE  \E new \in TaskStates :
           /\ Moves(t, new, {})
           /\ new.next = tasks[t].next /\ new.skipped = tasks[t].skipped
           /\ new.stage = "resyncing" /\ tasks[t].stage = "lagged"
           /\ new.version = Version(Topic(tasks[t].key))
<1> DEFINE version == Version(Topic(tasks[t].key))
           new == [tasks[t] EXCEPT !.stage = "resyncing", !.version = version]
<1>1. tasks[t] \in TaskStates /\ Running(t) /\ tasks[t].stage = "lagged" /\ tasks[t].key \in Keys
  BY TaskFact DEF ResyncRead
<1>2. version \in Nat
  BY <1>1, TopicFact, LogFact DEF Typed
<1>3. tasks' = [tasks EXCEPT ![t] = new] /\ UNCHANGED othersOfTask /\ UNCHANGED outbound
  BY DEF ResyncRead
<1> HIDE DEF version
<1>4. new \in TaskStates
  BY <1>1, <1>2 DEF TaskStates
<1>5. /\ new.next = tasks[t].next /\ new.skipped = tasks[t].skipped
      /\ new.stage = "resyncing" /\ new.version = version
      /\ Kept(tasks[t], new) /\ new.status = tasks[t].status
  BY <1>1, <1>4 DEF TaskStates, Kept
<1> HIDE DEF new
<1>6. Moves(t, new, {})
  BY <1>1, <1>3, <1>5 DEF Moves
<1> QED BY <1>1, <1>4, <1>5, <1>6 DEF version

SnapshotOf(t) ==
  [kind |-> "snapshot", topic |-> Topic(tasks[t].key), version |-> tasks[t].version]

LEMMA ResyncSendFact ==
  ASSUME Typed, NEW t \in Tasks, ResyncSend(t)
  PROVE  \E new \in TaskStates :
           /\ Moves(t, new, IF open THEN {SnapshotOf(t)} ELSE {})
           /\ new.next = tasks[t].next /\ new.skipped = tasks[t].skipped
           /\ new.stage = "receiving" /\ tasks[t].stage = "resyncing"
<1> DEFINE after == [tasks[t] EXCEPT !.stage = "receiving", !.version = 0]
           new == [after EXCEPT !.status = IF open THEN @ ELSE "ended"]
<1>1. tasks[t] \in TaskStates /\ Running(t) /\ tasks[t].stage = "resyncing"
  BY TaskFact DEF ResyncSend
<1>2. after \in TaskStates
  BY <1>1 DEF TaskStates
<1>3. new \in TaskStates
  BY <1>2 DEF TaskStates
<1>4. /\ new.next = tasks[t].next /\ new.skipped = tasks[t].skipped /\ new.stage = "receiving"
      /\ Kept(tasks[t], new) /\ (open => new.status = tasks[t].status)
  BY <1>1, <1>3 DEF TaskStates, Kept
<1>5. /\ tasks' = [tasks EXCEPT ![t] = new] /\ UNCHANGED othersOfTask
      /\ outbound' = IF open THEN Append(outbound, SnapshotOf(t)) ELSE outbound
  BY DEF ResyncSend, Send, SnapshotOf
<1> HIDE DEF new
<1>6. Moves(t, new, IF open THEN {SnapshotOf(t)} ELSE {})
  BY <1>1, <1>4, <1>5 DEF Moves
<1> QED BY <1>1, <1>3, <1>4, <1>6

\* A task that is left alone, shared or cancelled.
Dims(old, new) ==
  \/ new = old
  \/ /\ old \in TaskStates /\ new \in TaskStates
     /\ new.key = old.key /\ new.stage = old.stage /\ new.next = old.next
     /\ new.version = old.version /\ new.sent = old.sent /\ new.from = old.from
     /\ new.skipped = old.skipped
     /\ old.status \in {"live", "aborted"} /\ new.status \in {old.status, "aborted", "ended"}
     /\ old.shared => new.shared

Calm == tasks' = [u \in Tasks |-> tasks'[u]] /\ \A u \in Tasks : Dims(tasks[u], tasks'[u])

LEMMA SessionFact ==
  ASSUME Typed, open, NEW key \in Keys, session[key] # 0
  PROVE  /\ session[key] \in Tasks /\ tasks[session[key]] \in TaskStates
         /\ tasks[session[key]].status = "live" /\ tasks[session[key]].key = key
<1>1. session[key] \in 0 .. MaxTasks
  BY DEF Typed, TypeOK
<1>2. session[key] \in Tasks
  BY <1>1, BoundsAssumption DEF Tasks
<1>3. tasks[session[key]].status = "live" /\ tasks[session[key]].key = key
  BY DEF Typed, Owned
<1>4. tasks[session[key]] # NoTask
  BY <1>3 DEF NoTask
<1> QED BY <1>2, <1>3, <1>4, TaskFact

LEMMA SpawnFact ==
  ASSUME Typed, open, NEW t \in Tasks, NEW key \in Keys, NEW sent \in Nat, Spawn(t, key, sent)
  PROVE  /\ tasks[t] = NoTask /\ tasks' = [u \in Tasks |-> tasks'[u]]
         /\ tasks'[t] \in TaskStates
         /\ tasks'[t].key = key /\ tasks'[t].status = "live" /\ tasks'[t].stage = "receiving"
         /\ tasks'[t].next = Version(Topic(key)) + 1 /\ tasks'[t].from = Version(Topic(key)) + 1
         /\ tasks'[t].sent = sent
         /\ \A u \in Tasks \ {t} :
              /\ Dims(tasks[u], tasks'[u])
              /\ tasks'[u].status = "live" => u # session[key]
              /\ u # session[key] => tasks'[u].status = tasks[u].status
              /\ /\ Running(u)' /\ tasks'[u].key.channel = key.channel
                 /\ Topic(tasks'[u].key) = Topic(key)
                 => tasks'[u].shared /\ tasks'[t].shared
         /\ session' = [session EXCEPT ![key] = t]
<1> DEFINE old == {session[key]} \ {0}
<1>1. PICK polled \in SUBSET old :
        tasks' = [u \in Tasks |->
                    IF u = t THEN NewTask(key, sent, Peers(key) \ (old \ polled))
                    ELSE IF u \in Peers(key) \ (old \ polled)
                    THEN [Aborted(old, polled)[u] EXCEPT !.shared = TRUE]
                    ELSE Aborted(old, polled)[u]]
  BY Zenon DEF Spawn
<1> DEFINE others == Peers(key) \ (old \ polled)
<1>2. tasks[t] = NoTask /\ session' = [session EXCEPT ![key] = t]
  BY DEF Spawn, Unspawned
<1>3. tasks'[t] = NewTask(key, sent, others) /\ tasks' = [u \in Tasks |-> tasks'[u]]
  BY <1>1
<1>4. Version(Topic(key)) \in Nat
  BY TopicFact, LogFact DEF Typed
<1>5. /\ tasks'[t] \in TaskStates
      /\ tasks'[t].key = key /\ tasks'[t].status = "live" /\ tasks'[t].stage = "receiving"
      /\ tasks'[t].next = Version(Topic(key)) + 1 /\ tasks'[t].from = Version(Topic(key)) + 1
      /\ tasks'[t].sent = sent /\ (others # {} => tasks'[t].shared)
  <2> DEFINE v == Version(Topic(key))
             shared == others # {}
  <2>1. tasks'[t] = [key |-> key, status |-> "live", stage |-> "receiving", next |-> v + 1,
                     version |-> 0, sent |-> sent, from |-> v + 1, skipped |-> {},
                     shared |-> shared]
    BY <1>3 DEF NewTask
  <2>2. v + 1 \in Nat \ {0} /\ shared \in BOOLEAN
    BY <1>4
  <2>3. others # {} => shared = TRUE
    OBVIOUS
  <2> HIDE DEF v, shared
  <2>4. tasks'[t] \in TaskStates
    BY <2>1, <2>2 DEF TaskStates
  <2> QED BY <2>1, <2>3, <2>4 DEF v
<1>6. \A u \in old : /\ u \in Tasks /\ tasks[u] \in TaskStates
                     /\ tasks[u].status = "live" /\ tasks[u].key = key
  BY SessionFact
<1>7. ASSUME NEW u \in Tasks \ {t}
      PROVE  /\ Dims(tasks[u], tasks'[u])
             /\ tasks'[u].status = "live" => u # session[key]
             /\ u # session[key] => tasks'[u].status = tasks[u].status
             /\ u \in others => tasks'[u].shared
             /\ u \in old \ polled => tasks'[u].status = "ended"
  <2>1. tasks'[u] = IF u \in others THEN [Aborted(old, polled)[u] EXCEPT !.shared = TRUE]
                    ELSE Aborted(old, polled)[u]
    BY <1>1
  <2>2. Aborted(old, polled)[u] =
          IF u \in old THEN [tasks[u] EXCEPT !.status = IF u \in polled THEN "aborted" ELSE "ended"]
          ELSE tasks[u]
    BY DEF Aborted
  <2>3. u \in others => tasks[u] \in TaskStates /\ tasks[u].status \in {"live", "aborted"}
    BY TaskFact DEF Peers, Running
  <2> HIDE DEF others
  <2>4. CASE u \in old
    <3>1. u # 0 /\ u = session[key]
      BY <2>4
    <3>2. tasks[u] \in TaskStates /\ tasks[u].status = "live"
      BY <1>6, <2>4
    <3>3. u \in old \ polled => u \notin others
      BY <2>4 DEF others
    <3> DEFINE state == IF u \in polled THEN "aborted" ELSE "ended"
               mid == [tasks[u] EXCEPT !.status = state]
    <3>4. tasks'[u] = IF u \in others THEN [mid EXCEPT !.shared = TRUE] ELSE mid
      BY <2>1, <2>2, <2>4
    <3>5. state \in {"aborted", "ended"} /\ (u \notin polled => state = "ended")
      OBVIOUS
    <3> HIDE DEF old, state
    <3>6. CASE u \in others
      <4>1. tasks'[u] = [mid EXCEPT !.shared = TRUE]
        BY <3>4, <3>6
      <4> QED BY <3>1, <3>2, <3>3, <3>5, <3>6, <4>1 DEF Dims, TaskStates
    <3>7. CASE u \notin others
      <4>1. tasks'[u] = mid
        BY <3>4, <3>7
      <4> QED BY <3>1, <3>2, <3>3, <3>5, <3>7, <4>1 DEF Dims, TaskStates
    <3> QED BY <3>6, <3>7
  <2>5. CASE u \notin old
    <3>1. u # session[key]
      BY <2>5, BoundsAssumption DEF Tasks
    <3>2. CASE u \in others
      <4>1. tasks'[u] = [tasks[u] EXCEPT !.shared = TRUE]
        BY <2>1, <2>2, <2>5, <3>2
      <4> HIDE DEF old
      <4> QED BY <2>3, <2>5, <3>1, <3>2, <4>1 DEF Dims, TaskStates
    <3>3. CASE u \notin others
      <4>1. tasks'[u] = tasks[u]
        BY <2>1, <2>2, <2>5, <3>3
      <4> HIDE DEF old
      <4> QED BY <2>5, <3>1, <3>3, <4>1 DEF Dims
    <3> QED BY <3>2, <3>3
  <2> QED BY <2>4, <2>5
<1>8. ASSUME NEW u \in Tasks \ {t}, Running(u)', tasks'[u].key.channel = key.channel,
             Topic(tasks'[u].key) = Topic(key)
      PROVE  u \in others
  <2>1. Dims(tasks[u], tasks'[u]) /\ u \notin old \ polled
    BY <1>7, <1>8 DEF Running
  <2>2. tasks[u].key = tasks'[u].key /\ Running(u)
    BY <1>8, <2>1 DEF Dims, Running
  <2> QED BY <1>8, <2>1, <2>2 DEF Peers
<1> HIDE DEF others, old
<1> QED BY <1>2, <1>3, <1>5, <1>7, <1>8

LEMMA UnsubscribeFact ==
  ASSUME Typed, NEW keys \in SUBSET Keys, Unsubscribe(keys)
  PROVE  /\ Calm /\ open
         /\ session' = [key \in Keys |-> IF key \in keys THEN 0 ELSE session[key]]
         /\ \A u \in Tasks : IF \E key \in keys : session[key] = u THEN tasks'[u].status # "live"
                             ELSE tasks'[u] = tasks[u]
<1> DEFINE cancelled == {session[key] : key \in keys} \ {0}
<1>1. PICK polled \in SUBSET cancelled : tasks' = Aborted(cancelled, polled)
  BY DEF Unsubscribe
<1>2. open /\ session' = [key \in Keys |-> IF key \in keys THEN 0 ELSE session[key]]
  BY DEF Unsubscribe, Receives
<1>3. \A u \in cancelled : u \in Tasks /\ tasks[u] \in TaskStates /\ tasks[u].status = "live"
  BY <1>2, SessionFact
<1>4. \A u \in Tasks : u \in cancelled <=> \E key \in keys : session[key] = u
  BY BoundsAssumption DEF Tasks
<1>5. tasks' = [u \in Tasks |-> tasks'[u]]
  BY <1>1 DEF Aborted
<1> HIDE DEF cancelled
<1>6. ASSUME NEW u \in Tasks
      PROVE  /\ Dims(tasks[u], tasks'[u])
             /\ IF u \in cancelled THEN tasks'[u].status # "live" ELSE tasks'[u] = tasks[u]
  <2>1. tasks'[u] =
          IF u \in cancelled
          THEN [tasks[u] EXCEPT !.status = IF u \in polled THEN "aborted" ELSE "ended"]
          ELSE tasks[u]
    BY <1>1 DEF Aborted
  <2>2. CASE u \in cancelled
    <3>1. tasks[u] \in TaskStates /\ tasks[u].status = "live"
      BY <1>3, <2>2
    <3> QED BY <2>1, <2>2, <3>1 DEF Dims, TaskStates
  <2>3. CASE u \notin cancelled
    BY <2>1, <2>3 DEF Dims
  <2> QED BY <2>2, <2>3
<1> QED BY <1>2, <1>4, <1>5, <1>6 DEF Calm

LEMMA ReapFact ==
  ASSUME Typed, NEW t \in Tasks, Reap(t)
  PROVE  /\ Calm /\ tasks[t].status # "live" /\ tasks'[t].status # "live"
         /\ \A u \in Tasks \ {t} : tasks'[u] = tasks[u]
         /\ UNCHANGED <<outbound, othersOfTask>>
<1>1. tasks[t].status = "aborted" /\ tasks' = [tasks EXCEPT ![t].status = "ended"]
      /\ UNCHANGED <<outbound, othersOfTask>>
  BY DEF Reap
<1>2. tasks[t] # NoTask
  BY <1>1 DEF NoTask
<1>3. tasks[t] \in TaskStates /\ DOMAIN tasks = Tasks
  BY <1>2, TaskFact
<1>4. /\ tasks'[t] = [tasks[t] EXCEPT !.status = "ended"]
      /\ \A u \in Tasks \ {t} : tasks'[u] = tasks[u]
  BY <1>1, <1>3
<1>5. Dims(tasks[t], tasks'[t]) /\ tasks'[t].status = "ended"
  BY <1>1, <1>3, <1>4 DEF Dims, TaskStates
<1>6. tasks' = [u \in Tasks |-> tasks'[u]]
  <2>1. tasks = [u \in Tasks |-> tasks[u]]
    BY DEF Typed, TypeOK
  <2> QED BY <1>1, <2>1
<1> QED BY <1>1, <1>4, <1>5, <1>6 DEF Calm, Dims

---------------------------------------------------------------------------
(* Type correctness.                                                       *)

\* The part of Typed that is about one task.
TypedTask(t) ==
  /\ tasks[t] \in TaskStates \cup {NoTask}
  /\ Running(t) => tasks[t].next <= Version(Topic(tasks[t].key)) + 1 /\ SoundTask(t)

LogTyped ==
  /\ DOMAIN log = Topics
  /\ \A s \in Spots : log[s] \in Seq({"event", "hydration"})
  /\ log[Hub] \in Seq(Users)
  /\ Counted

LoopTyped ==
  /\ loop \in {Select} \cup [stage : {"snapshot", "subscribe"}, key : Keys, sent : Nat]
  /\ SoundLoop

ClientTyped == copy \in [BookChannels -> [Spots -> Nat]] /\ heard \subseteq 1 .. MaxWrites

SentTyped ==
  /\ outbound \in Seq(Messages) /\ (~open => outbound = <<>>)
  /\ \A k \in DOMAIN outbound : SoundMessage(outbound[k])

LEMMA TypedParts ==
  Typed <=> /\ LogTyped /\ open \in BOOLEAN /\ LoopTyped
            /\ session \in [Keys -> 0 .. MaxTasks] /\ Owned
            /\ DOMAIN tasks = Tasks /\ tasks \in [Tasks -> TaskStates \cup {NoTask}]
            /\ \A t \in Tasks : TypedTask(t)
            /\ SentTyped /\ ClientTyped
BY DEF Typed, TypeOK, LogTyped, LoopTyped, TypedTask, SentTyped, ClientTyped

LEMMA TypedNext ==
  ASSUME LogTyped', open' \in BOOLEAN, LoopTyped', session' \in [Keys -> 0 .. MaxTasks], Owned',
         tasks' = [t \in Tasks |-> tasks'[t]], \A t \in Tasks : TypedTask(t)',
         SentTyped', ClientTyped'
  PROVE  Typed'
<1>1. tasks' \in [Tasks -> TaskStates \cup {NoTask}]
  BY DEF TypedTask
<1> QED
  BY <1>1 DEF Typed, TypeOK, LogTyped, LoopTyped, TypedTask, SentTyped, ClientTyped

LEMMA TypedInit == Init => Typed
<1> SUFFICES ASSUME Init PROVE Typed
  OBVIOUS
<1> USE DEF Init
<1>1. LogTyped
  <2>1. Written = {}
    BY DEF Written
  <2>2. IsFiniteSet(Written) /\ Writes = 0
    BY <2>1, FS_EmptySet DEF Writes, Written
  <2>3. \A topic \in Topics : Version(topic) = 0
    BY DEF Version
  <2> QED BY <2>2, <2>3, BoundsAssumption DEF LogTyped, Counted, Topics
<1>2. LoopTyped
  BY DEF LoopTyped, SoundLoop, Select
<1>3. session \in [Keys -> 0 .. MaxTasks]
  BY BoundsAssumption
<1>4. Owned
  BY DEF Owned, NoTask
<1>5. \A t \in Tasks : TypedTask(t)
  BY DEF TypedTask, Running, NoTask
<1>6. SentTyped /\ ClientTyped
  BY DEF SentTyped, ClientTyped
<1> QED BY <1>1, <1>2, <1>3, <1>4, <1>5, <1>6, TypedParts

LEMMA TypedPublish ==
  ASSUME Typed, NEW topic \in Topics, NEW entry, Entry(topic, entry), Publish(topic, entry),
         UNCHANGED <<open, session, tasks, outbound, copy, heard>>,
         UNCHANGED loop \/ \E key \in Keys : /\ key.channel \in BookChannels
                                             /\ loop' = [stage |-> "snapshot", key |-> key, sent |-> 0]
  PROVE  Typed'
<1>1. LogTyped' /\ \A q \in Topics : /\ Version(q)' \in {Version(q), Version(q) + 1}
                                     /\ \A i \in 1 .. Version(q) : log'[q][i] = log[q][i]
  BY PublishFact DEF LogTyped
<1>2. LoopTyped'
  BY TypedParts DEF LoopTyped, SoundLoop
<1>3. Owned'
  BY DEF Typed, Owned
<1>4. ASSUME NEW t \in Tasks PROVE TypedTask(t)'
  <2>1. tasks'[t] = tasks[t] /\ TypedTask(t)
    BY TypedParts
  <2>2. CASE Running(t)
    <3>1. Topic(tasks[t].key) \in Topics /\ tasks[t].next \in Nat
      BY <2>2, PendingFact
    <3>2. Version(Topic(tasks[t].key)) \in Nat
      BY <3>1, LogFact DEF Typed
    <3>3. (Version(Topic(tasks[t].key)))' \in Nat /\
          Version(Topic(tasks[t].key)) <= (Version(Topic(tasks[t].key)))'
      BY <1>1, <2>1, <3>1, <3>2 DEF Version
    <3>4. tasks[t].next <= Version(Topic(tasks[t].key)) + 1 /\ SoundTask(t)
      BY <2>1, <2>2 DEF TypedTask
    <3>5. SoundTask(t)'
      BY <2>1, <3>4 DEF SoundTask
    <3> QED BY <2>1, <3>1, <3>2, <3>3, <3>4, <3>5 DEF TypedTask
  <2>3. CASE ~Running(t)
    BY <2>1, <2>3 DEF TypedTask, Running
  <2> QED BY <2>2, <2>3
<1>5. SentTyped'
  <2>1. ASSUME NEW k \in DOMAIN outbound PROVE SoundMessage(outbound[k])'
    <3>1. SoundMessage(outbound[k])
      BY DEF Typed
    <3>2. outbound[k] \in Messages
      BY TypedParts, LenProperties DEF SentTyped
    <3>3. outbound[k].topic \in Topics
      BY <3>2 DEF Messages
    <3>4. DOMAIN log[outbound[k].topic] = 1 .. Version(outbound[k].topic)
          /\ Version(outbound[k].topic) \in Nat
      BY <3>3, LogFact DEF Typed
    <3>5. /\ \A i \in DOMAIN log[outbound[k].topic] :
               log'[outbound[k].topic][i] = log[outbound[k].topic][i]
          /\ DOMAIN log'[outbound[k].topic] = 1 .. Len(log'[outbound[k].topic])
          /\ Len(log'[outbound[k].topic]) \in {Version(outbound[k].topic),
                                               Version(outbound[k].topic) + 1}
      <4>1. LogTyped'
        BY <1>1
      <4>2. /\ outbound[k].topic \in Spots => log'[outbound[k].topic] \in Seq({"event", "hydration"})
            /\ outbound[k].topic = Hub => log'[outbound[k].topic] \in Seq(Users)
        BY <4>1 DEF LogTyped
      <4>3. DOMAIN log'[outbound[k].topic] = 1 .. Len(log'[outbound[k].topic])
        BY <3>3, <4>2, LenProperties DEF Topics
      <4> QED BY <1>1, <3>3, <3>4, <4>3 DEF Version
    <3>6. DOMAIN log[outbound[k].topic] \subseteq DOMAIN log'[outbound[k].topic]
      BY <3>4, <3>5
    <3> QED BY <3>1, <3>5, <3>6 DEF SoundMessage, Ring
  <2> QED BY <2>1, TypedParts DEF SentTyped
<1>6. ClientTyped'
  BY TypedParts DEF ClientTyped
<1>7. open' \in BOOLEAN /\ session' \in [Keys -> 0 .. MaxTasks]
      /\ tasks' = [t \in Tasks |-> tasks'[t]]
  BY TypedParts
<1> QED BY <1>1, <1>2, <1>3, <1>4, <1>5, <1>6, <1>7, TypedNext

LEMMA TypedClose ==
  ASSUME Typed, Close
  PROVE  Typed'
<1>1. /\ open' = FALSE /\ loop' = Select /\ session' = [key \in Keys |-> 0] /\ outbound' = <<>>
      /\ tasks' = [t \in Tasks |-> IF Running(t) THEN [tasks[t] EXCEPT !.from = tasks[t].next]
                                   ELSE tasks[t]]
      /\ UNCHANGED <<log, copy, heard>>
  BY DEF Close, clientVars
<1>2. LogTyped' /\ ClientTyped'
  BY <1>1, TypedParts DEF LogTyped, ClientTyped, Counted, Written, Writes, Version
<1>3. LoopTyped' /\ SentTyped' /\ Owned'
  BY <1>1 DEF LoopTyped, SoundLoop, Select, SentTyped, Owned
<1>4. session' \in [Keys -> 0 .. MaxTasks]
  BY <1>1, BoundsAssumption
<1>5. ASSUME NEW t \in Tasks PROVE TypedTask(t)'
  <2>1. CASE Running(t)
    <3>1. /\ tasks[t] \in TaskStates /\ SoundTask(t) /\ tasks[t].next \in Nat \ {0}
          /\ tasks[t].next <= Version(Topic(tasks[t].key)) + 1
      <4>1. /\ tasks[t] \in TaskStates /\ SoundTask(t)
            /\ tasks[t].next <= Version(Topic(tasks[t].key)) + 1
        BY <2>1, TaskFact
      <4> QED BY <4>1 DEF TaskStates
    <3>2. tasks'[t] = [tasks[t] EXCEPT !.from = tasks[t].next]
      BY <1>1, <2>1
    <3>3. /\ tasks'[t] \in TaskStates /\ tasks'[t].key = tasks[t].key
          /\ tasks'[t].next = tasks[t].next /\ tasks'[t].stage = tasks[t].stage
          /\ tasks'[t].from = tasks[t].next /\ tasks'[t].sent = tasks[t].sent
      BY <3>1, <3>2 DEF TaskStates
    <3>4. /\ copy' = copy /\ Topic(tasks[t].key)' = Topic(tasks[t].key)
          /\ Version(Topic(tasks[t].key))' = Version(Topic(tasks[t].key))
      BY <1>1, <3>3 DEF Version, Topic
    <3>5. SoundTask(t)'
      BY <3>1, <3>3, <3>4 DEF SoundTask
    <3> QED BY <3>1, <3>3, <3>4, <3>5 DEF TypedTask
  <2>2. CASE ~Running(t)
    BY <1>1, <2>2, TypedParts DEF TypedTask, Running
  <2> QED BY <2>1, <2>2
<1>6. tasks' = [t \in Tasks |-> tasks'[t]]
  BY <1>1
<1> QED BY <1>1, <1>2, <1>3, <1>4, <1>5, <1>6, TypedNext

LEMMA SameLog ==
  ASSUME Typed, UNCHANGED log
  PROVE  /\ LogTyped'
         /\ \A topic \in Topics : Version(topic)' = Version(topic) /\ Ring(topic)' = Ring(topic)
BY TypedParts DEF LogTyped, Counted, Written, Writes, Version, Ring

LEMMA DimsTyped ==
  ASSUME Typed, NEW u \in Tasks, Dims(tasks[u], tasks'[u]), UNCHANGED log,
         \A channel \in BookChannels, s \in Spots : copy[channel][s] <= copy'[channel][s],
         copy' \in [BookChannels -> [Spots -> Nat]]
  PROVE  TypedTask(u)'
<1>1. TypedTask(u) /\ copy \in [BookChannels -> [Spots -> Nat]]
  BY TypedParts DEF ClientTyped
<1>2. CASE Running(u)'
  <2>1. /\ Running(u) /\ tasks[u] \in TaskStates /\ tasks'[u] \in TaskStates
        /\ tasks'[u].key = tasks[u].key /\ tasks'[u].stage = tasks[u].stage
        /\ tasks'[u].next = tasks[u].next /\ tasks'[u].sent = tasks[u].sent
        /\ tasks'[u].from = tasks[u].from
    BY <1>1, <1>2, TaskFact DEF Dims, Running
  <2>2. SoundTask(u) /\ tasks[u].next <= Version(Topic(tasks[u].key)) + 1
    BY <1>1, <2>1 DEF TypedTask
  <2>3. tasks[u].key \in Keys /\ tasks[u].sent \in Nat
    BY <2>1 DEF TaskStates
  <2>4. tasks[u].key.channel \in BookChannels =>
          tasks[u].sent <= copy'[tasks[u].key.channel][Topic(tasks[u].key)]
    <3> SUFFICES ASSUME tasks[u].key.channel \in BookChannels
                 PROVE  tasks[u].sent <= copy'[tasks[u].key.channel][Topic(tasks[u].key)]
      OBVIOUS
    <3> DEFINE a == copy[tasks[u].key.channel][Topic(tasks[u].key)]
               b == copy'[tasks[u].key.channel][Topic(tasks[u].key)]
    <3>1. Topic(tasks[u].key) \in Spots
      BY <2>3, TopicFact
    <3>2. tasks[u].sent <= a
      BY <2>2 DEF SoundTask
    <3>3. a \in Nat /\ b \in Nat /\ a <= b
      BY <1>1, <3>1
    <3> HIDE DEF a, b
    <3>4. tasks[u].sent <= b
      BY <2>3, <3>2, <3>3
    <3> QED BY <3>4 DEF b
  <2>5. SoundTask(u)'
    BY <2>1, <2>2, <2>4 DEF SoundTask, Topic
  <2> QED BY <2>1, <2>2, <2>5 DEF TypedTask, Version, Topic
<1>3. CASE ~Running(u)'
  <2>1. tasks'[u] \in TaskStates \cup {NoTask}
    BY <1>1 DEF Dims, TypedTask
  <2> QED BY <1>3, <2>1 DEF TypedTask
<1> QED BY <1>2, <1>3

LEMMA TypedCalm ==
  ASSUME Typed, Calm, Owned', session' \in [Keys -> 0 .. MaxTasks],
         UNCHANGED <<log, open, loop, outbound, clientVars>>
  PROVE  Typed'
<1>1. LogTyped' /\ open' \in BOOLEAN /\ LoopTyped' /\ SentTyped' /\ ClientTyped'
  BY TypedParts DEF LogTyped, LoopTyped, SentTyped, ClientTyped, SoundLoop, SoundMessage, Counted,
                    Written, Writes, Version, Ring, clientVars
<1>2. \A u \in Tasks : TypedTask(u)'
  <2>1. copy \in [BookChannels -> [Spots -> Nat]] /\ copy' = copy
    BY TypedParts DEF ClientTyped, clientVars
  <2> QED BY <2>1, DimsTyped DEF Calm
<1> QED BY <1>1, <1>2, TypedNext DEF Calm

LEMMA TypedSpawn ==
  ASSUME Typed, open, NEW t \in Tasks, NEW key \in Keys, NEW sent \in Nat, Spawn(t, key, sent),
         key.channel \in BookChannels => sent <= copy[key.channel][Topic(key)],
         loop' \in {loop, Select}, UNCHANGED <<log, open, outbound, clientVars>>
  PROVE  Typed'
<1>1. LogTyped' /\ open' \in BOOLEAN /\ LoopTyped' /\ SentTyped' /\ ClientTyped'
  BY TypedParts DEF LogTyped, LoopTyped, SentTyped, ClientTyped, SoundLoop, SoundMessage, Counted,
                    Written, Writes, Version, Ring, clientVars, Select
<1>2. tasks' = [u \in Tasks |-> tasks'[u]] /\ session' = [session EXCEPT ![key] = t]
  BY SpawnFact
<1>3. session \in [Keys -> 0 .. MaxTasks] /\ session' \in [Keys -> 0 .. MaxTasks]
  BY <1>2, TypedParts DEF Tasks
<1>4. ASSUME NEW u \in Tasks PROVE TypedTask(u)'
  <2>1. CASE u = t
    <3>1. /\ tasks'[t] \in TaskStates /\ tasks'[t].key = key /\ tasks'[t].stage = "receiving"
          /\ tasks'[t].next = Version(Topic(key)) + 1 /\ tasks'[t].from = Version(Topic(key)) + 1
          /\ tasks'[t].sent = sent
      BY SpawnFact
    <3>2. Version(Topic(key)) \in Nat
      BY TopicFact, LogFact DEF Typed
    <3>3. SoundTask(t)'
      BY <3>1, <3>2 DEF SoundTask, Topic, clientVars
    <3> QED BY <2>1, <3>1, <3>2, <3>3 DEF TypedTask, Version, Topic
  <2>2. CASE u # t
    <3>1. Dims(tasks[u], tasks'[u])
      BY <2>2, SpawnFact
    <3>2. copy \in [BookChannels -> [Spots -> Nat]] /\ copy' = copy
      BY TypedParts DEF ClientTyped, clientVars
    <3> QED BY <3>1, <3>2, DimsTyped
  <2> QED BY <2>1, <2>2
<1>5. Owned'
  <2>1. ASSUME NEW u \in Tasks, tasks'[u].status = "live" PROVE session'[tasks'[u].key] = u
    <3>1. CASE u = t
      <4>1. tasks'[t].key = key
        BY SpawnFact
      <4> QED BY <1>2, <1>3, <3>1, <4>1
    <3>2. CASE u # t
      <4>1. /\ Dims(tasks[u], tasks'[u]) /\ u # session[key] /\ tasks'[u].status = tasks[u].status
        BY <2>1, <3>2, SpawnFact
      <4>2. tasks[u].status = "live" /\ tasks'[u].key = tasks[u].key
        BY <2>1, <4>1 DEF Dims
      <4>3. session[tasks[u].key] = u
        BY <4>2 DEF Typed, Owned
      <4> QED BY <1>2, <1>3, <4>1, <4>2, <4>3
    <3> QED BY <3>1, <3>2
  <2>2. ASSUME NEW k \in Keys, session'[k] # 0
        PROVE  tasks'[session'[k]].status = "live" /\ tasks'[session'[k]].key = k
    <3>1. CASE k = key
      <4>1. session'[key] = t
        BY <1>2, <1>3
      <4>2. tasks'[t].status = "live" /\ tasks'[t].key = key
        BY SpawnFact
      <4> QED BY <3>1, <4>1, <4>2
    <3>2. CASE k # key
      <4>1. session'[k] = session[k]
        BY <1>2, <1>3, <3>2
      <4>2. /\ session[k] \in Tasks /\ tasks[session[k]] \in TaskStates
            /\ tasks[session[k]].status = "live" /\ tasks[session[k]].key = k
        BY <2>2, <4>1, SessionFact
      <4>3. session[k] # t
        <5>1. tasks[t] = NoTask
          BY SpawnFact
        <5> QED BY <4>2, <5>1 DEF NoTask
      <4>4. session[k] # session[key]
        <5>1. session[key] # 0 => tasks[session[key]].key = key
          BY SessionFact
        <5> QED BY <2>2, <3>2, <4>1, <4>2, <5>1
      <4>5. /\ Dims(tasks[session[k]], tasks'[session[k]])
            /\ tasks'[session[k]].status = tasks[session[k]].status
        BY <4>2, <4>3, <4>4, SpawnFact
      <4> QED BY <4>1, <4>2, <4>5 DEF Dims
    <3> QED BY <3>1, <3>2
  <2> QED BY <2>1, <2>2 DEF Owned
<1> QED BY <1>1, <1>2, <1>3, <1>4, <1>5, TypedNext

LEMMA TypedUnsubscribe ==
  ASSUME Typed, NEW keys \in SUBSET Keys, Unsubscribe(keys)
  PROVE  Typed'
<1>1. /\ Calm /\ open
      /\ session' = [key \in Keys |-> IF key \in keys THEN 0 ELSE session[key]]
      /\ \A u \in Tasks : IF \E key \in keys : session[key] = u THEN tasks'[u].status # "live"
                          ELSE tasks'[u] = tasks[u]
      /\ UNCHANGED <<log, open, loop, outbound, clientVars>>
  BY UnsubscribeFact DEF Unsubscribe
<1>2. session' \in [Keys -> 0 .. MaxTasks]
  BY <1>1, TypedParts, BoundsAssumption
<1>3. Owned'
  <2>1. ASSUME NEW u \in Tasks, tasks'[u].status = "live" PROVE session'[tasks'[u].key] = u
    <3>1. ~(\E key \in keys : session[key] = u) /\ tasks'[u] = tasks[u]
      BY <1>1, <2>1
    <3>2. session[tasks[u].key] = u
      BY <1>1, <2>1, <3>1 DEF Typed, Owned
    <3>3. tasks[u].key \in Keys
      <4>1. Running(u)
        BY <2>1, <3>1 DEF Running
      <4> QED BY <4>1, TaskFact
    <3> QED BY <1>1, <3>1, <3>2, <3>3
  <2>2. ASSUME NEW k \in Keys, session'[k] # 0
        PROVE  tasks'[session'[k]].status = "live" /\ tasks'[session'[k]].key = k
    <3>1. k \notin keys /\ session'[k] = session[k]
      BY <1>1, <2>2
    <3>2. /\ session[k] \in Tasks /\ tasks[session[k]].status = "live"
          /\ tasks[session[k]].key = k
      BY <1>1, <2>2, <3>1, SessionFact
    <3>3. ~(\E key \in keys : session[key] = session[k])
      <4> SUFFICES ASSUME NEW key \in keys, session[key] = session[k] PROVE FALSE
        OBVIOUS
      <4>1. tasks[session[key]].key = key
        BY <1>1, <2>2, <3>1, SessionFact
      <4> QED BY <3>1, <3>2, <4>1
    <3>4. tasks'[session[k]] = tasks[session[k]]
      BY <1>1, <3>2, <3>3
    <3> QED BY <3>1, <3>2, <3>4
  <2> QED BY <2>1, <2>2 DEF Owned
<1> QED BY <1>1, <1>2, <1>3, TypedCalm

LEMMA TypedReap ==
  ASSUME Typed, NEW t \in Tasks, Reap(t)
  PROVE  Typed'
<1>1. /\ Calm /\ tasks[t].status # "live" /\ tasks'[t].status # "live"
      /\ \A u \in Tasks \ {t} : tasks'[u] = tasks[u]
      /\ UNCHANGED <<outbound, othersOfTask>>
  BY ReapFact
<1>2. UNCHANGED <<log, open, loop, session, outbound, clientVars>>
  BY <1>1 DEF othersOfTask
<1>3. session' \in [Keys -> 0 .. MaxTasks]
  BY <1>2, TypedParts
<1>4. Owned'
  <2>1. CASE open
    <3>1. \A key \in Keys : session[key] # 0 => session[key] \in Tasks \ {t}
      BY <1>1, <2>1, SessionFact
    <3> QED BY <1>1, <1>2, <2>1, <3>1 DEF Owned, Typed
  <2>2. CASE ~open
    BY <1>2, <2>2 DEF Owned
  <2> QED BY <2>1, <2>2
<1> QED BY <1>1, <1>2, <1>3, <1>4, TypedCalm

LEMMA NewerFact ==
  ASSUME NEW a \in Nat, NEW b \in Nat
  PROVE  /\ Newer(a, b) \in Nat /\ Newer(a, b) >= a /\ Newer(a, b) >= b
         /\ Newer(a, b) \in {a, b}
BY DEF Newer

LEMMA TypedSnapshot ==
  ASSUME Typed, SendSnapshot
  PROVE  /\ Typed'
         /\ \A channel \in BookChannels, s \in Spots : copy[channel][s] <= copy'[channel][s]
         /\ \A channel \in BookChannels, s \in Spots :
              copy'[channel][s] = copy[channel][s] \/ copy'[channel][s] >= Version(s)
<1> DEFINE channel == loop.key.channel
           spot == SpotOf[loop.key.name]
           newer == Newer(copy[channel][spot], Version(spot))
<1>1. open /\ loop.stage = "snapshot" /\ UNCHANGED <<log, open, session, tasks, outbound, heard>>
  BY DEF SendSnapshot
<1>2. loop.key \in Keys /\ channel \in BookChannels
  <2>1. loop # Select
    BY <1>1 DEF Select
  <2> QED BY <1>1, <2>1 DEF Typed, TypeOK, SoundLoop
<1>3. spot \in Spots /\ spot = Topic(loop.key) /\ spot \in Topics /\ Version(spot) \in Nat
  BY <1>2, TopicFact, LogFact DEF Typed
<1>4. copy \in [BookChannels -> [Spots -> Nat]]
  BY TypedParts DEF ClientTyped
<1>5. /\ copy' = [copy EXCEPT ![channel][spot] = newer]
      /\ loop' = [stage |-> "subscribe", key |-> loop.key, sent |-> Version(spot)]
  BY DEF SendSnapshot
<1>6. newer \in Nat /\ newer >= copy[channel][spot] /\ newer >= Version(spot)
      /\ newer \in {copy[channel][spot], Version(spot)}
  BY <1>2, <1>3, <1>4, NewerFact
<1> HIDE DEF channel, spot, newer
<1>7. copy' \in [BookChannels -> [Spots -> Nat]] /\ copy'[channel][spot] = newer
  BY <1>2, <1>3, <1>4, <1>5, <1>6
<1>8. \A c \in BookChannels, s \in Spots :
        /\ copy[c][s] <= copy'[c][s]
        /\ copy'[c][s] = copy[c][s] \/ copy'[c][s] >= Version(s)
  <2> TAKE c \in BookChannels, s \in Spots
  <2>1. copy'[c][s] = IF c = channel /\ s = spot THEN newer ELSE copy[c][s]
    BY <1>2, <1>3, <1>4, <1>5
  <2>2. copy[c][s] \in Nat
    BY <1>4
  <2> QED BY <1>6, <2>1, <2>2
<1>9. LogTyped' /\ SentTyped' /\ ClientTyped'
  BY <1>1, <1>7, TypedParts DEF LogTyped, SentTyped, ClientTyped, SoundMessage, Counted,
                                Written, Writes, Version, Ring
<1>10. LoopTyped'
  <2>1. loop'.stage = "subscribe" /\ loop'.key = loop.key /\ loop'.sent = Version(spot)
    BY <1>5
  <2>2. loop' \in [stage : {"snapshot", "subscribe"}, key : Keys, sent : Nat]
    BY <1>2, <1>3, <1>5
  <2>3. copy'[loop.key.channel][Topic(loop.key)] = newer
    BY <1>3, <1>7 DEF channel
  <2> QED BY <1>2, <1>6, <2>1, <2>2, <2>3 DEF LoopTyped, SoundLoop, channel, Topic
<1>11. \A u \in Tasks : TypedTask(u)'
  BY <1>1, <1>7, <1>8, DimsTyped DEF Dims
<1>12. Owned' /\ open' \in BOOLEAN /\ session' \in [Keys -> 0 .. MaxTasks]
       /\ tasks' = [t \in Tasks |-> tasks'[t]]
  BY <1>1, TypedParts DEF Owned
<1> QED BY <1>8, <1>9, <1>10, <1>11, <1>12, TypedNext

CopyAfter(m, c, s) ==
  IF m.topic # s \/ m.kind = "user" \/ (c = "quote" <=> m.kind # "quote") THEN copy[c][s]
  ELSE IF m.kind = "delta" THEN IF m.version = copy[c][s] + 1 THEN m.version ELSE copy[c][s]
  ELSE Newer(copy[c][s], m.version)

\* What the client makes of the first message.
LEMMA DeliverFact ==
  ASSUME Typed, Deliver
  PROVE  /\ outbound \in Seq(Messages) /\ outbound # <<>> /\ outbound[1] \in Messages
         /\ outbound' \in Seq(Messages) /\ Len(outbound') = Len(outbound) - 1
         /\ \A k \in 1 .. Len(outbound') : outbound'[k] = outbound[k + 1]
         /\ UNCHANGED <<log, open, loop, session, tasks>> /\ open
         /\ heard \subseteq heard'
         /\ outbound[1].kind = "user" => outbound[1].version \in heard'
         /\ \A i \in heard' : i \in heard \/ (outbound[1].kind = "user" /\ i = outbound[1].version)
         /\ copy' \in [BookChannels -> [Spots -> Nat]]
         /\ \A c \in BookChannels, s \in Spots :
              copy'[c][s] = CopyAfter(outbound[1], c, s)
<1> DEFINE m == outbound[1]
<1>1. outbound \in Seq(Messages) /\ outbound # <<>> /\ copy \in [BookChannels -> [Spots -> Nat]]
  BY TypedParts DEF SentTyped, ClientTyped, Deliver
<1>2. /\ Head(outbound) = m /\ m \in Messages
      /\ Tail(outbound) \in Seq(Messages) /\ Len(Tail(outbound)) = Len(outbound) - 1
      /\ \A k \in 1 .. Len(Tail(outbound)) : Tail(outbound)[k] = outbound[k + 1]
  BY <1>1, HeadTailProperties
<1>3. /\ outbound' = Tail(outbound) /\ UNCHANGED <<log, open, loop, session, tasks>> /\ open
      /\ Use(m)
      /\ heard' = heard \cup {n.version : n \in {k \in {m} : k.kind = "user"}}
  BY <1>2 DEF Deliver, Receives
<1>4. m.kind \in {"snapshot", "delta", "quote", "user"} /\ m.version \in Nat
  BY <1>2 DEF Messages
<1> HIDE DEF m
<1>5. /\ heard \subseteq heard'
      /\ m.kind = "user" => m.version \in heard'
      /\ \A i \in heard' : i \in heard \/ (m.kind = "user" /\ i = m.version)
  BY <1>3
<1>6. /\ copy' \in [BookChannels -> [Spots -> Nat]]
      /\ \A c \in BookChannels, s \in Spots : copy'[c][s] = CopyAfter(m, c, s)
  <2>1. BookChannels = {"orderbook_delta", "quote"}
    BY DEF BookChannels
  <2>2. CASE m.kind = "user"
    <3>1. copy' = copy
      BY <1>3, <2>2 DEF Use
    <3> QED BY <1>1, <2>2, <3>1 DEF CopyAfter
  <2>3. CASE m.kind # "user"
    <3>1. m.topic \in Spots
      <4>1. SoundMessage(m)
        BY <1>1, <1>2, LenProperties, EmptySeq DEF Typed, m
      <4> QED BY <2>3, <4>1 DEF SoundMessage
    <3>2. CASE m.kind = "delta"
      <4> DEFINE old == copy["orderbook_delta"][m.topic]
                 new == IF m.version = old + 1 THEN m.version ELSE old
      <4>1. copy' = [copy EXCEPT !["orderbook_delta"][m.topic] = new]
        BY <1>3, <3>2 DEF Use
      <4>2. new \in Nat
        BY <1>1, <1>4, <2>1, <3>1
      <4>3. copy' \in [BookChannels -> [Spots -> Nat]]
        BY <1>1, <2>1, <3>1, <4>1, <4>2
      <4>4. \A c \in BookChannels, s \in Spots :
              copy'[c][s] = IF c = "orderbook_delta" /\ s = m.topic THEN new ELSE copy[c][s]
        BY <1>1, <2>1, <3>1, <4>1
      <4> QED BY <2>1, <3>2, <4>3, <4>4 DEF CopyAfter
    <3>3. CASE m.kind \in {"snapshot", "quote"}
      <4> DEFINE channel == IF m.kind = "quote" THEN "quote" ELSE "orderbook_delta"
                 new == Newer(copy[channel][m.topic], m.version)
      <4>1. copy' = [copy EXCEPT ![channel][m.topic] = new]
        BY <1>3, <3>3 DEF Use
      <4>2. channel \in BookChannels /\ new \in Nat
        <5>1. channel \in BookChannels
          BY <2>1
        <5>2. m.version \in Nat
          BY <1>4
        <5> HIDE DEF channel
        <5>3. copy[channel][m.topic] \in Nat
          BY <1>1, <3>1, <5>1
        <5>4. new \in Nat
          BY <5>2, <5>3, NewerFact
        <5> QED BY <5>1, <5>4
      <4>3. (channel = "quote" <=> m.kind = "quote") /\ m.kind # "delta" /\ m.kind # "user"
        BY <3>3
      <4> HIDE DEF channel, new
      <4>4. copy' \in [BookChannels -> [Spots -> Nat]]
        BY <1>1, <3>1, <4>1, <4>2
      <4>5. \A c \in BookChannels, s \in Spots :
              copy'[c][s] = IF c = channel /\ s = m.topic THEN new ELSE copy[c][s]
        BY <1>1, <3>1, <4>1, <4>2
      <4>6. \A c \in BookChannels : c = channel <=> (c = "quote" <=> m.kind = "quote")
        BY <2>1, <4>2, <4>3
      <4> QED BY <2>1, <4>2, <4>3, <4>4, <4>5, <4>6 DEF new, CopyAfter
    <3> QED BY <1>4, <2>3, <3>2, <3>3
  <2> QED BY <2>2, <2>3
<1>7. /\ outbound # <<>> /\ outbound[1] \in Messages /\ outbound' \in Seq(Messages)
      /\ Len(outbound') = Len(outbound) - 1
      /\ \A k \in 1 .. Len(outbound') : outbound'[k] = outbound[k + 1]
  BY <1>1, <1>2, <1>3 DEF m
<1>8. /\ heard \subseteq heard'
      /\ outbound[1].kind = "user" => outbound[1].version \in heard'
      /\ \A i \in heard' : i \in heard \/ (outbound[1].kind = "user" /\ i = outbound[1].version)
  BY <1>5 DEF m
<1> QED BY <1>1, <1>3, <1>6, <1>7, <1>8 DEF m

LEMMA CopyGrows ==
  ASSUME Typed, Deliver
  PROVE  \A c \in BookChannels, s \in Spots : copy[c][s] <= copy'[c][s] /\ copy[c][s] \in Nat
<1> TAKE c \in BookChannels, s \in Spots
<1> DEFINE a == copy[c][s]
           b == copy'[c][s]
           v == outbound[1].version
<1>1. a \in Nat
  BY TypedParts DEF ClientTyped
<1>2. v \in Nat
  BY DeliverFact DEF Messages
<1>3. b = a \/ b = Newer(a, v) \/ b = a + 1
  BY DeliverFact DEF CopyAfter
<1> HIDE DEF a, b, v
<1>4. a <= b /\ a \in Nat
  BY <1>1, <1>2, <1>3, NewerFact
<1> QED BY <1>4 DEF a, b

LEMMA TypedDeliver ==
  ASSUME Typed, Deliver
  PROVE  Typed'
<1>1. /\ outbound \in Seq(Messages) /\ outbound # <<>> /\ outbound[1] \in Messages
      /\ outbound' \in Seq(Messages) /\ Len(outbound') = Len(outbound) - 1
      /\ \A k \in 1 .. Len(outbound') : outbound'[k] = outbound[k + 1]
      /\ UNCHANGED <<log, open, loop, session, tasks>> /\ open
      /\ \A i \in heard' : i \in heard \/ (outbound[1].kind = "user" /\ i = outbound[1].version)
      /\ copy' \in [BookChannels -> [Spots -> Nat]]
  BY DeliverFact
<1>2. Len(outbound) \in Nat \ {0} /\ DOMAIN outbound = 1 .. Len(outbound)
      /\ DOMAIN outbound' = 1 .. Len(outbound')
  BY <1>1, LenProperties, EmptySeq
<1>3. \A k \in DOMAIN outbound : SoundMessage(outbound[k])
  BY DEF Typed
<1>4. LogTyped' /\ Owned'
  BY <1>1, TypedParts DEF LogTyped, Counted, Written, Writes, Version, Owned
<1>5. LoopTyped'
  <2>1. CASE loop.stage = "subscribe"
    <3>1. loop # Select
      BY <2>1 DEF Select
    <3>2. loop.key \in Keys /\ loop.sent \in Nat /\ loop.key.channel \in BookChannels
          /\ loop.sent <= copy[loop.key.channel][Topic(loop.key)]
      BY <2>1, <3>1 DEF Typed, TypeOK, SoundLoop
    <3>3. Topic(loop.key) \in Spots
      BY <3>2, TopicFact
    <3> DEFINE a == copy[loop.key.channel][Topic(loop.key)]
               b == copy'[loop.key.channel][Topic(loop.key)]
    <3>4. a \in Nat /\ b \in Nat /\ a <= b
      BY <1>1, <3>2, <3>3, CopyGrows
    <3>5. loop.sent <= a
      BY <3>2
    <3> HIDE DEF a, b
    <3>6. loop.sent <= b
      BY <3>2, <3>4, <3>5
    <3> QED BY <1>1, <3>2, <3>6, TypedParts DEF LoopTyped, SoundLoop, Topic, b
  <2>2. CASE loop.stage # "subscribe"
    BY <1>1, <2>2, TypedParts DEF LoopTyped, SoundLoop
  <2> QED BY <2>1, <2>2
<1>6. \A u \in Tasks : TypedTask(u)'
  BY <1>1, CopyGrows, DimsTyped DEF Dims
<1>7. SentTyped'
  <2>1. \A k \in DOMAIN outbound' : SoundMessage(outbound'[k])
    BY <1>1, <1>2, <1>3
  <2> QED BY <1>1, <2>1 DEF SentTyped, SoundMessage, Ring
<1>8. ClientTyped'
  <2>1. outbound[1].kind = "user" => outbound[1].version \in 1 .. MaxWrites
    <3> SUFFICES ASSUME outbound[1].kind = "user" PROVE outbound[1].version \in 1 .. MaxWrites
      OBVIOUS
    <3>1. outbound[1].version \in DOMAIN log[Hub] /\ Hub \in Topics
      BY <1>2, <1>3 DEF SoundMessage, Topics
    <3>2. outbound[1].version \in 1 .. Version(Hub) /\ Version(Hub) \in Nat
      BY <3>1, LogFact DEF Typed
    <3>3. Version(Hub) <= Writes /\ Writes <= MaxWrites /\ Writes \in Nat
      <4>1. IsFiniteSet(Written)
        BY DEF Typed, Counted
      <4> QED BY <3>1, <4>1, FS_CardinalityType DEF Typed, Counted, Writes, Written
    <3> QED BY <3>2, <3>3, BoundsAssumption
  <2>2. heard \subseteq 1 .. MaxWrites
    BY TypedParts DEF ClientTyped
  <2> QED BY <1>1, <2>1, <2>2 DEF ClientTyped
<1>9. open' \in BOOLEAN /\ session' \in [Keys -> 0 .. MaxTasks]
      /\ tasks' = [t \in Tasks |-> tasks'[t]]
  BY <1>1, TypedParts
<1> QED BY <1>4, <1>5, <1>6, <1>7, <1>8, <1>9, TypedNext

LEMMA TypedMoves ==
  ASSUME Typed, NEW t \in Tasks, NEW new, NEW sends, Moves(t, new, sends),
         new.next >= tasks[t].next, new.next <= Version(Topic(tasks[t].key)) + 1,
         new.stage # "receiving" => tasks[t].key.channel = "orderbook_delta",
         \A m \in sends : m \in Messages /\ SoundMessage(m)
  PROVE  Typed'
<1>1. /\ Running(t) /\ Kept(tasks[t], new) /\ tasks' = [tasks EXCEPT ![t] = new]
      /\ UNCHANGED othersOfTask /\ (open => new.status = tasks[t].status)
  BY DEF Moves
<1>2. UNCHANGED <<log, open, loop, session, copy, heard>>
  BY <1>1 DEF othersOfTask, clientVars
<1>3. tasks \in [Tasks -> TaskStates \cup {NoTask}] /\ tasks[t] \in TaskStates /\ SoundTask(t)
  BY <1>1, TaskFact, TypedParts
<1>4. tasks'[t] = new /\ \A u \in Tasks \ {t} : tasks'[u] = tasks[u]
  BY <1>1, <1>3
<1>5. LogTyped' /\ ClientTyped' /\ LoopTyped'
  BY <1>2, TypedParts DEF LogTyped, ClientTyped, LoopTyped, SoundLoop, Counted, Written, Writes,
                          Version
<1>6. ASSUME NEW u \in Tasks PROVE TypedTask(u)'
  <2>1. CASE u = t
    <3>1. /\ new \in TaskStates /\ new.key = tasks[t].key /\ new.sent = tasks[t].sent
          /\ new.from = tasks[t].from
      BY <1>1 DEF Kept
    <3>2. tasks[t].next \in Nat /\ new.next \in Nat /\ tasks[t].from \in Nat
      BY <1>3, <3>1 DEF TaskStates
    <3>3. SoundTask(t)'
      BY <1>2, <1>3, <1>4, <3>1, <3>2 DEF SoundTask, Topic
    <3> QED BY <1>2, <1>4, <2>1, <3>1, <3>3 DEF TypedTask, Version, Topic
  <2>2. CASE u # t
    BY <1>2, <1>4, <2>2, TypedParts DEF TypedTask, SoundTask, Running, Version, Topic
  <2> QED BY <2>1, <2>2
<1>7. SentTyped'
  <2>1. outbound \in Seq(Messages) /\ (~open => outbound = <<>>)
        /\ \A k \in DOMAIN outbound : SoundMessage(outbound[k])
    BY TypedParts DEF SentTyped
  <2>2. CASE sends = {}
    BY <1>1, <1>2, <2>1, <2>2 DEF Moves, SentTyped, SoundMessage, Ring
  <2>3. CASE sends # {}
    <3>1. PICK m \in sends : open /\ outbound' = Append(outbound, m)
      BY <2>3 DEF Moves
    <3>2. /\ outbound' \in Seq(Messages) /\ Len(outbound') = Len(outbound) + 1
          /\ \A k \in 1 .. Len(outbound) : outbound'[k] = outbound[k]
          /\ outbound'[Len(outbound) + 1] = m
      BY <2>1, <3>1, AppendProperties
    <3>3. Len(outbound) \in Nat /\ DOMAIN outbound = 1 .. Len(outbound)
          /\ DOMAIN outbound' = 1 .. Len(outbound')
      BY <2>1, <3>2, LenProperties
    <3>4. \A k \in DOMAIN outbound' : SoundMessage(outbound'[k])
      BY <2>1, <3>1, <3>2, <3>3
    <3> QED BY <1>2, <3>1, <3>2, <3>4 DEF SentTyped, SoundMessage, Ring
  <2> QED BY <2>2, <2>3
<1>8. Owned'
  BY <1>1, <1>2, <1>3, <1>4 DEF Typed, Owned, Kept
<1>9. open' \in BOOLEAN /\ session' \in [Keys -> 0 .. MaxTasks]
      /\ tasks' = [u \in Tasks |-> tasks'[u]]
  BY <1>1, <1>2, <1>3, TypedParts
<1> QED BY <1>5, <1>6, <1>7, <1>8, <1>9, TypedNext

LEMMA AnnouncedFact ==
  ASSUME Typed, NEW t \in Tasks, Running(t), NEW i \in Pending(t)
  PROVE  /\ Announced(t, i) \in Messages /\ SoundMessage(Announced(t, i))
         /\ Announced(t, i).version = i /\ Announced(t, i).topic = Topic(tasks[t].key)
         /\ (Announced(t, i).kind = "delta" <=> tasks[t].key.channel = "orderbook_delta")
         /\ (Announced(t, i).kind = "quote" <=> tasks[t].key.channel = "quote")
         /\ (Announced(t, i).kind = "user" <=> tasks[t].key.channel = "user")
         /\ Announced(t, i).kind # "snapshot"
<1>1. tasks[t].key \in Keys
  BY TaskFact
<1>2. /\ tasks[t].key.channel \in {"orderbook_delta", "quote", "user"}
      /\ Topic(tasks[t].key) \in Topics
      /\ tasks[t].key.channel # "user" => Topic(tasks[t].key) \in Spots
      /\ tasks[t].key.channel = "user" => Topic(tasks[t].key) = Hub
  BY <1>1, TopicFact DEF Channels, BookChannels
<1>3. i \in Ring(Topic(tasks[t].key)) /\ i \in Nat
  BY PendingFact
<1>4. i \in DOMAIN log[Topic(tasks[t].key)]
  BY <1>3 DEF Ring
<1> QED BY <1>2, <1>3, <1>4 DEF Announced, Messages, SoundMessage, Kind

LEMMA TypedTaskStep ==
  ASSUME Typed, NEW t \in Tasks, TaskStep(t)
  PROVE  Typed'
<1>1. Running(t)
  BY DEF TaskStep, Forward, Lag, ResyncRead, ResyncSend
<1>2. /\ tasks[t] \in TaskStates /\ SoundTask(t) /\ tasks[t].key \in Keys
      /\ tasks[t].next <= Version(Topic(tasks[t].key)) + 1 /\ tasks[t].next \in Nat
  BY <1>1, TaskFact DEF TaskStates
<1>3. Topic(tasks[t].key) \in Topics /\ Version(Topic(tasks[t].key)) \in Nat
      /\ Ring(Topic(tasks[t].key)) \subseteq 1 .. Version(Topic(tasks[t].key))
  BY <1>2, TopicFact, LogFact DEF Typed
<1>4. CASE Forward(t)
  <2>1. PICK i \in Pending(t), new \in TaskStates :
          /\ Moves(t, new, IF open /\ Wanted(t, i) THEN {Announced(t, i)} ELSE {})
          /\ new.stage = "receiving" /\ new.next = i + 1
    BY <1>4, ForwardFact
  <2>2. i \in 1 .. Version(Topic(tasks[t].key)) /\ i >= tasks[t].next
    BY <1>1, <1>3, PendingFact
  <2>3. Announced(t, i) \in Messages /\ SoundMessage(Announced(t, i))
    BY <1>1, AnnouncedFact
  <2>4. \A m \in IF open /\ Wanted(t, i) THEN {Announced(t, i)} ELSE {} :
          m \in Messages /\ SoundMessage(m)
    BY <2>3
  <2>5. new.next >= tasks[t].next /\ new.next <= Version(Topic(tasks[t].key)) + 1
    BY <1>2, <1>3, <2>1, <2>2
  <2> QED BY <2>1, <2>4, <2>5, TypedMoves
<1>5. CASE Lag(t)
  <2>1. PICK next \in Ring(Topic(tasks[t].key)), new \in TaskStates :
          /\ Moves(t, new, {}) /\ new.next = next /\ next > tasks[t].next
          /\ new.stage = IF tasks[t].key.channel = "orderbook_delta" THEN "lagged" ELSE "receiving"
    BY <1>5, LagFact
  <2>2. new.next >= tasks[t].next /\ new.next <= Version(Topic(tasks[t].key)) + 1
    BY <1>2, <1>3, <2>1
  <2> QED BY <2>1, <2>2, TypedMoves
<1>6. CASE ResyncRead(t)
  <2>1. PICK new \in TaskStates : /\ Moves(t, new, {}) /\ new.next = tasks[t].next
                                  /\ tasks[t].stage = "lagged"
    BY <1>6, ResyncReadFact
  <2>2. tasks[t].key.channel = "orderbook_delta" /\ new.next >= tasks[t].next
    BY <1>2, <2>1 DEF SoundTask
  <2> QED BY <1>2, <2>1, <2>2, TypedMoves
<1>7. CASE ResyncSend(t)
  <2>1. PICK new \in TaskStates :
          /\ Moves(t, new, IF open THEN {SnapshotOf(t)} ELSE {}) /\ new.next = tasks[t].next
          /\ new.stage = "receiving" /\ tasks[t].stage = "resyncing"
    BY <1>7, ResyncSendFact
  <2>2. tasks[t].key.channel = "orderbook_delta" /\ new.next >= tasks[t].next
    BY <1>2, <2>1 DEF SoundTask
  <2>3. Topic(tasks[t].key) \in Spots
    BY <1>2, <2>2, TopicFact DEF BookChannels
  <2>4. SnapshotOf(t) \in Messages /\ SoundMessage(SnapshotOf(t))
    BY <1>2, <1>3, <2>3 DEF SnapshotOf, Messages, SoundMessage, TaskStates
  <2>5. \A m \in IF open THEN {SnapshotOf(t)} ELSE {} : m \in Messages /\ SoundMessage(m)
    BY <2>4
  <2> QED BY <1>2, <2>1, <2>2, <2>5, TypedMoves
<1> QED BY <1>4, <1>5, <1>6, <1>7 DEF TaskStep

\* The kinds of steps of the connection and the rest of the program.
Publishes ==
  /\ \E topic \in Topics : \E entry \in {"event", "hydration"} \cup Users :
       Entry(topic, entry) /\ Publish(topic, entry)
  /\ UNCHANGED <<open, session, tasks, outbound, copy, heard>>
  /\ UNCHANGED loop \/ \E key \in Keys : /\ key.channel \in BookChannels
                                         /\ loop' = [stage |-> "snapshot", key |-> key, sent |-> 0]

Spawns ==
  \E t \in Tasks, key \in Keys, sent \in Nat :
    /\ open /\ Spawn(t, key, sent)
    /\ key.channel \in BookChannels => sent <= copy[key.channel][Topic(key)]
    /\ loop' \in {loop, Select} /\ UNCHANGED <<log, open, outbound, clientVars>>

LEMMA StepKinds ==
  ASSUME Typed, Next
  PROVE  \/ Publishes \/ Close \/ Spawns
         \/ \E keys \in SUBSET Keys : Unsubscribe(keys)
         \/ SendSnapshot \/ Deliver
         \/ \E t \in Tasks : TaskStep(t) \/ Reap(t)
<1>1. CASE WriteBook
  BY <1>1 DEF WriteBook, Publishes, Entry, Topics, clientVars
<1>2. CASE PublishUser
  BY <1>2 DEF PublishUser, Publishes, Entry, Topics, clientVars
<1>3. CASE Disconnect \/ SnapshotFails
  BY <1>3 DEF Disconnect, SnapshotFails
<1>4. ASSUME NEW key \in Keys, Rehydrate(key) PROVE Publishes
  <2>1. SpotOf[key.name] \in Spots
    BY <1>4, TopicFact DEF Rehydrate
  <2> QED BY <1>4, <2>1 DEF Rehydrate, Publishes, Entry, Topics, clientVars
<1>5. ASSUME NEW key \in Keys, NEW t \in Tasks, SubscribeUser(t, key) PROVE Spawns
  <2>1. key.channel \notin BookChannels
    BY <1>5 DEF SubscribeUser, BookChannels
  <2> QED BY <1>5, <2>1 DEF SubscribeUser, Spawns, Receives
<1>6. ASSUME NEW t \in Tasks, Subscribe(t) PROVE Spawns
  <2>1. loop.stage = "subscribe" /\ loop # Select
    BY <1>6 DEF Subscribe, Select
  <2>2. loop.key \in Keys /\ loop.sent \in Nat /\ loop.key.channel \in BookChannels
        /\ loop.sent <= copy[loop.key.channel][Topic(loop.key)]
    BY <2>1 DEF Typed, TypeOK, SoundLoop
  <2> QED BY <1>6, <2>2 DEF Subscribe, Spawns
<1>7. CASE UnsubscribeAny
  BY <1>7 DEF UnsubscribeAny, Named
<1> QED BY <1>1, <1>2, <1>3, <1>4, <1>5, <1>6, <1>7 DEF Next, LoopStep

LEMMA TypedInv ==
  ASSUME Typed, [Next]_vars
  PROVE  Typed'
<1>1. CASE Publishes
  BY <1>1, TypedPublish DEF Publishes
<1>2. CASE Close
  BY <1>2, TypedClose
<1>3. CASE Spawns
  BY <1>3, TypedSpawn DEF Spawns
<1>4. CASE \E keys \in SUBSET Keys : Unsubscribe(keys)
  BY <1>4, TypedUnsubscribe
<1>5. CASE SendSnapshot
  BY <1>5, TypedSnapshot
<1>6. CASE Deliver
  BY <1>6, TypedDeliver
<1>7. CASE \E t \in Tasks : TaskStep(t) \/ Reap(t)
  BY <1>7, TypedTaskStep, TypedReap
<1>8. CASE UNCHANGED vars
  <2>1. UNCHANGED <<log, open, loop, session, tasks, outbound, copy, heard>>
    BY <1>8 DEF vars, clientVars
  <2>2. TypeOK'
    BY <2>1 DEF Typed, TypeOK, Running, Version, Topic
  <2>3. SoundLoop'
    BY <2>1 DEF Typed, SoundLoop, Topic
  <2>4. Counted'
    BY <2>1 DEF Typed, Counted, Written, Writes, Version
  <2>5. Owned'
    BY <2>1 DEF Typed, Owned
  <2>6. \A t \in Tasks : Running(t)' => SoundTask(t)'
    BY <2>1 DEF Typed, Running, SoundTask, Topic
  <2>7. ASSUME NEW k \in DOMAIN outbound' PROVE SoundMessage(outbound[k])'
    <3>1. outbound' = outbound /\ log' = log
      BY <2>1
    <3>2. SoundMessage(outbound[k])
      BY <3>1 DEF Typed
    <3>3. Ring(outbound[k].topic)' = Ring(outbound[k].topic)
      BY <3>1 DEF Ring
    <3> QED BY <3>1, <3>2, <3>3 DEF SoundMessage
  <2> QED BY <2>2, <2>3, <2>4, <2>5, <2>6, <2>7 DEF Typed
<1> QED BY <1>1, <1>2, <1>3, <1>4, <1>5, <1>6, <1>7, <1>8, StepKinds

\* Everything the connection keeps has its type, for any spot markets, users,
\* spellings, rings and bounds.
THEOREM WsTypeCorrect == Spec => []TypeOK
<1>1. Typed => TypeOK
  BY DEF Typed
<1> QED BY <1>1, TypedInit, TypedInv, PTL DEF Spec

\* Every task that forwards is the subscription that the session has under its
\* key, or was cancelled and finishes a poll (session.rs:38, 69-70, 131-136).
THEOREM WsHasNoStrayForwarder == Spec => []NoStrayForwarder
<1>1. Typed => NoStrayForwarder
  <2> SUFFICES ASSUME Typed, open
               PROVE  /\ \A t \in Tasks : Running(t) /\ tasks[t].status = "live" =>
                           session[tasks[t].key] = t
                      /\ \A key \in Keys : session[key] # 0 =>
                           Running(session[key]) /\ tasks[session[key]].key = key
    BY DEF NoStrayForwarder
  <2> QED BY DEF Typed, Owned, Running
<1> QED BY <1>1, TypedInit, TypedInv, PTL DEF Spec

---------------------------------------------------------------------------
(* The outbound channel under the steps.                                   *)

LEMMA PublishRing ==
  ASSUME Typed, Publishes
  PROVE  \A q \in Topics :
           /\ Version(q)' \in {Version(q), Version(q) + 1}
           /\ \A i \in 1 .. Version(q) : log'[q][i] = log[q][i]
           /\ \A i \in 1 .. Version(q) : i \in Ring(q)' <=> i \in Ring(q)
           /\ Ring(q) \subseteq Ring(q)'
           /\ \A i \in Ring(q)' : i \in Ring(q) \/ i = Version(q) + 1
<1> TAKE q \in Topics
<1>1. /\ Version(q)' \in {Version(q), Version(q) + 1}
      /\ \A i \in 1 .. Version(q) : log'[q][i] = log[q][i]
  BY PublishFact DEF Publishes
<1>2. Version(q) \in Nat /\ DOMAIN log[q] = 1 .. Version(q) /\ Ring(q) \subseteq 1 .. Version(q)
  BY LogFact DEF Typed
<1>3. Version(q)' \in Nat /\ DOMAIN log'[q] = 1 .. Version(q)' /\ Ring(q)' \subseteq 1 .. Version(q)'
  <2>1. /\ \A s \in Spots : log'[s] \in Seq({"event", "hydration"})
        /\ log'[Hub] \in Seq(Users)
    BY PublishFact DEF Publishes
  <2>2. Len(log'[q]) \in Nat /\ DOMAIN log'[q] = 1 .. Len(log'[q])
    BY <2>1, LenProperties DEF Topics
  <2> QED BY <2>2 DEF Version, Ring
<1>4. \A i \in 1 .. Version(q) : i \in 1 .. Version(q)'
  BY <1>1, <1>2
<1>5. \A i \in 1 .. Version(q) : i \in Ring(q)' <=> i \in Ring(q)
  BY <1>1, <1>2, <1>3, <1>4 DEF Ring
<1>6. \A i \in 1 .. Version(q)' : i \in 1 .. Version(q) \/ i = Version(q) + 1
  BY <1>1, <1>2
<1> QED BY <1>1, <1>2, <1>3, <1>5, <1>6

LEMMA OutFact ==
  ASSUME Typed
  PROVE  /\ outbound \in Seq(Messages) /\ Len(outbound) \in Nat
         /\ DOMAIN outbound = 1 .. Len(outbound)
         /\ \A k \in DOMAIN outbound : outbound[k] \in Messages /\ SoundMessage(outbound[k])
<1>1. outbound \in Seq(Messages)
  BY TypedParts DEF SentTyped
<1> QED BY <1>1, LenProperties DEF Typed

LEMMA MovesOut ==
  ASSUME Typed, NEW t \in Tasks, NEW new, NEW sends, Moves(t, new, sends),
         \A m \in sends : m \in Messages
  PROVE  /\ \A k \in DOMAIN outbound : k \in DOMAIN outbound' /\ outbound'[k] = outbound[k]
         /\ \A k \in DOMAIN outbound' :
              k \in DOMAIN outbound \/ (k = Len(outbound) + 1 /\ outbound'[k] \in sends)
         /\ \A m \in sends : \E k \in DOMAIN outbound' : outbound'[k] = m
<1>1. outbound \in Seq(Messages) /\ Len(outbound) \in Nat /\ DOMAIN outbound = 1 .. Len(outbound)
  BY OutFact
<1>2. CASE sends = {}
  BY <1>2 DEF Moves
<1>3. CASE sends # {}
  <2>1. PICK m \in sends : sends = {m} /\ outbound' = Append(outbound, m)
    BY <1>3 DEF Moves
  <2>2. /\ outbound' \in Seq(Messages) /\ Len(outbound') = Len(outbound) + 1
        /\ \A k \in 1 .. Len(outbound) : outbound'[k] = outbound[k]
        /\ outbound'[Len(outbound) + 1] = m
    BY <1>1, <2>1, AppendProperties
  <2>3. DOMAIN outbound' = 1 .. Len(outbound')
    BY <2>2, LenProperties
  <2> QED BY <1>1, <2>1, <2>2, <2>3
<1> QED BY <1>2, <1>3

LEMMA DeliverOut ==
  ASSUME Typed, Deliver
  PROVE  /\ 1 \in DOMAIN outbound
         /\ \A k \in DOMAIN outbound :
              k = 1 \/ (k - 1 \in DOMAIN outbound' /\ outbound'[k - 1] = outbound[k])
         /\ \A k \in DOMAIN outbound' : k + 1 \in DOMAIN outbound /\ outbound'[k] = outbound[k + 1]
<1>1. /\ outbound \in Seq(Messages) /\ outbound # <<>>
      /\ outbound' \in Seq(Messages) /\ Len(outbound') = Len(outbound) - 1
      /\ \A k \in 1 .. Len(outbound') : outbound'[k] = outbound[k + 1]
  BY DeliverFact
<1>2. Len(outbound) \in Nat \ {0} /\ DOMAIN outbound = 1 .. Len(outbound)
      /\ DOMAIN outbound' = 1 .. Len(outbound')
  BY <1>1, LenProperties, EmptySeq
<1> QED BY <1>1, <1>2

\* What a task that ran on under a calm step has kept.
LEMMA DimsFact ==
  ASSUME NEW u \in Tasks, Dims(tasks[u], tasks'[u]), Running(u)'
  PROVE  /\ Running(u) /\ tasks'[u].key = tasks[u].key /\ tasks'[u].stage = tasks[u].stage
         /\ tasks'[u].next = tasks[u].next /\ tasks'[u].version = tasks[u].version
         /\ tasks'[u].sent = tasks[u].sent /\ tasks'[u].from = tasks[u].from
         /\ tasks'[u].skipped = tasks[u].skipped
         /\ tasks[u].shared => tasks'[u].shared
BY DEF Dims, Running

\* The steps in which no task but a new one changes what it has read and said.
LEMMA CalmSteps ==
  ASSUME Typed,
         Spawns \/ (\E keys \in SUBSET Keys : Unsubscribe(keys)) \/ (\E r \in Tasks : Reap(r))
  PROVE  /\ UNCHANGED <<log, open, outbound, copy, heard>>
         /\ \A u \in Tasks :
              \/ Dims(tasks[u], tasks'[u])
              \/ /\ tasks'[u] \in TaskStates
                 /\ tasks'[u].stage = "receiving"
                 /\ tasks'[u].next = Version(Topic(tasks'[u].key)) + 1
                 /\ tasks'[u].from = tasks'[u].next
                 /\ tasks'[u].key.channel \in BookChannels =>
                      tasks'[u].sent <= copy[tasks'[u].key.channel][Topic(tasks'[u].key)]
<1>1. CASE Spawns
  <2>1. PICK t \in Tasks, key \in Keys, sent \in Nat :
          /\ open /\ Spawn(t, key, sent)
          /\ key.channel \in BookChannels => sent <= copy[key.channel][Topic(key)]
          /\ loop' \in {loop, Select} /\ UNCHANGED <<log, open, outbound, clientVars>>
    BY <1>1 DEF Spawns
  <2> QED BY <2>1, SpawnFact DEF clientVars
<1>2. ASSUME NEW keys \in SUBSET Keys, Unsubscribe(keys)
      PROVE  Calm /\ UNCHANGED <<log, open, outbound, copy, heard>>
  BY <1>2, UnsubscribeFact DEF Unsubscribe, clientVars
<1>3. ASSUME NEW r \in Tasks, Reap(r)
      PROVE  Calm /\ UNCHANGED <<log, open, outbound, copy, heard>>
  BY <1>3, ReapFact DEF othersOfTask, clientVars
<1> QED BY <1>1, <1>2, <1>3 DEF Calm

---------------------------------------------------------------------------
(* Messages for a user.                                                    *)

Hears(i) == \/ i \in heard
            \/ \E k \in DOMAIN outbound : outbound[k].kind = "user" /\ outbound[k].version = i

UserTold(t) ==
  Running(t) /\ tasks[t].key.channel = "user" =>
    \A i \in tasks[t].from .. tasks[t].next - 1 :
      Folded[log[Hub][i]] = Folded[tasks[t].key.name] /\ i \notin tasks[t].skipped => Hears(i)

LEMMA HubFact ==
  ASSUME Typed, NEW t \in Tasks, Running(t), tasks[t].key.channel = "user"
  PROVE  /\ Topic(tasks[t].key) = Hub /\ Hub \in Topics /\ Ring(Hub) = 1 .. Version(Hub)
         /\ Version(Hub) \in Nat /\ tasks[t].next \in Nat \ {0} /\ tasks[t].from \in Nat \ {0}
         /\ tasks[t].next <= Version(Hub) + 1
<1>1. tasks[t] \in TaskStates /\ tasks[t].key \in Keys
      /\ tasks[t].next <= Version(Topic(tasks[t].key)) + 1
  BY TaskFact
<1> QED BY <1>1, TopicFact, LogFact DEF Typed, TaskStates

LEMMA UserTaskStep ==
  ASSUME Typed, NEW t \in Tasks, TaskStep(t), open, \A u \in Tasks : UserTold(u)
  PROVE  \A u \in Tasks : UserTold(u)'
<1>1. Running(t) /\ tasks[t] \in TaskStates /\ DOMAIN tasks = Tasks
  BY TaskFact DEF TaskStep, Forward, Lag, ResyncRead, ResyncSend
<1>2. ASSUME NEW new, NEW sends, Moves(t, new, sends), \A m \in sends : m \in Messages
      PROVE  /\ tasks'[t] = new /\ new.key = tasks[t].key /\ new.from = tasks[t].from
             /\ \A u \in Tasks \ {t} : tasks'[u] = tasks[u]
             /\ log' = log /\ heard' = heard
             /\ \A i \in Nat : Hears(i) => Hears(i)'
             /\ \A m \in sends : m.kind = "user" => Hears(m.version)'
  <2>1. /\ tasks' = [tasks EXCEPT ![t] = new] /\ new.key = tasks[t].key
        /\ new.from = tasks[t].from /\ log' = log /\ heard' = heard
    BY <1>2 DEF Moves, Kept, othersOfTask, clientVars
  <2>2. /\ \A k \in DOMAIN outbound : k \in DOMAIN outbound' /\ outbound'[k] = outbound[k]
        /\ \A m \in sends : \E k \in DOMAIN outbound' : outbound'[k] = m
    BY <1>2, MovesOut
  <2> QED BY <1>1, <2>1, <2>2 DEF Hears
<1>3. ASSUME NEW new, NEW sends, Moves(t, new, sends), \A m \in sends : m \in Messages,
             new.skipped = tasks[t].skipped \/ tasks[t].skipped \subseteq new.skipped,
             tasks[t].key.channel = "user" =>
               \A i \in tasks[t].next .. new.next - 1 :
                 Folded[log[Hub][i]] = Folded[tasks[t].key.name] /\ i \notin new.skipped =>
                   i \in {m.version : m \in {n \in sends : n.kind = "user"}}
      PROVE  \A u \in Tasks : UserTold(u)'
  <2>1. /\ tasks'[t] = new /\ new.key = tasks[t].key /\ new.from = tasks[t].from
        /\ \A u \in Tasks \ {t} : tasks'[u] = tasks[u]
        /\ log' = log /\ heard' = heard
        /\ \A i \in Nat : Hears(i) => Hears(i)'
        /\ \A m \in sends : m.kind = "user" => Hears(m.version)'
    BY <1>2, <1>3
  <2>2. ASSUME NEW u \in Tasks, Running(u)', tasks'[u].key.channel = "user",
               NEW i \in tasks'[u].from .. tasks'[u].next - 1,
               Folded[log[Hub][i]] = Folded[tasks'[u].key.name], i \notin tasks'[u].skipped
        PROVE  Hears(i)'
    <3>1. CASE u # t
      <4>1. tasks'[u] = tasks[u] /\ Running(u)
        BY <2>1, <2>2, <3>1 DEF Running
      <4>2. UserTold(u) /\ tasks[u].from \in Nat
        BY <1>3, <4>1, <2>2, HubFact
      <4>3. Hears(i)
        BY <2>2, <4>1, <4>2 DEF UserTold
      <4> QED BY <2>1, <2>2, <4>1, <4>2, <4>3
    <3>2. CASE u = t
      <4>1. tasks[t].key.channel = "user" /\ tasks[t].from \in Nat /\ tasks[t].next \in Nat
        BY <1>1, <2>1, <2>2, <3>2, HubFact
      <4>2. i \in Nat /\ i \in tasks[t].from .. new.next - 1 /\ i \notin new.skipped
            /\ Folded[log[Hub][i]] = Folded[tasks[t].key.name]
        BY <2>1, <2>2, <3>2, <4>1
      <4>3. CASE i < tasks[t].next
        <5>1. i \in tasks[t].from .. tasks[t].next - 1
          BY <4>1, <4>2, <4>3
        <5>2. i \notin tasks[t].skipped
          BY <1>3, <4>2
        <5>3. Hears(i)
          BY <1>1, <1>3, <4>1, <4>2, <5>1, <5>2 DEF UserTold
        <5> QED BY <2>1, <4>2, <5>3
      <4>4. CASE ~(i < tasks[t].next)
        <5>1. i \in tasks[t].next .. new.next - 1
          BY <4>1, <4>2, <4>4
        <5>2. PICK m \in sends : m.kind = "user" /\ m.version = i
          BY <1>3, <4>1, <4>2, <5>1
        <5> QED BY <2>1, <5>2
      <4> QED BY <4>3, <4>4
    <3> QED BY <3>1, <3>2
  <2> QED BY <2>1, <2>2 DEF UserTold
<1>4. CASE Forward(t)
  <2>1. PICK i \in Pending(t), new \in TaskStates :
          /\ \A j \in Pending(t) : i <= j
          /\ Moves(t, new, IF open /\ Wanted(t, i) THEN {Announced(t, i)} ELSE {})
          /\ new.next = i + 1 /\ new.skipped = tasks[t].skipped
    BY <1>4, ForwardFact
  <2>2. /\ Announced(t, i) \in Messages /\ Announced(t, i).version = i
        /\ Announced(t, i).kind = "user" <=> tasks[t].key.channel = "user"
    BY <1>1, AnnouncedFact
  <2>3. ASSUME tasks[t].key.channel = "user", NEW j \in tasks[t].next .. new.next - 1,
               Folded[log[Hub][j]] = Folded[tasks[t].key.name]
        PROVE  j = i /\ Wanted(t, i)
    <3>1. /\ Pending(t) \subseteq Ring(Hub) /\ Ring(Hub) = 1 .. Version(Hub)
          /\ Version(Hub) \in Nat /\ tasks[t].next \in Nat \ {0}
          /\ \A k \in Ring(Hub) : k \in Pending(t) <=> ~(k < tasks[t].next)
      BY <1>1, <2>3, HubFact, PendingFact
    <3>2. j <= i /\ j >= tasks[t].next /\ j \in Nat \ {0}
      BY <2>1, <2>3, <3>1
    <3>3. j \in Pending(t)
      BY <3>1, <3>2
    <3>4. j = i
      BY <2>1, <3>1, <3>2, <3>3
    <3> QED BY <2>3, <3>4 DEF Wanted
  <2> DEFINE sends == IF open /\ Wanted(t, i) THEN {Announced(t, i)} ELSE {}
  <2>4. \A m \in sends : m \in Messages
    BY <2>2
  <2>5. tasks[t].key.channel = "user" =>
          \A j \in tasks[t].next .. new.next - 1 :
            Folded[log[Hub][j]] = Folded[tasks[t].key.name] /\ j \notin new.skipped =>
              j \in {m.version : m \in {n \in sends : n.kind = "user"}}
    BY <2>2, <2>3
  <2> HIDE DEF sends
  <2> QED BY <1>3, <2>1, <2>4, <2>5 DEF sends
<1>5. CASE Lag(t)
  <2>1. PICK next \in Ring(Topic(tasks[t].key)), new \in TaskStates :
          /\ Moves(t, new, {}) /\ new.next = next
          /\ \A i \in Ring(Topic(tasks[t].key)) :
               tasks[t].key.channel # "orderbook_delta" /\ Wanted(t, i)
                 /\ i >= tasks[t].next /\ i < next => i \in new.skipped
          /\ tasks[t].skipped \subseteq new.skipped
    BY <1>5, LagFact
  <2>2. ASSUME tasks[t].key.channel = "user", NEW i \in tasks[t].next .. new.next - 1,
               Folded[log[Hub][i]] = Folded[tasks[t].key.name]
        PROVE  i \in new.skipped
    <3>1. /\ Topic(tasks[t].key) = Hub /\ Ring(Hub) = 1 .. Version(Hub)
          /\ Version(Hub) \in Nat /\ tasks[t].next \in Nat \ {0}
      BY <1>1, <2>2, HubFact
    <3>2. i \in Ring(Hub) /\ i >= tasks[t].next /\ i < next
      BY <2>1, <2>2, <3>1
    <3> QED BY <2>1, <2>2, <3>1, <3>2 DEF Wanted
  <2> QED BY <1>3, <2>1, <2>2
<1>6. CASE ResyncRead(t)
  <2>1. PICK new \in TaskStates : /\ Moves(t, new, {}) /\ new.next = tasks[t].next
                                  /\ new.skipped = tasks[t].skipped
    BY <1>6, ResyncReadFact
  <2>2. tasks[t].next \in Nat
    BY <1>1 DEF TaskStates
  <2>3. \A i \in tasks[t].next .. new.next - 1 : FALSE
    BY <2>1, <2>2
  <2> QED BY <1>3, <2>1, <2>3
<1>7. CASE ResyncSend(t)
  <2>1. PICK new \in TaskStates :
          /\ Moves(t, new, IF open THEN {SnapshotOf(t)} ELSE {}) /\ new.next = tasks[t].next
          /\ new.skipped = tasks[t].skipped
    BY <1>7, ResyncSendFact
  <2>2. tasks[t].next \in Nat
    BY <1>1 DEF TaskStates
  <2>3. \A i \in tasks[t].next .. new.next - 1 : FALSE
    BY <2>1, <2>2
  <2>4. SnapshotOf(t) \in Messages
    <3>1. Topic(tasks[t].key) \in Topics
      BY <1>1, PendingFact
    <3> QED BY <1>1, <3>1 DEF SnapshotOf, Messages, TaskStates
  <2>5. \A m \in IF open THEN {SnapshotOf(t)} ELSE {} : m \in Messages
    BY <2>4
  <2> QED BY <1>3, <2>1, <2>3, <2>5
<1> QED BY <1>4, <1>5, <1>6, <1>7 DEF TaskStep

LEMMA UserPublish ==
  ASSUME Typed, Publishes, \A u \in Tasks : UserTold(u)
  PROVE  \A u \in Tasks : UserTold(u)'
<1>1. UNCHANGED <<tasks, outbound, heard>>
  BY DEF Publishes
<1>2. ASSUME NEW u \in Tasks, Running(u), tasks[u].key.channel = "user",
             NEW i \in tasks[u].from .. tasks[u].next - 1
      PROVE  log'[Hub][i] = log[Hub][i]
  <2>1. Hub \in Topics /\ Version(Hub) \in Nat /\ tasks[u].next \in Nat \ {0}
        /\ tasks[u].from \in Nat \ {0} /\ tasks[u].next <= Version(Hub) + 1
    BY <1>2, HubFact
  <2>2. i \in 1 .. Version(Hub)
    BY <2>1
  <2> QED BY <2>1, <2>2, PublishRing
<1> QED BY <1>1, <1>2 DEF UserTold, Running, Hears

LEMMA UserCalm ==
  ASSUME Typed, \A u \in Tasks : UserTold(u),
         Spawns \/ (\E keys \in SUBSET Keys : Unsubscribe(keys)) \/ (\E r \in Tasks : Reap(r))
  PROVE  \A u \in Tasks : UserTold(u)'
<1>1. UNCHANGED <<log, open, outbound, copy, heard>>
  BY CalmSteps
<1>2. ASSUME NEW u \in Tasks, Running(u)', tasks'[u].key.channel = "user",
             NEW i \in tasks'[u].from .. tasks'[u].next - 1,
             Folded[log[Hub][i]] = Folded[tasks'[u].key.name], i \notin tasks'[u].skipped
      PROVE  Hears(i)
  <2>1. CASE Dims(tasks[u], tasks'[u])
    <3>1. /\ Running(u) /\ tasks'[u].key = tasks[u].key /\ tasks'[u].next = tasks[u].next
          /\ tasks'[u].from = tasks[u].from /\ tasks'[u].skipped = tasks[u].skipped
      BY <1>2, <2>1, DimsFact
    <3> QED BY <1>2, <3>1 DEF UserTold
  <2>2. CASE ~Dims(tasks[u], tasks'[u])
    <3>1. tasks'[u] \in TaskStates /\ tasks'[u].from = tasks'[u].next
      BY <2>2, CalmSteps
    <3>2. tasks'[u].from \in Nat
      BY <3>1 DEF TaskStates
    <3> QED BY <1>2, <3>1, <3>2
  <2> QED BY <2>1, <2>2
<1> QED BY <1>1, <1>2 DEF UserTold, Hears

LEMMA UserDeliver ==
  ASSUME Typed, Deliver, \A u \in Tasks : UserTold(u)
  PROVE  \A u \in Tasks : UserTold(u)'
<1>1. /\ UNCHANGED <<log, tasks>> /\ heard \subseteq heard'
      /\ outbound[1].kind = "user" => outbound[1].version \in heard'
  BY DeliverFact
<1>2. \A i : Hears(i) => Hears(i)'
  BY <1>1, DeliverOut DEF Hears
<1> QED BY <1>1, <1>2 DEF UserTold, Running

UserHeard == open => \A u \in Tasks : UserTold(u)

LEMMA UserInit == Init => UserHeard
BY DEF Init, UserHeard, UserTold, Running, NoTask

\* No step opens a connection that is closed.
LEMMA StaysClosed ==
  ASSUME Typed, [Next]_vars, open'
  PROVE  open
<1>1. CASE UNCHANGED vars
  BY <1>1 DEF vars
<1>2. CASE \E t \in Tasks : TaskStep(t)
  BY <1>2 DEF TaskStep, Forward, Lag, ResyncRead, ResyncSend, othersOfTask
<1>3. CASE Publishes
  BY <1>3 DEF Publishes
<1>4. CASE Close
  BY <1>4 DEF Close
<1>5. CASE SendSnapshot \/ Deliver
  BY <1>5 DEF SendSnapshot, Deliver
<1>6. CASE Spawns \/ (\E keys \in SUBSET Keys : Unsubscribe(keys)) \/ (\E r \in Tasks : Reap(r))
  BY <1>6, CalmSteps
<1> QED BY <1>1, <1>2, <1>3, <1>4, <1>5, <1>6, StepKinds

LEMMA UserInv ==
  ASSUME Typed, UserHeard, [Next]_vars
  PROVE  UserHeard'
<1> SUFFICES ASSUME open' PROVE \A u \in Tasks : UserTold(u)'
  BY DEF UserHeard
<1>1. open /\ \A u \in Tasks : UserTold(u)
  BY StaysClosed DEF UserHeard
<1>2. CASE UNCHANGED vars
  BY <1>1, <1>2 DEF vars, clientVars, UserTold, Hears, Running
<1>3. CASE \E t \in Tasks : TaskStep(t)
  BY <1>1, <1>3, UserTaskStep
<1>4. CASE Publishes
  BY <1>1, <1>4, UserPublish
<1>5. CASE Close
  BY <1>5 DEF Close
<1>6. CASE SendSnapshot
  BY <1>1, <1>6 DEF SendSnapshot, UserTold, Hears, Running
<1>7. CASE Deliver
  BY <1>1, <1>7, UserDeliver
<1>8. CASE Spawns \/ (\E keys \in SUBSET Keys : Unsubscribe(keys)) \/ (\E r \in Tasks : Reap(r))
  BY <1>1, <1>8, UserCalm
<1> QED BY <1>2, <1>3, <1>4, <1>5, <1>6, <1>7, <1>8, StepKinds

\* Each message for a subscribed user that the task has passed has reached the
\* client or is on its way, unless the task lagged (session.rs:103-125).
THEOREM WsUserHears == Spec => []UserHears
<1>1. UserHeard => UserHears
  BY DEF UserHeard, UserTold, UserHears, Hears
<1> QED BY <1>1, TypedInit, TypedInv, UserInit, UserInv, PTL DEF Spec

---------------------------------------------------------------------------
(* Quotes.                                                                 *)

Quoted(s, i) ==
  \/ i <= copy["quote"][s]
  \/ \E k \in DOMAIN outbound : /\ outbound[k].kind = "quote" /\ outbound[k].topic = s
                                /\ i <= outbound[k].version

QuoteTold(t) ==
  Running(t) /\ tasks[t].key.channel = "quote" /\ Pending(t) = {} =>
    \A i \in Ring(Topic(tasks[t].key)) : Quoted(Topic(tasks[t].key), i) \/ i \in Unseen(t)

QuoteCurrent == open => \A u \in Tasks : QuoteTold(u)

LEMMA BookTaskFact ==
  ASSUME Typed, NEW t \in Tasks, Running(t), tasks[t].key.channel \in BookChannels
  PROVE  LET s == Topic(tasks[t].key)
         IN /\ s \in Spots /\ s \in Topics /\ Version(s) \in Nat
            /\ Ring(s) \subseteq 1 .. Version(s)
            /\ DOMAIN log[s] = 1 .. Version(s) /\ copy[tasks[t].key.channel][s] \in Nat
            /\ tasks[t].next \in Nat \ {0} /\ tasks[t].from \in Nat \ {0} /\ tasks[t].sent \in Nat
            /\ tasks[t].from <= tasks[t].next /\ tasks[t].next <= Version(s) + 1
            /\ tasks[t].sent <= copy[tasks[t].key.channel][s]
<1>1. tasks[t] \in TaskStates /\ SoundTask(t) /\ tasks[t].key \in Keys
      /\ tasks[t].next <= Version(Topic(tasks[t].key)) + 1
  BY TaskFact
<1>2. Topic(tasks[t].key) \in Spots /\ Topic(tasks[t].key) \in Topics
  BY <1>1, TopicFact
<1>3. copy \in [BookChannels -> [Spots -> Nat]]
  BY TypedParts DEF ClientTyped
<1> QED BY <1>1, <1>2, <1>3, LogFact DEF Typed, TaskStates, SoundTask

LEMMA QuotePublish ==
  ASSUME Typed, Publishes, \A u \in Tasks : QuoteTold(u)
  PROVE  \A u \in Tasks : QuoteTold(u)'
<1>1. UNCHANGED <<tasks, outbound, copy>>
  BY DEF Publishes
<1>2. ASSUME NEW u \in Tasks, Running(u), tasks[u].key.channel = "quote", Pending(u)' = {},
             NEW i \in Ring(Topic(tasks[u].key))'
      PROVE  Quoted(Topic(tasks[u].key), i) \/ i \in Unseen(u)
  <2>1. PICK s \in Topics : s = Topic(tasks[u].key)
    BY <1>2, BookTaskFact DEF BookChannels
  <2>2. Version(s) \in Nat /\ tasks[u].next \in Nat /\ tasks[u].next <= Version(s) + 1
    BY <1>2, <2>1, BookTaskFact DEF BookChannels
  <2>3. Ring(s) \subseteq Ring(s)' /\ \A j \in Ring(s)' : j \in Ring(s) \/ j = Version(s) + 1
    BY PublishRing
  <2>4. Topic(tasks[u].key)' = s
    BY <1>1, <2>1 DEF Topic
  <2>5. i \in Ring(s)' /\ Pending(u)' = {j \in Ring(s)' : j >= tasks[u].next}
    BY <1>1, <1>2, <2>4 DEF Pending, Ring
  <2>6. i \in Ring(s)
    BY <1>2, <2>2, <2>3, <2>5
  <2>7. Pending(u) = {}
    BY <1>2, <2>1, <2>3, <2>5 DEF Pending
  <2> QED BY <1>2, <2>1, <2>6, <2>7 DEF QuoteTold
<1> QED BY <1>1, <1>2 DEF QuoteTold, Running, Quoted, Unseen, Topic

LEMMA QuoteCalm ==
  ASSUME Typed, \A u \in Tasks : QuoteTold(u),
         Spawns \/ (\E keys \in SUBSET Keys : Unsubscribe(keys)) \/ (\E r \in Tasks : Reap(r))
  PROVE  \A u \in Tasks : QuoteTold(u)'
<1>1. UNCHANGED <<log, open, outbound, copy, heard>>
  BY CalmSteps
<1>2. \A q : Ring(q)' = Ring(q) /\ \A i : Quoted(q, i)' <=> Quoted(q, i)
  BY <1>1 DEF Ring, Quoted
<1>3. ASSUME NEW u \in Tasks, Running(u)', tasks'[u].key.channel = "quote", Pending(u)' = {},
             NEW i \in Ring(Topic(tasks'[u].key))
      PROVE  Quoted(Topic(tasks'[u].key), i) \/ i \in Unseen(u)'
  <2>1. CASE Dims(tasks[u], tasks'[u])
    <3>1. /\ Running(u) /\ tasks'[u].key = tasks[u].key /\ tasks'[u].next = tasks[u].next
          /\ tasks'[u].from = tasks[u].from /\ tasks'[u].sent = tasks[u].sent
      BY <1>3, <2>1, DimsFact
    <3>2. Pending(u)' = Pending(u) /\ Unseen(u)' = Unseen(u)
      BY <1>2, <3>1 DEF Pending, Unseen, Topic
    <3> QED BY <1>3, <3>1, <3>2 DEF QuoteTold
  <2>2. CASE ~Dims(tasks[u], tasks'[u])
    <3> DEFINE s == Topic(tasks'[u].key)
    <3>1. /\ tasks'[u] \in TaskStates /\ tasks'[u].from = tasks'[u].next
          /\ tasks'[u].next = Version(s) + 1 /\ tasks'[u].sent <= copy["quote"][s]
      BY <1>3, <2>2, CalmSteps DEF BookChannels
    <3>2. tasks'[u].sent \in Nat /\ tasks'[u].key \in Keys
      BY <3>1 DEF TaskStates
    <3>3. s \in Spots /\ s \in Topics
      BY <1>3, <3>2, TopicFact DEF BookChannels
    <3>4. Version(s) \in Nat /\ i \in 1 .. Version(s)
      BY <1>3, <3>3, LogFact DEF Typed
    <3>5. copy["quote"][s] \in Nat
      BY <3>3, TypedParts DEF ClientTyped, BookChannels
    <3>6. Unseen(u)' = tasks'[u].sent + 1 .. Version(s)
      BY <3>1, <3>4 DEF Unseen
    <3>7. i <= copy["quote"][s] \/ i \in Unseen(u)'
      BY <3>1, <3>2, <3>4, <3>5, <3>6
    <3> QED BY <3>7 DEF Quoted
  <2> QED BY <2>1, <2>2
<1>4. \A u \in Tasks : Topic(tasks[u].key)' = Topic(tasks'[u].key)
  BY DEF Topic
<1> QED BY <1>2, <1>3, <1>4 DEF QuoteTold

LEMMA QuoteGrows ==
  ASSUME Typed, UNCHANGED <<log, tasks>>, \A u \in Tasks : QuoteTold(u),
         \A s \in Spots, i \in Nat : Quoted(s, i) => Quoted(s, i)'
  PROVE  \A u \in Tasks : QuoteTold(u)'
<1>1. \A u \in Tasks : Running(u)' = Running(u) /\ Topic(tasks[u].key)' = Topic(tasks[u].key)
                       /\ Pending(u)' = Pending(u) /\ Unseen(u)' = Unseen(u)
  BY DEF Running, Topic, Pending, Unseen, Ring
<1>2. \A q : Ring(q)' = Ring(q)
  BY DEF Ring
<1>3. ASSUME NEW u \in Tasks, Running(u), tasks[u].key.channel = "quote"
      PROVE  Topic(tasks[u].key) \in Spots /\ Ring(Topic(tasks[u].key)) \subseteq Nat
  <2>1. "quote" \in BookChannels
    BY DEF BookChannels
  <2> DEFINE s == Topic(tasks[u].key)
  <2>2. s \in Spots /\ Ring(s) \subseteq 1 .. Version(s) /\ Version(s) \in Nat
    BY <1>3, <2>1, BookTaskFact
  <2> HIDE DEF s
  <2>3. Ring(s) \subseteq Nat
    BY <2>2
  <2> QED BY <2>2, <2>3 DEF s
<1>4. ASSUME NEW u \in Tasks, QuoteTold(u) PROVE QuoteTold(u)'
  <2>1. CASE Running(u) /\ tasks[u].key.channel = "quote"
    BY <1>1, <1>2, <1>3, <1>4, <2>1 DEF QuoteTold
  <2>2. CASE ~(Running(u) /\ tasks[u].key.channel = "quote")
    BY <1>1, <2>2 DEF QuoteTold
  <2> QED BY <2>1, <2>2
<1> QED BY <1>4

LEMMA QuoteDeliver ==
  ASSUME Typed, Deliver, \A u \in Tasks : QuoteTold(u)
  PROVE  \A u \in Tasks : QuoteTold(u)'
<1>1. UNCHANGED <<log, tasks>> /\ outbound[1] \in Messages
  BY DeliverFact
<1>2. ASSUME NEW s \in Spots, NEW i \in Nat, Quoted(s, i) PROVE Quoted(s, i)'
  <2> DEFINE a == copy["quote"][s]
             b == copy'["quote"][s]
             v == outbound[1].version
  <2>1. a \in Nat /\ b \in Nat /\ v \in Nat /\ a <= b
    BY <1>1, CopyGrows, DeliverFact DEF Messages, BookChannels
  <2>2. outbound[1].kind = "quote" /\ outbound[1].topic = s => b >= v
    <3>1. outbound[1].kind = "quote" /\ outbound[1].topic = s => b = Newer(a, v)
      BY DeliverFact DEF CopyAfter, BookChannels
    <3> HIDE DEF a, b, v
    <3> QED BY <2>1, <3>1, NewerFact
  <2>3. CASE i <= a
    <3> HIDE DEF a, b
    <3>1. i <= b
      BY <2>1, <2>3
    <3> QED BY <3>1 DEF Quoted, b
  <2>4. CASE \E k \in DOMAIN outbound : /\ outbound[k].kind = "quote" /\ outbound[k].topic = s
                                        /\ i <= outbound[k].version
    <3>1. PICK k \in DOMAIN outbound : /\ outbound[k].kind = "quote" /\ outbound[k].topic = s
                                       /\ i <= outbound[k].version
      BY <2>4
    <3>2. CASE k = 1
      <4>1. i <= v /\ b >= v
        BY <2>2, <3>1, <3>2
      <4> HIDE DEF a, b, v
      <4>2. i <= b
        BY <2>1, <4>1
      <4> QED BY <4>2 DEF Quoted, b
    <3>3. CASE k # 1
      BY <3>1, <3>3, DeliverOut DEF Quoted
    <3> QED BY <3>2, <3>3
  <2> QED BY <1>2, <2>3, <2>4 DEF Quoted
<1> QED BY <1>1, <1>2, QuoteGrows

LEMMA QuoteSnapshot ==
  ASSUME Typed, SendSnapshot, \A u \in Tasks : QuoteTold(u)
  PROVE  \A u \in Tasks : QuoteTold(u)'
<1>1. UNCHANGED <<log, tasks, outbound>>
  BY DEF SendSnapshot
<1>2. ASSUME NEW s \in Spots, NEW i \in Nat, Quoted(s, i) PROVE Quoted(s, i)'
  <2> DEFINE a == copy["quote"][s]
             b == copy'["quote"][s]
  <2>1. a <= b
    BY TypedSnapshot DEF BookChannels
  <2>2. a \in Nat /\ b \in Nat
    <3>1. Typed'
      BY TypedSnapshot
    <3> QED BY <3>1 DEF Typed, TypeOK, BookChannels
  <2>3. i <= a => i <= b
    <3> HIDE DEF a, b
    <3> QED BY <2>1, <2>2
  <2> QED BY <1>1, <1>2, <2>3 DEF Quoted
<1> QED BY <1>1, <1>2, QuoteGrows

LEMMA QuoteTaskStep ==
  ASSUME Typed, NEW t \in Tasks, TaskStep(t), open, \A u \in Tasks : QuoteTold(u)
  PROVE  \A u \in Tasks : QuoteTold(u)'
<1>1. Running(t) /\ tasks[t] \in TaskStates /\ DOMAIN tasks = Tasks /\ SoundTask(t)
  BY TaskFact DEF TaskStep, Forward, Lag, ResyncRead, ResyncSend
<1> DEFINE s == Topic(tasks[t].key)
\* It is enough that the step itself keeps the promise of t.
<1>2. ASSUME NEW new, NEW sends, Moves(t, new, sends), \A m \in sends : m \in Messages,
             tasks[t].key.channel = "quote" =>
               \/ \E i \in Ring(s) : i >= new.next
               \/ \A i \in Ring(s) : \E m \in sends : /\ m.kind = "quote" /\ m.topic = s
                                                      /\ i <= m.version
      PROVE  \A u \in Tasks : QuoteTold(u)'
  <2>1. /\ tasks'[t] = new /\ new.key = tasks[t].key /\ new.from = tasks[t].from
        /\ \A u \in Tasks \ {t} : tasks'[u] = tasks[u]
        /\ log' = log /\ copy' = copy
    BY <1>1, <1>2 DEF Moves, Kept, othersOfTask, clientVars
  <2>2. /\ \A k \in DOMAIN outbound : k \in DOMAIN outbound' /\ outbound'[k] = outbound[k]
        /\ \A m \in sends : \E k \in DOMAIN outbound' : outbound'[k] = m
    BY <1>2, MovesOut
  <2>3. \A q : Ring(q)' = Ring(q) /\ \A i : Quoted(q, i) => Quoted(q, i)'
    BY <2>1, <2>2 DEF Ring, Quoted
  <2>4. ASSUME NEW u \in Tasks, u # t PROVE QuoteTold(u)'
    <3>1. tasks'[u] = tasks[u]
      BY <2>1, <2>4
    <3>2. /\ Running(u)' = Running(u) /\ Topic(tasks[u].key)' = Topic(tasks[u].key)
          /\ Pending(u)' = Pending(u) /\ Unseen(u)' = Unseen(u)
      BY <2>3, <3>1 DEF Running, Topic, Pending, Unseen
    <3> QED BY <2>3, <3>1, <3>2 DEF QuoteTold
  <2>5. QuoteTold(t)'
    <3>0. PICK q : q = s
      OBVIOUS
    <3>1. Topic(tasks[t].key)' = q /\ Ring(Topic(tasks[t].key))' = Ring(q)
      BY <2>1, <2>3, <3>0 DEF Topic
    <3>2. Pending(t)' = {i \in Ring(q) : i >= new.next}
      BY <2>1, <3>1 DEF Pending
    <3>3. ASSUME tasks[t].key.channel = "quote", Pending(t)' = {}, NEW i \in Ring(q)
          PROVE  Quoted(q, i)'
      <4>1. PICK m \in sends : m.kind = "quote" /\ m.topic = q /\ i <= m.version
        BY <1>2, <3>0, <3>2, <3>3
      <4>2. PICK k \in DOMAIN outbound' : outbound'[k] = m
        BY <2>2, <4>1
      <4> QED BY <4>1, <4>2 DEF Quoted
    <3> QED BY <2>1, <3>0, <3>1, <3>3 DEF QuoteTold
  <2> QED BY <2>4, <2>5
<1>3. CASE Forward(t)
  <2>1. PICK i \in Pending(t), new \in TaskStates :
          /\ Moves(t, new, IF open /\ Wanted(t, i) THEN {Announced(t, i)} ELSE {})
          /\ new.next = i + 1
    BY <1>3, ForwardFact
  <2>2. /\ Announced(t, i) \in Messages /\ Announced(t, i).version = i
        /\ Announced(t, i).topic = s
        /\ Announced(t, i).kind = "quote" <=> tasks[t].key.channel = "quote"
    BY <1>1, AnnouncedFact
  <2> DEFINE sends == IF open /\ Wanted(t, i) THEN {Announced(t, i)} ELSE {}
  <2>3. \A m \in sends : m \in Messages
    BY <2>2
  <2>4. tasks[t].key.channel = "quote" => Announced(t, i) \in sends
    BY DEF Wanted
  <2>5. Ring(s) \subseteq Nat /\ i \in Nat
    <3>1. s \in Topics /\ i \in Ring(s)
      BY <1>1, PendingFact
    <3> QED BY <3>1, LogFact DEF Typed
  <2>6. \A j \in Ring(s) : j >= new.next \/ j <= i
    BY <2>1, <2>5
  <2> HIDE DEF sends, s
  <2>7. tasks[t].key.channel = "quote" =>
          \/ \E j \in Ring(s) : j >= new.next
          \/ \A j \in Ring(s) : \E m \in sends : m.kind = "quote" /\ m.topic = s /\ j <= m.version
    BY <2>2, <2>4, <2>6
  <2>8. Moves(t, new, sends)
    BY <2>1 DEF sends
  <2> QED BY <1>2, <2>3, <2>7, <2>8
<1>4. CASE Lag(t)
  <2>1. PICK next \in Ring(s), new \in TaskStates : Moves(t, new, {}) /\ new.next = next
    BY <1>4, LagFact
  <2>2. next \in Nat
    <3>1. s \in Topics
      BY <1>1, PendingFact
    <3> QED BY <3>1, LogFact DEF Typed
  <2>3. \E i \in Ring(s) : i >= new.next
    BY <2>1, <2>2
  <2> QED BY <1>2, <2>1, <2>3
<1>5. CASE ResyncRead(t)
  <2>1. PICK new \in TaskStates : Moves(t, new, {}) /\ tasks[t].stage = "lagged"
    BY <1>5, ResyncReadFact
  <2>2. tasks[t].key.channel = "orderbook_delta"
    BY <1>1, <2>1 DEF SoundTask
  <2> QED BY <1>2, <2>1, <2>2
<1>6. CASE ResyncSend(t)
  <2>1. PICK new \in TaskStates : /\ Moves(t, new, IF open THEN {SnapshotOf(t)} ELSE {})
                                  /\ tasks[t].stage = "resyncing"
    BY <1>6, ResyncSendFact
  <2>2. tasks[t].key.channel = "orderbook_delta"
    BY <1>1, <2>1 DEF SoundTask
  <2>3. SnapshotOf(t) \in Messages
    <3>1. Topic(tasks[t].key) \in Topics
      BY <1>1, PendingFact
    <3> QED BY <1>1, <3>1 DEF SnapshotOf, Messages, TaskStates
  <2>4. \A m \in IF open THEN {SnapshotOf(t)} ELSE {} : m \in Messages
    BY <2>3
  <2> QED BY <1>2, <2>1, <2>2, <2>4
<1> QED BY <1>3, <1>4, <1>5, <1>6 DEF TaskStep

LEMMA QuoteInit == Init => QuoteCurrent
BY DEF Init, QuoteCurrent, QuoteTold, Running, NoTask

LEMMA QuoteInv ==
  ASSUME Typed, QuoteCurrent, [Next]_vars
  PROVE  QuoteCurrent'
<1> SUFFICES ASSUME open' PROVE \A u \in Tasks : QuoteTold(u)'
  BY DEF QuoteCurrent
<1>1. open /\ \A u \in Tasks : QuoteTold(u)
  BY StaysClosed DEF QuoteCurrent
<1>2. CASE UNCHANGED vars
  <2>1. UNCHANGED <<log, tasks>> /\ \A s, i : Quoted(s, i)' <=> Quoted(s, i)
    BY <1>2 DEF vars, clientVars, Quoted
  <2> QED BY <1>1, <2>1, QuoteGrows
<1>3. CASE \E t \in Tasks : TaskStep(t)
  BY <1>1, <1>3, QuoteTaskStep
<1>4. CASE Publishes
  BY <1>1, <1>4, QuotePublish
<1>5. CASE Close
  BY <1>5 DEF Close
<1>6. CASE SendSnapshot
  BY <1>1, <1>6, QuoteSnapshot
<1>7. CASE Deliver
  BY <1>1, <1>7, QuoteDeliver
<1>8. CASE Spawns \/ (\E keys \in SUBSET Keys : Unsubscribe(keys)) \/ (\E r \in Tasks : Reap(r))
  BY <1>1, <1>8, QuoteCalm
<1> QED BY <1>2, <1>3, <1>4, <1>5, <1>6, <1>7, <1>8, StepKinds

\* A client with all that a subscription of a quote forwards lacks at most
\* what was written between its snapshot and its subscription, although a
\* quote task that lags skips quotes (quote.rs:31-39, session.rs:80-95).
THEOREM WsQuoteIsCurrent == Spec => []QuoteIsCurrent
<1>1. ASSUME Typed, QuoteCurrent PROVE QuoteIsCurrent
  <2> SUFFICES ASSUME open, NEW t \in Tasks, Drained(t), tasks[t].key.channel = "quote",
                      NEW i \in copy["quote"][Topic(tasks[t].key)] + 1
                                  .. Version(Topic(tasks[t].key))
               PROVE  log[Topic(tasks[t].key)][i] = "hydration" \/ i \in Unseen(t)
    BY Zenon DEF QuoteIsCurrent
  <2> DEFINE s == Topic(tasks[t].key)
  <2>1. Running(t) /\ Pending(t) = {} /\ outbound = <<>> /\ QuoteTold(t)
    BY <1>1 DEF Drained, QuoteCurrent
  <2>2. /\ s \in Spots /\ s \in Topics /\ Version(s) \in Nat /\ copy["quote"][s] \in Nat
        /\ DOMAIN log[s] = 1 .. Version(s)
    BY <1>1, <2>1, BookTaskFact DEF BookChannels
  <2>3. i \in 1 .. Version(s) /\ ~(i <= copy["quote"][s])
    BY <2>2
  <2>4. log[s][i] \in {"event", "hydration"}
    BY <1>1, <2>2, <2>3, LogFact DEF Typed
  <2>5. ~Quoted(s, i)
    <3>1. DOMAIN outbound = {}
      BY <2>1
    <3> QED BY <2>3, <3>1 DEF Quoted
  <2>6. log[s][i] = "event" => i \in Ring(s)
    BY <2>2, <2>3 DEF Ring
  <2> QED BY <2>1, <2>4, <2>5, <2>6 DEF QuoteTold
<1> QED BY <1>1, TypedInit, TypedInv, QuoteInit, QuoteInv, PTL DEF Spec

---------------------------------------------------------------------------
(* Books.                                                                  *)

Deltas(s) == {k \in DOMAIN outbound : outbound[k].kind = "delta" /\ outbound[k].topic = s}
Snapshots(s) == {k \in DOMAIN outbound : outbound[k].kind = "snapshot" /\ outbound[k].topic = s}

\* The only task of a book sends its deltas in their order, and a snapshot
\* that covers those before it.
InOrder(s, from, next) ==
  /\ \A k \in Deltas(s) : outbound[k].version < next
  /\ \A k \in Deltas(s) : outbound[k].version >= from =>
       /\ \A l \in Deltas(s) : k < l => outbound[k].version < outbound[l].version
       /\ \A l \in Snapshots(s) : k < l => outbound[k].version <= outbound[l].version

\* A version before v that the client cannot get.
Gap(s, from, v) ==
  /\ Snapshots(s) = {}
  /\ \E g \in copy["orderbook_delta"][s] + 1 .. v - 1 :
       \/ g \notin Ring(s)
       \/ g < from /\ \A k \in Deltas(s) : outbound[k].version # g

Due(s, from, v) ==
  \/ \E k \in Deltas(s) : outbound[k].version = v
  \/ \E k \in Snapshots(s) : v <= outbound[k].version
  \/ Gap(s, from, v)

Owed(s, from, next) ==
  \A v \in Ring(s) : copy["orderbook_delta"][s] < v /\ from <= v /\ v < next => Due(s, from, v)

BookTask(t) == Running(t) /\ tasks[t].key.channel = "orderbook_delta" /\ ~tasks[t].shared

BookPromise(t, s) ==
  /\ InOrder(s, tasks[t].from, tasks[t].next)
  /\ tasks[t].stage = "resyncing" => tasks[t].next <= tasks[t].version + 1
  /\ tasks[t].stage = "receiving" => Owed(s, tasks[t].from, tasks[t].next)

BookTold(t) == BookTask(t) => BookPromise(t, Topic(tasks[t].key))

Peer(t, u) == /\ Running(t) /\ Running(u) /\ tasks[t].key.channel = tasks[u].key.channel
              /\ Topic(tasks[t].key) = Topic(tasks[u].key)

Apart == \A t, u \in Tasks : t # u /\ Peer(t, u) => tasks[t].shared

BookCurrent == open => Apart /\ \A t \in Tasks : BookTold(t)

LEMMA BookOut ==
  ASSUME Typed, NEW s \in Spots
  PROVE  /\ s \in Topics /\ Version(s) \in Nat /\ copy["orderbook_delta"][s] \in Nat
         /\ Ring(s) \subseteq 1 .. Version(s) /\ Ring(s) \subseteq Nat
         /\ Deltas(s) \subseteq Nat /\ Snapshots(s) \subseteq Nat
         /\ \A k \in Deltas(s) : outbound[k].version \in Ring(s) /\ outbound[k].version \in Nat
         /\ \A k \in Snapshots(s) : outbound[k].version \in Nat
<1>1. s \in Topics /\ copy["orderbook_delta"][s] \in Nat
  BY TypedParts DEF Topics, ClientTyped, BookChannels
<1>2. Version(s) \in Nat /\ Ring(s) \subseteq 1 .. Version(s) /\ Ring(s) \subseteq Nat
  BY <1>1, LogFact DEF Typed
<1>3. DOMAIN outbound \subseteq Nat
  BY OutFact
<1>4. \A k \in Deltas(s) : outbound[k].version \in Ring(s)
  BY OutFact DEF Deltas, SoundMessage
<1>5. \A k \in DOMAIN outbound : outbound[k].version \in Nat
  BY OutFact DEF Messages
<1> QED BY <1>1, <1>2, <1>3, <1>4, <1>5 DEF Deltas, Snapshots

\* Steps that send nothing about the book of s.
LEMMA BookQuiet ==
  ASSUME NEW s \in Spots, Typed, Deltas(s)' = Deltas(s), Snapshots(s)' = Snapshots(s),
         \A k \in Deltas(s) \cup Snapshots(s) : outbound'[k] = outbound[k],
         NEW from \in Nat, NEW next \in Nat, InOrder(s, from, next)
  PROVE  /\ InOrder(s, from, next)'
         /\ /\ Owed(s, from, next) /\ Version(s) \in Nat
            /\ \A v \in Nat : v < next => (v \in Ring(s)' <=> v \in Ring(s))
            /\ Ring(s)' \subseteq Nat
            /\ copy'["orderbook_delta"][s] = copy["orderbook_delta"][s]
            => Owed(s, from, next)'
<1>1. InOrder(s, from, next)'
  BY DEF InOrder
<1>2. ASSUME Owed(s, from, next), \A v \in Nat : v < next => (v \in Ring(s)' <=> v \in Ring(s)),
             Ring(s)' \subseteq Nat, copy'["orderbook_delta"][s] = copy["orderbook_delta"][s]
      PROVE  Owed(s, from, next)'
  <2>1. ASSUME NEW v \in Ring(s)', copy["orderbook_delta"][s] < v, from <= v, v < next
        PROVE  Due(s, from, v)'
    <3>1. v \in Nat /\ v \in Ring(s)
      BY <1>2, <2>1
    <3>2. Due(s, from, v)
      BY <1>2, <2>1, <3>1 DEF Owed
    <3>3. CASE \E k \in Deltas(s) : outbound[k].version = v
      BY <3>3 DEF Due
    <3>4. CASE \E k \in Snapshots(s) : v <= outbound[k].version
      BY <3>4 DEF Due
    <3>5. CASE Gap(s, from, v)
      <4>1. PICK g \in copy["orderbook_delta"][s] + 1 .. v - 1 :
              \/ g \notin Ring(s)
              \/ g < from /\ \A k \in Deltas(s) : outbound[k].version # g
        BY <3>5 DEF Gap
      <4>2. g \in Nat /\ g < next
        BY <2>1, <3>1, <4>1, BookOut
      <4>3. g \notin Ring(s) => g \notin Ring(s)'
        BY <1>2, <4>2
      <4>4. Gap(s, from, v)'
        BY <1>2, <3>5, <4>1, <4>3 DEF Gap
      <4> QED BY <4>4 DEF Due
    <3> QED BY <3>2, <3>3, <3>4, <3>5 DEF Due
  <2> QED BY <1>2, <2>1 DEF Owed
<1> QED BY <1>1, <1>2

\* The client takes the first message.
LEMMA BookDeliver ==
  ASSUME Typed, Deliver, NEW s \in Spots, NEW from \in Nat, NEW next \in Nat,
         InOrder(s, from, next)
  PROVE  InOrder(s, from, next)' /\ (Owed(s, from, next) => Owed(s, from, next)')
<1> DEFINE d == copy["orderbook_delta"][s]
           e == copy'["orderbook_delta"][s]
           m == outbound[1]
<1>1. /\ \A k \in Deltas(s) : k = 1 \/ (k - 1 \in Deltas(s)' /\ outbound'[k - 1] = outbound[k])
      /\ \A k \in Snapshots(s) :
           k = 1 \/ (k - 1 \in Snapshots(s)' /\ outbound'[k - 1] = outbound[k])
      /\ \A k \in Deltas(s)' : k + 1 \in Deltas(s) /\ outbound'[k] = outbound[k + 1]
      /\ \A k \in Snapshots(s)' : k + 1 \in Snapshots(s) /\ outbound'[k] = outbound[k + 1]
  BY DeliverOut DEF Deltas, Snapshots
<1>2. /\ Ring(s)' = Ring(s) /\ Ring(s) \subseteq Nat /\ d \in Nat
      /\ Deltas(s) \subseteq Nat /\ Snapshots(s) \subseteq Nat
      /\ Deltas(s)' \subseteq Nat \ {0} /\ Snapshots(s)' \subseteq Nat \ {0}
      /\ \A k \in Deltas(s) \cup Snapshots(s) : outbound[k].version \in Nat /\ k >= 1
      /\ 1 \in DOMAIN outbound
  <2>1. Ring(s)' = Ring(s)
    BY DeliverFact DEF Ring
  <2>2. DOMAIN outbound = 1 .. Len(outbound) /\ DOMAIN outbound' = 1 .. Len(outbound')
    BY OutFact, DeliverFact, LenProperties
  <2>3. Len(outbound) \in Nat /\ Len(outbound') \in Nat
    BY OutFact, DeliverFact, LenProperties
  <2>4. DOMAIN outbound \subseteq Nat \ {0} /\ DOMAIN outbound' \subseteq Nat \ {0}
    BY <2>2, <2>3
  <2> QED BY <2>1, <2>4, BookOut, DeliverOut DEF Deltas, Snapshots
<1>3. /\ m.kind = "snapshot" /\ m.topic = s => 1 \in Snapshots(s) /\ e = Newer(d, m.version)
      /\ m.kind = "delta" /\ m.topic = s =>
           1 \in Deltas(s) /\ e = IF m.version = d + 1 THEN m.version ELSE d
      /\ m.kind \notin {"snapshot", "delta"} \/ m.topic # s =>
           e = d /\ 1 \notin Deltas(s) /\ 1 \notin Snapshots(s)
  <2>1. e = CopyAfter(m, "orderbook_delta", s) /\ m \in Messages
    BY DeliverFact DEF BookChannels
  <2>2. m.kind \in {"snapshot", "delta", "quote", "user"}
    BY <2>1 DEF Messages
  <2> QED BY <1>2, <2>1, <2>2 DEF CopyAfter, Deltas, Snapshots
<1> HIDE DEF d, e, m
<1>4. InOrder(s, from, next)'
  <2>1. \A k \in Deltas(s)' : outbound'[k].version < next
    BY <1>1 DEF InOrder
  <2>2. ASSUME NEW k \in Deltas(s)', outbound'[k].version >= from
        PROVE  /\ \A l \in Deltas(s)' : k < l => outbound'[k].version < outbound'[l].version
               /\ \A l \in Snapshots(s)' : k < l => outbound'[k].version <= outbound'[l].version
    <3>1. k + 1 \in Deltas(s) /\ outbound'[k] = outbound[k + 1]
      BY <1>1
    <3>2. \A l \in Deltas(s)' : k < l => k + 1 < l + 1
      BY <1>2
    <3>3. \A l \in Snapshots(s)' : k < l => k + 1 < l + 1
      BY <1>2
    <3> QED BY <1>1, <2>2, <3>1, <3>2, <3>3 DEF InOrder
  <2> QED BY <2>1, <2>2 DEF InOrder
<1>5. ASSUME Owed(s, from, next), NEW v \in Ring(s), e < v, from <= v, v < next
      PROVE  Due(s, from, v)'
  <2>1. v \in Nat
    BY <1>2
  <2>2. d <= e /\ e \in Nat
    <3>1. CASE m.kind = "snapshot" /\ m.topic = s
      <4>1. 1 \in Snapshots(s) /\ e = Newer(d, m.version)
        BY <1>3, <3>1
      <4>2. m.version \in Nat
        BY <1>2, <4>1 DEF m
      <4> QED BY <1>2, <4>1, <4>2, NewerFact
    <3>2. CASE m.kind = "delta" /\ m.topic = s
      BY <1>2, <1>3, <3>2 DEF m
    <3>3. CASE m.kind \notin {"snapshot", "delta"} \/ m.topic # s
      BY <1>2, <1>3, <3>3
    <3> QED BY <3>1, <3>2, <3>3
  <2>3. Due(s, from, v)
    BY <1>2, <1>5, <2>1, <2>2 DEF Owed, d
  <2>4. ASSUME NEW k \in Deltas(s), k # 1, outbound[k].version = v PROVE Due(s, from, v)'
    BY <1>1, <2>4 DEF Due
  <2>5. ASSUME NEW k \in Snapshots(s), k # 1, v <= outbound[k].version PROVE Due(s, from, v)'
    BY <1>1, <2>5 DEF Due
  <2>6. ASSUME NEW g \in e + 1 .. v - 1, Snapshots(s) = {},
               g \notin Ring(s) \/ (g < from /\ \A k \in Deltas(s) \ {1} : outbound[k].version # g)
        PROVE  Due(s, from, v)'
    <3>1. Snapshots(s)' = {}
      BY <1>1, <2>6
    <3>2. (\A k \in Deltas(s) \ {1} : outbound[k].version # g) =>
            \A k \in Deltas(s)' : outbound'[k].version # g
      <4>1. \A k \in Deltas(s)' : k + 1 # 1
        BY <1>2
      <4> QED BY <1>1, <4>1
    <3>3. Gap(s, from, v)'
      BY <1>2, <2>6, <3>1, <3>2 DEF Gap, e
    <3> QED BY <3>3 DEF Due
  <2>7. CASE m.kind = "snapshot" /\ m.topic = s
    <3>1. 1 \in Snapshots(s) /\ m.version < v /\ m.version \in Nat
      <4>1. 1 \in Snapshots(s) /\ e = Newer(d, m.version) /\ m.version \in Nat
        BY <1>2, <1>3, <2>7 DEF m
      <4>2. e >= m.version
        BY <1>2, <4>1, NewerFact
      <4> QED BY <1>5, <2>1, <2>2, <4>1, <4>2
    <3>2. 1 \notin Deltas(s)
      BY <2>7 DEF Deltas, m
    <3>3. ~Gap(s, from, v)
      BY <3>1 DEF Gap
    <3>4. CASE \E k \in Deltas(s) : outbound[k].version = v
      BY <2>4, <3>2, <3>4
    <3>5. CASE \E k \in Snapshots(s) : v <= outbound[k].version
      <4>1. PICK k \in Snapshots(s) : v <= outbound[k].version
        BY <3>5
      <4>2. k # 1
        BY <2>1, <3>1, <4>1 DEF m
      <4> QED BY <2>5, <4>1, <4>2
    <3> QED BY <2>3, <3>3, <3>4, <3>5 DEF Due
  <2>8. CASE m.kind = "delta" /\ m.topic = s
    <3>1. 1 \in Deltas(s) /\ e = (IF m.version = d + 1 THEN m.version ELSE d) /\ m.version \in Nat
          /\ m.version \in Ring(s)
      BY <1>2, <1>3, <2>8, BookOut DEF m
    <3>2. 1 \notin Snapshots(s)
      BY <2>8 DEF Snapshots, m
    <3>3. CASE \E k \in Snapshots(s) : v <= outbound[k].version
      BY <2>5, <3>2, <3>3
    <3>4. CASE Gap(s, from, v)
      <4>1. PICK g \in d + 1 .. v - 1 :
              g \notin Ring(s) \/ (g < from /\ \A k \in Deltas(s) : outbound[k].version # g)
        BY <3>4 DEF Gap, d
      <4>2. g # m.version
        BY <3>1, <4>1 DEF m
      <4>3. g \in e + 1 .. v - 1
        BY <1>2, <2>1, <3>1, <4>1, <4>2
      <4> QED BY <2>6, <3>4, <4>1, <4>3 DEF Gap
    <3>5. CASE \E k \in Deltas(s) : outbound[k].version = v
      <4>1. PICK k \in Deltas(s) : outbound[k].version = v
        BY <3>5
      <4>2. CASE k # 1
        BY <2>4, <4>1, <4>2
      <4>3. CASE k = 1
        \* The client drops the delta v: there is a version between that is
        \* behind a snapshot on its way, or that it cannot get.
        <5>1. m.version = v /\ e = d /\ d + 1 < v
          BY <1>2, <1>5, <2>1, <3>1, <4>1, <4>3 DEF m
        <5>2. CASE Snapshots(s) # {}
          <6>1. PICK l \in Snapshots(s) : TRUE
            BY <5>2
          <6>2. l # 1 /\ 1 < l
            BY <1>2, <3>2, <6>1
          <6>3. v <= outbound[l].version
            BY <1>5, <3>1, <4>1, <4>3, <6>1, <6>2 DEF InOrder
          <6> QED BY <2>5, <6>2, <6>3
        <5>3. CASE Snapshots(s) = {}
          <6>1. \A l \in Deltas(s) \ {1} : v < outbound[l].version
            <7> TAKE l \in Deltas(s) \ {1}
            <7>1. 1 < l
              BY <1>2
            <7> QED BY <1>5, <3>1, <4>1, <4>3, <7>1 DEF InOrder
          <6>2. \A l \in Deltas(s) : outbound[l].version # d + 1
            BY <1>2, <2>1, <4>1, <4>3, <5>1, <6>1
          <6>3. d + 1 \in e + 1 .. v - 1
            BY <1>2, <2>1, <5>1
          <6>4. CASE d + 1 \notin Ring(s) \/ d + 1 < from
            BY <2>6, <5>3, <6>2, <6>3, <6>4
          <6>5. CASE d + 1 \in Ring(s) /\ from <= d + 1
            <7>1. d < d + 1 /\ d + 1 < next
              BY <1>2, <1>5, <2>1, <5>1
            <7>2. Due(s, from, d + 1)
              BY <1>5, <6>5, <7>1 DEF Owed, d
            <7>3. Gap(s, from, d + 1)
              BY <5>3, <6>2, <7>2 DEF Due
            <7>4. d + 1 .. (d + 1) - 1 = {}
              BY <1>2
            <7> QED BY <7>3, <7>4 DEF Gap, d
          <6> QED BY <1>2, <6>4, <6>5
        <5> QED BY <5>2, <5>3
      <4> QED BY <4>2, <4>3
    <3> QED BY <2>3, <3>3, <3>4, <3>5 DEF Due
  <2>9. CASE m.kind \notin {"snapshot", "delta"} \/ m.topic # s
    <3>1. e = d /\ 1 \notin Deltas(s) /\ 1 \notin Snapshots(s)
      BY <1>3, <2>9
    <3>2. CASE Gap(s, from, v)
      BY <2>6, <3>1, <3>2 DEF Gap, d
    <3> QED BY <2>3, <2>4, <2>5, <3>1, <3>2 DEF Due
  <2> QED BY <2>7, <2>8, <2>9
<1> QED BY <1>2, <1>4, <1>5 DEF Owed, e

\* A message joins the channel.
Appends(m) == outbound' = Append(outbound, m)

LEMMA AppendOut ==
  ASSUME Typed, NEW m \in Messages, Appends(m), NEW s \in Spots
  PROVE  \E n \in Nat :
           /\ outbound'[n] = m
           /\ \A k \in Deltas(s) \cup Snapshots(s) : outbound'[k] = outbound[k] /\ k < n
           /\ Deltas(s) \subseteq Deltas(s)' /\ Snapshots(s) \subseteq Snapshots(s)'
           /\ \A k \in Deltas(s)' : k \in Deltas(s) \/ k = n
           /\ \A k \in Snapshots(s)' : k \in Snapshots(s) \/ k = n
           /\ n \in Deltas(s)' <=> m.kind = "delta" /\ m.topic = s
           /\ n \in Snapshots(s)' <=> m.kind = "snapshot" /\ m.topic = s
<1> DEFINE n == Len(outbound) + 1
<1>1. outbound \in Seq(Messages) /\ Len(outbound) \in Nat /\ DOMAIN outbound = 1 .. Len(outbound)
  BY OutFact
<1>2. /\ outbound' \in Seq(Messages) /\ Len(outbound') = n /\ outbound'[n] = m
      /\ \A k \in 1 .. Len(outbound) : outbound'[k] = outbound[k]
  BY <1>1, AppendProperties DEF Appends
<1>3. DOMAIN outbound' = 1 .. n
  BY <1>2, LenProperties
<1>4. DOMAIN outbound' = DOMAIN outbound \cup {n} /\ n \in Nat
  BY <1>1, <1>3
<1>5. \A k \in DOMAIN outbound : outbound'[k] = outbound[k] /\ k < n
  BY <1>1, <1>2
<1> HIDE DEF n
<1>6. /\ Deltas(s) \subseteq Deltas(s)' /\ \A k \in Deltas(s)' : k \in Deltas(s) \/ k = n
      /\ n \in Deltas(s)' <=> m.kind = "delta" /\ m.topic = s
  BY <1>2, <1>4, <1>5 DEF Deltas
<1>7. /\ Snapshots(s) \subseteq Snapshots(s)' /\ \A k \in Snapshots(s)' : k \in Snapshots(s) \/ k = n
      /\ n \in Snapshots(s)' <=> m.kind = "snapshot" /\ m.topic = s
  BY <1>2, <1>4, <1>5 DEF Snapshots
<1>8. \A k \in Deltas(s) \cup Snapshots(s) : outbound'[k] = outbound[k] /\ k < n
  BY <1>5 DEF Deltas, Snapshots
<1> QED BY <1>2, <1>4, <1>6, <1>7, <1>8

\* The delta that is next.
LEMMA BookSendsDelta ==
  ASSUME Typed, NEW s \in Spots, NEW m \in Messages, Appends(m),
         UNCHANGED <<log, copy>>, m.kind = "delta", m.topic = s,
         NEW from \in Nat, NEW next \in Nat, InOrder(s, from, next), Owed(s, from, next),
         m.version >= next, m.version \in Ring(s),
         \A j \in Ring(s) : j >= next => m.version <= j,
         from <= next
  PROVE  InOrder(s, from, m.version + 1)' /\ Owed(s, from, m.version + 1)'
<1> DEFINE i == m.version
<1>1. PICK n \in Nat :
        /\ outbound'[n] = m
        /\ \A k \in Deltas(s) \cup Snapshots(s) : outbound'[k] = outbound[k] /\ k < n
        /\ Deltas(s) \subseteq Deltas(s)' /\ Snapshots(s) \subseteq Snapshots(s)'
        /\ \A k \in Deltas(s)' : k \in Deltas(s) \/ k = n
        /\ \A k \in Snapshots(s)' : k \in Snapshots(s)
        /\ n \in Deltas(s)'
  BY AppendOut
<1>2. /\ Ring(s)' = Ring(s) /\ Ring(s) \subseteq Nat /\ copy["orderbook_delta"][s] \in Nat
      /\ Deltas(s) \subseteq Nat /\ Snapshots(s) \subseteq Nat /\ i \in Nat
      /\ \A k \in Deltas(s) : outbound[k].version \in Nat
  BY BookOut DEF Ring
<1>3. InOrder(s, from, i + 1)'
  <2>1. \A k \in Deltas(s)' : outbound'[k].version < i + 1
    BY <1>1, <1>2 DEF InOrder
  <2>2. ASSUME NEW k \in Deltas(s)', outbound'[k].version >= from
        PROVE  /\ \A l \in Deltas(s)' : k < l => outbound'[k].version < outbound'[l].version
               /\ \A l \in Snapshots(s)' : k < l => outbound'[k].version <= outbound'[l].version
    <3>1. CASE k = n
      BY <1>1, <1>2, <3>1
    <3>2. CASE k # n
      <4>1. k \in Deltas(s) /\ outbound'[k] = outbound[k]
        BY <1>1, <3>2
      <4>2. outbound[k].version < i
        BY <1>2, <4>1 DEF InOrder
      <4> QED BY <1>1, <2>2, <4>1, <4>2 DEF InOrder
    <3> QED BY <3>1, <3>2
  <2> QED BY <2>1, <2>2 DEF InOrder
<1>4. ASSUME NEW v \in Ring(s), copy["orderbook_delta"][s] < v, from <= v, v < i + 1
      PROVE  Due(s, from, v)'
  <2>1. CASE v = i
    BY <1>1, <2>1 DEF Due
  <2>2. CASE v # i
    <3>1. v < next /\ Due(s, from, v)
      BY <1>2, <1>4, <2>2 DEF Owed
    <3>2. CASE Gap(s, from, v)
      <4>1. PICK g \in copy["orderbook_delta"][s] + 1 .. v - 1 :
              \/ g \notin Ring(s)
              \/ g < from /\ \A k \in Deltas(s) : outbound[k].version # g
        BY <3>2 DEF Gap
      <4>2. g < i
        BY <1>2, <1>4, <3>1, <4>1
      <4>3. (\A k \in Deltas(s) : outbound[k].version # g) =>
              \A k \in Deltas(s)' : outbound'[k].version # g
        BY <1>1, <1>2, <4>2
      <4>4. Gap(s, from, v)'
        BY <1>1, <1>2, <3>2, <4>1, <4>3 DEF Gap
      <4> QED BY <4>4 DEF Due
    <3> QED BY <1>1, <3>1, <3>2 DEF Due
  <2> QED BY <2>1, <2>2
<1>5. Owed(s, from, i + 1)'
  BY <1>2, <1>4 DEF Owed
<1> QED BY <1>3, <1>5

\* The snapshot of a resync.
LEMMA BookSendsSnapshot ==
  ASSUME Typed, NEW s \in Spots, NEW m \in Messages, Appends(m),
         UNCHANGED <<log, copy>>, m.kind = "snapshot", m.topic = s,
         NEW from \in Nat, NEW next \in Nat, InOrder(s, from, next), next <= m.version + 1
  PROVE  InOrder(s, from, next)' /\ Owed(s, from, next)'
<1>1. PICK n \in Nat :
        /\ outbound'[n] = m
        /\ \A k \in Deltas(s) \cup Snapshots(s) : outbound'[k] = outbound[k] /\ k < n
        /\ Deltas(s) \subseteq Deltas(s)' /\ Snapshots(s) \subseteq Snapshots(s)'
        /\ \A k \in Deltas(s)' : k \in Deltas(s)
        /\ \A k \in Snapshots(s)' : k \in Snapshots(s) \/ k = n
        /\ n \in Snapshots(s)'
  BY AppendOut
<1>2. /\ Ring(s)' = Ring(s) /\ Ring(s) \subseteq Nat /\ m.version \in Nat
      /\ \A k \in Deltas(s) : outbound[k].version \in Nat
  BY BookOut DEF Ring, Messages
<1>3. \A k \in Deltas(s) : outbound[k].version <= m.version
  BY <1>2 DEF InOrder
<1>4. InOrder(s, from, next)'
  BY <1>1, <1>3 DEF InOrder
<1>5. ASSUME NEW v \in Ring(s), v < next PROVE Due(s, from, v)'
  <2>1. v <= m.version
    BY <1>2, <1>5
  <2> QED BY <1>1, <2>1 DEF Due
<1> QED BY <1>2, <1>4, <1>5 DEF Owed

\* What a task may say to its client.
Speaks(t, m) ==
  /\ m \in Messages /\ m.topic = Topic(tasks[t].key)
  /\ m.kind \in {"delta", "snapshot"} => tasks[t].key.channel = "orderbook_delta"

LEMMA BookMoves ==
  ASSUME Typed, NEW t \in Tasks, NEW new, NEW sends, Moves(t, new, sends),
         \A m \in sends : Speaks(t, m), open, Apart, \A u \in Tasks : BookTold(u),
         BookTask(t) => \A s \in Spots : s = Topic(tasks[t].key) =>
           /\ InOrder(s, new.from, new.next)'
           /\ new.stage = "resyncing" => new.next <= new.version + 1
           /\ new.stage = "receiving" => Owed(s, new.from, new.next)'
  PROVE  Apart' /\ \A u \in Tasks : BookTold(u)'
<1>1. /\ Running(t) /\ tasks[t] \in TaskStates /\ DOMAIN tasks = Tasks
      /\ tasks' = [tasks EXCEPT ![t] = new] /\ Kept(tasks[t], new)
      /\ log' = log /\ copy' = copy /\ new.status = tasks[t].status
  BY TaskFact DEF Moves, othersOfTask, clientVars
<1>2. tasks'[t] = new /\ \A u \in Tasks \ {t} : tasks'[u] = tasks[u]
  BY <1>1
<1>3. \A u \in Tasks : /\ Running(u)' = Running(u) /\ tasks'[u].key = tasks[u].key
                       /\ tasks'[u].shared = tasks[u].shared
                       /\ Topic(tasks[u].key)' = Topic(tasks[u].key)
  BY <1>1, <1>2 DEF Running, Kept, Topic
<1>4. Apart'
  BY <1>3 DEF Apart, Peer
<1>5. ASSUME NEW u \in Tasks, BookTask(u)', NEW s \in Spots, s = Topic(tasks[u].key)
      PROVE  BookPromise(u, s)'
  <2>1. BookTask(u) /\ Running(u)
    BY <1>3, <1>5 DEF BookTask
  <2>2. CASE u = t
    BY <1>2, <1>5, <2>1, <2>2 DEF BookPromise
  <2>3. CASE u # t
    <3>1. tasks[t].key.channel # "orderbook_delta" \/ Topic(tasks[t].key) # s
      BY <1>1, <1>5, <2>1, <2>3 DEF Apart, Peer, BookTask
    <3>2. /\ Deltas(s)' = Deltas(s) /\ Snapshots(s)' = Snapshots(s)
          /\ \A k \in Deltas(s) \cup Snapshots(s) : outbound'[k] = outbound[k]
      <4>1. CASE sends = {}
        BY <4>1 DEF Moves, Deltas, Snapshots
      <4>2. CASE sends # {}
        <5>1. PICK m \in sends : Appends(m)
          BY <4>2 DEF Moves, Appends
        <5>2. m \in Messages /\ (m.kind \notin {"delta", "snapshot"} \/ m.topic # s)
          BY <3>1, <5>1 DEF Speaks
        <5>3. PICK n \in Nat :
                /\ \A k \in Deltas(s) \cup Snapshots(s) : outbound'[k] = outbound[k]
                /\ Deltas(s) \subseteq Deltas(s)' /\ Snapshots(s) \subseteq Snapshots(s)'
                /\ \A k \in Deltas(s)' : k \in Deltas(s) \/ k = n
                /\ \A k \in Snapshots(s)' : k \in Snapshots(s) \/ k = n
                /\ n \in Deltas(s)' <=> m.kind = "delta" /\ m.topic = s
                /\ n \in Snapshots(s)' <=> m.kind = "snapshot" /\ m.topic = s
          BY <5>1, <5>2, AppendOut
        <5> QED BY <5>2, <5>3
      <4> QED BY <4>1, <4>2
    <3>3. PICK from \in Nat, next \in Nat : from = tasks[u].from /\ next = tasks[u].next
      BY <2>1, BookTaskFact DEF BookTask, BookChannels
    <3>4. BookPromise(u, s) /\ InOrder(s, from, next)
      BY <1>5, <2>1, <3>3 DEF BookTold, BookPromise
    <3>5. Ring(s)' = Ring(s) /\ Ring(s) \subseteq Nat /\ Version(s) \in Nat
      BY <1>1, BookOut DEF Ring
    <3>6. InOrder(s, from, next)' /\ (Owed(s, from, next) => Owed(s, from, next)')
      BY <1>1, <3>2, <3>4, <3>5, BookQuiet
    <3>7. tasks'[u] = tasks[u]
      BY <1>2, <2>3
    <3> QED BY <3>3, <3>4, <3>6, <3>7 DEF BookPromise
  <2> QED BY <2>2, <2>3
<1>6. ASSUME NEW u \in Tasks PROVE BookTold(u)'
  <2> SUFFICES ASSUME BookTask(u)' PROVE BookPromise(u, Topic(tasks[u].key))'
    BY DEF BookTold
  <2>1. PICK s \in Spots : s = Topic(tasks[u].key)
    BY <1>3, BookTaskFact DEF BookTask, BookChannels
  <2>2. Topic(tasks[u].key)' = s
    BY <1>3, <2>1
  <2>3. BookPromise(u, s)'
    BY <1>5, <2>1
  <2> QED BY <2>2, <2>3 DEF BookPromise
<1> QED BY <1>4, <1>6

LEMMA BookTaskStep ==
  ASSUME Typed, NEW t \in Tasks, TaskStep(t), open, Apart, \A u \in Tasks : BookTold(u)
  PROVE  Apart' /\ \A u \in Tasks : BookTold(u)'
<1>1. Running(t) /\ tasks[t] \in TaskStates /\ SoundTask(t)
  BY TaskFact DEF TaskStep, Forward, Lag, ResyncRead, ResyncSend
<1>2. PICK from \in Nat, next \in Nat : from = tasks[t].from /\ next = tasks[t].next
  BY <1>1 DEF TaskStates
<1>3. ASSUME BookTask(t), NEW s \in Spots, s = Topic(tasks[t].key)
      PROVE  /\ InOrder(s, from, next)
             /\ tasks[t].stage = "resyncing" => next <= tasks[t].version + 1
             /\ tasks[t].stage = "receiving" => Owed(s, from, next)
             /\ from <= next /\ next <= Version(s) + 1
             /\ \A j \in Ring(s) : j >= next => j \in Pending(t)
             /\ Pending(t) \subseteq Ring(s)
  <2>1. /\ InOrder(s, from, next)
        /\ tasks[t].stage = "resyncing" => next <= tasks[t].version + 1
        /\ tasks[t].stage = "receiving" => Owed(s, from, next)
    BY <1>2, <1>3 DEF BookTold, BookPromise
  <2>2. from <= next /\ next <= Version(s) + 1
    BY <1>1, <1>2, <1>3, BookTaskFact DEF BookTask, BookChannels
  <2>3. Pending(t) = {j \in Ring(s) : j >= next}
    BY <1>2, <1>3 DEF Pending
  <2> QED BY <2>1, <2>2, <2>3
<1>4. CASE Forward(t)
  <2>1. PICK i \in Pending(t), new \in TaskStates :
          /\ \A j \in Pending(t) : i <= j
          /\ Moves(t, new, IF open /\ Wanted(t, i) THEN {Announced(t, i)} ELSE {})
          /\ new.stage = "receiving" /\ new.next = i + 1 /\ tasks[t].stage = "receiving"
    BY <1>4, ForwardFact
  <2>2. PICK m : m = Announced(t, i)
    OBVIOUS
  <2>3. /\ m \in Messages /\ m.version = i /\ m.topic = Topic(tasks[t].key)
        /\ m.kind = "delta" <=> tasks[t].key.channel = "orderbook_delta"
        /\ m.kind # "snapshot"
    BY <1>1, <2>2, AnnouncedFact
  <2> DEFINE sends == IF open /\ Wanted(t, i) THEN {m} ELSE {}
  <2>4. \A x \in sends : Speaks(t, x)
    BY <2>3 DEF Speaks
  <2>5. Moves(t, new, sends)
    BY <2>1, <2>2
  <2>6. new.from = from
    BY <1>2, <2>1 DEF Moves, Kept
  <2>7. ASSUME BookTask(t), NEW s \in Spots, s = Topic(tasks[t].key)
        PROVE  InOrder(s, new.from, new.next)' /\ Owed(s, new.from, new.next)'
    <3>1. tasks[t].key.channel = "orderbook_delta" /\ m.kind = "delta" /\ sends = {m}
      BY <2>3, <2>7 DEF BookTask, Wanted
    <3>2. Appends(m) /\ UNCHANGED <<log, copy>>
      BY <2>5, <3>1 DEF Moves, Appends, othersOfTask, clientVars
    <3>3. /\ InOrder(s, from, next) /\ Owed(s, from, next) /\ from <= next
          /\ m.version \in Ring(s) /\ \A j \in Ring(s) : j >= next => m.version <= j
      BY <1>3, <2>1, <2>3, <2>7
    <3>4. m.version >= next
      <4>1. ~(i < tasks[t].next) /\ i \in Nat
        BY <1>1, PendingFact
      <4> QED BY <1>2, <2>3, <4>1
    <3>5. m.topic = s
      BY <2>3, <2>7
    <3>6. InOrder(s, from, m.version + 1)' /\ Owed(s, from, m.version + 1)'
      BY <2>3, <3>1, <3>2, <3>3, <3>4, <3>5, BookSendsDelta
    <3> QED BY <2>1, <2>3, <2>6, <3>6
  <2> HIDE DEF sends
  <2> QED BY <2>1, <2>4, <2>5, <2>7, BookMoves
<1>5. CASE Lag(t)
  <2>1. PICK new \in TaskStates :
          /\ Moves(t, new, {}) /\ new.next > tasks[t].next
          /\ new.stage = IF tasks[t].key.channel = "orderbook_delta" THEN "lagged" ELSE "receiving"
    BY <1>5, LagFact
  <2>2. new.from = from /\ new.next \in Nat /\ UNCHANGED outbound
    BY <1>2, <2>1 DEF Moves, Kept, TaskStates
  <2>3. ASSUME BookTask(t), NEW s \in Spots, s = Topic(tasks[t].key)
        PROVE  InOrder(s, new.from, new.next)' /\ new.stage = "lagged"
    <3>1. InOrder(s, from, next)
      BY <1>3, <2>3
    <3>2. \A k \in Deltas(s) : outbound[k].version < new.next
      <4>1. \A k \in Deltas(s) : outbound[k].version \in Nat
        BY BookOut
      <4> QED BY <1>2, <2>1, <2>2, <3>1, <4>1 DEF InOrder
    <3>3. Deltas(s)' = Deltas(s) /\ Snapshots(s)' = Snapshots(s)
      BY <2>2 DEF Deltas, Snapshots
    <3> QED BY <2>1, <2>2, <2>3, <3>1, <3>2, <3>3 DEF InOrder, BookTask
  <2> QED BY <2>1, <2>3, BookMoves
<1>6. CASE ResyncRead(t)
  <2>1. PICK new \in TaskStates :
          /\ Moves(t, new, {}) /\ new.next = tasks[t].next
          /\ new.stage = "resyncing" /\ new.version = Version(Topic(tasks[t].key))
    BY <1>6, ResyncReadFact
  <2>2. new.from = from /\ UNCHANGED outbound
    BY <1>2, <2>1 DEF Moves, Kept
  <2>3. ASSUME BookTask(t), NEW s \in Spots, s = Topic(tasks[t].key)
        PROVE  InOrder(s, new.from, new.next)' /\ new.next <= new.version + 1
    <3>1. InOrder(s, from, next) /\ next <= Version(s) + 1
      BY <1>3, <2>3
    <3>2. Deltas(s)' = Deltas(s) /\ Snapshots(s)' = Snapshots(s)
      BY <2>2 DEF Deltas, Snapshots
    <3> QED BY <1>2, <2>1, <2>2, <2>3, <3>1, <3>2 DEF InOrder
  <2> QED BY <2>1, <2>3, BookMoves
<1>7. CASE ResyncSend(t)
  <2>1. PICK new \in TaskStates :
          /\ Moves(t, new, IF open THEN {SnapshotOf(t)} ELSE {}) /\ new.next = tasks[t].next
          /\ new.stage = "receiving" /\ tasks[t].stage = "resyncing"
    BY <1>7, ResyncSendFact
  <2>2. PICK m : m = SnapshotOf(t)
    OBVIOUS
  <2>3. /\ m \in Messages /\ m.version = tasks[t].version /\ m.topic = Topic(tasks[t].key)
        /\ m.kind = "snapshot"
    <3>1. Topic(tasks[t].key) \in Topics
      BY <1>1, PendingFact
    <3> QED BY <1>1, <2>2, <3>1 DEF SnapshotOf, Messages, TaskStates
  <2>4. tasks[t].key.channel = "orderbook_delta"
    BY <1>1, <2>1 DEF SoundTask
  <2>5. Moves(t, new, {m}) /\ Speaks(t, m)
    BY <2>1, <2>2, <2>3, <2>4 DEF Speaks
  <2>6. new.from = from
    BY <1>2, <2>1 DEF Moves, Kept
  <2>7. ASSUME BookTask(t), NEW s \in Spots, s = Topic(tasks[t].key)
        PROVE  InOrder(s, new.from, new.next)' /\ Owed(s, new.from, new.next)'
    <3>1. Appends(m) /\ UNCHANGED <<log, copy>>
      BY <2>5 DEF Moves, Appends, othersOfTask, clientVars
    <3>2. InOrder(s, from, next) /\ next <= m.version + 1 /\ m.topic = s
      BY <1>3, <2>1, <2>3, <2>7
    <3>3. InOrder(s, from, next)' /\ Owed(s, from, next)'
      BY <2>3, <3>1, <3>2, BookSendsSnapshot
    <3> QED BY <1>2, <2>1, <2>6, <3>3
  <2> QED BY <2>1, <2>5, <2>7, BookMoves
<1> QED BY <1>4, <1>5, <1>6, <1>7 DEF TaskStep

\* Steps that leave the tasks alone.
LEMMA BookStill ==
  ASSUME Typed, Apart, \A u \in Tasks : BookTold(u), UNCHANGED tasks,
         \A s \in Spots, from \in Nat, next \in Nat :
           next <= Version(s) + 1 /\ InOrder(s, from, next) =>
             /\ InOrder(s, from, next)'
             /\ Owed(s, from, next) => Owed(s, from, next)'
  PROVE  Apart' /\ \A u \in Tasks : BookTold(u)'
<1>1. Apart'
  BY DEF Apart, Peer, Running, Topic
<1>2. ASSUME NEW u \in Tasks PROVE BookTold(u)'
  <2> SUFFICES ASSUME BookTask(u) PROVE BookPromise(u, Topic(tasks[u].key))'
    BY DEF BookTold, BookTask, Running
  <2>1. PICK s \in Spots, from \in Nat, next \in Nat :
          /\ s = Topic(tasks[u].key) /\ from = tasks[u].from /\ next = tasks[u].next
          /\ next <= Version(s) + 1
    BY BookTaskFact DEF BookTask, BookChannels
  <2>2. BookPromise(u, s)
    BY <2>1 DEF BookTold
  <2>3. InOrder(s, from, next)' /\ (Owed(s, from, next) => Owed(s, from, next)')
    BY <2>1, <2>2 DEF BookPromise
  <2>4. BookPromise(u, s)'
    BY <2>1, <2>2, <2>3 DEF BookPromise
  <2>5. Topic(tasks[u].key)' = s
    BY <2>1 DEF Topic
  <2> QED BY <2>4, <2>5 DEF BookPromise
<1> QED BY <1>1, <1>2

LEMMA BookPublish ==
  ASSUME Typed, Publishes, Apart, \A u \in Tasks : BookTold(u)
  PROVE  Apart' /\ \A u \in Tasks : BookTold(u)'
<1>1. UNCHANGED <<tasks, outbound, copy>>
  BY DEF Publishes
<1>2. ASSUME NEW s \in Spots, NEW from \in Nat, NEW next \in Nat,
             next <= Version(s) + 1, InOrder(s, from, next)
      PROVE  InOrder(s, from, next)' /\ (Owed(s, from, next) => Owed(s, from, next)')
  <2>1. /\ Deltas(s)' = Deltas(s) /\ Snapshots(s)' = Snapshots(s)
        /\ \A k \in Deltas(s) \cup Snapshots(s) : outbound'[k] = outbound[k]
        /\ copy'["orderbook_delta"][s] = copy["orderbook_delta"][s]
    BY <1>1 DEF Deltas, Snapshots
  <2>2. /\ s \in Topics /\ Version(s) \in Nat /\ Ring(s) \subseteq 1 .. Version(s)
        /\ Ring(s) \subseteq Ring(s)' /\ \A j \in Ring(s)' : j \in Ring(s) \/ j = Version(s) + 1
    BY BookOut, PublishRing
  <2>3. Ring(s)' \subseteq Nat /\ \A v \in Nat : v < next => (v \in Ring(s)' <=> v \in Ring(s))
    BY <1>2, <2>2
  <2> QED BY <1>2, <2>1, <2>2, <2>3, BookQuiet
<1> QED BY <1>1, <1>2, BookStill

LEMMA BookSnapshot ==
  ASSUME Typed, SendSnapshot, Apart, \A u \in Tasks : BookTold(u)
  PROVE  Apart' /\ \A u \in Tasks : BookTold(u)'
<1>1. UNCHANGED <<tasks, log, outbound>>
  BY DEF SendSnapshot
<1>2. ASSUME NEW s \in Spots, NEW from \in Nat, NEW next \in Nat,
             next <= Version(s) + 1, InOrder(s, from, next)
      PROVE  InOrder(s, from, next)' /\ (Owed(s, from, next) => Owed(s, from, next)')
  <2>1. /\ Deltas(s)' = Deltas(s) /\ Snapshots(s)' = Snapshots(s) /\ Ring(s)' = Ring(s)
        /\ \A k \in Deltas(s) \cup Snapshots(s) : outbound'[k] = outbound[k]
    BY <1>1 DEF Deltas, Snapshots, Ring
  <2>2. Version(s) \in Nat /\ Ring(s) \subseteq 1 .. Version(s) /\ Ring(s) \subseteq Nat
    BY BookOut
  <2>3. InOrder(s, from, next)'
    BY <1>2, <2>1, BookQuiet
  <2>4. CASE copy'["orderbook_delta"][s] = copy["orderbook_delta"][s]
    BY <1>2, <2>1, <2>2, <2>4, BookQuiet
  <2>5. CASE copy'["orderbook_delta"][s] >= Version(s)
    <3> DEFINE e == copy'["orderbook_delta"][s]
    <3>1. e \in Nat
      <4>1. Typed'
        BY TypedSnapshot
      <4> QED BY <4>1 DEF Typed, TypeOK, BookChannels
    <3>2. e >= Version(s)
      BY <2>5
    <3> HIDE DEF e
    <3>3. \A v \in Ring(s) : ~(e < v)
      BY <2>2, <3>1, <3>2
    <3> QED BY <2>1, <2>3, <3>3 DEF Owed, e
  <2> QED BY <2>4, <2>5, TypedSnapshot DEF BookChannels
<1> QED BY <1>1, <1>2, BookStill

LEMMA BookDelivery ==
  ASSUME Typed, Deliver, Apart, \A u \in Tasks : BookTold(u)
  PROVE  Apart' /\ \A u \in Tasks : BookTold(u)'
<1>1. UNCHANGED tasks
  BY DeliverFact
<1> QED BY <1>1, BookDeliver, BookStill

LEMMA ApartCalm ==
  ASSUME Typed, Apart,
         Spawns \/ (\E keys \in SUBSET Keys : Unsubscribe(keys)) \/ (\E r \in Tasks : Reap(r))
  PROVE  Apart'
\* Two tasks that were there before.
<1>1. ASSUME NEW t \in Tasks, NEW u \in Tasks, t # u, Peer(t, u)',
             Dims(tasks[t], tasks'[t]), Dims(tasks[u], tasks'[u])
      PROVE  tasks'[t].shared
  <2>1. /\ Running(t) /\ tasks'[t].key = tasks[t].key /\ (tasks[t].shared => tasks'[t].shared)
        /\ Running(u) /\ tasks'[u].key = tasks[u].key
    BY <1>1, DimsFact DEF Peer
  <2>2. Peer(t, u)
    BY <1>1, <2>1 DEF Peer, Topic
  <2> QED BY <1>1, <2>1, <2>2 DEF Apart
<1>2. CASE Spawns
  <2>1. PICK x \in Tasks, key \in Keys, sent \in Nat : open /\ Spawn(x, key, sent)
    BY <1>2 DEF Spawns
  <2>2. /\ tasks'[x].key = key
        /\ \A u \in Tasks \ {x} :
             /\ Dims(tasks[u], tasks'[u])
             /\ /\ Running(u)' /\ tasks'[u].key.channel = key.channel
                /\ Topic(tasks'[u].key) = Topic(key)
                => tasks'[u].shared /\ tasks'[x].shared
    BY <2>1, SpawnFact
  <2>3. ASSUME NEW t \in Tasks, NEW u \in Tasks, t # u, Peer(t, u)' PROVE tasks'[t].shared
    <3>1. /\ Running(t)' /\ Running(u)' /\ tasks'[t].key.channel = tasks'[u].key.channel
          /\ Topic(tasks'[t].key) = Topic(tasks'[u].key)
      BY <2>3 DEF Peer, Topic
    <3>2. CASE t = x
      BY <2>2, <2>3, <3>1, <3>2
    <3>3. CASE u = x
      BY <2>2, <2>3, <3>1, <3>3
    <3>4. CASE t # x /\ u # x
      BY <1>1, <2>2, <2>3, <3>4
    <3> QED BY <3>2, <3>3, <3>4
  <2> QED BY <2>3 DEF Apart
<1>3. CASE (\E keys \in SUBSET Keys : Unsubscribe(keys)) \/ (\E r \in Tasks : Reap(r))
  <2>1. Calm
    BY <1>3, UnsubscribeFact, ReapFact
  <2> QED BY <1>1, <2>1 DEF Calm, Apart
<1> QED BY <1>2, <1>3

LEMMA BookCalm ==
  ASSUME Typed, \A u \in Tasks : BookTold(u),
         Spawns \/ (\E keys \in SUBSET Keys : Unsubscribe(keys)) \/ (\E r \in Tasks : Reap(r))
  PROVE  \A u \in Tasks : BookTold(u)'
<1>1. UNCHANGED <<log, outbound, copy>>
  BY CalmSteps
<1>2. ASSUME NEW s \in Spots, NEW from \in Nat, NEW next \in Nat
      PROVE  /\ InOrder(s, from, next) => InOrder(s, from, next)'
             /\ Owed(s, from, next) => Owed(s, from, next)'
  BY <1>1 DEF InOrder, Owed, Due, Gap, Deltas, Snapshots, Ring
<1> SUFFICES ASSUME NEW u \in Tasks, BookTask(u)' PROVE BookPromise(u, Topic(tasks[u].key))'
  BY DEF BookTold
<1>3. Running(u)' /\ tasks'[u].key.channel = "orderbook_delta" /\ ~tasks'[u].shared
  BY DEF BookTask
<1>4. CASE Dims(tasks[u], tasks'[u])
  <2>1. /\ Running(u) /\ tasks'[u].key = tasks[u].key /\ tasks'[u].stage = tasks[u].stage
        /\ tasks'[u].next = tasks[u].next /\ tasks'[u].version = tasks[u].version
        /\ tasks'[u].from = tasks[u].from /\ BookTask(u)
    BY <1>3, <1>4, DimsFact DEF BookTask
  <2>2. PICK s \in Spots, from \in Nat, next \in Nat :
          s = Topic(tasks[u].key) /\ from = tasks[u].from /\ next = tasks[u].next
    BY <2>1, BookTaskFact DEF BookTask, BookChannels
  <2>3. BookPromise(u, s)
    BY <2>1, <2>2 DEF BookTold
  <2>4. BookPromise(u, s)'
    BY <1>2, <2>1, <2>2, <2>3 DEF BookPromise
  <2>5. Topic(tasks[u].key)' = s
    BY <2>1, <2>2 DEF Topic
  <2> QED BY <2>4, <2>5 DEF BookPromise
<1>5. CASE ~Dims(tasks[u], tasks'[u])
  <2>1. /\ tasks'[u] \in TaskStates /\ tasks'[u].stage = "receiving"
        /\ tasks'[u].next = Version(Topic(tasks'[u].key)) + 1 /\ tasks'[u].from = tasks'[u].next
    BY <1>5, CalmSteps
  <2>2. Topic(tasks'[u].key) \in Spots
    BY <1>3, <2>1, TopicFact DEF BookChannels, TaskStates
  <2>3. PICK s \in Spots : s = Topic(tasks'[u].key)
    BY <2>2
  <2>4. PICK next \in Nat : next = Version(s) + 1
    BY BookOut
  <2>5. InOrder(s, next, next) /\ Owed(s, next, next)
    <3>1. Version(s) \in Nat /\ \A k \in Deltas(s) : outbound[k].version \in 1 .. Version(s)
      BY BookOut
    <3>2. \A k \in Deltas(s) : outbound[k].version < next /\ ~(outbound[k].version >= next)
      BY <2>4, <3>1
    <3>3. \A v \in Ring(s) : ~(next <= v /\ v < next)
      BY <2>4, BookOut
    <3> QED BY <3>2, <3>3 DEF InOrder, Owed
  <2>6. InOrder(s, next, next)' /\ Owed(s, next, next)'
    BY <1>2, <2>5
  <2>7. BookPromise(u, s)'
    BY <2>1, <2>3, <2>4, <2>6 DEF BookPromise
  <2>8. Topic(tasks[u].key)' = s
    BY <2>3 DEF Topic
  <2> QED BY <2>7, <2>8 DEF BookPromise
<1> QED BY <1>4, <1>5

LEMMA BookInit == Init => BookCurrent
BY DEF Init, BookCurrent, Apart, Peer, BookTold, BookTask, Running, NoTask

LEMMA BookInv ==
  ASSUME Typed, BookCurrent, [Next]_vars
  PROVE  BookCurrent'
<1> SUFFICES ASSUME open' PROVE Apart' /\ \A u \in Tasks : BookTold(u)'
  BY DEF BookCurrent
<1>1. open /\ Apart /\ \A u \in Tasks : BookTold(u)
  BY StaysClosed DEF BookCurrent
<1>2. CASE UNCHANGED vars
  <2>1. UNCHANGED <<log, tasks, outbound, copy>>
    BY <1>2 DEF vars, clientVars
  <2>2. \A s \in Spots, from \in Nat, next \in Nat :
          /\ InOrder(s, from, next) => InOrder(s, from, next)'
          /\ Owed(s, from, next) => Owed(s, from, next)'
    BY <2>1 DEF InOrder, Owed, Due, Gap, Deltas, Snapshots, Ring
  <2> QED BY <1>1, <2>1, <2>2, BookStill
<1>3. CASE \E t \in Tasks : TaskStep(t)
  BY <1>1, <1>3, BookTaskStep
<1>4. CASE Publishes
  BY <1>1, <1>4, BookPublish
<1>5. CASE Close
  BY <1>5 DEF Close
<1>6. CASE SendSnapshot
  BY <1>1, <1>6, BookSnapshot
<1>7. CASE Deliver
  BY <1>1, <1>7, BookDelivery
<1>8. CASE Spawns \/ (\E keys \in SUBSET Keys : Unsubscribe(keys)) \/ (\E r \in Tasks : Reap(r))
  BY <1>1, <1>8, ApartCalm, BookCalm
<1> QED BY <1>2, <1>3, <1>4, <1>5, <1>6, <1>7, <1>8, StepKinds

\* A client with all that its one subscription of a book forwards has the
\* latest version, or the next is a rehydration, which is not announced, or was
\* written between its snapshot and its subscription, whatever lags, resyncs
\* and cancelled tasks came before (orderbook.rs:32-45, session.rs:43-66).
THEOREM WsBookStaleOnlyByGap == Spec => []BookStaleOnlyByGap
<1>1. ASSUME Typed, BookCurrent PROVE BookStaleOnlyByGap
  <2> SUFFICES ASSUME open, NEW t \in Tasks, Drained(t),
                      tasks[t].key.channel = "orderbook_delta", ~tasks[t].shared,
                      copy["orderbook_delta"][Topic(tasks[t].key)] + 1
                        <= Version(Topic(tasks[t].key))
               PROVE  \/ log[Topic(tasks[t].key)][copy["orderbook_delta"][Topic(tasks[t].key)] + 1]
                           = "hydration"
                      \/ copy["orderbook_delta"][Topic(tasks[t].key)] + 1 \in Unseen(t)
    BY Zenon DEF BookStaleOnlyByGap
  <2>1. /\ Running(t) /\ Pending(t) = {} /\ outbound = <<>> /\ tasks[t].stage = "receiving"
        /\ BookTask(t)
    BY DEF Drained, BookTask
  <2>2. PICK s \in Spots, from \in Nat, next \in Nat :
          s = Topic(tasks[t].key) /\ from = tasks[t].from /\ next = tasks[t].next
    BY <1>1, <2>1, BookTaskFact DEF BookChannels
  <2>3. PICK d : d = copy["orderbook_delta"][s]
    OBVIOUS
  <2>4. /\ Version(s) \in Nat /\ d \in Nat /\ DOMAIN log[s] = 1 .. Version(s)
        /\ tasks[t].sent <= d /\ tasks[t].sent \in Nat /\ s \in Topics
    BY <1>1, <2>1, <2>2, <2>3, BookTaskFact DEF BookChannels
  <2>5. d + 1 \in 1 .. Version(s)
    BY <2>2, <2>3, <2>4
  <2>6. log[s][d + 1] \in {"event", "hydration"}
    BY <1>1, <2>4, <2>5, LogFact DEF Typed
  <2>7. ASSUME d + 1 \in Ring(s) PROVE d + 1 \in Unseen(t)
    <3>1. d + 1 < next
      <4>1. Pending(t) = {i \in Ring(s) : i >= next}
        BY <2>2 DEF Pending
      <4> QED BY <2>1, <2>4, <2>7, <4>1
    <3>2. Owed(s, from, next)
      BY <1>1, <2>1, <2>2 DEF BookCurrent, BookTold, BookPromise
    <3>3. ~Due(s, from, d + 1)
      <4>1. Deltas(s) = {} /\ Snapshots(s) = {}
        BY <2>1 DEF Deltas, Snapshots
      <4>2. d + 1 .. (d + 1) - 1 = {}
        BY <2>4
      <4> QED BY <2>3, <4>1, <4>2 DEF Due, Gap
    <3>4. d < d + 1
      BY <2>4
    <3>5. ~(from <= d + 1)
      BY <2>3, <2>7, <3>1, <3>2, <3>3, <3>4 DEF Owed
    <3> QED BY <2>2, <2>4, <3>5 DEF Unseen
  <2>8. log[s][d + 1] = "event" => d + 1 \in Ring(s)
    BY <2>4, <2>5 DEF Ring
  <2> QED BY <2>2, <2>3, <2>6, <2>7, <2>8
<1> QED BY <1>1, TypedInit, TypedInv, BookInit, BookInv, PTL DEF Spec
=============================================================================
