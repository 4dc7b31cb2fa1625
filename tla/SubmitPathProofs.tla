-------------------------- MODULE SubmitPathProofs --------------------------
(***************************************************************************)
(* The safety of SubmitPath for every set of requests, every assignment of *)
(* transactions to them and every queue capacity, and the safety part of   *)
(* its refinement of SubmitContract.                                       *)
(***************************************************************************)
EXTENDS SubmitPath, TLAPS

\* A request is in the dispatcher's queue once, before its job starts.
QueueOnce ==
  /\ \A i \in 1 .. Len(queue) : job[queue[i]] = "none" /\ client[queue[i]] = "waiting"
  /\ \A i, j \in 1 .. Len(queue) : i # j => queue[i] # queue[j]

\* Only a request that waits has a job, and its receipt channel is fresh
\* until then.
Stages ==
  \A c \in Clients :
    /\ job[c] # "none" => client[c] = "waiting"
    /\ job[c] = "none" => receipt[c] = "open"

\* A registered sender has neither been used nor dropped.
OpenWhileRegistered ==
  \A d \in Digests : registry[d] # NoWaiter => receipt[registry[d]] = "open"

\* Nothing is in the pool, a block or the indexer's stream that no job sent.
Sent(c) == job[c] \notin {"none", "submitting"}

SentBeforePooled ==
  /\ \A i \in 1 .. Len(mempool_queue) : Sent(mempool_queue[i])
  /\ \A d \in pool : \E c \in Clients : DigestOf[c] = d /\ Sent(c)
  /\ committed \subseteq pool
  /\ \A i \in 1 .. Len(stream) : stream[i] \in committed
  /\ processed \subseteq committed

SubmitInv ==
  /\ TypeOK
  /\ QueueOnce
  /\ Stages
  /\ NoLeakedWaiter
  /\ OpenWhileRegistered
  /\ SentBeforePooled
  /\ ReceiptIsReal
  /\ ReceiptNotMissed

---------------------------------------------------------------------------
LEMMA SubmitInvInit == Init => SubmitInv
<1> SUFFICES ASSUME Init PROVE SubmitInv
  OBVIOUS
<1>1. TypeOK
  BY DEF Init, TypeOK, Answers, Failures, JobStages, Active
<1>2. QueueOnce /\ Stages /\ NoLeakedWaiter /\ OpenWhileRegistered
  BY DEF Init, QueueOnce, Stages, NoLeakedWaiter, OpenWhileRegistered
<1>3. SentBeforePooled /\ ReceiptIsReal /\ ReceiptNotMissed
  BY DEF Init, SentBeforePooled, ReceiptIsReal, ReceiptNotMissed
<1> QED
  BY <1>1, <1>2, <1>3 DEF SubmitInv

\* What Head and Tail of a sequence that is not empty are made of.
LEMMA TailFact ==
  ASSUME NEW S, NEW q \in Seq(S), q # <<>>
  PROVE  /\ Head(q) = q[1] /\ Head(q) \in S /\ Len(q) \in Nat /\ Len(q) > 0
         /\ Tail(q) \in Seq(S)
         /\ Len(Tail(q)) = Len(q) - 1
         /\ \A i \in 1 .. Len(Tail(q)) : Tail(q)[i] = q[i + 1] /\ i + 1 \in 1 .. Len(q)
  OBVIOUS

LEMMA AppendFact ==
  ASSUME NEW S, NEW q \in Seq(S), NEW e \in S
  PROVE  /\ Append(q, e) \in Seq(S)
         /\ Len(q) \in Nat
         /\ Len(Append(q, e)) = Len(q) + 1
         /\ \A i \in 1 .. Len(q) + 1 :
              IF i = Len(q) + 1 THEN Append(q, e)[i] = e
              ELSE i \in 1 .. Len(q) /\ Append(q, e)[i] = q[i]
  OBVIOUS

---------------------------------------------------------------------------
(* The HTTP handler.                                                       *)

LEMMA RequestPreserves ==
  ASSUME SubmitInv, NEW c \in Clients, Request(c)
  PROVE  SubmitInv'
<1> USE DEF Request, waitVars, mempoolVars, chainVars
<1>1. TypeOK'
  BY DEF SubmitInv, TypeOK
<1>2. QueueOnce'
  BY DEF SubmitInv, QueueOnce, TypeOK
<1>3. Stages'
  BY DEF SubmitInv, Stages, TypeOK
<1>4. NoLeakedWaiter' /\ OpenWhileRegistered'
  BY DEF SubmitInv, NoLeakedWaiter, OpenWhileRegistered
<1>5. SentBeforePooled'
  BY DEF SubmitInv, SentBeforePooled, Sent
<1>6. ReceiptIsReal' /\ ReceiptNotMissed'
  BY DEF SubmitInv, ReceiptIsReal, ReceiptNotMissed, Unshared
<1> QED
  BY <1>1, <1>2, <1>3, <1>4, <1>5, <1>6 DEF SubmitInv

LEMMA EnqueuePreserves ==
  ASSUME SubmitInv, NEW c \in Clients, Enqueue(c)
  PROVE  SubmitInv'
<1> USE DEF Enqueue, waitVars, mempoolVars, chainVars
<1>0. /\ queue \in Seq(Clients) /\ queue' = Append(queue, c)
      /\ client' \in [Clients -> {"idle", "sending", "waiting"}]
      /\ client'[c] = "waiting" /\ \A o \in Clients \ {c} : client'[o] = client[o]
  BY DEF SubmitInv, TypeOK
<1>1. TypeOK'
  BY <1>0, AppendFact DEF SubmitInv, TypeOK
<1>2. QueueOnce'
  <2>1. job[c] = "none"
    BY DEF SubmitInv, Stages
  <2>2. \A i \in 1 .. Len(queue) : queue[i] \in Clients /\ queue[i] # c
    BY <1>0 DEF SubmitInv, QueueOnce
  <2> QED
    BY <1>0, <2>1, <2>2, AppendFact DEF SubmitInv, QueueOnce
<1>3. Stages'
  BY <1>0 DEF SubmitInv, Stages
<1>4. NoLeakedWaiter' /\ OpenWhileRegistered'
  BY DEF SubmitInv, NoLeakedWaiter, OpenWhileRegistered
<1>5. SentBeforePooled'
  BY DEF SubmitInv, SentBeforePooled, Sent
<1>6. ReceiptIsReal' /\ ReceiptNotMissed'
  BY DEF SubmitInv, ReceiptIsReal, ReceiptNotMissed, Unshared
<1> QED
  BY <1>1, <1>2, <1>3, <1>4, <1>5, <1>6 DEF SubmitInv

LEMMA HangUpPreserves ==
  ASSUME SubmitInv, NEW c \in Clients, HangUp(c)
  PROVE  SubmitInv'
<1> USE DEF HangUp, waitVars, mempoolVars, chainVars
<1>1. TypeOK'
  BY DEF SubmitInv, TypeOK, Answers, Failures
<1>2. QueueOnce' /\ Stages'
  BY DEF SubmitInv, QueueOnce, Stages
<1>4. NoLeakedWaiter' /\ OpenWhileRegistered'
  BY DEF SubmitInv, NoLeakedWaiter, OpenWhileRegistered
<1>5. SentBeforePooled'
  BY DEF SubmitInv, SentBeforePooled, Sent
<1>6. ReceiptIsReal' /\ ReceiptNotMissed'
  BY DEF SubmitInv, TypeOK, ReceiptIsReal, ReceiptNotMissed, Unshared
<1> QED
  BY <1>1, <1>2, <1>4, <1>5, <1>6 DEF SubmitInv

---------------------------------------------------------------------------
(* The registry.                                                           *)

\* What a step of a job that is past the queue leaves in order.
LEMMA JobMoves ==
  ASSUME SubmitInv, NEW c \in Clients, NEW stage \in JobStages \ {"none"},
         job[c] # "none", stage = "submitting" => job[c] = "submitting",
         job' = [job EXCEPT ![c] = stage],
         client' = client, queue' = queue
  PROVE  /\ job' \in [Clients -> JobStages]
         /\ job'[c] = stage
         /\ \A o \in Clients \ {c} : job'[o] = job[o]
         /\ QueueOnce'
         /\ \A o \in Clients : job'[o] # "none" => client'[o] = "waiting"
         /\ \A o \in Clients : job'[o] = "none" => job[o] = "none"
         /\ \A o \in Clients : Sent(o) => Sent(o)'
<1>1. /\ job' \in [Clients -> JobStages]
      /\ job'[c] = stage
      /\ \A o \in Clients \ {c} : job'[o] = job[o]
  BY DEF SubmitInv, TypeOK
<1>2. QueueOnce'
  <2>1. \A i \in 1 .. Len(queue) : queue[i] \in Clients /\ queue[i] # c
    BY DEF SubmitInv, QueueOnce, TypeOK
  <2> QED
    BY <1>1, <2>1 DEF SubmitInv, QueueOnce
<1>3. \A o \in Clients : Sent(o) => Sent(o)'
  BY <1>1 DEF Sent
<1> QED
  BY <1>1, <1>2, <1>3 DEF SubmitInv, Stages

\* Sends and blocks keep their senders when no job goes back.
LEMMA SentStays ==
  ASSUME SubmitInv, \A o \in Clients : Sent(o) => Sent(o)',
         mempool_queue' = mempool_queue, pool' = pool, committed' = committed,
         stream' = stream, processed' = processed
  PROVE  SentBeforePooled'
<1>1. \A i \in 1 .. Len(mempool_queue) : mempool_queue[i] \in Clients
  BY DEF SubmitInv, TypeOK
<1> QED
  BY <1>1 DEF SubmitInv, SentBeforePooled

\* Closing one waiter's channel.
LEMMA ClosedFact ==
  ASSUME SubmitInv, NEW waiter, receipt' = Closed(waiter)
  PROVE  /\ receipt' \in [Clients -> {"open", "sent", "closed"}]
         /\ \A o \in Clients : o # waiter => receipt'[o] = receipt[o]
         /\ \A o \in Clients : receipt'[o] = "sent" <=> receipt[o] = "sent"
  BY DEF SubmitInv, TypeOK, Closed

\* A cancellation takes effect on the requests for its transaction only.
LEMMA CancelFact ==
  ASSUME SubmitInv, NEW d \in Digests, Cancel(d)
  PROVE  /\ registry' \in [Digests -> Clients \cup {NoWaiter}]
         /\ registry'[d] = NoWaiter
         /\ \A e \in Digests \ {d} : registry'[e] = registry[e]
         /\ receipt' \in [Clients -> {"open", "sent", "closed"}]
         /\ \A o \in Clients : DigestOf[o] # d => receipt'[o] = receipt[o]
         /\ \A o \in Clients : job[o] = "none" => receipt'[o] = receipt[o]
         /\ \A o \in Clients : receipt'[o] = "sent" <=> receipt[o] = "sent"
         /\ OpenWhileRegistered'
<1>1. /\ registry' \in [Digests -> Clients \cup {NoWaiter}]
      /\ registry'[d] = NoWaiter
      /\ \A e \in Digests \ {d} : registry'[e] = registry[e]
  BY DEF SubmitInv, TypeOK, Cancel
<1>2. receipt' = Closed(registry[d])
  BY DEF Cancel
<1>3. /\ receipt' \in [Clients -> {"open", "sent", "closed"}]
      /\ \A o \in Clients : o # registry[d] => receipt'[o] = receipt[o]
      /\ \A o \in Clients : receipt'[o] = "sent" <=> receipt[o] = "sent"
  BY <1>2, ClosedFact
<1>4. \A e \in Digests : registry[e] # NoWaiter =>
         registry[e] \in Clients /\ job[registry[e]] \in Active /\ DigestOf[registry[e]] = e
  BY DEF SubmitInv, TypeOK, NoLeakedWaiter
<1>5. \A o \in Clients : o = registry[d] => DigestOf[o] = d /\ job[o] # "none"
  BY <1>4, NoWaiterAssumption DEF Active
<1>6. OpenWhileRegistered'
  BY <1>1, <1>3, <1>4, <1>5 DEF SubmitInv, OpenWhileRegistered
<1> QED
  BY <1>1, <1>3, <1>5, <1>6

\* A registration closes the channel of the waiter it replaces.
LEMMA RegisterFact ==
  ASSUME SubmitInv, NEW c \in Clients, job[c] = "none", Register(c)
  PROVE  /\ registry' \in [Digests -> Clients \cup {NoWaiter}]
         /\ registry'[DigestOf[c]] = c
         /\ \A e \in Digests \ {DigestOf[c]} : registry'[e] = registry[e]
         /\ receipt' \in [Clients -> {"open", "sent", "closed"}]
         /\ \A o \in Clients : DigestOf[o] # DigestOf[c] => receipt'[o] = receipt[o]
         /\ \A o \in Clients : job[o] = "none" => receipt'[o] = receipt[o]
         /\ \A o \in Clients : receipt'[o] = "sent" <=> receipt[o] = "sent"
         /\ OpenWhileRegistered'
<1> DEFINE d == DigestOf[c]
<1>0. d \in Digests
  BY DigestOfAssumption
<1>1. /\ registry' \in [Digests -> Clients \cup {NoWaiter}]
      /\ registry'[d] = c
      /\ \A e \in Digests \ {d} : registry'[e] = registry[e]
  BY <1>0 DEF SubmitInv, TypeOK, Register
<1>2. receipt' = Closed(registry[d])
  BY DEF Register
<1>3. /\ receipt' \in [Clients -> {"open", "sent", "closed"}]
      /\ \A o \in Clients : o # registry[d] => receipt'[o] = receipt[o]
      /\ \A o \in Clients : receipt'[o] = "sent" <=> receipt[o] = "sent"
  BY <1>2, ClosedFact
<1>4. \A e \in Digests : registry[e] # NoWaiter =>
         registry[e] \in Clients /\ job[registry[e]] \in Active /\ DigestOf[registry[e]] = e
  BY DEF SubmitInv, TypeOK, NoLeakedWaiter
<1>5. \A o \in Clients : o = registry[d] => DigestOf[o] = d /\ job[o] # "none"
  BY <1>0, <1>4, NoWaiterAssumption DEF Active
<1>6. receipt'[c] = "open"
  BY <1>3, <1>5 DEF SubmitInv, Stages
<1>7. OpenWhileRegistered'
  BY <1>0, <1>1, <1>3, <1>4, <1>5, <1>6 DEF SubmitInv, OpenWhileRegistered
<1> QED
  BY <1>1, <1>3, <1>5, <1>7

---------------------------------------------------------------------------
(* The dispatcher task.                                                    *)

LEMMA DispatchPreserves ==
  ASSUME SubmitInv, Dispatch
  PROVE  SubmitInv'
<1> DEFINE c == Head(queue)
<1> USE DEF Dispatch, httpVars, mempoolVars, chainVars
<1>0. /\ queue \in Seq(Clients) /\ queue # <<>> /\ c = queue[1] /\ c \in Clients
      /\ Len(queue) \in Nat /\ Len(queue) > 0
  BY TailFact DEF SubmitInv, TypeOK
<1>1. job[c] = "none" /\ client[c] = "waiting"
  BY <1>0 DEF SubmitInv, QueueOnce
<1> HIDE DEF c
<1>2. Register(c) /\ job' = [job EXCEPT ![c] = "submitting"] /\ queue' = Tail(queue)
  BY DEF c
<1>3. /\ registry' \in [Digests -> Clients \cup {NoWaiter}]
      /\ registry'[DigestOf[c]] = c
      /\ \A e \in Digests \ {DigestOf[c]} : registry'[e] = registry[e]
      /\ receipt' \in [Clients -> {"open", "sent", "closed"}]
      /\ \A o \in Clients : DigestOf[o] # DigestOf[c] => receipt'[o] = receipt[o]
      /\ \A o \in Clients : job[o] = "none" => receipt'[o] = receipt[o]
      /\ \A o \in Clients : receipt'[o] = "sent" <=> receipt[o] = "sent"
      /\ OpenWhileRegistered'
  BY <1>0, <1>1, <1>2, RegisterFact
<1>4. /\ job' \in [Clients -> JobStages]
      /\ job'[c] = "submitting"
      /\ \A o \in Clients \ {c} : job'[o] = job[o]
      /\ \A o \in Clients : Sent(o) => Sent(o)'
  BY <1>0, <1>1, <1>2 DEF SubmitInv, TypeOK, JobStages, Active, Sent
<1>5. TypeOK'
  BY <1>0, <1>2, <1>3, <1>4, TailFact DEF SubmitInv, TypeOK
<1>6. QueueOnce'
  <2>1. /\ Len(Tail(queue)) = Len(queue) - 1
        /\ \A i \in 1 .. Len(Tail(queue)) : Tail(queue)[i] = queue[i + 1] /\ i + 1 \in 1 .. Len(queue)
    BY <1>0, TailFact
  <2>2. \A i \in 1 .. Len(queue) : i # 1 => queue[i] \in Clients /\ queue[i] # c
    BY <1>0 DEF SubmitInv, QueueOnce
  <2>3. \A i \in 1 .. Len(Tail(queue)) :
          job'[Tail(queue)[i]] = "none" /\ client'[Tail(queue)[i]] = "waiting"
    BY <1>0, <1>4, <2>1, <2>2 DEF SubmitInv, QueueOnce
  <2>4. \A i, j \in 1 .. Len(Tail(queue)) : i # j => Tail(queue)[i] # Tail(queue)[j]
    BY <1>0, <2>1 DEF SubmitInv, QueueOnce
  <2> QED
    BY <1>2, <2>3, <2>4 DEF QueueOnce
<1>7. Stages'
  BY <1>1, <1>3, <1>4 DEF SubmitInv, Stages
<1>8. NoLeakedWaiter'
  BY <1>0, <1>3, <1>4, DigestOfAssumption, NoWaiterAssumption
     DEF SubmitInv, NoLeakedWaiter, Active, TypeOK
<1>9. SentBeforePooled'
  BY <1>4, SentStays
<1>10. ReceiptIsReal'
  BY <1>3 DEF SubmitInv, ReceiptIsReal
<1>11. ReceiptNotMissed'
  <2> SUFFICES ASSUME NEW o \in Clients, Unshared(o), job'[o] \in {"submitting", "sent", "waiting"}
               PROVE  IF DigestOf[o] \in processed THEN receipt'[o] = "sent"
                      ELSE receipt'[o] = "open" /\ registry'[DigestOf[o]] = o
    BY DEF ReceiptNotMissed, Unshared
  <2>1. CASE o = c
    <3>1. DigestOf[c] \notin processed
      <4>1. \A p \in Clients : DigestOf[p] = DigestOf[c] => ~Sent(p)
        BY <1>0, <1>1, <2>1 DEF Unshared, Sent
      <4> QED
        BY <1>0, <4>1 DEF SubmitInv, SentBeforePooled, TypeOK
    <3>2. receipt'[c] = "open"
      BY <1>0, <1>1, <1>3 DEF SubmitInv, Stages
    <3> QED
      BY <1>3, <2>1, <3>1, <3>2
  <2>2. CASE o # c
    <3>1. DigestOf[o] # DigestOf[c] /\ DigestOf[o] \in Digests
      BY <1>0, <2>2, DigestOfAssumption DEF Unshared
    <3> QED
      BY <1>3, <1>4, <2>2, <3>1 DEF SubmitInv, ReceiptNotMissed
  <2> QED
    BY <2>1, <2>2
<1> QED
  BY <1>3, <1>5, <1>6, <1>7, <1>8, <1>9, <1>10, <1>11 DEF SubmitInv

\* A job that goes on, with its registration and its channel untouched.
LEMMA GoesOn ==
  ASSUME SubmitInv, NEW c \in Clients, NEW stage \in {"sent", "waiting", "elapsed"},
         job[c] \in {"submitting", "sent", "waiting"},
         job' = [job EXCEPT ![c] = stage],
         UNCHANGED <<httpVars, queue, waitVars, processed>>
  PROVE  QueueOnce' /\ Stages' /\ NoLeakedWaiter' /\ OpenWhileRegistered'
         /\ ReceiptIsReal' /\ ReceiptNotMissed'
<1> USE DEF httpVars, waitVars
<1>1. stage \in JobStages \ {"none"} /\ stage # "submitting" /\ job[c] # "none" /\ stage \in Active
  BY DEF JobStages, Active
<1>2. /\ job'[c] = stage
      /\ \A o \in Clients \ {c} : job'[o] = job[o]
      /\ QueueOnce'
      /\ \A o \in Clients : job'[o] # "none" => client'[o] = "waiting"
      /\ \A o \in Clients : job'[o] = "none" => job[o] = "none"
  BY <1>1, JobMoves
<1>3. Stages'
  BY <1>2 DEF SubmitInv, Stages
<1>4. NoLeakedWaiter' /\ OpenWhileRegistered'
  BY <1>1, <1>2 DEF SubmitInv, NoLeakedWaiter, OpenWhileRegistered, TypeOK
<1>5. ReceiptIsReal'
  BY DEF SubmitInv, ReceiptIsReal
<1>6. ReceiptNotMissed'
  BY <1>1, <1>2 DEF SubmitInv, ReceiptNotMissed, Unshared
<1> QED
  BY <1>2, <1>3, <1>4, <1>5, <1>6

LEMMA SubmitToMempoolPreserves ==
  ASSUME SubmitInv, NEW c \in Clients, SubmitToMempool(c)
  PROVE  SubmitInv'
<1> USE DEF SubmitToMempool, httpVars, waitVars, chainVars
<1>1. QueueOnce' /\ Stages' /\ NoLeakedWaiter' /\ OpenWhileRegistered'
      /\ ReceiptIsReal' /\ ReceiptNotMissed'
  BY GoesOn
<1>2. /\ job' \in [Clients -> JobStages] /\ job'[c] = "sent"
      /\ \A o \in Clients : Sent(o) => Sent(o)'
  BY DEF SubmitInv, TypeOK, JobStages, Active, Sent
<1>3. TypeOK'
  BY <1>2, AppendFact DEF SubmitInv, TypeOK
<1>4. SentBeforePooled'
  <2>1. mempool_queue \in Seq(Clients) /\ Len(mempool_queue) \in Nat
        /\ mempool_queue' = Append(mempool_queue, c)
    BY DEF SubmitInv, TypeOK
  <2>2. \A i \in 1 .. Len(mempool_queue) :
          /\ mempool_queue[i] \in Clients
          /\ job'[mempool_queue[i]] \notin {"none", "submitting"}
    BY <1>2, <2>1 DEF SubmitInv, SentBeforePooled, Sent
  <2>3. \A i \in 1 .. Len(mempool_queue') : job'[mempool_queue'[i]] \notin {"none", "submitting"}
    BY <1>2, <2>1, <2>2, AppendFact
  <2> QED
    BY <1>2, <2>3 DEF SubmitInv, SentBeforePooled, Sent, TypeOK
<1> QED
  BY <1>1, <1>3, <1>4 DEF SubmitInv

LEMMA MempoolAcceptedPreserves ==
  ASSUME SubmitInv, NEW c \in Clients, MempoolAccepted(c)
  PROVE  SubmitInv'
<1> USE DEF MempoolAccepted, httpVars, waitVars, mempoolVars, chainVars
<1>1. QueueOnce' /\ Stages' /\ NoLeakedWaiter' /\ OpenWhileRegistered'
      /\ ReceiptIsReal' /\ ReceiptNotMissed'
  BY GoesOn
<1>2. TypeOK' /\ \A o \in Clients : Sent(o) => Sent(o)'
  BY DEF SubmitInv, TypeOK, JobStages, Active, Sent
<1>3. SentBeforePooled'
  BY <1>2, SentStays
<1> QED
  BY <1>1, <1>2, <1>3 DEF SubmitInv

LEMMA ElapsePreserves ==
  ASSUME SubmitInv, NEW c \in Clients, Elapse(c)
  PROVE  SubmitInv'
<1> USE DEF Elapse, httpVars, waitVars, mempoolVars, chainVars
<1>1. QueueOnce' /\ Stages' /\ NoLeakedWaiter' /\ OpenWhileRegistered'
      /\ ReceiptIsReal' /\ ReceiptNotMissed'
  BY GoesOn
<1>2. TypeOK' /\ \A o \in Clients : Sent(o) => Sent(o)'
  BY DEF SubmitInv, TypeOK, JobStages, Active, Sent
<1>3. SentBeforePooled'
  BY <1>2, SentStays
<1> QED
  BY <1>1, <1>2, <1>3 DEF SubmitInv

\* The three endings that cancel the registration.
LEMMA FailurePreserves ==
  ASSUME SubmitInv, NEW c \in Clients, NEW failure \in Failures,
         job[c] \in {"sent", "waiting", "elapsed"},
         Cancel(DigestOf[c]), Finish(c, failure),
         UNCHANGED <<client, queue, mempoolVars, chainVars>>
  PROVE  SubmitInv'
<1> USE DEF mempoolVars, chainVars
<1> DEFINE d == DigestOf[c]
<1>0. d \in Digests
  BY DigestOfAssumption
<1>1. /\ registry' \in [Digests -> Clients \cup {NoWaiter}]
      /\ registry'[d] = NoWaiter
      /\ \A e \in Digests \ {d} : registry'[e] = registry[e]
      /\ receipt' \in [Clients -> {"open", "sent", "closed"}]
      /\ \A o \in Clients : DigestOf[o] # d => receipt'[o] = receipt[o]
      /\ \A o \in Clients : job[o] = "none" => receipt'[o] = receipt[o]
      /\ \A o \in Clients : receipt'[o] = "sent" <=> receipt[o] = "sent"
      /\ OpenWhileRegistered'
  BY <1>0, CancelFact
<1>2. /\ job' \in [Clients -> JobStages]
      /\ job'[c] = "done"
      /\ \A o \in Clients \ {c} : job'[o] = job[o]
      /\ QueueOnce'
      /\ \A o \in Clients : job'[o] # "none" => client'[o] = "waiting"
      /\ \A o \in Clients : job'[o] = "none" => job[o] = "none"
      /\ \A o \in Clients : Sent(o) => Sent(o)'
  <2>1. "done" \in JobStages \ {"none"} /\ job[c] # "none"
    BY DEF JobStages
  <2> QED
    BY <2>1, JobMoves DEF Finish
<1>3. /\ answer' \in [Clients -> Answers]
      /\ \A o \in Clients : answer'[o] = "receipt" => answer[o] = "receipt"
  BY DEF SubmitInv, TypeOK, Finish, Answers, Failures
<1> HIDE DEF d
<1>4. TypeOK'
  BY <1>1, <1>2, <1>3 DEF SubmitInv, TypeOK
<1>5. Stages'
  BY <1>1, <1>2 DEF SubmitInv, Stages
<1>6. NoLeakedWaiter'
  <2>1. \A e \in Digests \ {d} : registry[e] # NoWaiter => registry[e] # c
    BY DEF SubmitInv, NoLeakedWaiter, d
  <2> QED
    BY <1>0, <1>1, <1>2, <2>1 DEF SubmitInv, NoLeakedWaiter, TypeOK
<1>7. SentBeforePooled'
  BY <1>2, SentStays
<1>8. ReceiptIsReal'
  BY <1>1, <1>3 DEF SubmitInv, ReceiptIsReal
<1>9. ReceiptNotMissed'
  <2> SUFFICES ASSUME NEW o \in Clients, Unshared(o), job'[o] \in {"submitting", "sent", "waiting"}
               PROVE  IF DigestOf[o] \in processed THEN receipt'[o] = "sent"
                      ELSE receipt'[o] = "open" /\ registry'[DigestOf[o]] = o
    BY DEF ReceiptNotMissed, Unshared
  <2>1. o # c
    BY <1>2
  <2>2. DigestOf[o] # d /\ DigestOf[o] \in Digests
    BY <2>1, DigestOfAssumption DEF Unshared, d
  <2> QED
    BY <1>1, <1>2, <2>1, <2>2 DEF SubmitInv, ReceiptNotMissed
<1> QED
  BY <1>1, <1>2, <1>4, <1>5, <1>6, <1>7, <1>8, <1>9 DEF SubmitInv

LEMMA ReceiptArrivedPreserves ==
  ASSUME SubmitInv, NEW c \in Clients, ReceiptArrived(c)
  PROVE  SubmitInv'
<1> USE DEF ReceiptArrived, waitVars, mempoolVars, chainVars
<1>1. /\ job' \in [Clients -> JobStages]
      /\ job'[c] = "done"
      /\ \A o \in Clients \ {c} : job'[o] = job[o]
      /\ QueueOnce'
      /\ \A o \in Clients : job'[o] # "none" => client'[o] = "waiting"
      /\ \A o \in Clients : job'[o] = "none" => job[o] = "none"
      /\ \A o \in Clients : Sent(o) => Sent(o)'
  <2>1. "done" \in JobStages \ {"none"} /\ job[c] # "none"
    BY DEF JobStages
  <2> QED
    BY <2>1, JobMoves DEF Finish
<1>2. /\ answer' \in [Clients -> Answers]
      /\ \A o \in Clients \ {c} : answer'[o] = answer[o]
  BY DEF SubmitInv, TypeOK, Finish, Answers
<1>3. TypeOK'
  BY <1>1, <1>2 DEF SubmitInv, TypeOK
<1>4. Stages' /\ OpenWhileRegistered'
  BY <1>1 DEF SubmitInv, Stages, OpenWhileRegistered
<1>5. NoLeakedWaiter'
  <2>1. \A e \in Digests : registry[e] # NoWaiter => registry[e] # c
    BY DEF SubmitInv, OpenWhileRegistered
  <2> QED
    BY <1>1, <2>1 DEF SubmitInv, NoLeakedWaiter, TypeOK
<1>6. SentBeforePooled'
  BY <1>1, SentStays
<1>7. ReceiptIsReal'
  BY <1>2 DEF SubmitInv, ReceiptIsReal
<1>8. ReceiptNotMissed'
  BY <1>1 DEF SubmitInv, ReceiptNotMissed, Unshared
<1> QED
  BY <1>1, <1>3, <1>4, <1>5, <1>6, <1>7, <1>8 DEF SubmitInv

---------------------------------------------------------------------------
(* The mempool sender, the node and the indexer.                           *)

\* Steps that leave requests, jobs and registrations alone.
LEMMA OutsidePreserves ==
  ASSUME SubmitInv, TypeOK', SentBeforePooled',
         UNCHANGED <<httpVars, queue, job, waitVars, processed>>
  PROVE  SubmitInv'
<1> USE DEF httpVars, waitVars
<1>1. QueueOnce' /\ Stages'
  BY DEF SubmitInv, QueueOnce, Stages
<1>2. NoLeakedWaiter' /\ OpenWhileRegistered'
  BY DEF SubmitInv, NoLeakedWaiter, OpenWhileRegistered
<1>3. ReceiptIsReal' /\ ReceiptNotMissed'
  BY DEF SubmitInv, ReceiptIsReal, ReceiptNotMissed, Unshared
<1> QED
  BY <1>1, <1>2, <1>3 DEF SubmitInv

LEMMA MempoolSendPreserves ==
  ASSUME SubmitInv, MempoolSend
  PROVE  SubmitInv'
<1> DEFINE c == Head(mempool_queue)
<1> USE DEF MempoolSend
<1>1. /\ mempool_queue \in Seq(Clients) /\ mempool_queue # <<>>
      /\ c \in Clients /\ Len(mempool_queue) \in Nat /\ Len(mempool_queue) > 0
      /\ c = mempool_queue[1]
  BY TailFact DEF SubmitInv, TypeOK
<1>2. DigestOf[c] \in Digests /\ Sent(c)
  BY <1>1, DigestOfAssumption DEF SubmitInv, SentBeforePooled
<1>3. \A o \in Clients : Sent(o) <=> Sent(o)'
  BY DEF Sent
<1> HIDE DEF c
<1>4. /\ \E result \in {"ok", "error"} : send_result' = [send_result EXCEPT ![c] = result]
      /\ pool' \in {pool, pool \cup {DigestOf[c]}}
  BY DEF c
<1>5. TypeOK'
  BY <1>1, <1>2, <1>4, TailFact DEF SubmitInv, TypeOK, httpVars, waitVars
<1>6. SentBeforePooled'
  <2>1. /\ Len(Tail(mempool_queue)) = Len(mempool_queue) - 1
        /\ \A i \in 1 .. Len(Tail(mempool_queue)) :
             Tail(mempool_queue)[i] = mempool_queue[i + 1] /\ i + 1 \in 1 .. Len(mempool_queue)
    BY <1>1, TailFact
  <2>2. \A i \in 1 .. Len(mempool_queue') : job'[mempool_queue'[i]] \notin {"none", "submitting"}
    BY <2>1 DEF SubmitInv, SentBeforePooled, Sent
  <2>3. \A d \in pool' : \E o \in Clients : DigestOf[o] = d /\ Sent(o)'
    BY <1>1, <1>2, <1>3, <1>4 DEF SubmitInv, SentBeforePooled
  <2>4. committed' \subseteq pool'
    BY <1>4 DEF SubmitInv, SentBeforePooled
  <2> QED
    BY <2>2, <2>3, <2>4 DEF SubmitInv, SentBeforePooled, Sent
<1> QED
  BY <1>5, <1>6, OutsidePreserves DEF SubmitInv

LEMMA CommitPreserves ==
  ASSUME SubmitInv, NEW d \in Digests, Commit(d)
  PROVE  SubmitInv'
<1> USE DEF Commit, mempoolVars
<1>1. stream \in Seq(Digests) /\ stream' \in Seq(Digests)
  BY AppendFact DEF SubmitInv, TypeOK
<1>2. TypeOK'
  BY <1>1 DEF SubmitInv, TypeOK, httpVars, waitVars
<1>3. \A i \in 1 .. Len(stream') : stream'[i] \in committed'
  BY <1>1, AppendFact DEF SubmitInv, SentBeforePooled
<1>4. SentBeforePooled'
  BY <1>3 DEF SubmitInv, SentBeforePooled, Sent
<1> QED
  BY <1>2, <1>4, OutsidePreserves

LEMMA ConnectionPreserves ==
  ASSUME SubmitInv, Disconnect \/ Reconnect
  PROVE  SubmitInv'
<1> USE DEF Disconnect, Reconnect, mempoolVars
<1>0. /\ connected' \in BOOLEAN
      /\ stream' \in Seq(Digests) /\ (stream' = <<>> \/ stream' = stream)
      /\ UNCHANGED <<httpVars, queue, job, waitVars, mempool_queue, send_result,
                     pool, committed, processed>>
  <2>1. <<>> \in Seq(Digests)
    OBVIOUS
  <2>2. CASE Disconnect
    <3>1. connected' = FALSE /\ connected' \in BOOLEAN
      BY <2>2
    <3>2. /\ stream' = <<>>
          /\ UNCHANGED <<httpVars, queue, job, waitVars, mempool_queue, send_result,
                         pool, committed, processed>>
      BY <2>2
    <3> QED
      BY <2>1, <3>1, <3>2
  <2>3. CASE Reconnect
    BY <2>3 DEF SubmitInv, TypeOK
  <2> QED
    BY <2>2, <2>3
<1> HIDE DEF Disconnect, Reconnect
<1>1. TypeOK'
  BY <1>0 DEF SubmitInv, TypeOK, httpVars, waitVars
<1>2. SentBeforePooled'
  BY <1>0 DEF SubmitInv, SentBeforePooled, Sent
<1> QED
  BY <1>0, <1>1, <1>2, OutsidePreserves

LEMMA CompleteWaiterPreserves ==
  ASSUME SubmitInv, CompleteWaiter
  PROVE  SubmitInv'
<1> DEFINE d == Head(stream)
<1> USE DEF CompleteWaiter, httpVars, mempoolVars
<1>1. /\ stream \in Seq(Digests) /\ stream # <<>> /\ d = stream[1] /\ d \in Digests
      /\ Len(stream) \in Nat /\ Len(stream) > 0
  BY TailFact DEF SubmitInv, TypeOK
<1>2. d \in committed
  BY <1>1 DEF SubmitInv, SentBeforePooled
<1> HIDE DEF d
<1>3. /\ Complete(d) /\ processed' = processed \cup {d} /\ stream' = Tail(stream)
      /\ UNCHANGED <<httpVars, queue, job, mempoolVars, pool, committed, connected>>
  BY DEF d
<1> HIDE DEF CompleteWaiter
<1>4. /\ registry' \in [Digests -> Clients \cup {NoWaiter}]
      /\ registry'[d] = NoWaiter
      /\ \A e \in Digests \ {d} : registry'[e] = registry[e]
  BY <1>1, <1>3 DEF SubmitInv, TypeOK, Complete
<1>5. /\ receipt' \in [Clients -> {"open", "sent", "closed"}]
      /\ \A o \in Clients : o # registry[d] => receipt'[o] = receipt[o]
      /\ \A o \in Clients : o = registry[d] /\ job[o] \in {"submitting", "sent", "waiting"}
                             => receipt'[o] = "sent"
  BY <1>3 DEF SubmitInv, TypeOK, Complete
<1>6. \A e \in Digests : registry[e] # NoWaiter =>
         registry[e] \in Clients /\ job[registry[e]] \in Active /\ DigestOf[registry[e]] = e
  BY DEF SubmitInv, TypeOK, NoLeakedWaiter
<1>7. \A o \in Clients : o = registry[d] => DigestOf[o] = d /\ job[o] # "none"
  BY <1>1, <1>6, NoWaiterAssumption DEF Active
<1>8. TypeOK'
  BY <1>1, <1>3, <1>4, <1>5, TailFact DEF SubmitInv, TypeOK
<1>9. QueueOnce'
  BY <1>3 DEF SubmitInv, QueueOnce
<1>10. Stages'
  BY <1>3, <1>5, <1>7 DEF SubmitInv, Stages
<1>11. NoLeakedWaiter'
  BY <1>3, <1>4, <1>6 DEF NoLeakedWaiter
<1>12. OpenWhileRegistered'
  BY <1>4, <1>5, <1>6, <1>7 DEF SubmitInv, OpenWhileRegistered
<1>13. SentBeforePooled'
  <2>1. \A i \in 1 .. Len(stream') : stream'[i] \in committed
    BY <1>1, <1>3, TailFact DEF SubmitInv, SentBeforePooled
  <2> QED
    BY <1>2, <1>3, <2>1 DEF SubmitInv, SentBeforePooled, Sent
<1>14. ReceiptIsReal'
  BY <1>3, <1>5, <1>7 DEF SubmitInv, ReceiptIsReal
<1>15. ReceiptNotMissed'
  <2> SUFFICES ASSUME NEW o \in Clients, Unshared(o), job[o] \in {"submitting", "sent", "waiting"}
               PROVE  IF DigestOf[o] \in processed' THEN receipt'[o] = "sent"
                      ELSE receipt'[o] = "open" /\ registry'[DigestOf[o]] = o
    BY <1>3 DEF ReceiptNotMissed, Unshared
  <2>1. DigestOf[o] \in Digests
    BY DigestOfAssumption
  <2>2. CASE DigestOf[o] = d
    <3>1. receipt'[o] = "sent"
      BY <1>5, <2>2 DEF SubmitInv, ReceiptNotMissed
    <3> QED
      BY <1>3, <2>2, <3>1
  <2>3. CASE DigestOf[o] # d
    BY <1>3, <1>4, <1>5, <1>7, <2>1, <2>3 DEF SubmitInv, ReceiptNotMissed
  <2> QED
    BY <2>2, <2>3
<1> QED
  BY <1>8, <1>9, <1>10, <1>11, <1>12, <1>13, <1>14, <1>15 DEF SubmitInv

---------------------------------------------------------------------------
LEMMA JobStepPreserves ==
  ASSUME SubmitInv, NEW c \in Clients, JobStep(c)
  PROVE  SubmitInv'
<1>1. CASE SubmitToMempool(c)
  BY <1>1, SubmitToMempoolPreserves
<1>2. CASE MempoolAccepted(c)
  BY <1>2, MempoolAcceptedPreserves
<1>3. CASE MempoolFailed(c)
  BY <1>3, FailurePreserves DEF MempoolFailed, Failures
<1>4. CASE ReceiptArrived(c)
  BY <1>4, ReceiptArrivedPreserves
<1>5. CASE WaiterDropped(c)
  BY <1>5, FailurePreserves DEF WaiterDropped, Failures
<1>6. CASE Elapse(c)
  BY <1>6, ElapsePreserves
<1>7. CASE TimeOut(c)
  BY <1>7, FailurePreserves DEF TimeOut, Failures
<1> QED
  BY <1>1, <1>2, <1>3, <1>4, <1>5, <1>6, <1>7 DEF JobStep

LEMMA SubmitInvNext == SubmitInv /\ [Next]_vars => SubmitInv'
<1> SUFFICES ASSUME SubmitInv, [Next]_vars
             PROVE  SubmitInv'
  OBVIOUS
<1>1. ASSUME NEW c \in Clients, Request(c) \/ Enqueue(c) \/ HangUp(c) \/ JobStep(c)
      PROVE  SubmitInv'
  BY <1>1, RequestPreserves, EnqueuePreserves, HangUpPreserves, JobStepPreserves
<1>2. CASE Dispatch
  BY <1>2, DispatchPreserves
<1>3. CASE MempoolSend
  BY <1>3, MempoolSendPreserves
<1>4. ASSUME NEW d \in Digests, Commit(d)
      PROVE  SubmitInv'
  BY <1>4, CommitPreserves
<1>5. CASE Disconnect \/ Reconnect
  BY <1>5, ConnectionPreserves
<1>6. CASE CompleteWaiter
  BY <1>6, CompleteWaiterPreserves
<1>7. CASE UNCHANGED vars
  <2> USE <1>7 DEF vars, httpVars, waitVars, mempoolVars, chainVars
  <2>1. TypeOK'
    BY DEF SubmitInv, TypeOK
  <2>2. SentBeforePooled'
    BY DEF SubmitInv, SentBeforePooled, Sent
  <2> QED
    BY <2>1, <2>2, OutsidePreserves
<1> QED
  BY <1>1, <1>2, <1>3, <1>4, <1>5, <1>6, <1>7 DEF Next

THEOREM SubmitSafety == Spec => []SubmitInv
<1> QED
  BY SubmitInvInit, SubmitInvNext, PTL DEF Spec

\* Every variable keeps its type.
THEOREM SubmitTypeCorrect == Spec => []TypeOK
<1>1. SubmitInv => TypeOK
  BY DEF SubmitInv
<1> QED
  BY <1>1, SubmitSafety, PTL

\* No registration outlives its request.
THEOREM NoWaiterLeaks == Spec => []NoLeakedWaiter
<1>1. SubmitInv => NoLeakedWaiter
  BY DEF SubmitInv
<1> QED
  BY <1>1, SubmitSafety, PTL

\* A receipt is only given for a transaction whose block was received.
THEOREM ReceiptsAreReal == Spec => []ReceiptIsReal
<1>1. SubmitInv => ReceiptIsReal
  BY DEF SubmitInv
<1> QED
  BY <1>1, SubmitSafety, PTL

\* The only request for a transaction never misses its receipt while it runs.
THEOREM ReceiptsAreNotMissed == Spec => []ReceiptNotMissed
<1>1. SubmitInv => ReceiptNotMissed
  BY DEF SubmitInv
<1> QED
  BY <1>1, SubmitSafety, PTL

---------------------------------------------------------------------------
(* Every step of SubmitPath is a step of SubmitContract or leaves its      *)
(* variables alone.                                                        *)

\* What finishing a job means to the contract.
LEMMA FinishAnswers ==
  ASSUME SubmitInv, NEW c \in Clients, NEW result \in Answers \ {"none"},
         job[c] # "none", Finish(c, result), client' = client, processed' = processed,
         result = "receipt" => DigestOf[c] \in processed
  PROVE  [Contract!ContractNext]_(Contract!contractVars)
<1>1. client[c] # "idle"
  BY DEF SubmitInv, Stages
<1>2. CASE answer[c] = "none"
  <2>1. Contract!GiveAnswer(c)
    BY <1>1, <1>2 DEF Finish, Contract!GiveAnswer, Answers, Failures, Contract!Failures
  <2> QED
    BY <2>1 DEF Contract!ContractNext
<1>3. CASE answer[c] # "none"
  BY <1>3 DEF Finish, Contract!contractVars
<1> QED
  BY <1>2, <1>3

LEMMA StepImplements ==
  ASSUME SubmitInv, [Next]_vars
  PROVE  [Contract!ContractNext]_(Contract!contractVars)
<1> USE DEF httpVars, waitVars, mempoolVars, chainVars
<1>1. ASSUME NEW c \in Clients, Request(c)
      PROVE  [Contract!ContractNext]_(Contract!contractVars)
  <2>1. \A o \in Clients : client'[o] = IF o = c THEN "sending" ELSE client[o]
    BY <1>1 DEF Request, SubmitInv, TypeOK
  <2>2. Contract!MakeRequest(c)
    BY <1>1, <2>1 DEF Request, Contract!MakeRequest
  <2> QED
    BY <2>2 DEF Contract!ContractNext
<1>2. ASSUME NEW c \in Clients, Enqueue(c)
      PROVE  [Contract!ContractNext]_(Contract!contractVars)
  <2>1. \A o \in Clients : client'[o] = IF o = c THEN "waiting" ELSE client[o]
    BY <1>2 DEF Enqueue, SubmitInv, TypeOK
  <2> QED
    BY <1>2, <2>1 DEF Enqueue, Contract!contractVars
<1>3. ASSUME NEW c \in Clients, HangUp(c)
      PROVE  [Contract!ContractNext]_(Contract!contractVars)
  <2>1. Contract!GiveAnswer(c)
    BY <1>3 DEF HangUp, Contract!GiveAnswer, Contract!Failures
  <2> QED
    BY <2>1 DEF Contract!ContractNext
<1>4. ASSUME NEW c \in Clients, JobStep(c)
      PROVE  [Contract!ContractNext]_(Contract!contractVars)
  <2>1. CASE SubmitToMempool(c) \/ MempoolAccepted(c) \/ Elapse(c)
    BY <2>1 DEF SubmitToMempool, MempoolAccepted, Elapse, Contract!contractVars
  <2>2. CASE MempoolFailed(c)
    BY <2>2, FinishAnswers DEF MempoolFailed, Answers, Failures
  <2>3. CASE ReceiptArrived(c)
    BY <2>3, FinishAnswers DEF ReceiptArrived, Answers, SubmitInv, ReceiptIsReal
  <2>4. CASE WaiterDropped(c)
    BY <2>4, FinishAnswers DEF WaiterDropped, Answers, Failures
  <2>5. CASE TimeOut(c)
    BY <2>5, FinishAnswers DEF TimeOut, Answers, Failures
  <2> QED
    BY <1>4, <2>1, <2>2, <2>3, <2>4, <2>5 DEF JobStep
<1>5. CASE CompleteWaiter
  <2>1. Head(stream) \in Digests
    BY <1>5, TailFact DEF CompleteWaiter, SubmitInv, TypeOK
  <2>2. Contract!SeeBlock(Head(stream))
    BY <1>5 DEF CompleteWaiter, Contract!SeeBlock
  <2> QED
    BY <2>1, <2>2 DEF Contract!ContractNext
<1>6. CASE Dispatch \/ MempoolSend \/ (\E d \in Digests : Commit(d)) \/ Disconnect \/ Reconnect
  BY <1>6 DEF Dispatch, MempoolSend, Commit, Disconnect, Reconnect, Contract!contractVars
<1>7. CASE UNCHANGED vars
  BY <1>7 DEF vars, Contract!contractVars
<1> QED
  BY <1>1, <1>2, <1>3, <1>4, <1>5, <1>6, <1>7 DEF Next

\* Whatever the queues, timeouts, mempool errors and blocks do, each request
\* is answered at most once, after it was made, and a receipt only follows
\* the block that contains its transaction.
THEOREM SubmitImplementsContract == Spec => Contract!ContractSafety
<1>1. Init => Contract!ContractInit
  BY DEF Init, Contract!ContractInit
<1>2. SubmitInv /\ [Next]_vars => [Contract!ContractNext]_(Contract!contractVars)
  BY StepImplements
<1> QED
  BY <1>1, <1>2, SubmitSafety, PTL DEF Spec, Contract!ContractSafety
=============================================================================
