----------------------------- MODULE SubmitPath -----------------------------
(***************************************************************************)
(* A signed transaction's way from POST /tx/submit to its receipt:         *)
(*                                                                         *)
(*   HTTP handler --queue--> dispatcher task --mempool_queue--> sender     *)
(*        ^                   | register          |                |       *)
(*        |                   v                   v (TCP)          |       *)
(*        +--- answer ---- registry <-- complete -- indexer <-- chain      *)
(*                                                                         *)
(* (http/routes/tx.rs, submit_queue.rs, submit_wait.rs, mempool_client.rs, *)
(* the first loop of process_block.)  The dispatcher task polls every      *)
(* submit_and_wait future itself, so their steps never overlap with each   *)
(* other or with a registration; the mempool sender and the indexer run on *)
(* other threads and may come between any two of them.                     *)
(***************************************************************************)
EXTENDS Naturals, Sequences, FiniteSets

CONSTANTS Clients,         \* submit requests
          Digests,         \* digests of signed transactions (tx and signature)
          DigestOf,        \* the transaction each request carries
          QueueCapacity,   \* SubmitQueueConfig::capacity
          MempoolCapacity, \* MEMPOOL_SEND_QUEUE_CAPACITY
          NoWaiter         \* no entry in the registry

ASSUME DigestOfAssumption == DigestOf \in [Clients -> Digests]
ASSUME NoWaiterAssumption == NoWaiter \notin Clients
ASSUME CapacitiesAssumption == QueueCapacity \in Nat \ {0} /\ MempoolCapacity \in Nat \ {0}

VARIABLES
  \* the HTTP side
  client,         \* "idle", "sending" into the queue, "waiting" for the answer
  answer,         \* what the client was answered; "gone" when it hung up first
  \* the dispatcher task
  queue,          \* jobs sent and not yet received
  job,            \* where the submit_and_wait future of each request stands
  registry,       \* SubmitWaitRegistry.pending: the waiter of each digest
  receipt,        \* the receipt oneshot of each job: "open", "sent" or "closed"
  \* the mempool sender task
  mempool_queue,  \* requests sent and not yet received
  send_result,    \* the response oneshot: "none", "ok" or "error"
  \* the node and the indexer
  pool,           \* digests the node has received
  committed,      \* digests in a block
  connected,      \* the indexer is subscribed to NewBlocks
  stream,         \* blocks it has not yet received, one transaction each
  processed       \* digests whose block went through process_block

httpVars == <<client, answer>>
waitVars == <<registry, receipt>>
mempoolVars == <<mempool_queue, send_result>>
chainVars == <<pool, committed, connected, stream, processed>>
vars == <<httpVars, queue, job, waitVars, mempoolVars, chainVars>>

Failures == {"timeout", "dropped", "mempool_error", "gone"}
Answers == {"none", "receipt"} \cup Failures

\* "submitting" wants room in the mempool queue, "sent" awaits the sender's
\* response, "waiting" is inside the timeout, "elapsed" has seen the timeout
\* and not yet cancelled its registration.
Active == {"submitting", "sent", "waiting", "elapsed"}
JobStages == {"none", "done"} \cup Active

TypeOK ==
  /\ client \in [Clients -> {"idle", "sending", "waiting"}]
  /\ answer \in [Clients -> Answers]
  /\ queue \in Seq(Clients)
  /\ job \in [Clients -> JobStages]
  /\ registry \in [Digests -> Clients \cup {NoWaiter}]
  /\ receipt \in [Clients -> {"open", "sent", "closed"}]
  /\ mempool_queue \in Seq(Clients)
  /\ send_result \in [Clients -> {"none", "ok", "error"}]
  /\ pool \subseteq Digests
  /\ committed \subseteq Digests
  /\ connected \in BOOLEAN
  /\ stream \in Seq(Digests)
  /\ processed \subseteq Digests

Init ==
  /\ client = [c \in Clients |-> "idle"]
  /\ answer = [c \in Clients |-> "none"]
  /\ queue = <<>>
  /\ job = [c \in Clients |-> "none"]
  /\ registry = [d \in Digests |-> NoWaiter]
  /\ receipt = [c \in Clients |-> "open"]
  /\ mempool_queue = <<>>
  /\ send_result = [c \in Clients |-> "none"]
  /\ pool = {}
  /\ committed = {}
  /\ connected = TRUE
  /\ stream = <<>>
  /\ processed = {}

---------------------------------------------------------------------------
(* The registry.                                                           *)

\* Dropping a sender closes the receipt channel unless it was used.
Closed(waiter) ==
  [c \in Clients |-> IF c = waiter /\ receipt[c] = "open" THEN "closed" ELSE receipt[c]]

\* insert replaces, and so drops, a sender registered under the same digest.
Register(c) ==
  /\ registry' = [registry EXCEPT ![DigestOf[c]] = c]
  /\ receipt' = Closed(registry[DigestOf[c]])

\* remove drops whichever sender is registered under the digest.
Cancel(d) ==
  /\ registry' = [registry EXCEPT ![d] = NoWaiter]
  /\ receipt' = Closed(registry[d])

\* Mutant: a receipt is delivered only to a future that already waits for it.
CompleteWhenWaiting(d) ==
  /\ registry' = [registry EXCEPT ![d] = NoWaiter]
  /\ receipt' = [c \in Clients |->
                   IF c = registry[d] /\ job[c] = "waiting" THEN "sent" ELSE receipt[c]]

\* The receiver is gone once the future has left its timeout.
Complete(d) ==
  /\ registry' = [registry EXCEPT ![d] = NoWaiter]
  /\ receipt' = [c \in Clients |->
                   IF c = registry[d] /\ job[c] \in {"submitting", "sent", "waiting"}
                   THEN "sent" ELSE receipt[c]]

---------------------------------------------------------------------------
(* The HTTP handler.                                                       *)

Request(c) ==
  /\ client[c] = "idle"
  /\ client' = [client EXCEPT ![c] = "sending"]
  /\ UNCHANGED <<answer, queue, job, waitVars, mempoolVars, chainVars>>

Enqueue(c) ==
  /\ client[c] = "sending"
  /\ answer[c] = "none"
  /\ Len(queue) < QueueCapacity
  /\ queue' = Append(queue, c)
  /\ client' = [client EXCEPT ![c] = "waiting"]
  /\ UNCHANGED <<answer, job, waitVars, mempoolVars, chainVars>>

\* Mutant: the request is forgotten together with its client.
HangUpForgets(c) ==
  /\ client[c] \in {"sending", "waiting"}
  /\ answer[c] = "none"
  /\ client' = [client EXCEPT ![c] = "gone"]
  /\ UNCHANGED <<answer, queue, job, waitVars, mempoolVars, chainVars>>

\* The client closes its connection and the handler's future is dropped: a job
\* not yet in the queue never gets there, one that is runs on unanswered.
HangUp(c) ==
  /\ client[c] \in {"sending", "waiting"}
  /\ answer[c] = "none"
  /\ answer' = [answer EXCEPT ![c] = "gone"]
  /\ UNCHANGED <<client, queue, job, waitVars, mempoolVars, chainVars>>

---------------------------------------------------------------------------
(* The dispatcher task.                                                    *)

\* Its next poll comes only after the current one has run to the end.
DispatcherFree == \A c \in Clients : job[c] # "elapsed"

\* respond_to.send: an answer nobody waits for any more is dropped.
Finish(c, result) ==
  /\ job' = [job EXCEPT ![c] = "done"]
  /\ answer' = IF answer[c] = "none" THEN [answer EXCEPT ![c] = result] ELSE answer

Dispatch ==
  /\ DispatcherFree
  /\ queue # <<>>
  /\ queue' = Tail(queue)
  /\ Register(Head(queue))
  /\ job' = [job EXCEPT ![Head(queue)] = "submitting"]
  /\ UNCHANGED <<httpVars, mempoolVars, chainVars>>

SubmitToMempool(c) ==
  /\ DispatcherFree
  /\ job[c] = "submitting"
  /\ Len(mempool_queue) < MempoolCapacity
  /\ mempool_queue' = Append(mempool_queue, c)
  /\ job' = [job EXCEPT ![c] = "sent"]
  /\ UNCHANGED <<httpVars, queue, waitVars, send_result, chainVars>>

\* The wait, and with it the timeout, starts only now.
MempoolAccepted(c) ==
  /\ DispatcherFree
  /\ job[c] = "sent"
  /\ send_result[c] = "ok"
  /\ job' = [job EXCEPT ![c] = "waiting"]
  /\ UNCHANGED <<httpVars, queue, waitVars, mempoolVars, chainVars>>

\* Mutant: the error is returned with ? and the registration stays.
MempoolFailedUncancelled(c) ==
  /\ DispatcherFree
  /\ job[c] = "sent"
  /\ send_result[c] = "error"
  /\ Finish(c, "mempool_error")
  /\ UNCHANGED <<client, queue, waitVars, mempoolVars, chainVars>>

MempoolFailed(c) ==
  /\ DispatcherFree
  /\ job[c] = "sent"
  /\ send_result[c] = "error"
  /\ Cancel(DigestOf[c])
  /\ Finish(c, "mempool_error")
  /\ UNCHANGED <<client, queue, mempoolVars, chainVars>>

\* Mutant: the channel is not told apart from its closing.
ReceiptArrivedOrClosed(c) ==
  /\ DispatcherFree
  /\ job[c] = "waiting"
  /\ receipt[c] # "open"
  /\ Finish(c, "receipt")
  /\ UNCHANGED <<client, queue, waitVars, mempoolVars, chainVars>>

ReceiptArrived(c) ==
  /\ DispatcherFree
  /\ job[c] = "waiting"
  /\ receipt[c] = "sent"
  /\ Finish(c, "receipt")
  /\ UNCHANGED <<client, queue, waitVars, mempoolVars, chainVars>>

WaiterDropped(c) ==
  /\ DispatcherFree
  /\ job[c] = "waiting"
  /\ receipt[c] = "closed"
  /\ Cancel(DigestOf[c])
  /\ Finish(c, "dropped")
  /\ UNCHANGED <<client, queue, mempoolVars, chainVars>>

\* Mutant: the timer runs only once the transaction is in a block.
ElapseAfterCommit(c) ==
  /\ DispatcherFree
  /\ job[c] = "waiting"
  /\ receipt[c] = "open"
  /\ DigestOf[c] \in committed
  /\ job' = [job EXCEPT ![c] = "elapsed"]
  /\ UNCHANGED <<httpVars, queue, waitVars, mempoolVars, chainVars>>

\* The timeout polls the receipt first, so it elapses on an open channel ...
Elapse(c) ==
  /\ DispatcherFree
  /\ job[c] = "waiting"
  /\ receipt[c] = "open"
  /\ job' = [job EXCEPT ![c] = "elapsed"]
  /\ UNCHANGED <<httpVars, queue, waitVars, mempoolVars, chainVars>>

\* ... and the indexer may still complete the waiter before this runs.
TimeOut(c) ==
  /\ job[c] = "elapsed"
  /\ Cancel(DigestOf[c])
  /\ Finish(c, "timeout")
  /\ UNCHANGED <<client, queue, mempoolVars, chainVars>>

---------------------------------------------------------------------------
(* The mempool sender task: up to two attempts over TCP.  A write that     *)
(* succeeded may be lost with its connection, and one that failed may have *)
(* reached the node, so the response and the delivery are independent.     *)

MempoolSend ==
  /\ mempool_queue # <<>>
  /\ LET c == Head(mempool_queue)
     IN /\ \E result \in {"ok", "error"} : send_result' = [send_result EXCEPT ![c] = result]
        /\ pool' \in {pool, pool \cup {DigestOf[c]}}
  /\ mempool_queue' = Tail(mempool_queue)
  /\ UNCHANGED <<httpVars, queue, job, waitVars, committed, connected, stream, processed>>

---------------------------------------------------------------------------
(* The node and the indexer.                                               *)

\* A transaction enters the chain at most once, however often it was sent.
Commit(d) ==
  /\ d \in pool \ committed
  /\ committed' = committed \cup {d}
  /\ stream' = IF connected THEN Append(stream, d) ELSE stream
  /\ UNCHANGED <<httpVars, queue, job, waitVars, mempoolVars, pool, connected, processed>>

\* run_once returns and its receiver is dropped with the blocks in it.
Disconnect ==
  /\ connected
  /\ connected' = FALSE
  /\ stream' = <<>>
  /\ UNCHANGED <<httpVars, queue, job, waitVars, mempoolVars, pool, committed, processed>>

Reconnect ==
  /\ ~connected
  /\ connected' = TRUE
  /\ UNCHANGED <<httpVars, queue, job, waitVars, mempoolVars, pool, committed, stream, processed>>

\* The first loop of process_block, for one transaction.
CompleteWaiter ==
  /\ stream # <<>>
  /\ Complete(Head(stream))
  /\ processed' = processed \cup {Head(stream)}
  /\ stream' = Tail(stream)
  /\ UNCHANGED <<httpVars, queue, job, mempoolVars, pool, committed, connected>>

---------------------------------------------------------------------------
JobStep(c) ==
  \/ SubmitToMempool(c)
  \/ MempoolAccepted(c)
  \/ MempoolFailed(c)
  \/ ReceiptArrived(c)
  \/ WaiterDropped(c)
  \/ Elapse(c)
  \/ TimeOut(c)

Next ==
  \/ \E c \in Clients : Request(c) \/ Enqueue(c) \/ HangUp(c) \/ JobStep(c)
  \/ Dispatch
  \/ MempoolSend
  \/ \E d \in Digests : Commit(d)
  \/ Disconnect
  \/ Reconnect
  \/ CompleteWaiter

Spec == Init /\ [][Next]_vars

\* The tasks of the service run, the timer fires and a connect or a write on
\* the mempool socket ends, well or badly.  Nothing is assumed of the chain,
\* of the block stream or of the clients.
Fairness ==
  /\ \A c \in Clients : WF_vars(Enqueue(c)) /\ WF_vars(JobStep(c))
  /\ WF_vars(Dispatch)
  /\ WF_vars(MempoolSend)

FairSpec == Spec /\ Fairness

---------------------------------------------------------------------------
Unshared(c) == \A other \in Clients \ {c} : DigestOf[other] # DigestOf[c]

\* No registration outlives its request: whatever order mempool errors, drops,
\* timeouts and receipts come in, an entry of the registry belongs to a
\* submit_and_wait that is still running (submit_queue.rs:106-160).
NoLeakedWaiter ==
  \A d \in Digests : registry[d] # NoWaiter =>
    job[registry[d]] \in Active /\ DigestOf[registry[d]] = d

\* A request that is answered with a receipt, or about to be, carried a
\* transaction whose block the indexer has received
\* (submit_wait.rs:35-40, processor.rs:64-74).
ReceiptIsReal ==
  \A c \in Clients :
    receipt[c] = "sent" \/ answer[c] = "receipt" => DigestOf[c] \in processed

\* Because the waiter is registered before the transaction is sent, the
\* receipt cannot slip past it: while the only request for a transaction is
\* running, either the indexer has not received its block and the registration
\* stands, or the receipt is in the request's channel
\* (submit_queue.rs:41-61, 106-124).
ReceiptNotMissed ==
  \A c \in Clients :
    Unshared(c) /\ job[c] \in {"submitting", "sent", "waiting"} =>
      IF DigestOf[c] \in processed THEN receipt[c] = "sent"
      ELSE receipt[c] = "open" /\ registry[DigestOf[c]] = c

\* The same for every request, shared transaction or not: whoever registered
\* under the digest is matched by it, as the comment on the key says
\* (processor.rs:65).
EveryWaiterMatched ==
  \A c \in Clients :
    job[c] \in {"submitting", "sent", "waiting"} =>
      receipt[c] = "sent" \/ registry[DigestOf[c]] = c

\* Every request is answered, unless its client hangs up, even if the node
\* never commits anything and the indexer never connects
\* (submit_queue.rs:84-95, 124-160).
EveryRequestAnswered ==
  \A c \in Clients : client[c] # "idle" ~> answer[c] # "none"

\* The abstract promise, with every request that was made as requested.
Contract == INSTANCE SubmitContract WITH
              requested <- {c \in Clients : client[c] # "idle"}

ImplementsContract == Contract!ContractSpec
=============================================================================
