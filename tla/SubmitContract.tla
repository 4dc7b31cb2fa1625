--------------------------- MODULE SubmitContract ---------------------------
(***************************************************************************)
(* What POST /tx/submit promises: every request is answered once, and a    *)
(* receipt is only ever given for a transaction that a block contained.    *)
(***************************************************************************)
CONSTANTS Clients,   \* submit requests
          Digests,   \* digests of signed transactions
          DigestOf   \* the transaction each request carries

Failures == {"timeout", "dropped", "mempool_error", "gone"}
Answers == {"none", "receipt"} \cup Failures

VARIABLES
  requested,  \* requests made so far
  processed,  \* digests of the transactions in the blocks seen so far
  answer      \* the answer of each request

contractVars == <<requested, processed, answer>>

ContractInit ==
  /\ requested = {}
  /\ processed = {}
  /\ answer = [c \in Clients |-> "none"]

MakeRequest(c) ==
  /\ c \notin requested
  /\ requested' = requested \cup {c}
  /\ UNCHANGED <<processed, answer>>

SeeBlock(d) ==
  /\ processed' = processed \cup {d}
  /\ UNCHANGED <<requested, answer>>

GiveAnswer(c) ==
  /\ c \in requested
  /\ answer[c] = "none"
  /\ \/ /\ DigestOf[c] \in processed
        /\ answer' = [answer EXCEPT ![c] = "receipt"]
     \/ \E failure \in Failures : answer' = [answer EXCEPT ![c] = failure]
  /\ UNCHANGED <<requested, processed>>

ContractNext ==
  \/ \E c \in Clients : MakeRequest(c) \/ GiveAnswer(c)
  \/ \E d \in Digests : SeeBlock(d)

ContractSafety == ContractInit /\ [][ContractNext]_contractVars

ContractSpec ==
  /\ ContractSafety
  /\ \A c \in Clients : WF_contractVars(GiveAnswer(c))
=============================================================================
