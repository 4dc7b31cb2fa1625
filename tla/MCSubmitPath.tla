---------------------------- MODULE MCSubmitPath ----------------------------
(* Two requests for one transaction and, when c3 is a client, one for       *)
(* another: the queues of size 1 are full with three requests.              *)
EXTENDS SubmitPath

CONSTANTS c1, c2, c3, d1, d2

MCDigestOf == [c \in Clients |-> IF c = c3 THEN d2 ELSE d1]
=============================================================================
