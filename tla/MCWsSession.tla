---------------------------- MODULE MCWsSession ----------------------------
(* One spot market that the client spells in two ways and one user that it  *)
(* spells in another case than the indexer, on rings of one message.        *)
EXTENDS WsSession

CONSTANTS s1

Key(channel, name) == [channel |-> channel, name |-> name]

MCKeys == {Key("orderbook_delta", "s"), Key("orderbook_delta", "address of s"),
           Key("quote", "s"), Key("user", "U")}
MCSpotOf == [name \in {"s", "address of s"} |-> s1]
MCFolded == [name \in {"s", "address of s", "u", "U", "v"} |->
               IF name = "U" THEN "u" ELSE name]
=============================================================================
