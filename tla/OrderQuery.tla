----------------------------- MODULE OrderQuery -----------------------------
(***************************************************************************)
(* GET /orders/query (http/routes/orders.rs): how a client that has placed *)
(* an order finds it again, by its chain id or by what it was placed with. *)
(* The index is read once, so an answer is a function of the state.        *)
(***************************************************************************)
EXTENDS Indexer

CONSTANTS PriceFactor,  \* raw prices are shown times 100 ...
          PriceScale    \* ... in units of TOKEN_SCALE

ASSUME PriceFormatAssumption == PriceFactor \in Nat \ {0} /\ PriceScale \in Nat \ {0}

\* Mutant: prices are shown without their fraction.
PriceTextWhole(raw) == (raw * PriceFactor) \div PriceScale

\* format_price_pieces: whole and fraction of a product that saturates.  The
\* fraction has a fixed number of digits, of which only zeros are trimmed.
PriceText(raw) ==
  LET numerator == IF raw * PriceFactor > MaxAmount THEN MaxAmount ELSE raw * PriceFactor
  IN <<numerator \div PriceScale, numerator % PriceScale>>

\* query_order_by_chain_id, with the creator when the client names one.
QueryByChainId(s, id, owners) ==
  {k \in DOMAIN orders : k = <<s, id>> /\ orders[k].user \in owners}

\* Mutant: an order that was filled in part is not looked for.
FindUnfilledOrder(s, owner, side, price, size) ==
  {k \in DOMAIN orders :
     /\ orders[k].user = owner /\ orders[k].side = side
     /\ orders[k].status = "open" /\ orders[k].size_raw = size
     /\ ContextSpot(k) = s
     /\ PriceText(orders[k].price) = price}

\* find_open_order_match: the first that fits in the order of a HashMap, so any
\* of these.
FindOpenOrder(s, owner, side, price, size) ==
  {k \in DOMAIN orders :
     /\ orders[k].user = owner /\ orders[k].side = side
     /\ orders[k].status \in Cancellable /\ orders[k].size_raw = size
     /\ orders[k].market \in DOMAIN markets /\ ContextSpot(k) = s
     /\ PriceText(orders[k].price) = price}

---------------------------------------------------------------------------
\* A client that asks for an order that rests on the chain by what it then has
\* finds it, and is answered with another order only if that one has the same
\* owner, side, price and size in the same spot market: prices that differ look
\* different as long as the multiplication by 100 does not saturate
\* (chain/mod.rs:129-140, store.rs:390-427, orders.rs:86-137).
OpenOrderIsFound ==
  \A k \in Listed \ (missed \cup touched) :
    ~InHandler(k) /\ ~Ambiguous(k) /\ Remaining(view[k]) > 0 =>
    LET found == FindOpenOrder(k[1], OrderOwner[k], OrderSide[k],
                               PriceText(OrderPrice[k]), view[k].size)
    IN /\ k \in found
       /\ \A j \in found :
            /\ QueryByChainId(k[1], j[2], {OrderOwner[k]}) = {j}
            /\ OrderPrice[k] * PriceFactor < MaxAmount => orders[j].price = OrderPrice[k]
=============================================================================
