------------------------------ MODULE Exchange ------------------------------
(***************************************************************************)
(* The exchange's own book of one symbol: the orders that rest on it and   *)
(* the quantity each has left.  It is not code of the repository; it is    *)
(* the source of the messages the handlers are written for, and what the   *)
(* order book rebuilt from them has to agree with.                         *)
(***************************************************************************)
EXTENDS LobTypes, Sums

CONSTANTS
  PriceSlack,  \* how many prices beyond each limit orders may carry
  MaxQty       \* the largest quantity of one order (bounds the instance)

ASSUME PriceSlackAssumption == PriceSlack \in Nat
ASSUME MaxQtyAssumption == MaxQty \in Nat \ {0}

VARIABLES
  order,       \* each order's side, price and quantity left (0: not resting)
  nextNo       \* the number the next order will get

exchangeVars == <<order, nextNo>>

Prices == (0 - PriceSlack) .. (Span - 1 + PriceSlack)

ExchangeTypeOK ==
  /\ order \in [OrderNo -> [side: Side, px: Prices, qty: Nat]]
  /\ nextNo \in 1 .. MaxOrders + 1

ExchangeInit ==
  /\ order = [n \in OrderNo |-> [side |-> "B", px |-> 0, qty |-> 0]]
  /\ nextNo = 1

-----------------------------------------------------------------------------
Resting(s) == {n \in OrderNo : order[n].side = s /\ order[n].qty > 0}

\* What each order contributes to one level, and the level's depth.
Share(s, p) ==
  [n \in OrderNo |->
     IF order[n].side = s /\ order[n].px = p THEN order[n].qty ELSE 0]

Depth(s, p) == SumTo(Share(s, p), MaxOrders)

\* Order n rests and no order of its side has a better price.
AtBest(n) ==
  /\ n \in OrderNo
  /\ order[n].qty > 0
  /\ \A k \in Resting(order[n].side) :
        IF order[n].side = "B" THEN order[k].px <= order[n].px
                               ELSE order[k].px >= order[n].px

\* An order of side s at price p would trade with an order that rests.
Crosses(s, p) ==
  IF s = "B" THEN \E k \in Resting("S") : order[k].px <= p
             ELSE \E k \in Resting("B") : order[k].px >= p

-----------------------------------------------------------------------------
\* The next order comes to rest.
Enter(s, p, q) ==
  /\ nextNo \in OrderNo
  /\ order' = [order EXCEPT ![nextNo] = [side |-> s, px |-> p, qty |-> q]]
  /\ nextNo' = nextNo + 1

\* The orders in S each lose quantity q.
Reduce(S, q) ==
  /\ order' = [n \in OrderNo |->
                 IF n \in S THEN [order[n] EXCEPT !.qty = @ - q] ELSE order[n]]
  /\ UNCHANGED nextNo
=============================================================================
