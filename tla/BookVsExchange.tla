--------------------------- MODULE BookVsExchange ---------------------------
(***************************************************************************)
(* How a rebuilt order book can agree with the exchange's: the properties  *)
(* the two markets' modules check of their handlers.                       *)
(***************************************************************************)
EXTENDS Exchange, PxList

vars == <<exchangeVars, bookVars>>

Init == ExchangeInit /\ BookInit

\* The types of the exchange's and of the book's variables.
TypeOK == ExchangeTypeOK /\ BookTypeOK

\* Every level shows exactly what the exchange holds there, although messages
\* name an order by its number, by its price, or not at all.
DepthExact ==
  \A l \in Levels : /\ bids[l] = Depth("B", l)
                    /\ asks[l] = Depth("S", l)

\* No level shows more than the exchange holds there: what is shown can be
\* traded against.
NeverOverstates ==
  \A l \in Levels : /\ bids[l] <= Depth("B", l)
                    /\ asks[l] <= Depth("S", l)

\* The cursor c of side s is on the exchange's best level of that side, and
\* null only when nothing rests there.
OnBest(s, c) ==
  IF Resting(s) = {}
  THEN c = Nil
  ELSE \E n \in Resting(s) : AtBest(n) /\ c = order[n].px

BidExact == OnBest("B", bid1)
AskExact == OnBest("S", ask1)

\* Both cursors are right, although the handlers only move them step by step.
BestExact == BidExact /\ AskExact

\* An order that rests within the limits is in the index, at its own side and
\* level.  The handlers take an order out when its level, not the order, runs
\* empty; a live order taken out would keep its quantity in the book for ever.
RestingIndexed ==
  \A n \in OrderNo : order[n].qty > 0 /\ order[n].px \in Levels =>
     seq_pxs[n] = [side |-> order[n].side, lvl |-> order[n].px]

\* What the arrays hold is never hidden from a reader, who starts at a cursor
\* and goes away from the other side: no level with a quantity lies beyond it,
\* although the cursor itself may stand on an empty level.
BidsInView == \A l \in Filled(bids) : bid1 # Nil /\ l <= bid1
AsksInView == \A l \in Filled(asks) : ask1 # Nil /\ l >= ask1

\* Nothing of either side is hidden.
NothingHidden == BidsInView /\ AsksInView
=============================================================================
