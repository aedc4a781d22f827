------------------------------- MODULE BookSH -------------------------------
(***************************************************************************)
(* The order book of a Shanghai symbol in continuous trading, fed every    *)
(* message of the merged order-and-trade stream (mdl 4.24) in its order.   *)
(*                                                                         *)
(* The exchange matches an incoming order against the best resting orders  *)
(* of the other side and reports each match as a trade 'T', flagged with   *)
(* the side of the incoming order, whose own number is not known to the    *)
(* book yet; what is left of it then comes to rest and is reported as 'A'. *)
(* A cancelled order is reported as 'D' with the quantity it had left.     *)
(* Each step is one message: the exchange's step and the whole handler.    *)
(***************************************************************************)
EXTENDS BookVsExchange, OrdTrdSH

\* onOrderSH does not test the price: a price outside the limits would index
\* outside the arrays.  The symbol's limits are taken to be the exchange's.
ASSUME InLimits == PriceSlack = 0

-----------------------------------------------------------------------------
\* The messages, as decodeSH fills them in.
AddMsg(s, p, q) ==
  [OrdType |-> "A", Side |-> s, OrderNo |-> nextNo, p |-> p, OrderQty |-> q]

DelMsg(n) ==
  [OrdType |-> "D", Side |-> order[n].side, OrderNo |-> n,
   p |-> order[n].px, OrderQty |-> order[n].qty]

\* The resting order n meets an incoming one, numbered nextNo, for quantity q.
TradeMsg(n, q) ==
  IF order[n].side = "B"
  THEN [TradeBuyNo |-> n, TradeSellNo |-> nextNo, LastQty |-> q,
        TradeBSFlag |-> "S"]
  ELSE [TradeBuyNo |-> nextNo, TradeSellNo |-> n, LastQty |-> q,
        TradeBSFlag |-> "B"]

-----------------------------------------------------------------------------
Quote == \E s \in Side, p \in Levels, q \in 1 .. MaxQty :
  /\ ~ Crosses(s, p)
  /\ Enter(s, p, q)
  /\ onOrderSH(AddMsg(s, p, q))

Cancel == \E n \in OrderNo :
  /\ order[n].qty > 0
  /\ Reduce({n}, order[n].qty)
  /\ onOrderSH(DelMsg(n))

Match == \E n \in OrderNo, q \in 1 .. MaxQty :
  /\ AtBest(n)
  /\ q <= order[n].qty
  /\ Reduce({n}, q)
  /\ onTradeSH(TradeMsg(n, q))

Next == Quote \/ Cancel \/ Match

Spec == Init /\ [][Next]_vars

-----------------------------------------------------------------------------
\* The book as its readers see it.
shownDepth == [s \in Side |-> IF s = "B" THEN bids ELSE asks]
shownBest  == [s \in Side |-> IF s = "B" THEN bid1 ELSE ask1]

Shown == INSTANCE MarketDepth WITH depth <- shownDepth, best <- shownBest

\* Message by message, the handlers show what a market's depth may do: one
\* level changes, its side's cursor is where the arrays say the best level is,
\* the other side is untouched, and the book is never crossed.
ImplementsMarketDepth == Shown!Spec
=============================================================================
