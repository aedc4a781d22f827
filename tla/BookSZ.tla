------------------------------- MODULE BookSZ -------------------------------
(***************************************************************************)
(* The order book of a Shenzhen symbol, fed the order (mdl 6.33) and the   *)
(* trade (mdl 6.36) messages in the order of their sequence numbers.       *)
(*                                                                         *)
(* The exchange reports an order when it accepts it, with its full price   *)
(* and quantity, and every match after that with the numbers of both       *)
(* orders: the book is crossed from an aggressive order's message until    *)
(* the last of its fills, and all through a call auction.  A fill's price  *)
(* lies between those of its two orders.  A withdrawal is a trade message  *)
(* with one number, the other being 0, and with price 0.                   *)
(*                                                                         *)
(* With PriceSlack > 0 the price limits the program was given are narrower *)
(* than the exchange's (a limits file of another day), and some orders     *)
(* carry prices the handlers refuse.                                       *)
(*                                                                         *)
(* An own-best order 'U' comes to rest at the best price of its own side;  *)
(* its message has price 0 (as in the recorded feed 000046_6_33.csv), and  *)
(* the handler refuses it.                                                 *)
(***************************************************************************)
EXTENDS BookVsExchange, OrdTrdSZ

VARIABLE refused   \* the orders whose messages the handler refused (auxiliary)

szVars == <<vars, refused>>

SZInit == Init /\ refused = {}

\* The book's properties, for the orders whose messages were not refused.
known == [n \in OrderNo |-> IF n \in refused THEN [order[n] EXCEPT !.qty = 0]
                                              ELSE order[n]]

Known == INSTANCE BookVsExchange WITH order <- known

-----------------------------------------------------------------------------
\* The messages, as decodeSZ fills them in.
OrderMsg(s, p, q) ==
  [Side |-> s, OrderNo |-> nextNo, p |-> p, OrderQty |-> q]

\* No order has the number 0; price 0 lies below the limits of any symbol.
CancelMsg(n) ==
  [ExecType |-> "4", p |-> Nil, LastQty |-> order[n].qty,
   BidApplSeqNum   |-> IF order[n].side = "B" THEN n ELSE 0,
   OfferApplSeqNum |-> IF order[n].side = "S" THEN n ELSE 0]

FillMsg(b, s, p, q) ==
  [ExecType |-> "F", p |-> p, LastQty |-> q,
   BidApplSeqNum |-> b, OfferApplSeqNum |-> s]

-----------------------------------------------------------------------------
Accepted(m) ==
  refused' = IF InRange(m.p) THEN refused ELSE refused \cup {m.OrderNo}

Submit == \E s \in Side, p \in Prices, q \in 1 .. MaxQty :
  /\ Enter(s, p, q)
  /\ onOrderSZ(OrderMsg(s, p, q))
  /\ Accepted(OrderMsg(s, p, q))

SubmitOwnBest == \E n \in OrderNo, q \in 1 .. MaxQty :
  /\ AtBest(n)
  /\ Enter(order[n].side, order[n].px, q)
  /\ onOrderSZ(OrderMsg(order[n].side, Nil, q))
  /\ Accepted(OrderMsg(order[n].side, Nil, q))

Withdraw == \E n \in OrderNo :
  /\ order[n].qty > 0
  /\ Reduce({n}, order[n].qty)
  /\ onTradeSZ(CancelMsg(n))
  /\ UNCHANGED refused

Match == \E b \in Resting("B"), s \in Resting("S"), p \in Prices :
  LET q == Min({order[b].qty, order[s].qty})
  IN  /\ AtBest(b) /\ AtBest(s)
      /\ order[s].px <= p /\ p <= order[b].px
      /\ Reduce({b, s}, q)
      /\ onTradeSZ(FillMsg(b, s, p, q))
      /\ UNCHANGED refused

\* A market order '1' is reported with price 0 and refused; nothing of it comes
\* to rest, but its fills arrive, with a number that is not in the index.
MarketFill == \E n \in OrderNo, q \in 1 .. MaxQty :
  /\ AtBest(n)
  /\ q <= order[n].qty
  /\ Reduce({n}, q)
  /\ onTradeSZ(IF order[n].side = "B" THEN FillMsg(n, nextNo, order[n].px, q)
                                     ELSE FillMsg(nextNo, n, order[n].px, q))
  /\ UNCHANGED refused

Next == Submit \/ SubmitOwnBest \/ Withdraw \/ Match \/ MarketFill

Spec == SZInit /\ [][Next]_szVars

-----------------------------------------------------------------------------
\* The types of the exchange's, the book's and the auxiliary variables; no
\* refused order is in the index.
SZTypeOK ==
  /\ TypeOK
  /\ refused \subseteq 1 .. nextNo - 1
  /\ \A n \in refused : seq_pxs[n] = NoSlot

\* Every level shows exactly what rests there of the orders that were not
\* refused: the fills and withdrawals of refused orders, which arrive all the
\* same, take nothing from the others.
KnownDepthExact == Known!DepthExact

\* The bid cursor is on the best level that such an order rests at.
KnownBidExact == Known!BidExact

\* The ask cursor never stands on an empty level, so the best ask that is
\* shown can be traded at, even when it is not the best there is.
AskOnQuantity == ask1 # Nil => asks[ask1] > 0

\* The withdrawal of the known sell order n at the ask cursor's level, with
\* others left there.
AskLostOnlyBy(n) ==
  /\ known[n].side = "S" /\ known[n].qty > 0 /\ known'[n].qty = 0
  /\ ask1 = known[n].px /\ asks'[known[n].px] > 0

\* A fill of two orders that rest, of which the sell order is known.
KnownSellFilled == \E b \in Resting("B"), s \in Resting("S") :
  order'[b].qty < order[b].qty /\ order'[s].qty < order[s].qty /\ s \notin refused

\* Only such a withdrawal takes the ask cursor off the best level, and the next
\* such fill puts it back: no other message of the two feeds moves a right
\* cursor to a wrong level, and no such fill leaves a wrong one.
AskStep ==
  /\ Known!AskExact /\ ~ Known!AskExact' => \E n \in OrderNo : AskLostOnlyBy(n)
  /\ KnownSellFilled => Known!AskExact'

AskCursorSteps == [][AskStep]_szVars
=============================================================================
