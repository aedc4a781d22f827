---------------------------- MODULE BookSZRouted ----------------------------
(***************************************************************************)
(* The Shenzhen book behind the ZMQ and Redis feeders.  Orders (mdl 6.33)  *)
(* and trades (mdl 6.36) come on two topics: each keeps its order, but a   *)
(* trade may arrive before the order it names.                             *)
(*                                                                         *)
(* A feeder takes the symbol id it routes a message by from the fourth     *)
(* column, which holds the SecurityID in an order but the BidApplSeqNum in *)
(* a trade; the decoder takes SecurityID from the right columns.  A trade  *)
(* reaches the handler only if its buyer's number passes for the symbol id *)
(* of some worker.  The worker decodes the message and calls onMessage at  *)
(* once, in the feeder's thread.                                           *)
(***************************************************************************)
EXTENDS BookSZ, Routing, Sequences

CONSTANTS
  symbol_list,  \* the symbols that have a book
  SecurityID,   \* the symbol of this book
  Before,       \* how many numbers other symbols' orders took first
  InFlight      \* how many messages may be under way (bounds the instance)

ASSUME ListAssumption       == symbol_list \subseteq 0 .. lobnum - 1
ASSUME SecurityIDAssumption == SecurityID \in symbol_list
ASSUME BeforeAssumption     == Before \in Nat
ASSUME InFlightAssumption   == InFlight \in Nat \ {0}

VARIABLES
  orders,   \* the 6.33 messages that were sent and have not arrived
  trades,   \* the 6.36 messages that were sent and have not arrived
  missed    \* what the book misses of each order's trades (auxiliary)

routedVars == <<szVars, orders, trades, missed>>

RoutedInit ==
  /\ SZInit
  /\ orders = <<>> /\ trades = <<>>
  /\ missed = [n \in OrderNo |-> 0]

Room(k) == Len(orders) + Len(trades) + k <= InFlight

-----------------------------------------------------------------------------
\* pxlive_ has lobnum entries, and a book for the symbols of the list.
InWorklist(symbolid) == symbolid < lobnum /\ symbolid \in symbol_list

onMessage(Handler) ==
  IF InWorklist(SecurityID) THEN Handler ELSE UNCHANGED bookVars

\* It puts nothing into a queue: the message is decoded and handled.
WorkerEnqueue(Handler) == onMessage(Handler)

\* A message whose fourth column is the number id.
onFeedRawData(id, Handler) ==
  IF Routed(id) THEN WorkerEnqueue(Handler) ELSE UNCHANGED bookVars

\* The number a buyer has in the feed, which numbers the orders of all symbols;
\* no order has the number 0.
FeedNo(n) == IF n = 0 THEN 0 ELSE Before + n

ForwardOrder(m) == onFeedRawData(SecurityID, onOrderSZ(m))
ForwardTrade(m) == onFeedRawData(FeedNo(m.BidApplSeqNum), onTradeSZ(m))

\* Which orders' quantities a trade fails to reduce: all, if it has no worker or
\* is a fill outside the limits; else those whose own message is still to come.
Missed(m) ==
  {n \in OrderNo \cap {m.BidApplSeqNum, m.OfferApplSeqNum} :
     \/ ~ Routed(FeedNo(m.BidApplSeqNum))
     \/ m.ExecType = "F" /\ ~ InRange(m.p)
     \/ \E i \in DOMAIN orders : orders[i].OrderNo = n}

ReceiveOrder ==
  /\ orders # <<>>
  /\ orders' = Tail(orders)
  /\ ForwardOrder(Head(orders))
  /\ Accepted(Head(orders))
  /\ UNCHANGED <<exchangeVars, trades, missed>>

ReceiveTrade == LET m == Head(trades) IN
  /\ trades # <<>>
  /\ trades' = Tail(trades)
  /\ ForwardTrade(m)
  /\ missed' = [n \in OrderNo |-> IF n \in Missed(m) THEN missed[n] + m.LastQty
                                                     ELSE missed[n]]
  /\ UNCHANGED <<exchangeVars, refused, orders>>

-----------------------------------------------------------------------------
\* The exchange's steps, as in BookSZ; what they report is sent.
Send(os, ts) ==
  /\ Room(Len(os) + Len(ts))
  /\ orders' = orders \o os /\ trades' = trades \o ts
  /\ UNCHANGED <<bookVars, refused, missed>>

SendSubmit == \E s \in Side, p \in Prices, q \in 1 .. MaxQty :
  /\ Enter(s, p, q)
  /\ Send(<<OrderMsg(s, p, q)>>, <<>>)

SendWithdraw == \E n \in OrderNo :
  /\ order[n].qty > 0
  /\ Reduce({n}, order[n].qty)
  /\ Send(<<>>, <<CancelMsg(n)>>)

SendMatch == \E b \in Resting("B"), s \in Resting("S"), p \in Prices :
  LET q == Min({order[b].qty, order[s].qty})
  IN  /\ AtBest(b) /\ AtBest(s)
      /\ order[s].px <= p /\ p <= order[b].px
      /\ Reduce({b, s}, q)
      /\ Send(<<>>, <<FillMsg(b, s, p, q)>>)

\* A market order takes a number and is filled by a resting order; nothing of
\* it comes to rest.
SendMarket == \E n \in OrderNo, q \in 1 .. MaxQty :
  /\ AtBest(n) /\ q <= order[n].qty /\ nextNo \in OrderNo
  /\ order' = [order EXCEPT ![n].qty = @ - q]
  /\ nextNo' = nextNo + 1
  /\ IF order[n].side = "B"
     THEN Send(<<OrderMsg("S", Nil, q)>>, <<FillMsg(n, nextNo, order[n].px, q)>>)
     ELSE Send(<<OrderMsg("B", Nil, q)>>, <<FillMsg(nextNo, n, order[n].px, q)>>)

RoutedNext == \/ ReceiveOrder \/ ReceiveTrade
              \/ SendSubmit \/ SendWithdraw \/ SendMatch \/ SendMarket

RoutedSpec == RoutedInit /\ [][RoutedNext]_routedVars

-----------------------------------------------------------------------------
Drained == orders = <<>> /\ trades = <<>>

\* The orders the book knows, as they would be without the trades it missed.
withMissed == [n \in OrderNo |-> [known[n] EXCEPT
                 !.qty = IF n \in refused THEN 0 ELSE @ + missed[n]]]

Ledger == INSTANCE BookVsExchange WITH order <- withMissed

\* Once all messages have arrived, in whatever order the two topics delivered
\* them, every level shows what rests there and exactly the quantities of the
\* trades that were lost on the way, refused for their price, or came too
\* early: no trade ever takes anything from another order.
MissedLedger == Drained => Ledger!DepthExact

\* An order within the limits whose message has arrived is in the index as long
\* as it rests, even one of the last symbol of the last worker, and although
\* trades that came too early or not at all were not applied to it.
ArrivedIndexed == \A n \in OrderNo :
  /\ order[n].qty > 0 /\ order[n].px \in Levels
  /\ \A i \in DOMAIN orders : orders[i].OrderNo # n
  => seq_pxs[n] = [side |-> order[n].side, lvl |-> order[n].px]
=============================================================================
