------------------------------ MODULE OrdTrdSH ------------------------------
(***************************************************************************)
(* The handlers of the Shanghai feed, LobService::onOrderSH and            *)
(* LobService::onTradeSH, each as one atomic action on the book: one       *)
(* thread, the feeder's, runs them.  A message m is the record of the      *)
(* fields a handler reads; m.p is Price - low, the level the price names.  *)
(***************************************************************************)
EXTENDS PxList

\* AddBuySH if it set the level's quantity instead of adding to it.
AddBuySHSets(m) ==
  /\ m.OrdType = "A" /\ m.Side = "B"
  /\ seq_pxs' = [seq_pxs EXCEPT ![m.OrderNo] = [side |-> "B", lvl |-> m.p]]
  /\ bids' = [bids EXCEPT ![m.p] = m.OrderQty]
  /\ bid1' = RaiseTo(m.p, bid1)
  /\ UNCHANGED <<asks, ask1>>

AddBuySH(m) ==
  /\ m.OrdType = "A" /\ m.Side = "B"
  /\ seq_pxs' = [seq_pxs EXCEPT ![m.OrderNo] = [side |-> "B", lvl |-> m.p]]
  /\ bids' = [bids EXCEPT ![m.p] = @ + m.OrderQty]
  /\ bid1' = RaiseTo(m.p, bid1)
  /\ UNCHANGED <<asks, ask1>>

\* AddSellSH if it set the level's quantity instead of adding to it.
AddSellSHSets(m) ==
  /\ m.OrdType = "A" /\ m.Side = "S"
  /\ seq_pxs' = [seq_pxs EXCEPT ![m.OrderNo] = [side |-> "S", lvl |-> m.p]]
  /\ asks' = [asks EXCEPT ![m.p] = m.OrderQty]
  /\ ask1' = LowerTo(m.p, ask1)
  /\ UNCHANGED <<bids, bid1>>

AddSellSH(m) ==
  /\ m.OrdType = "A" /\ m.Side = "S"
  /\ seq_pxs' = [seq_pxs EXCEPT ![m.OrderNo] = [side |-> "S", lvl |-> m.p]]
  /\ asks' = [asks EXCEPT ![m.p] = @ + m.OrderQty]
  /\ ask1' = LowerTo(m.p, ask1)
  /\ UNCHANGED <<bids, bid1>>

\* A deletion goes by the price in the message, not by the index, clamps the
\* level at zero, and moves the cursor when it stood on a level now empty.
Clamp(q) == IF q > 0 THEN q ELSE 0

\* The deletions if they searched for the next level whichever one they empty.
DelBuySHAnyLevel(m) ==
  /\ m.OrdType = "D" /\ m.Side = "B"
  /\ bids' = [bids EXCEPT ![m.p] = Clamp(@ - m.OrderQty)]
  /\ bid1' = IF bids'[m.p] <= 0 THEN ScanDown(bids', m.p - 1) ELSE bid1
  /\ UNCHANGED <<asks, ask1, seq_pxs>>

DelSellSHAnyLevel(m) ==
  /\ m.OrdType = "D" /\ m.Side = "S"
  /\ asks' = [asks EXCEPT ![m.p] = Clamp(@ - m.OrderQty)]
  /\ ask1' = IF asks'[m.p] <= 0 THEN ScanUp(asks', m.p + 1) ELSE ask1
  /\ UNCHANGED <<bids, bid1, seq_pxs>>

DelBuySH(m) ==
  /\ m.OrdType = "D" /\ m.Side = "B"
  /\ bids' = [bids EXCEPT ![m.p] = Clamp(@ - m.OrderQty)]
  /\ bid1' = IF bid1 = m.p /\ bids'[m.p] <= 0
             THEN ScanDown(bids', m.p - 1) ELSE bid1
  /\ UNCHANGED <<asks, ask1, seq_pxs>>

DelSellSH(m) ==
  /\ m.OrdType = "D" /\ m.Side = "S"
  /\ asks' = [asks EXCEPT ![m.p] = Clamp(@ - m.OrderQty)]
  /\ ask1' = IF ask1 = m.p /\ asks'[m.p] <= 0
             THEN ScanUp(asks', m.p + 1) ELSE ask1
  /\ UNCHANGED <<bids, bid1, seq_pxs>>

onOrderSH(m) == AddBuySH(m) \/ AddSellSH(m) \/ DelBuySH(m) \/ DelSellSH(m)

-----------------------------------------------------------------------------
\* A trade takes LastQty from the level its order was added to, when the
\* order is in the index.  The cursor is then put on that level, or, when the
\* level has run empty, on the next one with a quantity; only then is the
\* order taken out of the index.
TakeBuySH(no, qty) ==
  IF Indexed(no)
  THEN LET l == seq_pxs[no].lvl
       IN  /\ bids' = [bids EXCEPT ![l] = @ - qty]
           /\ bid1' = IF bids'[l] <= 0 THEN ScanDown(bids', l) ELSE l
  ELSE UNCHANGED <<bids, bid1>>

\* TakeSellSH if it left the cursor on the level it emptied.
TakeSellSHStays(no, qty) ==
  IF Indexed(no)
  THEN LET l == seq_pxs[no].lvl
       IN  asks' = [asks EXCEPT ![l] = @ - qty] /\ ask1' = l
  ELSE UNCHANGED <<asks, ask1>>

TakeSellSH(no, qty) ==
  IF Indexed(no)
  THEN LET l == seq_pxs[no].lvl
       IN  /\ asks' = [asks EXCEPT ![l] = @ - qty]
           /\ ask1' = IF asks'[l] <= 0 THEN ScanUp(asks', l) ELSE l
  ELSE UNCHANGED <<asks, ask1>>

\* Emptied if any trade took its orders out of the index.
EmptiedAlways(m) == {n \in {m.TradeBuyNo, m.TradeSellNo} : Indexed(n)}

\* The orders a trade takes out of the index: those whose level it empties.
Emptied(m) ==
  {n \in {m.TradeBuyNo} : Indexed(n) /\ bids[seq_pxs[n].lvl] <= m.LastQty}
    \cup
  {n \in {m.TradeSellNo} : Indexed(n) /\ asks[seq_pxs[n].lvl] <= m.LastQty}

\* onTradeSH if it only took the trades that were started by a buyer.
onTradeSHBuyers(m) ==
  IF m.TradeBSFlag = "B"
  THEN /\ TakeBuySH(m.TradeBuyNo, m.LastQty)
       /\ TakeSellSH(m.TradeSellNo, m.LastQty)
       /\ seq_pxs' = Erase(Emptied(m))
  ELSE UNCHANGED bookVars

onTradeSH(m) ==
  IF m.TradeBSFlag \in {"B", "S"}
  THEN /\ TakeBuySH(m.TradeBuyNo, m.LastQty)
       /\ TakeSellSH(m.TradeSellNo, m.LastQty)
       /\ seq_pxs' = Erase(Emptied(m))
  ELSE UNCHANGED bookVars
=============================================================================
