------------------------------ MODULE OrdTrdSZ ------------------------------
(***************************************************************************)
(* The handlers of the Shenzhen feeds, LobService::onOrderSZ (mdl 6.33)    *)
(* and LobService::onTradeSZ (mdl 6.36), each as one atomic action on the  *)
(* book.  A message m is the record of the fields a handler reads; m.p is  *)
(* Price - low or LastPx - low.  A Side other than '1' and '2' (borrow and *)
(* lend) is ignored by the handler and is not modelled as a message.       *)
(***************************************************************************)
EXTENDS PxList

\* InRange if it tested Price <= low.
InRangeAboveLow(p) == p \in Levels \ {0}

\* Price < low || Price > high: "invalid quote data", the message is ignored.
InRange(p) == p \in Levels

AddBuySZ(m) ==
  /\ InRange(m.p) /\ m.Side = "B"
  /\ seq_pxs' = [seq_pxs EXCEPT ![m.OrderNo] = [side |-> "B", lvl |-> m.p]]
  /\ bids' = [bids EXCEPT ![m.p] = @ + m.OrderQty]
  /\ bid1' = RaiseTo(m.p, bid1)
  /\ UNCHANGED <<asks, ask1>>

AddSellSZ(m) ==
  /\ InRange(m.p) /\ m.Side = "S"
  /\ seq_pxs' = [seq_pxs EXCEPT ![m.OrderNo] = [side |-> "S", lvl |-> m.p]]
  /\ asks' = [asks EXCEPT ![m.p] = @ + m.OrderQty]
  /\ ask1' = LowerTo(m.p, ask1)
  /\ UNCHANGED <<bids, bid1>>

RefuseSZ(m) == ~ InRange(m.p) /\ UNCHANGED bookVars

onOrderSZ(m) == AddBuySZ(m) \/ AddSellSZ(m) \/ RefuseSZ(m)

-----------------------------------------------------------------------------
\* EmptiedSZ if any message took its orders out of the index.
EmptiedSZAlways(m) == {n \in {m.BidApplSeqNum, m.OfferApplSeqNum} : Indexed(n)}

\* The orders a message takes out of the index: those whose level it empties.
EmptiedSZ(m) ==
  {n \in {m.BidApplSeqNum} : Indexed(n) /\ bids[seq_pxs[n].lvl] <= m.LastQty}
    \cup
  {n \in {m.OfferApplSeqNum} :
     Indexed(n) /\ asks[seq_pxs[n].lvl] <= m.LastQty}

\* CancelBidSZ if it searched from the level below, as the ask side does.
CancelBidSZBelow(no, qty) ==
  IF Indexed(no)
  THEN LET l == seq_pxs[no].lvl
       IN  /\ bids' = [bids EXCEPT ![l] = @ - qty]
           /\ bid1' = IF bid1 = l THEN ScanDown(bids', l - 1) ELSE bid1
  ELSE UNCHANGED <<bids, bid1>>

\* A withdrawal reaches the level through the index and carries no price.  A
\* bid cursor on that level is searched from the level down; an ask cursor is
\* searched from the level above, whether or not the level is empty now.
CancelBidSZ(no, qty) ==
  IF Indexed(no)
  THEN LET l == seq_pxs[no].lvl
       IN  /\ bids' = [bids EXCEPT ![l] = @ - qty]
           /\ bid1' = IF bid1 = l THEN ScanDown(bids', l) ELSE bid1
  ELSE UNCHANGED <<bids, bid1>>

CancelOfferSZ(no, qty) ==
  IF Indexed(no)
  THEN LET l == seq_pxs[no].lvl
       IN  /\ asks' = [asks EXCEPT ![l] = @ - qty]
           /\ ask1' = IF ask1 = l THEN ScanUp(asks', l + 1) ELSE ask1
  ELSE UNCHANGED <<asks, ask1>>

CancelSZ(m) ==
  /\ m.ExecType = "4"
  /\ CancelBidSZ(m.BidApplSeqNum, m.LastQty)
  /\ CancelOfferSZ(m.OfferApplSeqNum, m.LastQty)
  /\ seq_pxs' = Erase(EmptiedSZ(m))

\* A fill is taken from the levels its two orders were added to, whatever its
\* own price; each cursor is put on its order's level or the next filled one.
FillBidSZ(no, qty) ==
  IF Indexed(no)
  THEN LET l == seq_pxs[no].lvl
       IN  /\ bids' = [bids EXCEPT ![l] = @ - qty]
           /\ bid1' = IF bids'[l] <= 0 THEN ScanDown(bids', l) ELSE l
  ELSE UNCHANGED <<bids, bid1>>

\* FillOfferSZ if it left the cursor on the level it emptied, and if it moved
\* the cursor only from the level it emptied.
FillOfferSZStays(no, qty) ==
  IF Indexed(no)
  THEN LET l == seq_pxs[no].lvl
       IN  asks' = [asks EXCEPT ![l] = @ - qty] /\ ask1' = l
  ELSE UNCHANGED <<asks, ask1>>

FillOfferSZEmptied(no, qty) ==
  IF Indexed(no)
  THEN LET l == seq_pxs[no].lvl
       IN  /\ asks' = [asks EXCEPT ![l] = @ - qty]
           /\ ask1' = IF asks'[l] <= 0 /\ ask1 = l
                      THEN ScanUp(asks', l) ELSE ask1
  ELSE UNCHANGED <<asks, ask1>>

FillOfferSZ(no, qty) ==
  IF Indexed(no)
  THEN LET l == seq_pxs[no].lvl
       IN  /\ asks' = [asks EXCEPT ![l] = @ - qty]
           /\ ask1' = IF asks'[l] <= 0 THEN ScanUp(asks', l) ELSE l
  ELSE UNCHANGED <<asks, ask1>>

FillSZ(m) ==
  /\ m.ExecType = "F" /\ InRange(m.p)
  /\ FillBidSZ(m.BidApplSeqNum, m.LastQty)
  /\ FillOfferSZ(m.OfferApplSeqNum, m.LastQty)
  /\ seq_pxs' = Erase(EmptiedSZ(m))

\* A fill at a price outside the limits is ignored as a whole.
IgnoreSZ(m) ==
  m.ExecType = "F" /\ ~ InRange(m.p) /\ UNCHANGED bookVars

onTradeSZ(m) == CancelSZ(m) \/ FillSZ(m) \/ IgnoreSZ(m)
=============================================================================
