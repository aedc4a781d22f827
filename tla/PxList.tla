------------------------------- MODULE PxList -------------------------------
(***************************************************************************)
(* The data structure of one symbol's limit order book, lob_px_list_t:     *)
(* two arrays of quantities per price level, a cursor to the best level of *)
(* each, and an index from order numbers to the levels they were added to. *)
(* The map seq_pxs is a total function on order numbers in which NoSlot    *)
(* stands for "not in the map".  The order time, the price cached in each  *)
(* level and the unused bs flag are left out: no handler reads them.       *)
(***************************************************************************)
EXTENDS LobTypes, FiniteSetsExt

VARIABLES
  bids, asks,  \* the quantity shown on each level
  bid1, ask1,  \* the cursors to the best level, or Nil
  seq_pxs      \* order number |-> the side and the level it was added to

bookVars == <<bids, asks, bid1, ask1, seq_pxs>>

Slot   == [side: Side, lvl: Levels]
NoSlot == [side |-> "-", lvl |-> Nil]

\* createPxList: empty arrays (C++20's atomics start at 0), null cursors, and
\* nothing indexed.
BookInit ==
  /\ bids = [l \in Levels |-> 0]
  /\ asks = [l \in Levels |-> 0]
  /\ bid1 = Nil
  /\ ask1 = Nil
  /\ seq_pxs = [n \in OrderNo |-> NoSlot]

\* The types of the fields of lob_px_list_t; a quantity is signed there too.
BookTypeOK ==
  /\ bids \in [Levels -> Int]
  /\ asks \in [Levels -> Int]
  /\ bid1 \in Levels \cup {Nil}
  /\ ask1 \in Levels \cup {Nil}
  /\ seq_pxs \in [OrderNo -> Slot \cup {NoSlot}]

\* seq_pxs.find(n) != end(): a number outside OrderNo never entered the map.
Indexed(n) == n \in OrderNo /\ seq_pxs[n] # NoSlot

\* seq_pxs without the numbers in S.
Erase(S) == [n \in OrderNo |-> IF n \in S THEN NoSlot ELSE seq_pxs[n]]

-----------------------------------------------------------------------------
\* The while loops that move a cursor to the next level with a quantity:
\* downwards from l on the bid side, upwards from l on the ask side.
Filled(q) == {k \in Levels : q[k] > 0}

ScanDown(q, l) ==
  LET S == {k \in Filled(q) : k <= l} IN IF S = {} THEN Nil ELSE Max(S)

\* ScanUp if the cursor were left where the loop ended.
ScanUpPastEnd(q, l) ==
  LET S == {k \in Filled(q) : k >= l} IN IF S = {} THEN Span ELSE Min(S)

ScanUp(q, l) ==
  LET S == {k \in Filled(q) : k >= l} IN IF S = {} THEN Nil ELSE Min(S)

\* A new order moves the cursor only to a better level.
RaiseTo(l, cursor) == IF cursor = Nil \/ l > cursor THEN l ELSE cursor
LowerTo(l, cursor) == IF cursor = Nil \/ l < cursor THEN l ELSE cursor
=============================================================================
