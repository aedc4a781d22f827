---------------------------- MODULE BookSHProofs ----------------------------
(***************************************************************************)
(* The Shanghai book agrees with the exchange's in continuous trading, for *)
(* any number of levels and of orders and for any quantities: the          *)
(* invariants of module BookSH, proved from one inductive invariant, and   *)
(* from it that the handlers implement MarketDepth.  Then the same book    *)
(* with its handlers taken apart and sampled while it changes: the         *)
(* invariants of module SamplerSH.                                         *)
(***************************************************************************)
EXTENDS SamplerSH, BookLemmas, FiniteSetTheorems

\* Numbers that are not given out yet belong to no order and to no slot.
FreshUnused ==
  \A n \in OrderNo :
     n >= nextNo => order[n].qty = 0 /\ seq_pxs[n] = NoSlot

\* The cursors are right as far as the book's own arrays can tell.
CursorsRight == Top(bids, bid1) /\ Bottom(asks, ask1)

\* The inductive invariant.  BestExact follows from its last two conjuncts.
IInv ==
  /\ TypeOK
  /\ FreshUnused
  /\ RestingIndexed
  /\ DepthExact
  /\ CursorsRight

-----------------------------------------------------------------------------
\* What the invariant says of types: the quantities shown are not negative,
\* and every order is on a level of the book.
LEMMA Types ==
  ASSUME IInv
  PROVE  /\ ExchangeTypeOK
         /\ bids \in [Levels -> Nat] /\ asks \in [Levels -> Nat]
         /\ Prices = Levels
         /\ \A n \in OrderNo : /\ order[n].side \in Side
                               /\ order[n].px \in Levels
                               /\ order[n].qty \in Nat
<1>1. ExchangeTypeOK /\ bids \in [Levels -> Int] /\ asks \in [Levels -> Int]
  BY DEF IInv, TypeOK, BookTypeOK
<1>2. \A l \in Levels : bids[l] \in Nat /\ asks[l] \in Nat
  BY <1>1, DepthLaws DEF IInv, DepthExact
<1>3. Prices = Levels
  BY InLimits, SpanAssumption DEF Prices, Levels
<1>4. bids \in [Levels -> Nat] /\ asks \in [Levels -> Nat]
  BY <1>1, <1>2
<1>5. \A n \in OrderNo : /\ order[n].side \in Side
                         /\ order[n].px \in Levels
                         /\ order[n].qty \in Nat
  BY <1>1, <1>3 DEF ExchangeTypeOK
<1> QED
  BY <1>1, <1>3, <1>4, <1>5

\* An order that rests is on a filled level and in the index, and its quantity
\* is no more than the level's.
LEMMA RestingShown ==
  ASSUME IInv, NEW n \in OrderNo, order[n].qty > 0
  PROVE  /\ order[n].side = "B" => order[n].qty <= bids[order[n].px]
         /\ order[n].side = "S" => order[n].qty <= asks[order[n].px]
         /\ seq_pxs[n] = [side |-> order[n].side, lvl |-> order[n].px]
         /\ Indexed(n)
         /\ n < nextNo
<1>1. /\ order[n].px \in Levels /\ ExchangeTypeOK
      /\ order[n].qty \in Nat /\ order[n].side \in Side
  BY Types
<1>2. \A s, p : order[n].side = s /\ order[n].px = p
        => order[n].qty <= Depth(s, p)
  BY <1>1, DepthLaws
<1>3. seq_pxs[n] = [side |-> order[n].side, lvl |-> order[n].px]
  BY <1>1 DEF IInv, RestingIndexed
<1>4. seq_pxs[n].side # NoSlot.side
  BY <1>1, <1>3 DEF Side, NoSlot
<1>5. nextNo \in Int /\ n \in Int
  BY <1>1 DEF ExchangeTypeOK, OrderNo
<1> QED
  BY <1>1, <1>2, <1>3, <1>4, <1>5 DEF Indexed, IInv, DepthExact, FreshUnused

\* The number of an incoming order is not in the index.
LEMMA NextNotIndexed ==
  ASSUME IInv
  PROVE  ~ Indexed(nextNo)
BY DEF Indexed, IInv, FreshUnused, TypeOK, ExchangeTypeOK, OrderNo

\* The cursors that are right for the arrays are right for the exchange.
LEMMA CursorsBest ==
  ASSUME IInv
  PROVE  BestExact
<1>1. /\ ExchangeTypeOK
      /\ \A n \in OrderNo : /\ order[n].side \in Side
                            /\ order[n].px \in Levels
                            /\ order[n].qty \in Nat
  BY Types
<1>2. ASSUME NEW n \in Resting("B") PROVE order[n].px \in Filled(bids)
  <2>1. n \in OrderNo /\ order[n].side = "B" /\ order[n].qty > 0
    BY DEF Resting
  <2>2. order[n].qty <= bids[order[n].px]
    BY <2>1, RestingShown
  <2>3. /\ order[n].px \in Levels /\ order[n].qty \in Nat
        /\ bids[order[n].px] \in Nat
    BY <2>1, Types
  <2> QED
    BY <2>1, <2>2, <2>3 DEF Filled
<1>3. ASSUME NEW n \in Resting("S") PROVE order[n].px \in Filled(asks)
  <2>1. n \in OrderNo /\ order[n].side = "S" /\ order[n].qty > 0
    BY DEF Resting
  <2>2. order[n].qty <= asks[order[n].px]
    BY <2>1, RestingShown
  <2>3. /\ order[n].px \in Levels /\ order[n].qty \in Nat
        /\ asks[order[n].px] \in Nat
    BY <2>1, Types
  <2> QED
    BY <2>1, <2>2, <2>3 DEF Filled
<1>4. \A l \in Filled(bids) : \E n \in Resting("B") : order[n].px = l
  BY <1>1, DepthLaws DEF Filled, IInv, DepthExact
<1>5. \A l \in Filled(asks) : \E n \in Resting("S") : order[n].px = l
  BY <1>1, DepthLaws DEF Filled, IInv, DepthExact
<1>6. BidExact
  <2>1. CASE Resting("B") = {}
    BY <1>4, <2>1 DEF BidExact, OnBest, IInv, CursorsRight, Top
  <2>2. CASE Resting("B") # {}
    <3>1. bid1 \in Filled(bids) /\ \A k \in Filled(bids) : k <= bid1
      BY <1>2, <2>2 DEF IInv, CursorsRight, Top
    <3>2. PICK n \in Resting("B") : order[n].px = bid1
      BY <1>4, <3>1
    <3>3. \A k \in Resting("B") : order[k].px <= order[n].px
      BY <1>2, <3>1, <3>2
    <3>4. AtBest(n)
      BY <3>2, <3>3 DEF AtBest, Resting
    <3> QED
      BY <2>2, <3>2, <3>4 DEF BidExact, OnBest
  <2> QED
    BY <2>1, <2>2
<1>7. AskExact
  <2>1. CASE Resting("S") = {}
    BY <1>5, <2>1 DEF AskExact, OnBest, IInv, CursorsRight, Bottom
  <2>2. CASE Resting("S") # {}
    <3>1. ask1 \in Filled(asks) /\ \A k \in Filled(asks) : k >= ask1
      BY <1>3, <2>2 DEF IInv, CursorsRight, Bottom
    <3>2. PICK n \in Resting("S") : order[n].px = ask1
      BY <1>5, <3>1
    <3>3. \A k \in Resting("S") : order[k].px >= order[n].px
      BY <1>3, <3>1, <3>2
    <3>4. AtBest(n)
      BY <3>2, <3>3 DEF AtBest, Resting
    <3> QED
      BY <2>2, <3>2, <3>4 DEF AskExact, OnBest
  <2> QED
    BY <2>1, <2>2
<1> QED
  BY <1>6, <1>7 DEF BestExact

\* The best order's level is where the cursor of its side stands.
LEMMA BestAtCursor ==
  ASSUME IInv, NEW n, AtBest(n)
  PROVE  /\ n \in OrderNo /\ order[n].qty > 0
         /\ order[n].side = "B" => order[n].px = bid1
         /\ order[n].side = "S" => order[n].px = ask1
<1>1. n \in OrderNo /\ order[n].qty > 0
  BY DEF AtBest
<1>2. \A k \in OrderNo : order[k].px \in Int
  BY Types, LevelsInt
<1>3. BestExact
  BY CursorsBest
<1>4. CASE order[n].side = "B"
  <2>1. PICK m \in Resting("B") : AtBest(m) /\ bid1 = order[m].px
    BY <1>1, <1>3, <1>4 DEF BestExact, BidExact, OnBest, Resting
  <2>2. order[n].px <= order[m].px /\ order[m].px <= order[n].px
    BY <1>1, <1>4, <2>1 DEF AtBest, Resting
  <2> QED
    BY <1>1, <1>2, <1>4, <2>1, <2>2 DEF Resting
<1>5. CASE order[n].side = "S"
  <2>1. PICK m \in Resting("S") : AtBest(m) /\ ask1 = order[m].px
    BY <1>1, <1>3, <1>5 DEF BestExact, AskExact, OnBest, Resting
  <2>2. order[n].px <= order[m].px /\ order[m].px <= order[n].px
    BY <1>1, <1>5, <2>1 DEF AtBest, Resting
  <2> QED
    BY <1>1, <1>2, <1>5, <2>1, <2>2 DEF Resting
<1> QED
  BY <1>1, <1>4, <1>5

-----------------------------------------------------------------------------
\* The steps of the exchange keep its types.
LEMMA EnterType ==
  ASSUME IInv, NEW s \in Side, NEW p \in Levels, NEW q \in Nat, Enter(s, p, q)
  PROVE  /\ ExchangeTypeOK'
         /\ nextNo \in OrderNo /\ nextNo \in Int /\ nextNo' = nextNo + 1
         /\ order'[nextNo] = [side |-> s, px |-> p, qty |-> q]
         /\ \A n \in OrderNo : n # nextNo => order'[n] = order[n]
<1>1. ExchangeTypeOK /\ Prices = Levels
  BY Types
<1>2. nextNo \in OrderNo /\ nextNo' = nextNo + 1
      /\ order' = [order EXCEPT ![nextNo] = [side |-> s, px |-> p, qty |-> q]]
  BY DEF Enter
<1>3. nextNo' \in 1 .. MaxOrders + 1
  BY <1>2, MaxOrdersAssumption DEF OrderNo
<1>4. [side |-> s, px |-> p, qty |-> q] \in [side: Side, px: Prices, qty: Nat]
  BY <1>1
<1>5. order' \in [OrderNo -> [side: Side, px: Prices, qty: Nat]]
  BY <1>1, <1>2, <1>4 DEF ExchangeTypeOK
<1> QED
  BY <1>1, <1>2, <1>3, <1>5 DEF ExchangeTypeOK, OrderNo

LEMMA ReduceType ==
  ASSUME IInv, NEW n \in OrderNo, NEW q \in Nat, q <= order[n].qty,
         Reduce({n}, q)
  PROVE  /\ ExchangeTypeOK' /\ nextNo' = nextNo
         /\ order'[n].side = order[n].side /\ order'[n].px = order[n].px
         /\ order'[n].qty = order[n].qty - q
         /\ \A k \in OrderNo : k # n => order'[k] = order[k]
<1>1. ExchangeTypeOK
  BY Types
<1>2. /\ order' = [k \in OrderNo |-> IF k \in {n}
                     THEN [order[k] EXCEPT !.qty = @ - q] ELSE order[k]]
      /\ nextNo' = nextNo
  BY DEF Reduce
<1>3. /\ order'[n] = [order[n] EXCEPT !.qty = @ - q]
      /\ \A k \in OrderNo : k # n => order'[k] = order[k]
  BY <1>2
<1>4. order[n] \in [side: Side, px: Prices, qty: Nat]
  BY <1>1 DEF ExchangeTypeOK
<1>5. /\ order'[n].side = order[n].side /\ order'[n].px = order[n].px
      /\ order'[n].qty = order[n].qty - q
  BY <1>3, <1>4
<1>6. order'[n] \in [side: Side, px: Prices, qty: Nat]
  BY <1>3, <1>4
<1>7. \A k \in OrderNo : order'[k] \in [side: Side, px: Prices, qty: Nat]
  BY <1>1, <1>3, <1>6 DEF ExchangeTypeOK
<1>8. order' \in [OrderNo -> [side: Side, px: Prices, qty: Nat]]
  BY <1>2, <1>7
<1> QED
  BY <1>1, <1>2, <1>3, <1>5, <1>8 DEF ExchangeTypeOK

-----------------------------------------------------------------------------
\* A new order keeps the invariant.
LEMMA QuoteKeeps ==
  ASSUME IInv, Quote
  PROVE  IInv'
<1>1. PICK s \in Side, p \in Levels, q \in 1 .. MaxQty :
        Enter(s, p, q) /\ onOrderSH(AddMsg(s, p, q))
  BY DEF Quote
<1>2. q \in Nat /\ q > 0
  BY MaxQtyAssumption
<1>3. /\ ExchangeTypeOK'
      /\ nextNo \in OrderNo /\ nextNo \in Int /\ nextNo' = nextNo + 1
      /\ order'[nextNo] = [side |-> s, px |-> p, qty |-> q]
      /\ \A n \in OrderNo : n # nextNo => order'[n] = order[n]
  BY <1>1, <1>2, EnterType
<1>4. order[nextNo].qty = 0 /\ OrderNo \in SUBSET Int
  BY <1>3 DEF IInv, FreshUnused, OrderNo
<1>5. \A t, l : Depth(t, l)' = Depth(t, l) + (IF t = s /\ l = p THEN q ELSE 0)
  BY <1>1, <1>2, <1>3, <1>4, Types, EnterDepth
<1>6. /\ bids \in [Levels -> Nat] /\ asks \in [Levels -> Nat]
      /\ bid1 \in Levels \cup {Nil} /\ ask1 \in Levels \cup {Nil}
      /\ seq_pxs \in [OrderNo -> Slot \cup {NoSlot}]
  BY Types DEF IInv, TypeOK, BookTypeOK
<1>7. seq_pxs' = [seq_pxs EXCEPT ![nextNo] = [side |-> s, lvl |-> p]]
  BY <1>1 DEF onOrderSH, AddMsg, AddBuySH, AddSellSH, DelBuySH, DelSellSH
<1>8. seq_pxs' \in [OrderNo -> Slot \cup {NoSlot}]
  BY <1>6, <1>7 DEF Slot
<1>9. FreshUnused'
  BY <1>3, <1>4, <1>6, <1>7 DEF IInv, FreshUnused
<1>10. RestingIndexed'
  BY <1>3, <1>6, <1>7 DEF IInv, RestingIndexed
<1>11. CASE s = "B"
  <2>1. /\ bids' = [bids EXCEPT ![p] = @ + q] /\ bid1' = RaiseTo(p, bid1)
        /\ asks' = asks /\ ask1' = ask1
    BY <1>1, <1>11 DEF onOrderSH, AddMsg, AddBuySH, AddSellSH, DelBuySH, DelSellSH
  <2>2. BookTypeOK'
    BY <1>2, <1>6, <1>8, <2>1 DEF BookTypeOK, RaiseTo
  <2>3. DepthExact'
    BY <1>5, <1>6, <1>11, <2>1 DEF IInv, DepthExact
  <2>4. CursorsRight'
    BY <1>2, <1>6, <2>1, TopAdd DEF IInv, CursorsRight
  <2> QED
    BY <1>3, <1>9, <1>10, <2>2, <2>3, <2>4 DEF IInv, TypeOK
<1>12. CASE s = "S"
  <2>1. /\ asks' = [asks EXCEPT ![p] = @ + q] /\ ask1' = LowerTo(p, ask1)
        /\ bids' = bids /\ bid1' = bid1
    BY <1>1, <1>12 DEF onOrderSH, AddMsg, AddBuySH, AddSellSH, DelBuySH, DelSellSH
  <2>2. BookTypeOK'
    BY <1>2, <1>6, <1>8, <2>1 DEF BookTypeOK, LowerTo
  <2>3. DepthExact'
    BY <1>5, <1>6, <1>12, <2>1 DEF IInv, DepthExact
  <2>4. CursorsRight'
    BY <1>2, <1>6, <2>1, BottomAdd DEF IInv, CursorsRight
  <2> QED
    BY <1>3, <1>9, <1>10, <2>2, <2>3, <2>4 DEF IInv, TypeOK
<1> QED
  BY <1>11, <1>12 DEF Side

\* Taking quantity q of the resting order n from its level, on both the
\* exchange and the book, keeps the depths equal, and nothing goes negative.
LEMMA TakeBid ==
  ASSUME IInv, NEW n \in OrderNo, NEW q \in Nat, q > 0, q <= order[n].qty,
         order[n].side = "B", Reduce({n}, q),
         bids' = [bids EXCEPT ![order[n].px] = @ - q], asks' = asks
  PROVE  /\ DepthExact' /\ order[n].px \in Levels
         /\ bids' \in [Levels -> Nat] /\ asks' \in [Levels -> Nat]
         /\ bids'[order[n].px] = bids[order[n].px] - q
         /\ Taken(bids, bids', order[n].px)
<1>1. /\ ExchangeTypeOK /\ ExchangeTypeOK'
      /\ bids \in [Levels -> Nat] /\ asks \in [Levels -> Nat]
      /\ order[n].px \in Levels /\ order[n].qty \in Nat
  BY Types, ReduceType
<1>2. q <= bids[order[n].px]
  <2>1. order[n].qty > 0
    BY <1>1
  <2>2. order[n].qty <= bids[order[n].px]
    BY <2>1, RestingShown
  <2> QED
    BY <1>1, <2>2
<1>3. /\ bids'[order[n].px] = bids[order[n].px] - q
      /\ \A l \in Levels : l # order[n].px => bids'[l] = bids[l]
  BY <1>1
<1>4. bids' \in [Levels -> Nat]
  BY <1>1, <1>2
<1>5. \A t, l : Depth(t, l)' =
        Depth(t, l) - (IF t = order[n].side /\ l = order[n].px THEN q ELSE 0)
  BY <1>1, ReduceDepth
<1>6. ASSUME NEW l \in Levels
      PROVE  bids'[l] = Depth("B", l)' /\ asks'[l] = Depth("S", l)'
  <2>1. /\ bids[l] = Depth("B", l) /\ asks[l] = Depth("S", l)
        /\ bids[l] \in Nat /\ asks[l] \in Nat
    BY <1>1 DEF IInv, DepthExact
  <2>2. Depth("S", l)' = Depth("S", l)
    BY <1>5, <2>1
  <2>3. Depth("B", l)' = Depth("B", l) - (IF l = order[n].px THEN q ELSE 0)
    BY <1>5
  <2> QED
    BY <1>3, <2>1, <2>2, <2>3
<1>7. DepthExact'
  BY <1>6 DEF DepthExact
<1>8. bids'[order[n].px] < bids[order[n].px]
  BY <1>1, <1>3
<1> QED
  BY <1>1, <1>3, <1>4, <1>7, <1>8 DEF Taken

LEMMA TakeAsk ==
  ASSUME IInv, NEW n \in OrderNo, NEW q \in Nat, q > 0, q <= order[n].qty,
         order[n].side = "S", Reduce({n}, q),
         asks' = [asks EXCEPT ![order[n].px] = @ - q], bids' = bids
  PROVE  /\ DepthExact' /\ order[n].px \in Levels
         /\ bids' \in [Levels -> Nat] /\ asks' \in [Levels -> Nat]
         /\ asks'[order[n].px] = asks[order[n].px] - q
         /\ Taken(asks, asks', order[n].px)
<1>1. /\ ExchangeTypeOK /\ ExchangeTypeOK'
      /\ bids \in [Levels -> Nat] /\ asks \in [Levels -> Nat]
      /\ order[n].px \in Levels /\ order[n].qty \in Nat
  BY Types, ReduceType
<1>2. q <= asks[order[n].px]
  <2>1. order[n].qty > 0
    BY <1>1
  <2>2. order[n].qty <= asks[order[n].px]
    BY <2>1, RestingShown
  <2> QED
    BY <1>1, <2>2
<1>3. /\ asks'[order[n].px] = asks[order[n].px] - q
      /\ \A l \in Levels : l # order[n].px => asks'[l] = asks[l]
  BY <1>1
<1>4. asks' \in [Levels -> Nat]
  BY <1>1, <1>2
<1>5. \A t, l : Depth(t, l)' =
        Depth(t, l) - (IF t = order[n].side /\ l = order[n].px THEN q ELSE 0)
  BY <1>1, ReduceDepth
<1>6. ASSUME NEW l \in Levels
      PROVE  bids'[l] = Depth("B", l)' /\ asks'[l] = Depth("S", l)'
  <2>1. /\ bids[l] = Depth("B", l) /\ asks[l] = Depth("S", l)
        /\ bids[l] \in Nat /\ asks[l] \in Nat
    BY <1>1 DEF IInv, DepthExact
  <2>2. Depth("B", l)' = Depth("B", l)
    BY <1>5, <2>1
  <2>3. Depth("S", l)' = Depth("S", l) - (IF l = order[n].px THEN q ELSE 0)
    BY <1>5
  <2> QED
    BY <1>3, <2>1, <2>2, <2>3
<1>7. DepthExact'
  BY <1>6 DEF DepthExact
<1>8. asks'[order[n].px] < asks[order[n].px]
  BY <1>1, <1>3
<1> QED
  BY <1>1, <1>3, <1>4, <1>7, <1>8 DEF Taken

\* Taking numbers of orders that do not rest out of the index is harmless.
LEMMA IndexKept ==
  ASSUME IInv, NEW n \in OrderNo, NEW q \in Nat, q > 0, q <= order[n].qty,
         Reduce({n}, q), NEW S, seq_pxs' = Erase(S),
         \A k \in S \cap OrderNo : order'[k].qty = 0
  PROVE  /\ RestingIndexed' /\ FreshUnused'
         /\ seq_pxs' \in [OrderNo -> Slot \cup {NoSlot}]
<1>1. /\ nextNo' = nextNo /\ order[n].qty \in Nat /\ nextNo \in Int
      /\ order'[n].side = order[n].side /\ order'[n].px = order[n].px
      /\ order'[n].qty = order[n].qty - q
      /\ \A k \in OrderNo : k # n => order'[k] = order[k]
      /\ n < nextNo
  <2>1. order[n].qty \in Nat /\ nextNo \in Int
    BY Types DEF ExchangeTypeOK
  <2>2. order[n].qty > 0
    BY <2>1
  <2> QED
    BY <2>1, <2>2, ReduceType, RestingShown
<1>2. \A k \in OrderNo : seq_pxs'[k] = IF k \in S THEN NoSlot ELSE seq_pxs[k]
  BY DEF Erase
<1>3. ASSUME NEW k \in OrderNo, order'[k].qty > 0, order'[k].px \in Levels
      PROVE  seq_pxs'[k] = [side |-> order'[k].side, lvl |-> order'[k].px]
  <2>1. k \notin S
    BY <1>3
  <2>2. /\ order'[k].side = order[k].side /\ order'[k].px = order[k].px
        /\ order[k].qty > 0
    BY <1>1, <1>3
  <2>3. seq_pxs[k] = [side |-> order[k].side, lvl |-> order[k].px]
    BY <1>3, <2>2 DEF IInv, RestingIndexed
  <2> QED
    BY <1>2, <2>1, <2>2, <2>3
<1>4. RestingIndexed'
  BY <1>3 DEF RestingIndexed
<1>5. ASSUME NEW k \in OrderNo, k >= nextNo
      PROVE  order'[k].qty = 0 /\ seq_pxs'[k] = NoSlot
  <2>1. order[k].qty = 0 /\ seq_pxs[k] = NoSlot
    BY <1>5 DEF IInv, FreshUnused
  <2>2. k # n
    BY <1>1, <1>5 DEF OrderNo
  <2> QED
    BY <1>1, <1>2, <2>1, <2>2
<1>6. FreshUnused'
  BY <1>1, <1>5 DEF FreshUnused
<1>7. \A k \in OrderNo : seq_pxs'[k] \in Slot \cup {NoSlot}
  BY <1>2 DEF IInv, TypeOK, BookTypeOK
<1>8. seq_pxs' \in [OrderNo -> Slot \cup {NoSlot}]
  BY <1>7 DEF Erase
<1> QED
  BY <1>4, <1>6, <1>8

-----------------------------------------------------------------------------
\* A deletion keeps the invariant.
LEMMA CancelKeeps ==
  ASSUME IInv, Cancel
  PROVE  IInv'
<1>1. PICK n \in OrderNo : /\ order[n].qty > 0
                           /\ Reduce({n}, order[n].qty)
                           /\ onOrderSH(DelMsg(n))
  BY DEF Cancel
<1> DEFINE q == order[n].qty
           p == order[n].px
<1>2. /\ q \in Nat /\ q > 0 /\ q <= order[n].qty
      /\ p \in Levels /\ order[n].side \in Side
      /\ bids \in [Levels -> Nat] /\ asks \in [Levels -> Nat]
      /\ bid1 \in Levels \cup {Nil} /\ ask1 \in Levels \cup {Nil}
      /\ seq_pxs \in [OrderNo -> Slot \cup {NoSlot}]
  BY <1>1, Types DEF IInv, TypeOK, BookTypeOK
<1>3. Reduce({n}, q)
  BY <1>1
<1>4. seq_pxs' = seq_pxs
  BY <1>1 DEF onOrderSH, DelMsg, AddBuySH, AddSellSH, DelBuySH, DelSellSH
<1>5. seq_pxs' = Erase({})
  BY <1>2, <1>4 DEF Erase
<1>6. /\ RestingIndexed' /\ FreshUnused'
      /\ seq_pxs' \in [OrderNo -> Slot \cup {NoSlot}]
  BY <1>2, <1>3, <1>5, IndexKept
<1>7. ExchangeTypeOK'
  BY <1>2, <1>3, ReduceType
<1>8. CASE order[n].side = "B"
  <2>1. /\ bids' = [bids EXCEPT ![p] = Clamp(@ - q)]
        /\ bid1' = IF bid1 = p /\ bids'[p] <= 0
                   THEN ScanDown(bids', p - 1) ELSE bid1
        /\ asks' = asks /\ ask1' = ask1
    BY <1>1, <1>8 DEF onOrderSH, DelMsg, AddBuySH, AddSellSH, DelBuySH, DelSellSH
  <2>2. q <= bids[p]
    BY <1>1, <1>8, RestingShown
  <2>3. Clamp(bids[p] - q) = bids[p] - q
    BY <1>2, <2>2 DEF Clamp
  <2>4. bids' = [bids EXCEPT ![p] = @ - q]
    BY <2>1, <2>3
  <2>5. /\ DepthExact' /\ bids' \in [Levels -> Nat] /\ asks' \in [Levels -> Nat]
        /\ Taken(bids, bids', p)
    BY <1>2, <1>3, <1>8, <2>1, <2>4, TakeBid
  <2>6. Top(bids', bid1')
    <3>1. Top(bids, bid1)
      BY DEF IInv, CursorsRight
    <3>2. Top(bids', IF bid1 = p /\ bids'[p] <= 0
                    THEN ScanDown(bids', p - 1) ELSE bid1)
      BY <1>2, <2>5, <3>1, TopDel, Zenon
    <3> QED
      BY <2>1, <3>2, Zenon
  <2>7. bid1' \in Levels \cup {Nil}
    BY <2>6, LevelsInt DEF Top
  <2>8. BookTypeOK'
    BY <1>2, <1>6, <2>1, <2>5, <2>7 DEF BookTypeOK
  <2>9. CursorsRight'
    BY <2>1, <2>6 DEF IInv, CursorsRight
  <2> QED
    BY <1>6, <1>7, <2>5, <2>8, <2>9 DEF IInv, TypeOK
<1>9. CASE order[n].side = "S"
  <2>1. /\ asks' = [asks EXCEPT ![p] = Clamp(@ - q)]
        /\ ask1' = IF ask1 = p /\ asks'[p] <= 0
                   THEN ScanUp(asks', p + 1) ELSE ask1
        /\ bids' = bids /\ bid1' = bid1
    BY <1>1, <1>9 DEF onOrderSH, DelMsg, AddBuySH, AddSellSH, DelBuySH, DelSellSH
  <2>2. q <= asks[p]
    BY <1>1, <1>9, RestingShown
  <2>3. Clamp(asks[p] - q) = asks[p] - q
    BY <1>2, <2>2 DEF Clamp
  <2>4. asks' = [asks EXCEPT ![p] = @ - q]
    BY <2>1, <2>3
  <2>5. /\ DepthExact' /\ bids' \in [Levels -> Nat] /\ asks' \in [Levels -> Nat]
        /\ Taken(asks, asks', p)
    BY <1>2, <1>3, <1>9, <2>1, <2>4, TakeAsk
  <2>6. Bottom(asks', ask1')
    <3>1. Bottom(asks, ask1)
      BY DEF IInv, CursorsRight
    <3>2. Bottom(asks', IF ask1 = p /\ asks'[p] <= 0
                    THEN ScanUp(asks', p + 1) ELSE ask1)
      BY <1>2, <2>5, <3>1, BottomDel, Zenon
    <3> QED
      BY <2>1, <3>2, Zenon
  <2>7. ask1' \in Levels \cup {Nil}
    BY <2>6, LevelsInt DEF Bottom
  <2>8. BookTypeOK'
    BY <1>2, <1>6, <2>1, <2>5, <2>7 DEF BookTypeOK
  <2>9. CursorsRight'
    BY <2>1, <2>6 DEF IInv, CursorsRight
  <2> QED
    BY <1>6, <1>7, <2>5, <2>8, <2>9 DEF IInv, TypeOK
<1> QED
  BY <1>2, <1>8, <1>9 DEF Side

\* No order is larger than its level's depth, before a step and after it.
OrdersInDepth ==
  \A s, l : \A i \in OrderNo :
    order[i].side = s /\ order[i].px = l => order[i].qty <= Depth(s, l)

LEMMA OrderInDepth == ExchangeTypeOK => OrdersInDepth
BY DepthLaws DEF OrdersInDepth

LEMMA OrderInDepthNext == ExchangeTypeOK' => OrdersInDepth'
BY OrderInDepth, PTL

\* The orders that a trade takes out of the index have nothing left: the level
\* it emptied held the resting order, and the other one is not in the index.
LEMMA BidEmptied ==
  ASSUME IInv, NEW n \in OrderNo, NEW q \in Nat, q > 0, q <= order[n].qty,
         order[n].side = "B", Reduce({n}, q),
         bids' = [bids EXCEPT ![order[n].px] = @ - q], asks' = asks
  PROVE  \A k \in Emptied(TradeMsg(n, q)) \cap OrderNo : order'[k].qty = 0
<1>1. SUFFICES ASSUME NEW k \in Emptied(TradeMsg(n, q)) \cap OrderNo
               PROVE  order'[k].qty = 0
  OBVIOUS
<1>2. order[n].qty > 0
  BY Types
<1>3. TradeMsg(n, q) = [TradeBuyNo |-> n, TradeSellNo |-> nextNo,
                        LastQty |-> q, TradeBSFlag |-> "S"]
  BY DEF TradeMsg
<1>4. seq_pxs[n].lvl = order[n].px /\ ~ Indexed(nextNo)
  <2>1. seq_pxs[n] = [side |-> order[n].side, lvl |-> order[n].px]
    BY <1>2, RestingShown
  <2> QED
    BY <2>1, NextNotIndexed
<1>5. k = n /\ bids[order[n].px] <= q
  BY <1>1, <1>3, <1>4 DEF Emptied
<1>6. /\ DepthExact' /\ bids' \in [Levels -> Nat]
      /\ bids'[order[n].px] = bids[order[n].px] - q
  BY TakeBid
<1>7. PICK l \in Levels : l = order[n].px
  BY Types
<1>8. bids[l] \in Nat
  BY Types
<1>9. Depth("B", l)' = 0
  BY <1>5, <1>6, <1>7, <1>8 DEF DepthExact
<1>10. ExchangeTypeOK' /\ order'[n].side = "B" /\ order'[n].px = l
  BY <1>7, ReduceType
<1>11. order'[n].qty <= Depth("B", l)' /\ order'[n].qty \in Nat
  BY <1>10, OrderInDepthNext DEF ExchangeTypeOK, OrdersInDepth
<1> QED
  BY <1>5, <1>9, <1>11

LEMMA AskEmptied ==
  ASSUME IInv, NEW n \in OrderNo, NEW q \in Nat, q > 0, q <= order[n].qty,
         order[n].side = "S", Reduce({n}, q),
         asks' = [asks EXCEPT ![order[n].px] = @ - q], bids' = bids
  PROVE  \A k \in Emptied(TradeMsg(n, q)) \cap OrderNo : order'[k].qty = 0
<1>1. SUFFICES ASSUME NEW k \in Emptied(TradeMsg(n, q)) \cap OrderNo
               PROVE  order'[k].qty = 0
  OBVIOUS
<1>2. order[n].qty > 0
  BY Types
<1>3. TradeMsg(n, q) = [TradeBuyNo |-> nextNo, TradeSellNo |-> n,
                        LastQty |-> q, TradeBSFlag |-> "B"]
  BY DEF TradeMsg
<1>4. seq_pxs[n].lvl = order[n].px /\ ~ Indexed(nextNo)
  <2>1. seq_pxs[n] = [side |-> order[n].side, lvl |-> order[n].px]
    BY <1>2, RestingShown
  <2> QED
    BY <2>1, NextNotIndexed
<1>5. k = n /\ asks[order[n].px] <= q
  BY <1>1, <1>3, <1>4 DEF Emptied
<1>6. /\ DepthExact' /\ asks' \in [Levels -> Nat]
      /\ asks'[order[n].px] = asks[order[n].px] - q
  BY TakeAsk
<1>7. PICK l \in Levels : l = order[n].px
  BY Types
<1>8. asks[l] \in Nat
  BY Types
<1>9. Depth("S", l)' = 0
  BY <1>5, <1>6, <1>7, <1>8 DEF DepthExact
<1>10. ExchangeTypeOK' /\ order'[n].side = "S" /\ order'[n].px = l
  BY <1>7, ReduceType
<1>11. order'[n].qty <= Depth("S", l)' /\ order'[n].qty \in Nat
  BY <1>10, OrderInDepthNext DEF ExchangeTypeOK, OrdersInDepth
<1> QED
  BY <1>5, <1>9, <1>11

\* A trade keeps the invariant.
LEMMA MatchKeeps ==
  ASSUME IInv, Match
  PROVE  IInv'
<1>1. PICK n \in OrderNo, q \in 1 .. MaxQty :
        /\ AtBest(n) /\ q <= order[n].qty
        /\ Reduce({n}, q)
        /\ onTradeSH(TradeMsg(n, q))
  BY DEF Match
<1> DEFINE p == order[n].px
           S == Emptied(TradeMsg(n, q))
<1>2. /\ q \in Nat /\ q > 0 /\ order[n].qty \in Nat /\ order[n].qty > 0
      /\ p \in Levels /\ order[n].side \in Side
      /\ bids \in [Levels -> Nat] /\ asks \in [Levels -> Nat]
      /\ bid1 \in Levels \cup {Nil} /\ ask1 \in Levels \cup {Nil}
      /\ seq_pxs \in [OrderNo -> Slot \cup {NoSlot}]
  BY <1>1, MaxQtyAssumption, Types, BestAtCursor DEF IInv, TypeOK, BookTypeOK
<1>3. /\ seq_pxs[n] = [side |-> order[n].side, lvl |-> p] /\ Indexed(n)
      /\ seq_pxs[n].lvl = p
  BY <1>2, RestingShown
<1>4. ~ Indexed(nextNo)
  BY NextNotIndexed
<1>5. seq_pxs' = Erase(S)
  BY <1>1 DEF onTradeSH, TradeMsg
<1>6. ExchangeTypeOK' /\ order'[n].side = order[n].side /\ order'[n].px = p
  BY <1>1, <1>2, ReduceType
<1>7. CASE order[n].side = "B"
  <2>1. TradeMsg(n, q) = [TradeBuyNo |-> n, TradeSellNo |-> nextNo,
                          LastQty |-> q, TradeBSFlag |-> "S"]
    BY <1>7 DEF TradeMsg
  <2>2. /\ TakeBuySH(n, q) /\ TakeSellSH(nextNo, q)
    BY <1>1, <2>1 DEF onTradeSH
  <2>3. UNCHANGED <<asks, ask1>>
    BY <1>4, <2>2 DEF TakeBuySH, TakeSellSH
  <2>4. /\ bids' = [bids EXCEPT ![p] = @ - q]
        /\ bid1' = IF bids'[p] <= 0 THEN ScanDown(bids', p) ELSE p
    BY <1>3, <2>2 DEF TakeBuySH, TakeSellSH
  <2>5. /\ DepthExact' /\ bids' \in [Levels -> Nat] /\ asks' \in [Levels -> Nat]
        /\ bids'[p] = bids[p] - q /\ Taken(bids, bids', p)
    BY <1>1, <1>2, <1>7, <2>3, <2>4, TakeBid
  <2>6. Top(bids', bid1')
    <3>1. Top(bids, p)
      BY <1>1, <1>7, BestAtCursor DEF IInv, CursorsRight
    <3>2. Top(bids', IF bids'[p] <= 0 THEN ScanDown(bids', p) ELSE p)
      BY <1>2, <2>5, <3>1, TopTake, Zenon
    <3> QED
      BY <2>4, <3>2, Zenon
  <2>7. bid1' \in Levels \cup {Nil}
    BY <2>6, LevelsInt DEF Top
  <2>8. \A k \in S \cap OrderNo : order'[k].qty = 0
    BY <1>1, <1>2, <1>7, <2>3, <2>4, BidEmptied
  <2>9. /\ RestingIndexed' /\ FreshUnused'
        /\ seq_pxs' \in [OrderNo -> Slot \cup {NoSlot}]
    BY <1>1, <1>2, <1>5, <2>8, IndexKept
  <2>10. BookTypeOK'
    BY <1>2, <2>3, <2>5, <2>7, <2>9 DEF BookTypeOK
  <2>11. CursorsRight'
    BY <2>3, <2>6 DEF IInv, CursorsRight
  <2> QED
    BY <1>6, <2>5, <2>9, <2>10, <2>11 DEF IInv, TypeOK
<1>8. CASE order[n].side = "S"
  <2>1. TradeMsg(n, q) = [TradeBuyNo |-> nextNo, TradeSellNo |-> n,
                          LastQty |-> q, TradeBSFlag |-> "B"]
    BY <1>8 DEF TradeMsg
  <2>2. /\ TakeBuySH(nextNo, q) /\ TakeSellSH(n, q)
    BY <1>1, <2>1 DEF onTradeSH
  <2>3. UNCHANGED <<bids, bid1>>
    BY <1>4, <2>2 DEF TakeBuySH, TakeSellSH
  <2>4. /\ asks' = [asks EXCEPT ![p] = @ - q]
        /\ ask1' = IF asks'[p] <= 0 THEN ScanUp(asks', p) ELSE p
    BY <1>3, <2>2 DEF TakeBuySH, TakeSellSH
  <2>5. /\ DepthExact' /\ bids' \in [Levels -> Nat] /\ asks' \in [Levels -> Nat]
        /\ asks'[p] = asks[p] - q /\ Taken(asks, asks', p)
    BY <1>1, <1>2, <1>8, <2>3, <2>4, TakeAsk
  <2>6. Bottom(asks', ask1')
    <3>1. Bottom(asks, p)
      BY <1>1, <1>8, BestAtCursor DEF IInv, CursorsRight
    <3>2. Bottom(asks', IF asks'[p] <= 0 THEN ScanUp(asks', p) ELSE p)
      BY <1>2, <2>5, <3>1, BottomTake, Zenon
    <3> QED
      BY <2>4, <3>2, Zenon
  <2>7. ask1' \in Levels \cup {Nil}
    BY <2>6, LevelsInt DEF Bottom
  <2>8. \A k \in S \cap OrderNo : order'[k].qty = 0
    BY <1>1, <1>2, <1>8, <2>3, <2>4, AskEmptied
  <2>9. /\ RestingIndexed' /\ FreshUnused'
        /\ seq_pxs' \in [OrderNo -> Slot \cup {NoSlot}]
    BY <1>1, <1>2, <1>5, <2>8, IndexKept
  <2>10. BookTypeOK'
    BY <1>2, <2>3, <2>5, <2>7, <2>9 DEF BookTypeOK
  <2>11. CursorsRight'
    BY <2>3, <2>6 DEF IInv, CursorsRight
  <2> QED
    BY <1>6, <2>5, <2>9, <2>10, <2>11 DEF IInv, TypeOK
<1> QED
  BY <1>2, <1>7, <1>8 DEF Side

-----------------------------------------------------------------------------
\* The empty books satisfy the invariant.
LEMMA InitKeeps ==
  ASSUME Init
  PROVE  IInv
<1>1. TypeOK
  <2>1. ExchangeTypeOK
    BY InLimits, SpanAssumption, MaxOrdersAssumption
    DEF Init, ExchangeInit, ExchangeTypeOK, Side, Prices
  <2>2. BookTypeOK
    BY DEF Init, BookInit, BookTypeOK
  <2> QED
    BY <2>1, <2>2 DEF TypeOK
<1>2. FreshUnused /\ RestingIndexed
  BY DEF Init, ExchangeInit, BookInit, FreshUnused, RestingIndexed
<1>3. Resting("B") = {} /\ Resting("S") = {}
  BY DEF Init, ExchangeInit, Resting
<1>4. DepthExact
  <2>1. SUFFICES ASSUME NEW l \in Levels
                 PROVE  bids[l] = Depth("B", l) /\ asks[l] = Depth("S", l)
    BY DEF DepthExact
  <2>2. Depth("B", l) \in Nat /\ ~ Depth("B", l) > 0
    BY <1>1, <1>3, DepthLaws DEF TypeOK
  <2>3. Depth("S", l) \in Nat /\ ~ Depth("S", l) > 0
    BY <1>1, <1>3, DepthLaws DEF TypeOK
  <2> QED
    BY <2>2, <2>3 DEF Init, BookInit
<1>5. CursorsRight
  <2>1. Filled(bids) = {} /\ Filled(asks) = {}
    BY DEF Init, BookInit, Filled
  <2> QED
    BY <2>1 DEF Init, BookInit, CursorsRight, Top, Bottom
<1> QED
  BY <1>1, <1>2, <1>4, <1>5 DEF IInv

\* A step that changes nothing keeps it.
LEMMA StutterKeeps ==
  ASSUME IInv, UNCHANGED vars
  PROVE  IInv'
<1>1. /\ order' = order /\ nextNo' = nextNo
      /\ bids' = bids /\ asks' = asks /\ bid1' = bid1 /\ ask1' = ask1
      /\ seq_pxs' = seq_pxs
  BY DEF vars, exchangeVars, bookVars
<1>2. TypeOK'
  BY <1>1 DEF IInv, TypeOK, ExchangeTypeOK, BookTypeOK
<1>3. FreshUnused' /\ RestingIndexed'
  BY <1>1 DEF IInv, FreshUnused, RestingIndexed
<1>4. DepthExact'
  BY <1>1 DEF IInv, DepthExact, Depth, Share
<1>5. CursorsRight'
  BY <1>1 DEF IInv, CursorsRight
<1> QED
  BY <1>2, <1>3, <1>4, <1>5 DEF IInv

\* IInv is an invariant of the Shanghai book.
THEOREM InductiveInvariant == Spec => []IInv
<1>1. Init => IInv
  BY InitKeeps
<1>2. IInv /\ [Next]_vars => IInv'
  BY QuoteKeeps, CancelKeeps, MatchKeeps, StutterKeeps DEF Next
<1> QED
  BY <1>1, <1>2, PTL DEF Spec

\* Whatever the numbers of levels and of orders, the handlers' cursors and the
\* index only ever name levels of the book.
THEOREM TypesCorrect == Spec => []TypeOK
<1>1. IInv => TypeOK
  BY DEF IInv
<1> QED
  BY <1>1, InductiveInvariant, PTL

\* In continuous trading every level shows exactly what rests there.
THEOREM DepthCorrect == Spec => []DepthExact
<1>1. IInv => DepthExact
  BY DEF IInv
<1> QED
  BY <1>1, InductiveInvariant, PTL

\* In continuous trading both cursors are on the exchange's best levels, which
\* is where getPxList starts to read.
THEOREM BestCorrect == Spec => []BestExact
<1>1. IInv => BestExact
  BY CursorsBest
<1> QED
  BY <1>1, InductiveInvariant, PTL

\* No order that still rests is ever taken out of the index, although the
\* handlers erase by the level's quantity and not by the order's.
THEOREM IndexCorrect == Spec => []RestingIndexed
<1>1. IInv => RestingIndexed
  BY DEF IInv
<1> QED
  BY <1>1, InductiveInvariant, PTL

-----------------------------------------------------------------------------
(***************************************************************************)
(* The refinement: under the mapping of module BookSH every message is one *)
(* step of MarketDepth.                                                    *)
(***************************************************************************)
\* A cursor that is right for the arrays is the best level of its side.
LEMMA TopIsBest ==
  ASSUME NEW q \in [Levels -> Nat], NEW c, Top(q, c)
  PROVE  Shown!IsBest("B", q, c)
<1>1. \A k \in Levels : (k \in Filled(q)) <=> (q[k] # 0)
  BY DEF Filled
<1>2. \A k \in Levels : q[k] > 0 <=> k \in Filled(q)
  BY DEF Filled
<1>3. Filled(q) \in SUBSET Levels /\ Levels \in SUBSET Int
  BY LevelsInt
<1>4. CASE Filled(q) = {}
  BY <1>1, <1>4 DEF Top, Shown!IsBest, Shown!Nil, Shown!Levels, Nil, Levels
<1>5. CASE Filled(q) # {}
  <2>1. c \in Filled(q) /\ \A k \in Filled(q) : k <= c
    BY <1>5 DEF Top
  <2>2. ASSUME NEW k \in Levels, q[k] > 0
        PROVE  ~ Shown!Better("B", k, c)
    <3>1. k <= c /\ k \in Int /\ c \in Int
      BY <1>2, <1>3, <2>1, <2>2
    <3>2. Shown!Better("B", k, c) <=> k > c
      BY DEF Shown!Better
    <3> QED
      BY <3>1, <3>2
  <2> QED
    BY <1>1, <1>2, <1>3, <2>1, <2>2 DEF Shown!IsBest, Shown!Levels, Levels
<1> QED
  BY <1>4, <1>5

LEMMA BottomIsBest ==
  ASSUME NEW q \in [Levels -> Nat], NEW c, Bottom(q, c)
  PROVE  Shown!IsBest("S", q, c)
<1>1. \A k \in Levels : (k \in Filled(q)) <=> (q[k] # 0)
  BY DEF Filled
<1>2. \A k \in Levels : q[k] > 0 <=> k \in Filled(q)
  BY DEF Filled
<1>3. Filled(q) \in SUBSET Levels /\ Levels \in SUBSET Int
  BY LevelsInt
<1>4. CASE Filled(q) = {}
  BY <1>1, <1>4 DEF Bottom, Shown!IsBest, Shown!Nil, Shown!Levels, Nil, Levels
<1>5. CASE Filled(q) # {}
  <2>1. c \in Filled(q) /\ \A k \in Filled(q) : k >= c
    BY <1>5 DEF Bottom
  <2>2. ASSUME NEW k \in Levels, q[k] > 0
        PROVE  ~ Shown!Better("S", k, c)
    <3>1. k >= c /\ k \in Int /\ c \in Int
      BY <1>2, <1>3, <2>1, <2>2
    <3>2. Shown!Better("S", k, c) <=> k < c
      BY DEF Shown!Better
    <3> QED
      BY <3>1, <3>2
  <2> QED
    BY <1>1, <1>2, <1>3, <2>1, <2>2 DEF Shown!IsBest, Shown!Levels, Levels
<1> QED
  BY <1>4, <1>5

-----------------------------------------------------------------------------
\* MarketDepth speaks of the same sides and levels.
LEMMA ShownSets ==
  Shown!Side = Side /\ Shown!Levels = Levels /\ Shown!Nil = Nil
BY DEF Shown!Side, Shown!Levels, Shown!Nil, Side, Levels, Nil

\* No level shows a negative quantity, before a step and after it.
Natural == bids \in [Levels -> Nat] /\ asks \in [Levels -> Nat]

LEMMA NaturalNow == IInv => Natural
BY Types DEF Natural

LEMMA NaturalNext == IInv' => Natural'
BY NaturalNow, PTL

\* A step that changes one bid (ask) level and leaves the invariant true is a
\* change of that level as its readers see it.
LEMMA BidChange ==
  ASSUME IInv, IInv', NEW p \in Levels, NEW x,
         bids' = [bids EXCEPT ![p] = x], asks' = asks, ask1' = ask1
  PROVE  Shown!Change("B", p, x)
<1>1. /\ bids \in [Levels -> Nat] /\ bids' \in [Levels -> Nat]
      /\ bid1' \in Levels \cup {Nil} /\ ask1' \in Levels \cup {Nil}
      /\ Top(bids', bid1')
  BY Types, NaturalNext DEF Natural, IInv, TypeOK, BookTypeOK, CursorsRight
<1>2. Shown!IsBest("B", bids', bid1')
  BY <1>1, TopIsBest
<1>3. shownDepth' = [shownDepth EXCEPT !["B"][p] = x]
  BY <1>1 DEF shownDepth, Side
<1>4. /\ shownBest' \in [Side -> Levels \cup {Nil}]
      /\ shownBest'["S"] = shownBest["S"]
      /\ shownBest'["B"] = bid1' /\ shownDepth'["B"] = bids'
  BY <1>1 DEF shownBest, shownDepth, Side
<1> QED
  BY <1>2, <1>3, <1>4 DEF Shown!Change, Shown!Other, Shown!Side, Shown!Levels,
     Shown!Nil, Side, Levels, Nil

LEMMA AskChange ==
  ASSUME IInv, IInv', NEW p \in Levels, NEW x,
         asks' = [asks EXCEPT ![p] = x], bids' = bids, bid1' = bid1
  PROVE  Shown!Change("S", p, x)
<1>1. /\ asks \in [Levels -> Nat] /\ asks' \in [Levels -> Nat]
      /\ bid1' \in Levels \cup {Nil} /\ ask1' \in Levels \cup {Nil}
      /\ Bottom(asks', ask1')
  BY Types, NaturalNext DEF Natural, IInv, TypeOK, BookTypeOK, CursorsRight
<1>2. Shown!IsBest("S", asks', ask1')
  BY <1>1, BottomIsBest
<1>3. shownDepth' = [shownDepth EXCEPT !["S"][p] = x]
  BY <1>1 DEF shownDepth, Side
<1>4. /\ shownBest' \in [Side -> Levels \cup {Nil}]
      /\ shownBest'["B"] = shownBest["B"]
      /\ shownBest'["S"] = ask1' /\ shownDepth'["S"] = asks'
  BY <1>1 DEF shownBest, shownDepth, Side
<1> QED
  BY <1>2, <1>3, <1>4 DEF Shown!Change, Shown!Other, Shown!Side, Shown!Levels,
     Shown!Nil, Side, Levels, Nil

-----------------------------------------------------------------------------
\* A new order adds a quantity where it does not meet the other side.
LEMMA QuoteAdds ==
  ASSUME IInv, IInv', Quote
  PROVE  Shown!Add
<1>1. PICK s \in Side, p \in Levels, q \in 1 .. MaxQty :
        ~ Crosses(s, p) /\ onOrderSH(AddMsg(s, p, q))
  BY DEF Quote
<1>2. /\ BestExact /\ shownDepth[s] = IF s = "B" THEN bids ELSE asks
      /\ \A n \in OrderNo : order[n].px \in Int
      /\ p \in Int
  BY CursorsBest, Types, LevelsInt DEF shownDepth, Side
<1>3. CASE s = "B"
  <2>1. /\ bids' = [bids EXCEPT ![p] = bids[p] + q]
        /\ asks' = asks /\ ask1' = ask1
    BY <1>1, <1>3 DEF onOrderSH, AddMsg, AddBuySH, AddSellSH, DelBuySH, DelSellSH
  <2>2. Shown!Change("B", p, shownDepth["B"][p] + q)
    BY <1>2, <1>3, <2>1, BidChange
  <2>3. ask1 = Nil \/ Shown!Better("B", ask1, p)
    <3>1. CASE Resting("S") = {}
      BY <1>2, <3>1 DEF BestExact, AskExact, OnBest
    <3>2. CASE Resting("S") # {}
      <4>1. PICK n \in Resting("S") : ask1 = order[n].px
        BY <1>2, <3>2 DEF BestExact, AskExact, OnBest
      <4>2. ~ (order[n].px <= p) /\ n \in OrderNo
        BY <1>1, <1>3, <4>1 DEF Crosses, Resting
      <4>3. Shown!Better("B", ask1, p) <=> ask1 > p
        BY DEF Shown!Better
      <4> QED
        BY <1>2, <4>1, <4>2, <4>3
    <3> QED
      BY <3>1, <3>2
  <2>4. shownBest[Shown!Other("B")] = ask1 /\ Shown!Other("B") = "S"
    BY DEF shownBest, Shown!Other, Side
  <2>5. /\ "B" \in Shown!Side /\ p \in Shown!Levels
        /\ \/ shownBest[Shown!Other("B")] = Shown!Nil
           \/ Shown!Better("B", shownBest[Shown!Other("B")], p)
    BY <2>3, <2>4, ShownSets DEF Side
  <2> QED
    BY <1>1, <2>2, <2>5 DEF Shown!Add
<1>4. CASE s = "S"
  <2>1. /\ asks' = [asks EXCEPT ![p] = asks[p] + q]
        /\ bids' = bids /\ bid1' = bid1
    BY <1>1, <1>4 DEF onOrderSH, AddMsg, AddBuySH, AddSellSH, DelBuySH, DelSellSH
  <2>2. Shown!Change("S", p, shownDepth["S"][p] + q)
    BY <1>2, <1>4, <2>1, AskChange
  <2>3. bid1 = Nil \/ Shown!Better("S", bid1, p)
    <3>1. CASE Resting("B") = {}
      BY <1>2, <3>1 DEF BestExact, BidExact, OnBest
    <3>2. CASE Resting("B") # {}
      <4>1. PICK n \in Resting("B") : bid1 = order[n].px
        BY <1>2, <3>2 DEF BestExact, BidExact, OnBest
      <4>2. ~ (order[n].px >= p) /\ n \in OrderNo
        BY <1>1, <1>4, <4>1 DEF Crosses, Resting
      <4>3. Shown!Better("S", bid1, p) <=> bid1 < p
        BY DEF Shown!Better
      <4> QED
        BY <1>2, <4>1, <4>2, <4>3
    <3> QED
      BY <3>1, <3>2
  <2>4. shownBest[Shown!Other("S")] = bid1 /\ Shown!Other("S") = "B"
    BY DEF shownBest, Shown!Other, Side
  <2>5. /\ "S" \in Shown!Side /\ p \in Shown!Levels
        /\ \/ shownBest[Shown!Other("S")] = Shown!Nil
           \/ Shown!Better("S", shownBest[Shown!Other("S")], p)
    BY <2>3, <2>4, ShownSets DEF Side
  <2> QED
    BY <1>1, <2>2, <2>5 DEF Shown!Add
<1> QED
  BY <1>3, <1>4 DEF Side

\* Taking a positive quantity that a level has is a step of MarketDepth.
LEMMA BidTakes ==
  ASSUME IInv, IInv', NEW p \in Levels, NEW q \in Nat, q > 0, q <= bids[p],
         bids' = [bids EXCEPT ![p] = @ - q], asks' = asks, ask1' = ask1
  PROVE  Shown!Take
<1>1. bids[p] \in Nat /\ bids[p] - q \in 0 .. bids[p] - 1
  BY Types
<1>2. bids' = [bids EXCEPT ![p] = bids[p] - q]
  OBVIOUS
<1>3. Shown!Change("B", p, bids[p] - q)
  BY <1>2, BidChange
<1>4. shownDepth["B"][p] = bids[p]
  BY DEF shownDepth, Side
<1> QED
  BY <1>1, <1>3, <1>4 DEF Shown!Take, Shown!Side, Shown!Levels, Levels

LEMMA AskTakes ==
  ASSUME IInv, IInv', NEW p \in Levels, NEW q \in Nat, q > 0, q <= asks[p],
         asks' = [asks EXCEPT ![p] = @ - q], bids' = bids, bid1' = bid1
  PROVE  Shown!Take
<1>1. asks[p] \in Nat /\ asks[p] - q \in 0 .. asks[p] - 1
  BY Types
<1>2. asks' = [asks EXCEPT ![p] = asks[p] - q]
  OBVIOUS
<1>3. Shown!Change("S", p, asks[p] - q)
  BY <1>2, AskChange
<1>4. shownDepth["S"][p] = asks[p]
  BY DEF shownDepth, Side
<1> QED
  BY <1>1, <1>3, <1>4 DEF Shown!Take, Shown!Side, Shown!Levels, Levels

\* A deletion takes the order's quantity from its level.
LEMMA CancelTakes ==
  ASSUME IInv, IInv', Cancel
  PROVE  Shown!Take
<1>1. PICK n \in OrderNo : order[n].qty > 0 /\ onOrderSH(DelMsg(n))
  BY DEF Cancel
<1> DEFINE q == order[n].qty
           p == order[n].px
<1>2. /\ q \in Nat /\ q > 0 /\ p \in Levels /\ order[n].side \in Side
      /\ bids[p] \in Nat /\ asks[p] \in Nat
  BY <1>1, Types
<1>3. CASE order[n].side = "B"
  <2>1. /\ bids' = [bids EXCEPT ![p] = Clamp(@ - q)]
        /\ asks' = asks /\ ask1' = ask1
    BY <1>1, <1>3 DEF onOrderSH, DelMsg, AddBuySH, AddSellSH, DelBuySH, DelSellSH
  <2>2. q <= bids[p]
    BY <1>1, <1>3, RestingShown
  <2>3. Clamp(bids[p] - q) = bids[p] - q
    BY <1>2, <2>2 DEF Clamp
  <2> QED
    BY <1>2, <2>1, <2>2, <2>3, BidTakes
<1>4. CASE order[n].side = "S"
  <2>1. /\ asks' = [asks EXCEPT ![p] = Clamp(@ - q)]
        /\ bids' = bids /\ bid1' = bid1
    BY <1>1, <1>4 DEF onOrderSH, DelMsg, AddBuySH, AddSellSH, DelBuySH, DelSellSH
  <2>2. q <= asks[p]
    BY <1>1, <1>4, RestingShown
  <2>3. Clamp(asks[p] - q) = asks[p] - q
    BY <1>2, <2>2 DEF Clamp
  <2> QED
    BY <1>2, <2>1, <2>2, <2>3, AskTakes
<1> QED
  BY <1>2, <1>3, <1>4 DEF Side

\* A trade takes its quantity from the level of the resting order only: the
\* other order's number is not in the index.
LEMMA MatchTakes ==
  ASSUME IInv, IInv', Match
  PROVE  Shown!Take
<1>1. PICK n \in OrderNo, q \in 1 .. MaxQty :
        AtBest(n) /\ q <= order[n].qty /\ onTradeSH(TradeMsg(n, q))
  BY DEF Match
<1> DEFINE p == order[n].px
<1>2. /\ q \in Nat /\ q > 0 /\ order[n].qty > 0 /\ order[n].qty \in Nat
      /\ p \in Levels /\ order[n].side \in Side
      /\ bids[p] \in Nat /\ asks[p] \in Nat
  BY <1>1, MaxQtyAssumption, BestAtCursor, Types
<1>3. /\ Indexed(n) /\ seq_pxs[n] = [side |-> order[n].side, lvl |-> p]
      /\ order[n].side = "B" => order[n].qty <= bids[p]
      /\ order[n].side = "S" => order[n].qty <= asks[p]
  BY <1>2, RestingShown
<1>4. ~ Indexed(nextNo)
  BY NextNotIndexed
<1>5. CASE order[n].side = "B"
  <2>1. TakeBuySH(n, q) /\ TakeSellSH(nextNo, q)
    BY <1>1, <1>5 DEF onTradeSH, TradeMsg
  <2>2. /\ bids' = [bids EXCEPT ![p] = @ - q]
        /\ asks' = asks /\ ask1' = ask1
    BY <1>3, <1>4, <2>1 DEF TakeBuySH, TakeSellSH
  <2>3. q <= bids[p]
    BY <1>1, <1>2, <1>3, <1>5
  <2> QED
    BY <1>2, <2>2, <2>3, BidTakes
<1>6. CASE order[n].side = "S"
  <2>1. TakeBuySH(nextNo, q) /\ TakeSellSH(n, q)
    BY <1>1, <1>6 DEF onTradeSH, TradeMsg
  <2>2. /\ asks' = [asks EXCEPT ![p] = @ - q]
        /\ bids' = bids /\ bid1' = bid1
    BY <1>3, <1>4, <2>1 DEF TakeBuySH, TakeSellSH
  <2>3. q <= asks[p]
    BY <1>1, <1>2, <1>3, <1>6
  <2> QED
    BY <1>2, <2>2, <2>3, AskTakes
<1> QED
  BY <1>2, <1>5, <1>6 DEF Side

-----------------------------------------------------------------------------
\* Message by message, onOrderSH and onTradeSH show what a market's depth may
\* do: one level changes, the cursor of its side stays on the best level, the
\* other side is untouched, and the book is never shown crossed.
THEOREM Refinement == Spec => ImplementsMarketDepth
<1>1. Init => Shown!Init
  <2>1. SUFFICES ASSUME Init PROVE Shown!Init
    OBVIOUS
  <2>2. /\ bids = [l \in Levels |-> 0] /\ asks = [l \in Levels |-> 0]
        /\ bid1 = Nil /\ ask1 = Nil
    BY <2>1 DEF Init, BookInit
  <2>3. shownDepth = [s \in Side |-> [l \in Levels |-> 0]]
    BY <2>2 DEF shownDepth
  <2>4. shownBest = [s \in Side |-> Nil]
    BY <2>2 DEF shownBest
  <2> QED
    BY <2>3, <2>4 DEF Shown!Init, Shown!Side, Shown!Levels, Shown!Nil,
       Side, Levels, Nil
<1>2. IInv /\ IInv' /\ [Next]_vars => [Shown!Next]_(Shown!depthVars)
  <2>1. ASSUME UNCHANGED vars PROVE UNCHANGED Shown!depthVars
    BY <2>1 DEF vars, bookVars, Shown!depthVars, shownDepth, shownBest
  <2> QED
    BY <2>1, QuoteAdds, CancelTakes, MatchTakes DEF Next, Shown!Next
<1> QED
  BY <1>1, <1>2, InductiveInvariant, PTL
  DEF Spec, ImplementsMarketDepth, Shown!Spec

-----------------------------------------------------------------------------
(***************************************************************************)
(* Sampling the book while it changes, for any number of levels in a       *)
(* record: the invariants of module SamplerSH.  First what holds of the    *)
(* book at every step of a handler, then what holds of a record whatever   *)
(* runs into it, then what holds of one that nothing ran into.             *)
(***************************************************************************)
\* The cursor c is right for side s, as far as the arrays can tell.
Right(s, c) == IF s = "B" THEN Top(bids, c) ELSE Bottom(asks, c)

\* The levels of side s with a quantity.
Shows(s) == Filled(Quantity(s))

\* No level of T is nearer to the other side than l.
NoneNearer(s, T, l) == \A k \in T : k = l \/ Farther(s, k, l)

\* What is true of the side a handler is working on, by what is next of it.
Handling(s) ==
  /\ fpc = "add" =>
       /\ flvl \in Shows(s)
       /\ IF Cursor(s) = Nil
          THEN Shows(s) = {flvl}
          ELSE /\ Cursor(s) \in Shows(s)
               /\ NoneNearer(s, Shows(s) \ {flvl}, Cursor(s))
  /\ fpc \in {"clamp", "test"} =>
       /\ flvl \in Levels
       /\ Cursor(s) \in Shows(s) \cup {flvl}
       /\ NoneNearer(s, Shows(s), Cursor(s))
  /\ fpc = "taken" => flvl \in Levels /\ NoneNearer(s, Shows(s), flvl)
  /\ fpc = "scan"  => NoneNearer(s, Shows(s), flvl)

\* The quantities and the index are exact at every step of a handler.
BookSays == TypeOK /\ FreshUnused /\ RestingIndexed /\ DepthExact

Handlers == {"idle", "add", "clamp", "test", "taken", "scan"}

FeederInv ==
  /\ BookSays
  /\ fpc \in Handlers /\ fside \in Side /\ flvl \in Levels \cup {Nil, Span}
  /\ \A s \in Side : IF fpc # "idle" /\ s = fside
                     THEN Handling(s) ELSE Right(s, Cursor(s))

-----------------------------------------------------------------------------
\* While no message is handled, the book is that of BookSH between messages.
LEMMA IdleExact ==
  ASSUME FeederInv, fpc = "idle"
  PROVE  IInv
<1>1. \A s \in Side : Right(s, Cursor(s))
  BY DEF FeederInv
<1>2. Top(bids, bid1) /\ Bottom(asks, ask1)
  BY <1>1 DEF Side, Right, Cursor
<1> QED
  BY <1>2 DEF FeederInv, BookSays, IInv, CursorsRight

\* The quantities shown are natural numbers at every step.
LEMMA ShownTypes ==
  ASSUME BookSays
  PROVE  /\ bids \in [Levels -> Nat] /\ asks \in [Levels -> Nat]
         /\ \A s \in Side : /\ Quantity(s) \in [Levels -> Nat]
                            /\ Shows(s) \in SUBSET Levels
                            /\ Shows(s) \in SUBSET Int
                            /\ Cursor(s) \in Levels \cup {Nil}
<1>1. ExchangeTypeOK /\ BookTypeOK
  BY DEF BookSays, TypeOK
<1>2. \A l \in Levels : bids[l] \in Nat /\ asks[l] \in Nat
  BY <1>1, DepthLaws DEF BookSays, DepthExact
<1>3. bids \in [Levels -> Nat] /\ asks \in [Levels -> Nat]
  BY <1>1, <1>2 DEF BookTypeOK
<1>4. \A s \in Side : /\ Quantity(s) \in [Levels -> Nat]
                      /\ Cursor(s) \in Levels \cup {Nil}
  BY <1>1, <1>3 DEF Quantity, Cursor, BookTypeOK
<1> QED
  BY <1>3, <1>4, LevelsInt DEF Shows

\* A cursor that is right is on a level shown, and none is nearer; or nothing
\* is shown.
LEMMA RightMeans ==
  ASSUME NEW s \in Side, NEW c, BookSays
  PROVE  Right(s, c) <=> IF Shows(s) = {} THEN c = Nil
                         ELSE c \in Shows(s) /\ NoneNearer(s, Shows(s), c)
<1>1. Shows(s) \in SUBSET Int
  BY ShownTypes
<1>2. CASE s = "B"
  BY <1>1, <1>2 DEF Right, Top, Shows, Quantity, NoneNearer, Farther
<1>3. CASE s = "S"
  BY <1>1, <1>3 DEF Right, Bottom, Shows, Quantity, NoneNearer, Farther
<1> QED
  BY <1>2, <1>3 DEF Side

-----------------------------------------------------------------------------
\* The first step of a handler: side s is in its hands, the other is right.
LEMMA ArriveKeeps ==
  ASSUME FeederInv, NEW s \in Side, NEW l \in Levels, NEW next \in Handlers,
         next # "idle", Arrive(s, l, next), BookSays', Handling(s)',
         \A t \in Side : t # s => Quantity(t)' = Quantity(t)
  PROVE  FeederInv'
<1>1. /\ fpc = "idle" /\ fpc' = next /\ fside' = s /\ flvl' = l
      /\ bid1' = bid1 /\ ask1' = ask1
  BY DEF Arrive
<1>2. ASSUME NEW t \in Side, t # s PROVE Right(t, Cursor(t))'
  <2>1. Right(t, Cursor(t)) /\ Quantity(t)' = Quantity(t)
    BY <1>1, <1>2 DEF FeederInv
  <2>2. CASE t = "B"
    BY <1>1, <2>1, <2>2 DEF Right, Cursor, Quantity
  <2>3. CASE t = "S"
    BY <1>1, <2>1, <2>3 DEF Right, Cursor, Quantity
  <2> QED
    BY <2>2, <2>3 DEF Side
<1> QED
  BY <1>1, <1>2 DEF FeederInv

\* What a new order does to the exchange, the index and the quantities.
LEMMA FeedAddKeeps ==
  ASSUME FeederInv, FeedAdd
  PROVE  FeederInv'
<1>1. PICK s \in Side, l \in Levels, q \in 1 .. MaxQty :
        /\ Enter(s, l, q) /\ Arrive(s, l, "add") /\ ChangeQuantity(s, l, q)
        /\ seq_pxs' = [seq_pxs EXCEPT ![nextNo] = [side |-> s, lvl |-> l]]
  BY DEF FeedAdd
<1>2. /\ q \in Nat /\ q > 0
      /\ bid1' = bid1 /\ ask1' = ask1 /\ fpc' = "add" /\ flvl' = l
  BY <1>1, MaxQtyAssumption DEF Arrive
<1>3. IInv
  BY <1>1, IdleExact DEF Arrive
<1>4. /\ ExchangeTypeOK'
      /\ nextNo \in OrderNo /\ nextNo \in Int /\ nextNo' = nextNo + 1
      /\ order'[nextNo] = [side |-> s, px |-> l, qty |-> q]
      /\ \A n \in OrderNo : n # nextNo => order'[n] = order[n]
  BY <1>1, <1>2, <1>3, EnterType
<1>5. order[nextNo].qty = 0 /\ OrderNo \in SUBSET Int
  BY <1>3, <1>4 DEF IInv, FreshUnused, OrderNo
<1>6. \A t, k : Depth(t, k)' = Depth(t, k) + (IF t = s /\ k = l THEN q ELSE 0)
  BY <1>1, <1>2, <1>3, <1>4, <1>5, Types, EnterDepth
<1>7. /\ bids \in [Levels -> Nat] /\ asks \in [Levels -> Nat]
      /\ bid1 \in Levels \cup {Nil} /\ ask1 \in Levels \cup {Nil}
      /\ seq_pxs \in [OrderNo -> Slot \cup {NoSlot}]
  BY <1>3, Types DEF IInv, TypeOK, BookTypeOK
<1>8. FreshUnused' /\ RestingIndexed'
  BY <1>1, <1>3, <1>4, <1>5, <1>7 DEF IInv, FreshUnused, RestingIndexed
<1>9. seq_pxs' \in [OrderNo -> Slot \cup {NoSlot}]
  BY <1>1, <1>7 DEF Slot
<1>10. /\ Quantity(s)' = [Quantity(s) EXCEPT ![l] = @ + q]
       /\ \A t \in Side : t # s => Quantity(t)' = Quantity(t)
  BY <1>1 DEF ChangeQuantity, Quantity, Side
<1>11. BookTypeOK' /\ DepthExact'
  <2>1. CASE s = "B"
    <3>1. bids' = [bids EXCEPT ![l] = @ + q] /\ asks' = asks
      BY <1>1, <2>1 DEF ChangeQuantity
    <3>2. DepthExact'
      BY <1>3, <1>6, <1>7, <2>1, <3>1 DEF IInv, DepthExact
    <3> QED
      BY <1>2, <1>7, <1>9, <3>1, <3>2 DEF BookTypeOK
  <2>2. CASE s = "S"
    <3>1. asks' = [asks EXCEPT ![l] = @ + q] /\ bids' = bids
      BY <1>1, <2>2 DEF ChangeQuantity
    <3>2. DepthExact'
      BY <1>3, <1>6, <1>7, <2>2, <3>1 DEF IInv, DepthExact
    <3> QED
      BY <1>2, <1>7, <1>9, <3>1, <3>2 DEF BookTypeOK
  <2> QED
    BY <2>1, <2>2 DEF Side
<1>12. BookSays'
  BY <1>4, <1>8, <1>11 DEF BookSays, TypeOK
<1>13. Shows(s)' = Shows(s) \cup {l}
  <2>1. Quantity(s) \in [Levels -> Nat]
    BY ShownTypes DEF FeederInv
  <2> QED
    BY <1>2, <1>10, <2>1 DEF Shows, Filled
<1>14. Handling(s)'
  <2>1. Right(s, Cursor(s)) /\ BookSays
    BY <1>1 DEF FeederInv, Arrive
  <2>2. IF Shows(s) = {} THEN Cursor(s) = Nil
        ELSE Cursor(s) \in Shows(s) /\ NoneNearer(s, Shows(s), Cursor(s))
    BY <2>1, RightMeans
  <2>3. Cursor(s)' = Cursor(s) /\ Shows(s) \in SUBSET Levels /\ Nil \notin Levels
    BY <1>2, <2>1, ShownTypes, LevelsInt DEF Cursor
  <2> QED
    BY <1>2, <1>13, <2>2, <2>3 DEF Handling, NoneNearer
<1> QED
  BY <1>1, <1>10, <1>12, <1>14, ArriveKeeps DEF Handlers

\* Adding the negative of a quantity to a level takes it from the level.
LEMMA ChangeTakes ==
  ASSUME BookSays, NEW s \in Side, NEW l \in Levels, NEW q \in Nat,
         ChangeQuantity(s, l, 0 - q)
  PROVE  /\ s = "B" => bids' = [bids EXCEPT ![l] = @ - q] /\ asks' = asks
         /\ s = "S" => asks' = [asks EXCEPT ![l] = @ - q] /\ bids' = bids
<1>1. bids[l] \in Int /\ asks[l] \in Int
  BY DEF BookSays, TypeOK, BookTypeOK
<1>2. bids[l] + (0 - q) = bids[l] - q /\ asks[l] + (0 - q) = asks[l] - q
  BY <1>1
<1> QED
  BY <1>2 DEF ChangeQuantity

\* Taking a quantity of a resting order, on the exchange and in the arrays,
\* keeps them equal, and only that order's level may be empty afterwards.
LEMMA TakeKeeps ==
  ASSUME IInv, NEW n \in OrderNo, NEW q \in Nat, q > 0, q <= order[n].qty,
         Reduce({n}, q), NEW s \in Side, s = order[n].side,
         ChangeQuantity(s, order[n].px, 0 - q),
         bid1' = bid1, ask1' = ask1,
         NEW T, seq_pxs' = Erase(T),
         \A k \in T \cap OrderNo : order'[k].qty = 0
  PROVE  /\ BookSays' /\ order[n].px \in Levels
         /\ order[n].px \in Shows(s)
         /\ \/ Shows(s)' = Shows(s)
            \/ Shows(s)' = Shows(s) \ {order[n].px}
         /\ \A t \in Side : t # s => Quantity(t)' = Quantity(t)
<1> DEFINE p == order[n].px
<1>1. BookSays /\ p \in Levels
  BY Types DEF IInv, BookSays
<1>2. /\ bids \in [Levels -> Nat] /\ asks \in [Levels -> Nat]
      /\ bid1 \in Levels \cup {Nil} /\ ask1 \in Levels \cup {Nil}
  BY Types DEF IInv, TypeOK, BookTypeOK
<1>3. /\ RestingIndexed' /\ FreshUnused'
      /\ seq_pxs' \in [OrderNo -> Slot \cup {NoSlot}]
  BY IndexKept
<1>4. ExchangeTypeOK'
  BY ReduceType
<1>5. CASE s = "B"
  <2>1. bids' = [bids EXCEPT ![p] = @ - q] /\ asks' = asks
    BY <1>1, <1>5, ChangeTakes
  <2>2. /\ DepthExact' /\ Taken(bids, bids', p)
        /\ bids' \in [Levels -> Nat] /\ asks' \in [Levels -> Nat]
    BY <1>5, <2>1, TakeBid
  <2>3. /\ p \in Filled(bids)
        /\ Filled(bids') = IF bids'[p] > 0 THEN Filled(bids)
                           ELSE Filled(bids) \ {p}
    BY <1>1, <1>2, <2>2, FilledTaken
  <2>4. BookTypeOK'
    BY <1>2, <1>3, <2>2 DEF BookTypeOK
  <2>5. BookSays'
    BY <1>3, <1>4, <2>2, <2>4 DEF BookSays, TypeOK
  <2>6. \A t \in Side : t # s => Quantity(t)' = Quantity(t)
    BY <1>5, <2>1 DEF Quantity, Side
  <2> QED
    BY <1>1, <1>5, <2>3, <2>5, <2>6 DEF Shows, Quantity
<1>6. CASE s = "S"
  <2>1. asks' = [asks EXCEPT ![p] = @ - q] /\ bids' = bids
    BY <1>1, <1>6, ChangeTakes
  <2>2. /\ DepthExact' /\ Taken(asks, asks', p)
        /\ bids' \in [Levels -> Nat] /\ asks' \in [Levels -> Nat]
    BY <1>6, <2>1, TakeAsk
  <2>3. /\ p \in Filled(asks)
        /\ Filled(asks') = IF asks'[p] > 0 THEN Filled(asks)
                           ELSE Filled(asks) \ {p}
    BY <1>1, <1>2, <2>2, FilledTaken
  <2>4. BookTypeOK'
    BY <1>2, <1>3, <2>2 DEF BookTypeOK
  <2>5. BookSays'
    BY <1>3, <1>4, <2>2, <2>4 DEF BookSays, TypeOK
  <2>6. \A t \in Side : t # s => Quantity(t)' = Quantity(t)
    BY <1>6, <2>1 DEF Quantity, Side
  <2> QED
    BY <1>1, <1>6, <2>3, <2>5, <2>6 DEF Shows, Quantity
<1> QED
  BY <1>5, <1>6 DEF Side

\* A deletion's first step: its level is taken from, the cursor stays.
LEMMA FeedDelKeeps ==
  ASSUME FeederInv, FeedDel
  PROVE  FeederInv'
<1>1. PICK n \in OrderNo :
        /\ order[n].qty > 0 /\ Reduce({n}, order[n].qty)
        /\ Arrive(order[n].side, order[n].px, "clamp")
        /\ ChangeQuantity(order[n].side, order[n].px, 0 - order[n].qty)
        /\ seq_pxs' = seq_pxs
  BY DEF FeedDel
<1>2. IInv
  BY <1>1, IdleExact DEF Arrive
<1>3. PICK q \in Nat, s \in Side, p \in Levels :
        q = order[n].qty /\ s = order[n].side /\ p = order[n].px
  BY <1>2, Types
<1>4. /\ q > 0 /\ q <= order[n].qty /\ Reduce({n}, q) /\ Arrive(s, p, "clamp")
      /\ ChangeQuantity(s, p, 0 - q)
  BY <1>1, <1>3
<1>5. /\ bid1' = bid1 /\ ask1' = ask1 /\ fpc' = "clamp" /\ flvl' = p
  BY <1>4 DEF Arrive
<1>6. seq_pxs' = Erase({})
  BY <1>1, <1>2 DEF Erase, IInv, TypeOK, BookTypeOK
<1>7. /\ BookSays' /\ p \in Shows(s)
      /\ Shows(s)' = Shows(s) \/ Shows(s)' = Shows(s) \ {p}
      /\ \A t \in Side : t # s => Quantity(t)' = Quantity(t)
  BY <1>2, <1>3, <1>4, <1>5, <1>6, TakeKeeps
<1>8. Handling(s)'
  <2>1. Right(s, Cursor(s)) /\ BookSays
    BY <1>4 DEF FeederInv, Arrive
  <2>2. Cursor(s) \in Shows(s) /\ NoneNearer(s, Shows(s), Cursor(s))
    BY <1>7, <2>1, RightMeans
  <2>3. Cursor(s)' = Cursor(s)
    BY <1>5 DEF Cursor
  <2> QED
    BY <1>5, <1>7, <2>2, <2>3 DEF Handling, NoneNearer
<1> QED
  BY <1>4, <1>7, <1>8, ArriveKeeps DEF Handlers

\* A trade's first step: the level it takes from is the best of its side.
LEMMA FeedTradeKeeps ==
  ASSUME FeederInv, FeedTrade
  PROVE  FeederInv'
<1>1. PICK n \in OrderNo, q \in 1 .. MaxQty :
        /\ AtBest(n) /\ q <= order[n].qty /\ Reduce({n}, q)
        /\ Arrive(seq_pxs[n].side, seq_pxs[n].lvl, "taken")
        /\ ChangeQuantity(seq_pxs[n].side, seq_pxs[n].lvl, 0 - q)
        /\ seq_pxs' = Erase(Emptied(TradeMsg(n, q)))
  BY DEF FeedTrade
<1>2. IInv /\ BookSays
  BY <1>1, IdleExact DEF Arrive, FeederInv
<1>3. PICK s \in Side, p \in Levels : s = order[n].side /\ p = order[n].px
  BY <1>2, Types
<1>4. q \in Nat /\ q > 0 /\ order[n].qty > 0
  BY <1>1, <1>2, MaxQtyAssumption, BestAtCursor
<1>5. seq_pxs[n].side = s /\ seq_pxs[n].lvl = p
  <2>1. seq_pxs[n] = [side |-> s, lvl |-> p]
    BY <1>2, <1>3, <1>4, RestingShown
  <2> QED
    BY <2>1
<1>6. Arrive(s, p, "taken") /\ ChangeQuantity(s, p, 0 - q)
  BY <1>1, <1>5
<1>7. /\ bid1' = bid1 /\ ask1' = ask1 /\ fpc' = "taken" /\ flvl' = p
  BY <1>6 DEF Arrive
<1>8. \A k \in Emptied(TradeMsg(n, q)) \cap OrderNo : order'[k].qty = 0
  <2>1. CASE s = "B"
    <3>1. bids' = [bids EXCEPT ![p] = @ - q] /\ asks' = asks
      BY <1>2, <1>4, <1>6, <2>1, ChangeTakes
    <3> QED
      BY <1>1, <1>2, <1>3, <1>4, <2>1, <3>1, BidEmptied
  <2>2. CASE s = "S"
    <3>1. asks' = [asks EXCEPT ![p] = @ - q] /\ bids' = bids
      BY <1>2, <1>4, <1>6, <2>2, ChangeTakes
    <3> QED
      BY <1>1, <1>2, <1>3, <1>4, <2>2, <3>1, AskEmptied
  <2> QED
    BY <2>1, <2>2 DEF Side
<1>9. /\ BookSays'
      /\ Shows(s)' = Shows(s) \/ Shows(s)' = Shows(s) \ {p}
      /\ \A t \in Side : t # s => Quantity(t)' = Quantity(t)
  BY <1>1, <1>2, <1>3, <1>4, <1>6, <1>7, <1>8, TakeKeeps
<1>10. Cursor(s) = p
  BY <1>1, <1>2, <1>3, BestAtCursor DEF Cursor, Side
<1>11. Handling(s)'
  <2>1. Right(s, p)
    BY <1>6, <1>10 DEF FeederInv, Arrive
  <2>2. NoneNearer(s, Shows(s), p)
    BY <1>2, <2>1, RightMeans DEF NoneNearer
  <2> QED
    BY <1>7, <1>9, <2>2 DEF Handling, NoneNearer
<1> QED
  BY <1>6, <1>9, <1>11, ArriveKeeps DEF Handlers

-----------------------------------------------------------------------------
\* The rest of a handler moves the cursor of its side only.
LEMMA HandlerKeeps ==
  ASSUME FeederInv, NEW s \in Side, fside = s, fside' = s,
         UNCHANGED <<exchangeVars, seq_pxs, bids, asks>>,
         fpc' \in Handlers, flvl' \in Levels \cup {Nil, Span},
         Cursor(s)' \in Levels \cup {Nil},
         \A t \in Side : t # s =>
            Cursor(t)' = Cursor(t) /\ Right(t, Cursor(t)),
         IF fpc' = "idle" THEN Right(s, Cursor(s))' ELSE Handling(s)'
  PROVE  FeederInv'
<1>1. /\ order' = order /\ nextNo' = nextNo /\ seq_pxs' = seq_pxs
      /\ bids' = bids /\ asks' = asks
  BY DEF exchangeVars
<1>2. bid1' \in Levels \cup {Nil} /\ ask1' \in Levels \cup {Nil}
  <2>1. \A t \in Side : Cursor(t)' \in Levels \cup {Nil}
    BY ShownTypes DEF FeederInv
  <2> QED
    BY <2>1 DEF Cursor, Side
<1>3. ExchangeTypeOK' /\ BookTypeOK'
  BY <1>1, <1>2 DEF FeederInv, BookSays, TypeOK, ExchangeTypeOK, BookTypeOK
<1>4. FreshUnused' /\ RestingIndexed'
  BY <1>1 DEF FeederInv, BookSays, FreshUnused, RestingIndexed
<1>5. DepthExact'
  BY <1>1 DEF FeederInv, BookSays, DepthExact, Depth, Share
<1>6. BookSays'
  BY <1>3, <1>4, <1>5 DEF BookSays, TypeOK
<1>7. ASSUME NEW t \in Side, t # s PROVE Right(t, Cursor(t))'
  BY <1>1, <1>7 DEF Right, Cursor
<1> QED
  BY <1>6, <1>7 DEF FeederInv

\* What a step of a handler finds: the side it works on, the other one right,
\* and the quantities of both.
LEMMA HandlerFinds ==
  ASSUME FeederInv, NEW pc \in Handlers, pc # "idle", NEW next,
         Handler(pc, next)
  PROVE  /\ fside \in Side /\ fside' = fside /\ fpc = pc /\ fpc' = next
         /\ BookSays /\ Handling(fside)
         /\ \A t \in Side : t # fside => Right(t, Cursor(t))
         /\ UNCHANGED <<exchangeVars, seq_pxs>>
         /\ flvl \in Levels \cup {Nil, Span} /\ flvl \in Int
BY SpanAssumption DEF FeederInv, Handler, Levels, Nil

\* What setting a cursor leaves.
LEMMA CursorSet ==
  ASSUME NEW s \in Side, fside' = s, NEW c, SetCursor(s, c)
  PROVE  /\ Cursor(s)' = c
         /\ \A t \in Side : t # s => Cursor(t)' = Cursor(t)
BY DEF SetCursor, Cursor, Side

\* The levels shown are those of the arrays.
LEMMA ShowsKept ==
  ASSUME NEW s, bids' = bids, asks' = asks
  PROVE  Shows(s)' = Shows(s) /\ Quantity(s)' = Quantity(s)
BY DEF Shows, Quantity

\* A cursor on a level shown that none is nearer than is right.
LEMMA ShownRight ==
  ASSUME BookSays, NEW s \in Side, NEW c \in Shows(s),
         NoneNearer(s, Shows(s), c)
  PROVE  Right(s, c) /\ c \in Levels \cup {Nil}
BY RightMeans, ShownTypes

\* Right does not change with the arrays that stay.
LEMMA RightKept ==
  ASSUME NEW s, NEW c, bids' = bids, asks' = asks, Cursor(s)' = c, Right(s, c)
  PROVE  Right(s, Cursor(s))'
BY DEF Right

\* A new order's last step.
LEMMA RaiseCursorKeeps ==
  ASSUME FeederInv, RaiseCursor
  PROVE  FeederInv'
<1>1. PICK s \in Side : s = fside
  BY DEF FeederInv
<1>2. /\ fside' = s /\ fpc = "add" /\ fpc' = "idle" /\ BookSays /\ Handling(s)
      /\ \A t \in Side : t # s => Right(t, Cursor(t))
      /\ UNCHANGED <<exchangeVars, seq_pxs>>
      /\ bids' = bids /\ asks' = asks /\ flvl' = flvl
      /\ flvl \in Levels \cup {Nil, Span}
  BY <1>1, HandlerFinds DEF RaiseCursor, Handlers
<1> DEFINE c == IF s = "B" THEN RaiseTo(flvl, bid1) ELSE LowerTo(flvl, ask1)
<1>3. SetCursor(s, c)
  BY <1>1 DEF RaiseCursor
<1>4. /\ flvl \in Shows(s)
      /\ IF Cursor(s) = Nil
         THEN Shows(s) = {flvl}
         ELSE /\ Cursor(s) \in Shows(s)
              /\ NoneNearer(s, Shows(s) \ {flvl}, Cursor(s))
  BY <1>2 DEF Handling
<1>5. Shows(s) \in SUBSET Int
  BY <1>2, ShownTypes
<1>6. c \in Shows(s) /\ NoneNearer(s, Shows(s), c)
  <2>1. CASE s = "B"
    BY <1>4, <1>5, <2>1 DEF RaiseTo, Cursor, NoneNearer, Farther
  <2>2. CASE s = "S"
    BY <1>4, <1>5, <2>2 DEF LowerTo, Cursor, NoneNearer, Farther
  <2> QED
    BY <2>1, <2>2 DEF Side
<1> HIDE DEF c
<1>7. Right(s, c) /\ c \in Levels \cup {Nil}
  BY <1>2, <1>6, ShownRight
<1>8. Cursor(s)' = c /\ \A t \in Side : t # s => Cursor(t)' = Cursor(t)
  BY <1>2, <1>3, CursorSet
<1>9. Right(s, Cursor(s))'
  BY <1>2, <1>7, <1>8, RightKept
<1> QED
  BY <1>1, <1>2, <1>7, <1>8, <1>9, HandlerKeeps DEF Handlers

\* A level is never clamped: what is deleted was there.
LEMMA ClampQuantityKeeps ==
  ASSUME FeederInv, ClampQuantity
  PROVE  FeederInv'
<1>1. PICK s \in Side : s = fside
  BY DEF FeederInv
<1>2. /\ fside' = s /\ fpc = "clamp" /\ fpc' = "test" /\ BookSays /\ Handling(s)
      /\ \A t \in Side : t # s => Right(t, Cursor(t))
      /\ UNCHANGED <<exchangeVars, seq_pxs>>
      /\ bid1' = bid1 /\ ask1' = ask1 /\ flvl' = flvl
      /\ flvl \in Levels \cup {Nil, Span}
  BY <1>1, HandlerFinds DEF ClampQuantity, Handlers
<1>3. flvl \in Levels
  BY <1>2 DEF Handling
<1>4. /\ bids \in [Levels -> Nat] /\ asks \in [Levels -> Nat]
      /\ Quantity(s) \in [Levels -> Nat]
      /\ \A t \in Side : Cursor(t) \in Levels \cup {Nil}
  BY <1>2, ShownTypes
<1>5. Clamp(Quantity(s)[flvl]) - Quantity(s)[flvl] = 0
  <2>1. Quantity(s)[flvl] \in Nat
    BY <1>3, <1>4
  <2> QED
    BY <2>1 DEF Clamp
<1>6. bids' = bids /\ asks' = asks
  <2>1. ChangeQuantity(s, flvl, 0)
    BY <1>1, <1>5 DEF ClampQuantity
  <2> QED
    BY <1>3, <1>4, <2>1 DEF ChangeQuantity
<1>7. \A t \in Side : Cursor(t)' = Cursor(t)
  BY <1>2 DEF Cursor
<1>8. Shows(s)' = Shows(s)
  BY <1>6, ShowsKept
<1>9. Handling(s)'
  BY <1>2, <1>7, <1>8 DEF Handling, NoneNearer
<1> QED
  BY <1>1, <1>2, <1>4, <1>6, <1>7, <1>9, HandlerKeeps DEF Handlers

\* The cursor stood on the level that was emptied: the search starts beyond it.
LEMMA CursorToNullKeeps ==
  ASSUME FeederInv, CursorToNull
  PROVE  FeederInv'
<1>1. PICK s \in Side : s = fside
  BY DEF FeederInv
<1>2. /\ fside' = s /\ fpc = "test" /\ fpc' = "scan" /\ BookSays /\ Handling(s)
      /\ \A t \in Side : t # s => Right(t, Cursor(t))
      /\ UNCHANGED <<exchangeVars, seq_pxs>>
      /\ bids' = bids /\ asks' = asks /\ flvl' = Away(s, flvl)
      /\ SetCursor(s, Nil)
      /\ Cursor(s) = flvl /\ Quantity(s)[flvl] <= 0
  BY <1>1, HandlerFinds DEF CursorToNull, Handlers
<1>3. flvl \in Levels /\ NoneNearer(s, Shows(s), flvl)
  BY <1>2 DEF Handling
<1>4. /\ Shows(s) \in SUBSET Int /\ flvl \in Int /\ flvl \notin Shows(s)
  BY <1>2, <1>3, ShownTypes, LevelsInt DEF Shows, Filled
<1>5. NoneNearer(s, Shows(s), Away(s, flvl))
  BY <1>3, <1>4 DEF NoneNearer, Farther, Away
<1>6. Away(s, flvl) \in Levels \cup {Nil, Span}
  BY <1>3, SpanAssumption DEF Away, Levels, Nil
<1>7. Cursor(s)' = Nil /\ \A t \in Side : t # s => Cursor(t)' = Cursor(t)
  BY <1>2, CursorSet
<1>8. Shows(s)' = Shows(s)
  BY <1>2, ShowsKept
<1>9. Handling(s)'
  BY <1>2, <1>5, <1>8 DEF Handling, NoneNearer
<1> QED
  BY <1>1, <1>2, <1>6, <1>7, <1>9, HandlerKeeps DEF Handlers

\* A deletion that needs no search: the cursor is on another level, or its
\* level has something left.
LEMMA CursorStaysKeeps ==
  ASSUME FeederInv, CursorStays
  PROVE  FeederInv'
<1>1. PICK s \in Side : s = fside
  BY DEF FeederInv
<1>2. /\ fside' = s /\ fpc = "test" /\ fpc' = "idle" /\ BookSays /\ Handling(s)
      /\ \A t \in Side : t # s => Right(t, Cursor(t))
      /\ UNCHANGED <<exchangeVars, seq_pxs>>
      /\ bids' = bids /\ asks' = asks /\ flvl' = flvl
      /\ bid1' = bid1 /\ ask1' = ask1
      /\ flvl \in Levels \cup {Nil, Span}
      /\ ~ (Cursor(s) = flvl /\ Quantity(s)[flvl] <= 0)
  BY <1>1, HandlerFinds DEF CursorStays, Handlers
<1>3. /\ flvl \in Levels /\ Cursor(s) \in Shows(s) \cup {flvl}
      /\ NoneNearer(s, Shows(s), Cursor(s))
  BY <1>2 DEF Handling
<1>4. Cursor(s) \in Shows(s)
  <2>1. Quantity(s)[flvl] \in Nat
    BY <1>2, <1>3, ShownTypes
  <2> QED
    BY <1>2, <1>3, <2>1 DEF Shows, Filled
<1>5. Right(s, Cursor(s)) /\ Cursor(s) \in Levels \cup {Nil}
  BY <1>2, <1>3, <1>4, ShownRight
<1>6. \A t \in Side : Cursor(t)' = Cursor(t)
  BY <1>2 DEF Cursor
<1>7. Right(s, Cursor(s))'
  BY <1>2, <1>5, <1>6 DEF Right
<1> QED
  BY <1>1, <1>2, <1>5, <1>6, <1>7, HandlerKeeps DEF Handlers

\* A trade emptied its level: the search starts from that level.
LEMMA TakenEmptyKeeps ==
  ASSUME FeederInv, TakenEmpty
  PROVE  FeederInv'
<1>1. PICK s \in Side : s = fside
  BY DEF FeederInv
<1>2. /\ fside' = s /\ fpc = "taken" /\ fpc' = "scan" /\ BookSays /\ Handling(s)
      /\ \A t \in Side : t # s => Right(t, Cursor(t))
      /\ UNCHANGED <<exchangeVars, seq_pxs>>
      /\ bids' = bids /\ asks' = asks /\ flvl' = flvl
      /\ flvl \in Levels \cup {Nil, Span}
      /\ SetCursor(s, Nil)
  BY <1>1, HandlerFinds DEF TakenEmpty, Handlers
<1>3. Cursor(s)' = Nil /\ \A t \in Side : t # s => Cursor(t)' = Cursor(t)
  BY <1>2, CursorSet
<1>4. Shows(s)' = Shows(s)
  BY <1>2, ShowsKept
<1>5. Handling(s)'
  BY <1>2, <1>4 DEF Handling, NoneNearer
<1> QED
  BY <1>1, <1>2, <1>3, <1>5, HandlerKeeps DEF Handlers

\* A trade left something of its level: the cursor is put there.
LEMMA TakenLeftKeeps ==
  ASSUME FeederInv, TakenLeft
  PROVE  FeederInv'
<1>1. PICK s \in Side, l \in Levels \cup {Nil, Span} : s = fside /\ l = flvl
  BY DEF FeederInv
<1>2. /\ fside' = s /\ fpc = "taken" /\ fpc' = "idle" /\ BookSays /\ Handling(s)
      /\ \A t \in Side : t # s => Right(t, Cursor(t))
      /\ UNCHANGED <<exchangeVars, seq_pxs>>
      /\ bids' = bids /\ asks' = asks /\ flvl' = l
      /\ SetCursor(s, l) /\ Quantity(s)[l] > 0
  BY <1>1, HandlerFinds DEF TakenLeft, Handlers
<1>3. l \in Shows(s) /\ NoneNearer(s, Shows(s), l)
  BY <1>1, <1>2 DEF Handling, Shows, Filled
<1>4. Right(s, l) /\ l \in Levels \cup {Nil}
  BY <1>2, <1>3, ShownRight
<1>5. Cursor(s)' = l /\ \A t \in Side : t # s => Cursor(t)' = Cursor(t)
  BY <1>2, CursorSet
<1>6. Right(s, Cursor(s))'
  BY <1>2, <1>4, <1>5, RightKept
<1> QED
  BY <1>1, <1>2, <1>4, <1>5, <1>6, HandlerKeeps DEF Handlers

\* The search ends on the nearest level shown, or finds that there is none.
LEMMA SearchNextKeeps ==
  ASSUME FeederInv, SearchNext
  PROVE  FeederInv'
<1>1. PICK s \in Side, l \in Levels \cup {Nil, Span} : s = fside /\ l = flvl
  BY DEF FeederInv
<1>2. /\ fside' = s /\ fpc = "scan" /\ fpc' = "idle" /\ BookSays /\ Handling(s)
      /\ \A t \in Side : t # s => Right(t, Cursor(t))
      /\ UNCHANGED <<exchangeVars, seq_pxs>>
      /\ bids' = bids /\ asks' = asks /\ flvl' = l /\ l \in Int
      /\ SetCursor(s, Scan(s, l))
  BY <1>1, HandlerFinds DEF SearchNext, Handlers
<1>3. NoneNearer(s, Shows(s), l)
  BY <1>1, <1>2 DEF Handling
<1>4. /\ bids \in Quantities /\ asks \in Quantities
      /\ Shows(s) \in SUBSET Int
  BY <1>2, ShownTypes DEF Quantities
<1>5. Right(s, Scan(s, l))
  <2>1. CASE s = "B"
    <3>1. \A k \in Filled(bids) : k <= l
      BY <1>2, <1>3, <1>4, <2>1 DEF NoneNearer, Farther, Shows, Quantity
    <3> QED
      BY <1>2, <1>4, <2>1, <3>1, ScanDownTop DEF Right, Scan
  <2>2. CASE s = "S"
    <3>1. \A k \in Filled(asks) : k >= l
      BY <1>2, <1>3, <1>4, <2>2 DEF NoneNearer, Farther, Shows, Quantity
    <3> QED
      BY <1>2, <1>4, <2>2, <3>1, ScanUpBottom DEF Right, Scan
  <2> QED
    BY <2>1, <2>2 DEF Side
<1> DEFINE c == Scan(s, l)
<1>6. SetCursor(s, c) /\ Right(s, c)
  BY <1>2, <1>5
<1> HIDE DEF c
<1>7. c \in Levels \cup {Nil}
  BY <1>2, <1>6, RightMeans, ShownTypes
<1>8. Cursor(s)' = c /\ \A t \in Side : t # s => Cursor(t)' = Cursor(t)
  BY <1>2, <1>6, CursorSet
<1>9. Right(s, Cursor(s))'
  BY <1>2, <1>6, <1>8, RightKept
<1> QED
  BY <1>1, <1>2, <1>7, <1>8, <1>9, HandlerKeeps DEF Handlers

\* Every step of the feeder keeps it, and nothing else changes what it says.
LEMMA FeederKeeps ==
  ASSUME FeederInv, Feeder
  PROVE  FeederInv'
BY FeedAddKeeps, FeedDelKeeps, FeedTradeKeeps, RaiseCursorKeeps,
   ClampQuantityKeeps, CursorToNullKeeps, CursorStaysKeeps, TakenEmptyKeeps,
   TakenLeftKeeps, SearchNextKeeps DEF Feeder

LEMMA FeederStays ==
  ASSUME FeederInv, UNCHANGED feederVars
  PROVE  FeederInv'
<1>1. /\ order' = order /\ nextNo' = nextNo /\ seq_pxs' = seq_pxs
      /\ bids' = bids /\ asks' = asks /\ bid1' = bid1 /\ ask1' = ask1
      /\ fpc' = fpc /\ fside' = fside /\ flvl' = flvl
  BY DEF feederVars, exchangeVars, bookVars
<1>2. ExchangeTypeOK' /\ BookTypeOK'
  BY <1>1 DEF FeederInv, BookSays, TypeOK, ExchangeTypeOK, BookTypeOK
<1>3. FreshUnused' /\ RestingIndexed'
  BY <1>1 DEF FeederInv, BookSays, FreshUnused, RestingIndexed
<1>4. DepthExact'
  BY <1>1 DEF FeederInv, BookSays, DepthExact, Depth, Share
<1>5. BookSays'
  BY <1>2, <1>3, <1>4 DEF BookSays, TypeOK
<1>6. ASSUME NEW s \in Side
      PROVE  /\ Cursor(s)' = Cursor(s) /\ Shows(s)' = Shows(s)
             /\ Right(s, Cursor(s)) => Right(s, Cursor(s))'
             /\ Handling(s) => Handling(s)'
  <2>1. Cursor(s)' = Cursor(s) /\ Shows(s)' = Shows(s)
    BY <1>1 DEF Cursor, Shows, Quantity
  <2> QED
    BY <1>1, <2>1 DEF Right, Handling
<1> QED
  BY <1>1, <1>5, <1>6 DEF FeederInv

LEMMA FeederInit ==
  ASSUME SamplerInit
  PROVE  FeederInv
<1>1. IInv /\ fpc = "idle" /\ fside = "B" /\ flvl = Nil
  BY InitKeeps DEF SamplerInit
<1>2. Top(bids, bid1) /\ Bottom(asks, ask1)
  BY <1>1 DEF IInv, CursorsRight
<1>3. \A s \in Side : Right(s, Cursor(s))
  BY <1>2 DEF Side, Right, Cursor
<1> QED
  BY <1>1, <1>3 DEF FeederInv, BookSays, IInv, Side, Handlers

\* The book stays exact at every step of a handler, whatever the reader does.
LEMMA FeederInvariant == SamplerSpec => []FeederInv
<1>1. SamplerInit => FeederInv
  BY FeederInit
<1>2. FeederInv /\ [SamplerNext]_allVars => FeederInv'
  <2>1. ASSUME StartSample \/ GetPxList \/ UNCHANGED allVars
        PROVE  UNCHANGED feederVars
    BY <2>1 DEF StartSample, GetPxList, CheckCursor, LoadCursor, TestLevel,
       PushLevel, Read, allVars
  <2> QED
    BY <2>1, FeederKeeps, FeederStays DEF SamplerNext
<1> QED
  BY <1>1, <1>2, PTL DEF SamplerSpec

\* Between two messages both sides show what the exchange holds, and both
\* cursors are on its best levels: taken apart, with a search that passes
\* through the null pointer and a level that is negative for a moment, the
\* handlers still make the book they make in one step.
THEOREM BetweenMessagesTheorem == SamplerSpec => []ExactBetweenMessages
<1>1. FeederInv => ExactBetweenMessages
  <2>1. ASSUME FeederInv, fpc = "idle" PROVE DepthExact /\ BestExact
    BY <2>1, IdleExact, CursorsBest DEF IInv
  <2> QED
    BY <2>1 DEF ExactBetweenMessages
<1> QED
  BY <1>1, FeederInvariant, PTL

-----------------------------------------------------------------------------
\* An order of side s was entered at level l.
Entered(s, l) ==
  \E n \in 1 .. nextNo - 1 : order[n].side = s /\ order[n].px = l

\* Where the loop of side s ends.
End(s) == IF s = "B" THEN Nil ELSE Span

\* The levels read so far go away from the other side, and are real ones.
RecordInv(s, rec) ==
  /\ Len(rec) <= sample_px_depth
  /\ \A i \in DOMAIN rec :
       /\ rec[i][2] >= 0 /\ Entered(s, rec[i][1])
       /\ \A j \in 1 .. i - 1 : Farther(s, rec[i][1], rec[j][1])

\* The pointer is beyond every level of the record.
Ahead(s, p, rec) == \A i \in DOMAIN rec : Farther(s, p, rec[i][1])

Readings == Seq(Levels \X Int)

ReaderInv ==
  /\ tpc \in {"idle", "check", "load", "loop", "push", "crashed"}
  /\ tside \in Side /\ px \in Levels \cup {Nil, Span}
  /\ pxr \in [Side -> Readings]
  /\ quiet \in BOOLEAN
  /\ \A s \in Side : RecordInv(s, pxr[s])
  /\ tpc \in {"check", "load"} => pxr[tside] = <<>>
  /\ tpc \in {"check", "load", "loop", "push"} /\ tside = "S"
       => pxr["B"] = <<>>
  /\ tpc \in {"loop", "push"} =>
       /\ Len(pxr[tside]) < sample_px_depth
       /\ px \in Levels \cup {End(tside)}
       /\ Ahead(tside, px, pxr[tside])
  /\ tpc = "push" => px \in Levels /\ Entered(tside, px)

\* An order that was entered keeps its side and price.
LEMMA EnteredKept ==
  ASSUME FeederInv, FeederInv', Feeder
  PROVE  \A s, l : Entered(s, l) => Entered(s, l)'
<1>1. /\ nextNo \in 1 .. MaxOrders + 1 /\ nextNo' \in 1 .. MaxOrders + 1
      /\ order \in [OrderNo -> [side: Side, px: Prices, qty: Nat]]
  BY DEF FeederInv, BookSays, TypeOK, ExchangeTypeOK
<1>2. SUFFICES /\ nextNo <= nextNo'
               /\ \A n \in 1 .. nextNo - 1 : order'[n].side = order[n].side
                                             /\ order'[n].px = order[n].px
  <2>1. ASSUME NEW s, NEW l, Entered(s, l) PROVE Entered(s, l)'
    <3>1. PICK n \in 1 .. nextNo - 1 : order[n].side = s /\ order[n].px = l
      BY <2>1 DEF Entered
    <3>2. nextNo \in Int /\ nextNo' \in Int
      BY <1>1, MaxOrdersAssumption
    <3>3. nextNo <= nextNo'
      BY <1>2
    <3>4. n \in 1 .. nextNo' - 1
      BY <3>2, <3>3
    <3> QED
      BY <1>2, <3>1, <3>4 DEF Entered
  <2> QED
    BY <2>1
<1>3. CASE FeedAdd
  <2>1. PICK s \in Side, l \in Levels, q \in 1 .. MaxQty : Enter(s, l, q)
    BY <1>3 DEF FeedAdd
  <2> QED
    BY <1>1, <2>1 DEF Enter, OrderNo
<1>4. ASSUME NEW n \in OrderNo, NEW q, Reduce({n}, q)
      PROVE  /\ nextNo' = nextNo
             /\ \A k \in OrderNo : order'[k].side = order[k].side
                                   /\ order'[k].px = order[k].px
  <2>1. SUFFICES ASSUME NEW k \in OrderNo
                 PROVE  order'[k].side = order[k].side /\ order'[k].px = order[k].px
    BY <1>4 DEF Reduce
  <2>2. order[k] \in [side: Side, px: Prices, qty: Nat]
    BY <1>1
  <2>3. order'[k] = IF k \in {n} THEN [order[k] EXCEPT !.qty = @ - q] ELSE order[k]
    BY <1>4 DEF Reduce
  <2> QED
    BY <2>2, <2>3
<1>5. 1 .. nextNo - 1 \in SUBSET OrderNo
  BY <1>1, MaxOrdersAssumption DEF OrderNo
<1>6. CASE FeedDel
  <2>1. PICK n \in OrderNo : Reduce({n}, order[n].qty)
    BY <1>6 DEF FeedDel
  <2>2. \E q : Reduce({n}, q)
    BY <2>1
  <2> QED
    BY <1>1, <1>4, <1>5, <2>2
<1>7. CASE FeedTrade
  <2>1. PICK n \in OrderNo, q \in 1 .. MaxQty : Reduce({n}, q)
    BY <1>7 DEF FeedTrade
  <2> QED
    BY <1>1, <1>4, <1>5, <2>1
<1>8. CASE UNCHANGED exchangeVars
  BY <1>1, <1>8 DEF exchangeVars
<1> QED
  BY <1>3, <1>6, <1>7, <1>8 DEF Feeder, RaiseCursor, ClampQuantity, CursorToNull,
     CursorStays, TakenEmpty, TakenLeft, SearchNext, Handler

\* The feeder does not touch the record, and crashes no reader.
LEMMA FeederReads ==
  ASSUME ReaderInv, FeederInv, FeederInv', Feeder
  PROVE  ReaderInv'
<1>1. /\ tpc' = tpc /\ tside' = tside /\ px' = px /\ pxr' = pxr
      /\ quiet' \in {quiet, FALSE}
  BY DEF Feeder, FeedAdd, FeedDel, FeedTrade, Arrive, RaiseCursor, ClampQuantity,
     CursorToNull, CursorStays, TakenEmpty, TakenLeft, SearchNext, Handler,
     timerVars
<1>2. \A s, l : Entered(s, l) => Entered(s, l)'
  BY EnteredKept
<1>3. \A s \in Side : RecordInv(s, pxr[s])'
  BY <1>1, <1>2 DEF ReaderInv, RecordInv
<1>4. quiet' \in BOOLEAN
  BY <1>1 DEF ReaderInv
<1> QED
  BY <1>1, <1>2, <1>3, <1>4 DEF ReaderInv

\* A step that leaves the orders alone leaves what was entered.
LEMMA EnteredSame ==
  ASSUME UNCHANGED feederVars
  PROVE  /\ \A s, l : Entered(s, l)' = Entered(s, l)
         /\ \A s, rec : RecordInv(s, rec)' = RecordInv(s, rec)
<1>1. order' = order /\ nextNo' = nextNo
  BY DEF feederVars, exchangeVars
<1>2. \A s, l : Entered(s, l)' = Entered(s, l)
  BY <1>1 DEF Entered
<1> QED
  BY <1>2 DEF RecordInv

\* A record without levels.
LEMMA EmptyRecord ==
  ASSUME NEW s
  PROVE  /\ <<>> \in Readings /\ RecordInv(s, <<>>) /\ Len(<<>>) = 0
         /\ DOMAIN <<>> = {}
<1>1. <<>> \in Readings /\ Len(<<>>) = 0 /\ DOMAIN <<>> = {}
  BY DEF Readings
<1> QED
  BY <1>1, SampleDepthAssumption DEF RecordInv

\* A level beyond those of a record is put behind them.
LEMMA RecordGrows ==
  ASSUME NEW s \in Side, NEW rec \in Readings, RecordInv(s, rec),
         Len(rec) < sample_px_depth, NEW p \in Levels, Entered(s, p),
         Ahead(s, p, rec), NEW q \in Nat
  PROVE  LET new == Append(rec, <<p, q>>)
         IN  /\ new \in Readings /\ RecordInv(s, new)
             /\ Len(new) = Len(rec) + 1
             /\ Ahead(s, Away(s, p), new)
<1> DEFINE new == Append(rec, <<p, q>>)
<1>1. <<p, q>> \in Levels \X Int
  OBVIOUS
<1>2. /\ new \in Readings /\ Len(rec) \in Nat /\ Len(new) = Len(rec) + 1
      /\ DOMAIN rec = 1 .. Len(rec) /\ DOMAIN new = 1 .. Len(rec) + 1
      /\ new[Len(rec) + 1] = <<p, q>>
      /\ \A i \in 1 .. Len(rec) : new[i] = rec[i]
  BY <1>1 DEF Readings
<1>3. /\ \A i \in 1 .. Len(rec) : rec[i] \in Levels \X Int
      /\ Levels \in SUBSET Int
  BY <1>2, LevelsInt DEF Readings
<1>4. \A i \in 1 .. Len(rec) : rec[i][1] \in Int
  BY <1>3
<1> HIDE DEF new
<1>5. Len(new) <= sample_px_depth
  BY <1>2, SampleDepthAssumption
<1>6. ASSUME NEW i \in DOMAIN new
      PROVE  /\ new[i][2] >= 0 /\ Entered(s, new[i][1])
             /\ \A j \in 1 .. i - 1 : Farther(s, new[i][1], new[j][1])
  <2>1. CASE i = Len(rec) + 1
    <3>1. new[i][1] = p /\ new[i][2] = q
      BY <1>2, <2>1
    <3>2. \A j \in 1 .. i - 1 : j \in DOMAIN rec /\ new[j] = rec[j]
      BY <1>2, <2>1
    <3> QED
      BY <3>1, <3>2 DEF Ahead
  <2>2. CASE i # Len(rec) + 1
    <3>1. i \in DOMAIN rec /\ new[i] = rec[i]
      BY <1>2, <2>2
    <3>2. \A j \in 1 .. i - 1 : new[j] = rec[j]
      BY <1>2, <3>1
    <3> QED
      BY <3>1, <3>2 DEF RecordInv
  <2> QED
    BY <2>1, <2>2
<1>7. ASSUME NEW i \in DOMAIN new PROVE Farther(s, Away(s, p), new[i][1])
  <2>1. CASE i = Len(rec) + 1
    BY <1>2, <1>3, <2>1 DEF Farther, Away
  <2>2. CASE i # Len(rec) + 1
    <3>1. i \in DOMAIN rec /\ new[i] = rec[i] /\ i \in 1 .. Len(rec)
      BY <1>2, <2>2
    <3>2. Farther(s, p, rec[i][1]) /\ rec[i][1] \in Int /\ p \in Int
      BY <1>3, <1>4, <3>1 DEF Ahead
    <3> QED
      BY <3>1, <3>2 DEF Farther, Away
  <2> QED
    BY <2>1, <2>2
<1>8. RecordInv(s, new) /\ Ahead(s, Away(s, p), new)
  BY <1>5, <1>6, <1>7 DEF RecordInv, Ahead
<1> QED
  BY <1>2, <1>8 DEF new

\* A quantity is shown only where an order was entered.
LEMMA ShownEntered ==
  ASSUME BookSays, NEW s \in Side, NEW l \in Shows(s)
  PROVE  Entered(s, l)
<1>1. ExchangeTypeOK /\ l \in Levels /\ Quantity(s)[l] > 0
  BY LevelsInt DEF BookSays, TypeOK, Shows, Filled
<1>2. Depth(s, l) = Quantity(s)[l]
  BY <1>1 DEF BookSays, DepthExact, Quantity, Side
<1>3. PICK n \in Resting(s) : order[n].px = l
  BY <1>1, <1>2, DepthLaws
<1>4. n \in OrderNo /\ order[n].side = s /\ order[n].qty > 0
  BY DEF Resting
<1>5. ~ (n >= nextNo)
  BY <1>4 DEF BookSays, FreshUnused
<1> QED
  BY <1>1, <1>3, <1>4, <1>5, MaxOrdersAssumption
  DEF Entered, ExchangeTypeOK, OrderNo

-----------------------------------------------------------------------------
\* The steps of the timer keep what holds of its records.
LEMMA StartSampleKeeps ==
  ASSUME ReaderInv, StartSample
  PROVE  ReaderInv'
<1>1. /\ tpc' = "check" /\ tside' = "S" /\ px' = Nil
      /\ pxr' = [s \in Side |-> <<>>] /\ quiet' \in BOOLEAN
  BY DEF StartSample
<1>2. \A s, rec : RecordInv(s, rec)' = RecordInv(s, rec)
  BY EnteredSame DEF StartSample
<1>3. \A s \in Side : pxr'[s] = <<>> /\ RecordInv(s, <<>>) /\ <<>> \in Readings
  BY <1>1, EmptyRecord
<1>4. \A s \in Side : RecordInv(s, pxr[s])'
  BY <1>2, <1>3
<1>5. pxr' \in [Side -> Readings]
  BY <1>1, <1>3
<1> QED
  BY <1>1, <1>3, <1>4, <1>5 DEF ReaderInv, Side

\* One side is read: the bids are next and have no levels yet, or the record
\* is complete.
LEMMA SideDoneKeeps ==
  ASSUME ReaderInv, tpc \in {"check", "loop"}, SideDone, UNCHANGED feederVars,
         quiet' = quiet
  PROVE  ReaderInv'
<1>1. /\ px' = Nil /\ pxr' = pxr
      /\ \/ tside = "S" /\ tpc' = "check" /\ tside' = "B"
         \/ tside # "S" /\ tpc' = "idle" /\ tside' = tside
  BY DEF SideDone
<1>2. \A s \in Side : RecordInv(s, pxr[s])'
  BY <1>1, EnteredSame DEF ReaderInv
<1>3. tpc' = "check" => pxr'[tside'] = <<>>
  BY <1>1 DEF ReaderInv
<1> QED
  BY <1>1, <1>2, <1>3 DEF ReaderInv, Side

LEMMA CheckCursorKeeps ==
  ASSUME ReaderInv, CheckCursor
  PROVE  ReaderInv'
<1>1. tpc = "check" /\ UNCHANGED feederVars /\ quiet' = quiet
  BY DEF CheckCursor, Read
<1>2. CASE Cursor(tside) = Nil
  BY <1>1, <1>2, SideDoneKeeps DEF CheckCursor
<1>3. CASE Cursor(tside) # Nil
  <2>1. /\ tpc' = "load" /\ tside' = tside /\ px' = px /\ pxr' = pxr
    BY <1>3 DEF CheckCursor
  <2>2. \A s \in Side : RecordInv(s, pxr[s])'
    BY <1>1, <2>1, EnteredSame DEF ReaderInv
  <2> QED
    BY <1>1, <2>1, <2>2 DEF ReaderInv
<1> QED
  BY <1>2, <1>3

LEMMA LoadCursorKeeps ==
  ASSUME ReaderInv, FeederInv, LoadCursor
  PROVE  ReaderInv'
<1>1. /\ tpc = "load" /\ UNCHANGED feederVars /\ quiet' = quiet
      /\ px' = Cursor(tside) /\ tside' = tside /\ pxr' = pxr
      /\ tpc' = IF Cursor(tside) = Nil THEN "crashed" ELSE "loop"
  BY DEF LoadCursor, Read
<1>2. \A s \in Side : RecordInv(s, pxr[s])'
  BY <1>1, EnteredSame DEF ReaderInv
<1>3. tside \in Side /\ Cursor(tside) \in Levels \cup {Nil}
  BY ShownTypes DEF ReaderInv, FeederInv
<1>4. pxr[tside] = <<>> /\ Len(<<>>) = 0 /\ DOMAIN <<>> = {}
  BY <1>1, EmptyRecord DEF ReaderInv
<1>5. tpc' = "loop" => px' \in Levels /\ Ahead(tside', px', pxr'[tside'])
  BY <1>1, <1>3, <1>4 DEF Ahead
<1>6. Len(pxr[tside]) < sample_px_depth
  BY <1>4, SampleDepthAssumption
<1> QED
  BY <1>1, <1>2, <1>3, <1>5, <1>6 DEF ReaderInv

\* One level on is still beyond the record.
LEMMA AheadAway ==
  ASSUME NEW s \in Side, NEW rec \in Readings, NEW p \in Levels, Ahead(s, p, rec)
  PROVE  /\ Ahead(s, Away(s, p), rec)
         /\ Away(s, p) \in Levels \cup {End(s)}
         /\ Away(s, p) \in Levels \cup {Nil, Span}
<1>1. Levels \in SUBSET Int
  BY LevelsInt
<1>2. ASSUME NEW i \in DOMAIN rec PROVE Farther(s, Away(s, p), rec[i][1])
  <2>1. rec[i] \in Levels \X Int
    BY DEF Readings
  <2>2. rec[i][1] \in Int /\ p \in Int /\ Farther(s, p, rec[i][1])
    BY <1>1, <2>1 DEF Ahead
  <2> QED
    BY <2>2 DEF Farther, Away
<1> QED
  BY <1>2, SpanAssumption DEF Ahead, Away, End, Levels, Nil, Side

LEMMA TestLevelKeeps ==
  ASSUME ReaderInv, FeederInv, TestLevel
  PROVE  ReaderInv'
<1>1. tpc = "loop" /\ UNCHANGED feederVars /\ quiet' = quiet
  BY DEF TestLevel, Read
<1>2. CASE px \notin Levels
  BY <1>1, <1>2, SideDoneKeeps DEF TestLevel
<1>3. CASE px \in Levels
  <2>1. /\ tside' = tside /\ pxr' = pxr
        /\ IF Quantity(tside)[px] > 0
           THEN tpc' = "push" /\ px' = px
           ELSE px' = Away(tside, px) /\ tpc' = tpc
    BY <1>3 DEF TestLevel
  <2>2. \A s \in Side : RecordInv(s, pxr[s])'
    BY <1>1, <2>1, EnteredSame DEF ReaderInv
  <2>3. /\ tside \in Side /\ pxr[tside] \in Readings
        /\ Ahead(tside, px, pxr[tside]) /\ Len(pxr[tside]) < sample_px_depth
    BY <1>1 DEF ReaderInv
  <2>4. CASE Quantity(tside)[px] > 0
    <3>1. px \in Shows(tside) /\ BookSays
      BY <1>3, <2>4 DEF Shows, Filled, FeederInv
    <3>2. Entered(tside, px)
      BY <2>3, <3>1, ShownEntered
    <3>3. Entered(tside, px)'
      BY <1>1, <2>1, <2>4, <3>2, EnteredSame
    <3> QED
      BY <1>1, <1>3, <2>1, <2>2, <2>3, <2>4, <3>3 DEF ReaderInv
  <2>5. CASE ~ (Quantity(tside)[px] > 0)
    <3>1. /\ Ahead(tside, Away(tside, px), pxr[tside])
          /\ Away(tside, px) \in Levels \cup {End(tside)}
          /\ Away(tside, px) \in Levels \cup {Nil, Span}
      BY <1>3, <2>3, AheadAway
    <3> QED
      BY <1>1, <2>1, <2>2, <2>3, <2>5, <3>1 DEF ReaderInv
  <2> QED
    BY <2>4, <2>5
<1> QED
  BY <1>2, <1>3

LEMMA PushLevelKeeps ==
  ASSUME ReaderInv, FeederInv, PushLevel
  PROVE  ReaderInv'
<1>1. PICK s \in Side, p \in Levels : s = tside /\ p = px
  BY DEF ReaderInv, PushLevel, Read
<1>2. PICK q \in Nat : q = Quantity(s)[p]
  BY <1>1, ShownTypes DEF FeederInv
<1> DEFINE new == Append(pxr[s], <<p, q>>)
<1>3. /\ tpc = "push" /\ UNCHANGED feederVars /\ quiet' = quiet
      /\ pxr' = [pxr EXCEPT ![s] = new]
  BY <1>1, <1>2 DEF PushLevel, Read
<1>4. /\ pxr \in [Side -> Readings] /\ RecordInv(s, pxr[s]) /\ Entered(s, p)
      /\ Len(pxr[s]) < sample_px_depth /\ Ahead(s, p, pxr[s])
  BY <1>1, <1>3 DEF ReaderInv
<1>5. /\ new \in Readings /\ RecordInv(s, new) /\ Len(new) = Len(pxr[s]) + 1
      /\ Ahead(s, Away(s, p), new)
  BY <1>1, <1>4, RecordGrows
<1> HIDE DEF new
<1>6. /\ pxr' \in [Side -> Readings] /\ pxr'[s] = new
      /\ \A t \in Side : t # s => pxr'[t] = pxr[t]
  BY <1>3, <1>4, <1>5
<1>7. \A t \in Side : RecordInv(t, pxr[t])'
  <2>1. \A t \in Side : RecordInv(t, pxr'[t])
    BY <1>5, <1>6 DEF ReaderInv
  <2> QED
    BY <1>3, <2>1, EnteredSame
<1>8. CASE Len(new) >= sample_px_depth
  <2>1. /\ px' = Nil
        /\ \/ s = "S" /\ tpc' = "check" /\ tside' = "B"
           \/ s # "S" /\ tpc' = "idle" /\ tside' = s
    BY <1>1, <1>6, <1>8 DEF PushLevel
  <2>2. s = "S" => pxr'["B"] = <<>>
    BY <1>1, <1>3, <1>6 DEF ReaderInv, Side
  <2> QED
    BY <1>1, <1>3, <1>6, <1>7, <2>1, <2>2 DEF ReaderInv, Side
<1>9. CASE ~ (Len(new) >= sample_px_depth)
  <2>1. /\ tpc' = "loop" /\ px' = Away(s, p) /\ tside' = s
    BY <1>1, <1>6, <1>9 DEF PushLevel
  <2>2. Len(new) < sample_px_depth
    <3>1. Len(new) \in Nat
      BY <1>5 DEF Readings
    <3> QED
      BY <1>9, <3>1, SampleDepthAssumption
  <2>3. /\ Away(s, p) \in Levels \cup {End(s)}
        /\ Away(s, p) \in Levels \cup {Nil, Span}
    BY <1>4, AheadAway
  <2>4. s = "S" => pxr'["B"] = <<>>
    BY <1>1, <1>3, <1>6 DEF ReaderInv, Side
  <2> QED
    BY <1>1, <1>3, <1>5, <1>6, <1>7, <2>1, <2>2, <2>3, <2>4 DEF ReaderInv
<1> QED
  BY <1>8, <1>9

LEMMA ReaderStays ==
  ASSUME ReaderInv, UNCHANGED allVars
  PROVE  ReaderInv'
<1>1. /\ tpc' = tpc /\ tside' = tside /\ px' = px /\ pxr' = pxr /\ quiet' = quiet
      /\ UNCHANGED feederVars
  BY DEF allVars, timerVars
<1>2. \A s \in Side : RecordInv(s, pxr[s])'
  BY <1>1, EnteredSame DEF ReaderInv
<1>3. \A s, l : Entered(s, l)' = Entered(s, l)
  BY <1>1, EnteredSame
<1> QED
  BY <1>1, <1>2, <1>3 DEF ReaderInv

LEMMA ReaderInit ==
  ASSUME SamplerInit
  PROVE  ReaderInv
<1>1. /\ tpc = "idle" /\ tside = "S" /\ px = Nil /\ quiet = FALSE
      /\ pxr = [s \in Side |-> <<>>]
  BY DEF SamplerInit
<1>2. \A s \in Side : pxr[s] = <<>> /\ RecordInv(s, <<>>) /\ <<>> \in Readings
  BY <1>1, EmptyRecord
<1> QED
  BY <1>1, <1>2 DEF ReaderInv, Side

LEMMA ReaderInvariant == SamplerSpec => []ReaderInv
<1>1. SamplerInit => ReaderInv
  BY ReaderInit
<1>2. ReaderInv /\ FeederInv /\ FeederInv' /\ [SamplerNext]_allVars => ReaderInv'
  BY FeederReads, StartSampleKeeps, CheckCursorKeeps, LoadCursorKeeps,
     TestLevelKeeps, PushLevelKeeps, ReaderStays DEF SamplerNext, GetPxList
<1> QED
  BY <1>1, <1>2, FeederInvariant, PTL DEF SamplerSpec

\* Every pointer of the handlers and of getPxList is null, one past the end of
\* an array or on a level, and the book's own variables keep their types.
THEOREM SamplerTypeTheorem == SamplerSpec => []SamplerTypeOK
<1>1. FeederInv /\ ReaderInv => SamplerTypeOK
  BY DEF FeederInv, ReaderInv, BookSays, SamplerTypeOK, Handlers, Readings
<1> QED
  BY <1>1, FeederInvariant, ReaderInvariant, PTL

\* Whatever ran into it, a record's levels go away from the other side without
\* a repetition, each is one at which an order was entered, and no quantity is
\* negative.
THEOREM RecordOrderTheorem == SamplerSpec => []AnyRecordOrdered
<1>1. ReaderInv => AnyRecordOrdered
  <2>1. SUFFICES ASSUME ReaderInv, NEW s \in Side, NEW i \in DOMAIN pxr[s]
        PROVE  /\ Len(pxr[s]) <= sample_px_depth
               /\ pxr[s][i][2] >= 0
               /\ \E n \in 1 .. nextNo - 1 :
                     order[n].side = s /\ order[n].px = pxr[s][i][1]
               /\ i > 1 => Farther(s, pxr[s][i][1], pxr[s][i-1][1])
    BY DEF AnyRecordOrdered, ReaderInv, RecordInv
  <2>2. RecordInv(s, pxr[s]) /\ pxr[s] \in Readings
    BY <2>1 DEF ReaderInv
  <2>3. i \in Nat
    BY <2>1, <2>2 DEF Readings
  <2>4. i > 1 => i - 1 \in 1 .. i - 1
    BY <2>3
  <2> QED
    BY <2>1, <2>2, <2>4 DEF RecordInv, Entered
<1> QED
  BY <1>1, ReaderInvariant, PTL

-----------------------------------------------------------------------------
\* Each level read is shown, with its quantity, and none that is nearer was
\* left out.
Listed(s, rec) ==
  \A i \in DOMAIN rec :
    /\ rec[i][1] \in Shows(s) /\ rec[i][2] = Quantity(s)[rec[i][1]]
    /\ \A l \in Shows(s) : Farther(s, rec[i][1], l) =>
         \E j \in 1 .. i - 1 : rec[j][1] = l

\* Every level shown that is nearer than p was read.
ListedTo(s, rec, p) ==
  \A l \in Shows(s) : Farther(s, p, l) => \E j \in DOMAIN rec : rec[j][1] = l

\* Side s has been read: the record is full, or there is nothing more.
SideRead(s) ==
  Len(pxr[s]) = sample_px_depth \/ ListedTo(s, pxr[s], End(s))

\* What is true of a record that no handler ran into.
QuietInv == quiet =>
  /\ fpc = "idle"
  /\ \A s \in Side : Listed(s, pxr[s])
  /\ tpc = "idle" => SideRead("S") /\ SideRead("B")
  /\ tpc \in {"check", "load", "loop", "push"} /\ tside = "B" => SideRead("S")
  /\ tpc \in {"loop", "push"} => ListedTo(tside, pxr[tside], px)
  /\ tpc = "push" => px \in Shows(tside)

\* The feeder ends the quiet: no step of a handler is possible before a message
\* arrived, and an arrival is noted.
LEMMA FeederDisturbs ==
  ASSUME QuietInv, Feeder, quiet \in BOOLEAN
  PROVE  quiet' = FALSE
<1>1. CASE FeedAdd \/ FeedDel \/ FeedTrade
  BY <1>1 DEF FeedAdd, FeedDel, FeedTrade, Arrive
<1>2. CASE ~ (FeedAdd \/ FeedDel \/ FeedTrade)
  <2>1. fpc # "idle" /\ quiet' = quiet
    BY <1>2 DEF Feeder, RaiseCursor, ClampQuantity, CursorToNull, CursorStays,
       TakenEmpty, TakenLeft, SearchNext, Handler
  <2> QED
    BY <2>1 DEF QuietInv
<1> QED
  BY <1>1, <1>2

\* A step of the timer leaves what is shown.
LEMMA ListedSame ==
  ASSUME UNCHANGED feederVars
  PROVE  /\ fpc' = fpc
         /\ \A s : Shows(s)' = Shows(s) /\ Quantity(s)' = Quantity(s)
         /\ \A s, rec : Listed(s, rec)' = Listed(s, rec)
         /\ \A s, rec, p : ListedTo(s, rec, p)' = ListedTo(s, rec, p)
<1>1. fpc' = fpc /\ bids' = bids /\ asks' = asks
  BY DEF feederVars, bookVars
<1>2. \A s : Shows(s)' = Shows(s) /\ Quantity(s)' = Quantity(s)
  BY <1>1 DEF Shows, Quantity
<1>3. \A s, rec : Listed(s, rec)' = Listed(s, rec)
  BY <1>2 DEF Listed
<1>4. \A s, rec, p : ListedTo(s, rec, p)' = ListedTo(s, rec, p)
  BY <1>2 DEF ListedTo
<1> QED
  BY <1>1, <1>2, <1>3, <1>4

\* The next level of a complete list keeps it complete, up to the level after.
LEMMA ListGrows ==
  ASSUME NEW s \in Side, NEW rec \in Readings, NEW p \in Levels, p \in Shows(s),
         BookSays, Listed(s, rec), ListedTo(s, rec, p)
  PROVE  LET new == Append(rec, <<p, Quantity(s)[p]>>)
         IN  Listed(s, new) /\ ListedTo(s, new, Away(s, p))
<1> DEFINE q == Quantity(s)[p]
           new == Append(rec, <<p, q>>)
<1>1. q \in Int /\ Shows(s) \in SUBSET Int /\ p \in Int
  BY ShownTypes, LevelsInt
<1>2. /\ Len(rec) \in Nat
      /\ DOMAIN rec = 1 .. Len(rec) /\ DOMAIN new = 1 .. Len(rec) + 1
      /\ new[Len(rec) + 1] = <<p, q>>
      /\ \A i \in 1 .. Len(rec) : new[i] = rec[i]
  BY <1>1 DEF Readings
<1> HIDE DEF new
<1>3. ASSUME NEW i \in DOMAIN new
      PROVE  /\ new[i][1] \in Shows(s) /\ new[i][2] = Quantity(s)[new[i][1]]
             /\ \A l \in Shows(s) : Farther(s, new[i][1], l) =>
                  \E j \in 1 .. i - 1 : new[j][1] = l
  <2>1. CASE i = Len(rec) + 1
    <3>1. new[i][1] = p /\ new[i][2] = q
      BY <1>2, <2>1
    <3>2. 1 .. i - 1 = DOMAIN rec /\ \A j \in DOMAIN rec : new[j] = rec[j]
      BY <1>2, <2>1
    <3> QED
      BY <3>1, <3>2 DEF ListedTo
  <2>2. CASE i # Len(rec) + 1
    <3>1. i \in DOMAIN rec /\ new[i] = rec[i]
      BY <1>2, <2>2
    <3>2. \A j \in 1 .. i - 1 : new[j] = rec[j]
      BY <1>2, <3>1
    <3> QED
      BY <3>1, <3>2 DEF Listed
  <2> QED
    BY <2>1, <2>2
<1>4. ASSUME NEW l \in Shows(s), Farther(s, Away(s, p), l)
      PROVE  \E j \in DOMAIN new : new[j][1] = l
  <2>1. l = p \/ Farther(s, p, l)
    BY <1>1, <1>4 DEF Farther, Away
  <2>2. CASE l = p
    BY <1>2, <2>2
  <2>3. CASE Farther(s, p, l)
    <3>1. PICK j \in DOMAIN rec : rec[j][1] = l
      BY <2>3 DEF ListedTo
    <3>2. j \in DOMAIN new /\ new[j] = rec[j]
      BY <1>2
    <3> QED
      BY <3>1, <3>2
  <2> QED
    BY <2>1, <2>2, <2>3
<1>5. Listed(s, new) /\ ListedTo(s, new, Away(s, p))
  BY <1>3, <1>4 DEF Listed, ListedTo
<1> QED
  BY <1>5 DEF new

\* A record that is begun has no levels.
LEMMA StartSampleQuiet ==
  ASSUME QuietInv, StartSample
  PROVE  QuietInv'
<1>1. /\ tpc' = "check" /\ tside' = "S" /\ quiet' = (fpc = "idle")
      /\ pxr' = [s \in Side |-> <<>>] /\ fpc' = fpc
  BY ListedSame DEF StartSample
<1>2. \A s \in Side : Listed(s, pxr[s])'
  <2>1. \A s \in Side : pxr'[s] = <<>> /\ DOMAIN <<>> = {}
    BY <1>1, EmptyRecord
  <2> QED
    BY <2>1 DEF Listed
<1> QED
  BY <1>1, <1>2 DEF QuietInv

\* A side that has been read stays so, and the next side is begun.
LEMMA SideDoneQuiet ==
  ASSUME QuietInv, ReaderInv, SideDone, UNCHANGED feederVars, quiet' = quiet,
         tpc \in {"check", "loop"}, quiet => SideRead(tside)
  PROVE  QuietInv'
<1>1. /\ pxr' = pxr
      /\ \/ tside = "S" /\ tpc' = "check" /\ tside' = "B"
         \/ tside = "B" /\ tpc' = "idle" /\ tside' = tside
  BY DEF SideDone, ReaderInv, Side
<1>2. fpc' = fpc /\ \A s \in Side : Listed(s, pxr[s])' = Listed(s, pxr[s])
  BY <1>1, ListedSame
<1>3. \A s \in Side : SideRead(s)' = SideRead(s)
  BY <1>1, ListedSame DEF SideRead
<1> QED
  BY <1>1, <1>2, <1>3 DEF QuietInv, Side

\* A cursor that is null stands for a side that shows nothing.
LEMMA CheckCursorQuiet ==
  ASSUME QuietInv, ReaderInv, FeederInv, CheckCursor
  PROVE  QuietInv'
<1>1. tpc = "check" /\ UNCHANGED feederVars /\ quiet' = quiet
  BY DEF CheckCursor, Read
<1>2. CASE Cursor(tside) = Nil
  <2>1. ASSUME quiet PROVE SideRead(tside)
    <3>1. tside \in Side /\ BookSays /\ Right(tside, Cursor(tside))
      BY <2>1 DEF ReaderInv, FeederInv, QuietInv
    <3>2. Shows(tside) = {}
      BY <1>2, <3>1, RightMeans, ShownTypes, LevelsInt
    <3> QED
      BY <3>2 DEF SideRead, ListedTo
  <2> QED
    BY <1>1, <1>2, <2>1, SideDoneQuiet DEF CheckCursor
<1>3. CASE Cursor(tside) # Nil
  <2>1. tpc' = "load" /\ tside' = tside /\ px' = px /\ pxr' = pxr
    BY <1>3 DEF CheckCursor
  <2>2. fpc' = fpc /\ \A s \in Side : Listed(s, pxr[s])' = Listed(s, pxr[s])
    BY <1>1, <2>1, ListedSame
  <2>3. \A s \in Side : SideRead(s)' = SideRead(s)
    BY <1>1, <2>1, ListedSame DEF SideRead
  <2> QED
    BY <1>1, <2>1, <2>2, <2>3 DEF QuietInv, Side
<1> QED
  BY <1>2, <1>3

\* The walk starts on the best level shown.
LEMMA LoadCursorQuiet ==
  ASSUME QuietInv, ReaderInv, FeederInv, LoadCursor
  PROVE  QuietInv'
<1>1. /\ tpc = "load" /\ UNCHANGED feederVars /\ quiet' = quiet
      /\ px' = Cursor(tside) /\ tside' = tside /\ pxr' = pxr
      /\ tpc' = IF Cursor(tside) = Nil THEN "crashed" ELSE "loop"
  BY DEF LoadCursor, Read
<1>2. fpc' = fpc /\ \A s \in Side : Listed(s, pxr[s])' = Listed(s, pxr[s])
  BY <1>1, ListedSame
<1>3. \A s \in Side : SideRead(s)' = SideRead(s)
  BY <1>1, ListedSame DEF SideRead
<1>4. ASSUME quiet PROVE ListedTo(tside, pxr[tside], px)'
  <2>1. PICK s \in Side : s = tside
    BY DEF ReaderInv
  <2>2. BookSays /\ Right(s, Cursor(s))
    BY <1>4, <2>1 DEF FeederInv, QuietInv
  <2>3. Shows(s) = {} \/ NoneNearer(s, Shows(s), Cursor(s))
    BY <2>2, RightMeans
  <2>4. Shows(s) \in SUBSET Int /\ Cursor(s) \in Int
    BY <2>2, ShownTypes, LevelsInt DEF Nil
  <2>5. \A l \in Shows(s) : ~ Farther(s, Cursor(s), l)
    BY <2>3, <2>4 DEF NoneNearer, Farther
  <2>6. ListedTo(s, pxr[s], Cursor(s))
    BY <2>5 DEF ListedTo
  <2> QED
    BY <1>1, <2>1, <2>6, ListedSame
<1> QED
  BY <1>1, <1>2, <1>3, <1>4 DEF QuietInv, Side

\* A level that shows nothing is passed over.
LEMMA TestLevelQuiet ==
  ASSUME QuietInv, ReaderInv, FeederInv, TestLevel
  PROVE  QuietInv'
<1>1. tpc = "loop" /\ UNCHANGED feederVars /\ quiet' = quiet
  BY DEF TestLevel, Read
<1>2. PICK s \in Side : s = tside
  BY DEF ReaderInv
<1>3. BookSays /\ Shows(s) \in SUBSET Int /\ px \in Levels \cup {End(s)}
  BY <1>1, <1>2, ShownTypes DEF FeederInv, ReaderInv
<1>4. CASE px \notin Levels
  <2>1. ASSUME quiet PROVE SideRead(tside)
    <3>1. px = End(s) /\ ListedTo(s, pxr[s], px)
      BY <1>1, <1>2, <1>3, <1>4, <2>1 DEF QuietInv
    <3> QED
      BY <1>2, <3>1 DEF SideRead
  <2> QED
    BY <1>1, <1>4, <2>1, SideDoneQuiet DEF TestLevel
<1>5. CASE px \in Levels
  <2>1. /\ tside' = s /\ pxr' = pxr
        /\ IF Quantity(s)[px] > 0
           THEN tpc' = "push" /\ px' = px
           ELSE px' = Away(s, px) /\ tpc' = tpc
    BY <1>2, <1>5 DEF TestLevel
  <2>2. fpc' = fpc /\ \A t \in Side : Listed(t, pxr[t])' = Listed(t, pxr[t])
    BY <1>1, <2>1, ListedSame
  <2>3. \A t \in Side : SideRead(t)' = SideRead(t)
    BY <1>1, <2>1, ListedSame DEF SideRead
  <2>4. Shows(s)' = Shows(s)
    BY <1>1, ListedSame
  <2>5. ASSUME quiet PROVE ListedTo(tside, pxr[tside], px)'
    <3>1. ListedTo(s, pxr[s], px)
      BY <1>1, <1>2, <2>5 DEF QuietInv
    <3>2. CASE Quantity(s)[px] > 0
      BY <1>1, <2>1, <3>1, <3>2, ListedSame
    <3>3. CASE ~ (Quantity(s)[px] > 0)
      <4>1. px \notin Shows(s) /\ px \in Int
        BY <1>5, <3>3, LevelsInt DEF Shows, Filled
      <4>2. \A l \in Shows(s) : Farther(s, Away(s, px), l) => Farther(s, px, l)
        BY <1>3, <4>1 DEF Farther, Away
      <4>3. ListedTo(s, pxr[s], Away(s, px))
        BY <3>1, <4>2 DEF ListedTo
      <4> QED
        BY <1>1, <2>1, <3>3, <4>3, ListedSame
    <3> QED
      BY <3>2, <3>3
  <2>6. tpc' = "push" => px' \in Shows(s)
    BY <1>1, <1>5, <2>1 DEF Shows, Filled
  <2> QED
    BY <1>1, <1>2, <2>1, <2>2, <2>3, <2>4, <2>5, <2>6 DEF QuietInv, Side
<1> QED
  BY <1>4, <1>5

\* A level that shows something is read with the quantity it shows.
LEMMA PushLevelQuiet ==
  ASSUME QuietInv, ReaderInv, FeederInv, PushLevel
  PROVE  QuietInv'
<1>1. PICK s \in Side, p \in Levels : s = tside /\ p = px
  BY DEF ReaderInv, PushLevel, Read
<1> DEFINE new == Append(pxr[s], <<p, Quantity(s)[p]>>)
<1>2. /\ tpc = "push" /\ UNCHANGED feederVars /\ quiet' = quiet
      /\ pxr' = [pxr EXCEPT ![s] = new]
  BY <1>1 DEF PushLevel, Read
<1>3. SUFFICES ASSUME quiet PROVE QuietInv'
  BY <1>2 DEF QuietInv
<1>4. /\ pxr \in [Side -> Readings] /\ p \in Shows(s) /\ BookSays
      /\ Listed(s, pxr[s]) /\ ListedTo(s, pxr[s], p)
      /\ Len(pxr[s]) < sample_px_depth /\ fpc = "idle"
  BY <1>1, <1>2, <1>3 DEF QuietInv, ReaderInv, FeederInv
<1>5. Listed(s, new) /\ ListedTo(s, new, Away(s, p))
  BY <1>4, ListGrows
<1>6. Len(new) = Len(pxr[s]) + 1 /\ Len(pxr[s]) \in Nat
  BY <1>4 DEF Readings
<1> HIDE DEF new
<1>7. pxr'[s] = new /\ \A t \in Side : t # s => pxr'[t] = pxr[t]
  BY <1>2, <1>4
<1>8. \A t \in Side : Listed(t, pxr[t])'
  <2>1. \A t \in Side : Listed(t, pxr'[t])
    BY <1>3, <1>5, <1>7 DEF QuietInv
  <2> QED
    BY <1>2, <2>1, ListedSame
<1>9. fpc' = fpc
  BY <1>2, ListedSame
<1>10. s = "B" => SideRead("S")'
  <2>1. ASSUME s = "B" PROVE SideRead("S")
    BY <1>1, <1>2, <1>3, <2>1 DEF QuietInv
  <2>2. ASSUME s = "B" PROVE pxr'["S"] = pxr["S"]
    BY <1>7, <2>2 DEF Side
  <2> QED
    BY <1>2, <2>1, <2>2, ListedSame DEF SideRead
<1>11. CASE Len(new) >= sample_px_depth
  <2>1. \/ s = "S" /\ tpc' = "check" /\ tside' = "B"
        \/ s = "B" /\ tpc' = "idle" /\ tside' = s
    BY <1>1, <1>7, <1>11 DEF PushLevel, Side
  <2>2. SideRead(s)'
    BY <1>4, <1>6, <1>7, <1>11, SampleDepthAssumption DEF SideRead
  <2> QED
    BY <1>4, <1>8, <1>9, <1>10, <2>1, <2>2 DEF QuietInv
<1>12. CASE ~ (Len(new) >= sample_px_depth)
  <2>1. tpc' = "loop" /\ px' = Away(s, p) /\ tside' = s
    BY <1>1, <1>7, <1>12 DEF PushLevel
  <2>2. ListedTo(tside, pxr[tside], px)'
    BY <1>2, <1>5, <1>7, <2>1, ListedSame
  <2> QED
    BY <1>4, <1>8, <1>9, <1>10, <2>1, <2>2 DEF QuietInv
<1> QED
  BY <1>11, <1>12

LEMMA QuietStays ==
  ASSUME QuietInv, UNCHANGED allVars
  PROVE  QuietInv'
<1>1. /\ tpc' = tpc /\ tside' = tside /\ px' = px /\ pxr' = pxr /\ quiet' = quiet
      /\ UNCHANGED feederVars
  BY DEF allVars, timerVars
<1>2. fpc' = fpc /\ \A s \in Side : Listed(s, pxr[s])' = Listed(s, pxr[s])
  BY <1>1, ListedSame
<1>3. \A s \in Side : SideRead(s)' = SideRead(s)
  BY <1>1, ListedSame DEF SideRead
<1>4. /\ ListedTo(tside, pxr[tside], px)' = ListedTo(tside, pxr[tside], px)
      /\ Shows(tside)' = Shows(tside)
  BY <1>1, ListedSame
<1> QED
  BY <1>1, <1>2, <1>3, <1>4 DEF QuietInv, Side

LEMMA QuietInvariant == SamplerSpec => []QuietInv
<1>1. SamplerInit => QuietInv
  BY DEF SamplerInit, QuietInv
<1>2. ASSUME QuietInv, ReaderInv, FeederInv, [SamplerNext]_allVars
      PROVE  QuietInv'
  <2>1. CASE Feeder
    <3>1. quiet' = FALSE
      BY <1>2, <2>1, FeederDisturbs DEF ReaderInv
    <3> QED
      BY <3>1 DEF QuietInv
  <2>2. CASE ~ Feeder
    BY <1>2, <2>2, StartSampleQuiet, CheckCursorQuiet, LoadCursorQuiet,
       TestLevelQuiet, PushLevelQuiet, QuietStays DEF SamplerNext, GetPxList
  <2> QED
    BY <2>1, <2>2
<1> QED
  BY <1>1, <1>2, FeederInvariant, ReaderInvariant, PTL DEF SamplerSpec

\* The smaller of two numbers.
LEMMA MinOfTwo ==
  ASSUME NEW a \in Nat, NEW b \in Nat
  PROVE  Min({a, b}) = IF a <= b THEN a ELSE b
BY DEF Min

\* A side that has been read is the top of what the exchange holds there: its
\* levels are different ones, so a record that is not full has all of them.
LEMMA ReadIsTop ==
  ASSUME BookSays, NEW s \in Side, NEW rec \in Readings, RecordInv(s, rec),
         Listed(s, rec),
         Len(rec) = sample_px_depth \/ ListedTo(s, rec, End(s))
  PROVE  IsTop(s, rec)
<1> DEFINE N == Len(rec)
           f == [i \in 1 .. N |-> rec[i][1]]
<1>1. /\ N \in Nat /\ DOMAIN rec = 1 .. N
      /\ \A i \in 1 .. N : rec[i] \in Levels \X Int
  BY DEF Readings
<1>2. \A i \in 1 .. N : rec[i][1] \in Int /\ f[i] = rec[i][1]
  BY <1>1, LevelsInt
<1>3. \A l \in Levels : Depth(s, l) = Quantity(s)[l]
  BY DEF BookSays, DepthExact, Quantity, Side
<1>4. TrueLevels(s) = Shows(s)
  BY <1>3 DEF TrueLevels, Shows, Filled
<1>5. /\ Shows(s) \in SUBSET Levels /\ Shows(s) \in SUBSET Int
      /\ IsFiniteSet(Shows(s))
  <2>1. IsFiniteSet(Levels)
    BY SpanAssumption, FS_Interval DEF Levels
  <2> QED
    BY <2>1, FS_Subset, ShownTypes
<1>6. \A i, j \in 1 .. N : j < i => Farther(s, rec[i][1], rec[j][1])
  BY <1>1 DEF RecordInv
<1>7. \A i, j \in 1 .. N : rec[i][1] = rec[j][1] => i = j
  BY <1>2, <1>6 DEF Farther
<1>8. f \in Injection(1 .. N, Shows(s))
  <2>1. f \in [1 .. N -> Shows(s)]
    BY <1>1 DEF Listed
  <2> QED
    BY <1>2, <1>7, <2>1 DEF Injection, IsInjective
<1>9. N <= Cardinality(Shows(s)) /\ Cardinality(Shows(s)) \in Nat
  <2>1. /\ Cardinality(1 .. N) <= Cardinality(Shows(s))
    BY <1>5, <1>8, FS_Injection
  <2>2. Cardinality(1 .. N) = N
    BY <1>1, FS_Interval
  <2> QED
    BY <1>5, <2>1, <2>2, FS_CardinalityType
<1>10. N = Min({sample_px_depth, Cardinality(TrueLevels(s))})
  <2>1. N <= sample_px_depth
    BY DEF RecordInv
  <2>2. CASE N = sample_px_depth
    BY <1>4, <1>9, <2>2, MinOfTwo, SampleDepthAssumption
  <2>3. CASE ListedTo(s, rec, End(s))
    <3>1. \A l \in Levels : Farther(s, End(s), l)
      BY SpanAssumption DEF Farther, End, Levels, Nil
    <3>2. \A l \in Shows(s) : \E j \in 1 .. N : rec[j][1] = l
      BY <1>1, <1>5, <2>3, <3>1 DEF ListedTo
    <3>3. f \in Surjection(1 .. N, Shows(s))
      BY <1>2, <1>8, <3>2 DEF Injection, Surjection
    <3>4. Cardinality(1 .. N) = Cardinality(Shows(s))
      BY <1>5, <1>8, <3>3, FS_Injection
    <3>5. N = Cardinality(Shows(s))
      BY <1>1, <3>4, FS_Interval
    <3> QED
      BY <1>1, <1>4, <2>1, <3>5, MinOfTwo, SampleDepthAssumption
  <2> QED
    BY <2>2, <2>3
<1>11. ASSUME NEW i \in DOMAIN rec
       PROVE  /\ rec[i][1] \in TrueLevels(s)
              /\ rec[i][2] = Depth(s, rec[i][1])
              /\ i > 1 => rec[i][1] # rec[i-1][1]
              /\ \A l \in TrueLevels(s) :
                   (IF s = "B" THEN l > rec[i][1] ELSE l < rec[i][1]) =>
                      \E j \in 1 .. i - 1 : rec[j][1] = l
  <2>1. /\ rec[i][1] \in Shows(s) /\ rec[i][2] = Quantity(s)[rec[i][1]]
        /\ \A l \in Shows(s) : Farther(s, rec[i][1], l) =>
             \E j \in 1 .. i - 1 : rec[j][1] = l
    BY DEF Listed
  <2>2. i > 1 => rec[i][1] # rec[i-1][1]
    BY <1>1, <1>7
  <2>3. \A l \in Shows(s) :
          (IF s = "B" THEN l > rec[i][1] ELSE l < rec[i][1])
             => Farther(s, rec[i][1], l)
    BY <1>1, <1>2, <1>5 DEF Farther
  <2> QED
    BY <1>3, <1>4, <1>5, <2>1, <2>2, <2>3
<1> QED
  BY <1>10, <1>11 DEF IsTop

\* A record that no handler ran into is the top of the exchange's book, on both
\* sides: the levels with a quantity, the best first, none left out, and as
\* many as the depth asks for or there are.
THEOREM QuietRecordTheorem == SamplerSpec => []QuietRecordExact
<1>1. FeederInv /\ ReaderInv /\ QuietInv => QuietRecordExact
  <2>1. SUFFICES ASSUME FeederInv, ReaderInv, QuietInv, tpc = "idle", quiet,
                        NEW s \in Side
                 PROVE  IsTop(s, pxr[s])
    BY DEF QuietRecordExact
  <2>2. /\ BookSays /\ pxr[s] \in Readings /\ RecordInv(s, pxr[s])
        /\ Listed(s, pxr[s]) /\ SideRead(s)
    BY <2>1 DEF FeederInv, ReaderInv, QuietInv, Side
  <2> QED
    BY <2>2, ReadIsTop DEF SideRead
<1> QED
  BY <1>1, FeederInvariant, ReaderInvariant, QuietInvariant, PTL
=============================================================================
