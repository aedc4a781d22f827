-------------------------- MODULE BookSHDayProofs --------------------------
(***************************************************************************)
(* What a Shanghai book shows over days with call auctions.  When every    *)
(* message is heard, each level shows what rests there and what the        *)
(* auctions' trades took from there; a program that was started late shows *)
(* no more than that.  The lemmas on depths are those of continuous        *)
(* trading, applied to the orders as they would be without these trades    *)
(* (Kept), and, for a late start, to those that were heard (Heard).        *)
(***************************************************************************)
EXTENDS BookSHLateJoin, BookLemmas

Kept == INSTANCE BookLemmas WITH order <- withUntaken

\* Numbers that are not given out yet: no order, nothing kept, no slot.
NewUnused ==
  \A n \in OrderNo : n >= nextNo =>
    order[n].qty = 0 /\ untaken[n] = 0 /\ seq_pxs[n] = NoSlot

\* Every order something is kept of is in the index, by which a later trade of
\* it finds its level: it leaves the index with its level's last quantity.
KeptIndexed ==
  \A n \in OrderNo : order[n].qty + untaken[n] > 0 =>
    seq_pxs[n] = [side |-> order[n].side, lvl |-> order[n].px]

ShowsKept ==
  \A l \in Levels : /\ bids[l] = Kept!Depth("B", l)
                    /\ asks[l] = Kept!Depth("S", l)

DayExact ==
  /\ ExchangeTypeOK
  /\ untaken \in [OrderNo -> Nat]
  /\ bids \in [Levels -> Int] /\ asks \in [Levels -> Int]
  /\ seq_pxs \in [OrderNo -> Slot \cup {NoSlot}]
  /\ NewUnused
  /\ KeptIndexed
  /\ ShowsKept

\* The inductive invariant: of the cursors it says nothing.
DayInv == FromTheStart => DayExact

-----------------------------------------------------------------------------
\* The instance's types are the module's.
LEMMA SameConstants ==
  /\ Kept!Levels = Levels /\ Kept!OrderNo = OrderNo /\ Kept!Side = Side
  /\ Kept!Prices = Levels /\ Prices = Levels
BY InLimits, SpanAssumption
   DEF Kept!Levels, Kept!OrderNo, Kept!Side, Kept!Prices,
       Levels, OrderNo, Side, Prices

\* Its orders differ from the exchange's in their quantities.
KeptSums ==
  \A n \in OrderNo : /\ order[n] \in [side: Side, px: Levels, qty: Nat]
                      /\ untaken[n] \in Nat
                      /\ withUntaken[n].side = order[n].side
                      /\ withUntaken[n].px = order[n].px
                      /\ withUntaken[n].qty = order[n].qty + untaken[n]

LEMMA KeptOrder ==
  ExchangeTypeOK /\ untaken \in [OrderNo -> Nat]
    => Kept!ExchangeTypeOK /\ KeptSums
<1> SUFFICES ASSUME ExchangeTypeOK, untaken \in [OrderNo -> Nat]
             PROVE  Kept!ExchangeTypeOK /\ KeptSums
  OBVIOUS
<1>1. \A n \in OrderNo :
        order[n] \in [side: Side, px: Levels, qty: Nat] /\ untaken[n] \in Nat
  BY SameConstants DEF ExchangeTypeOK
<1>2. \A n \in OrderNo :
        withUntaken[n] = [order[n] EXCEPT !.qty = @ + untaken[n]]
  BY DEF withUntaken
<1>3. ASSUME NEW n \in OrderNo
      PROVE  /\ withUntaken[n] \in [side: Side, px: Levels, qty: Nat]
             /\ withUntaken[n].side = order[n].side
             /\ withUntaken[n].px = order[n].px
             /\ withUntaken[n].qty = order[n].qty + untaken[n]
  <2>1. withUntaken[n] = [side |-> order[n].side, px |-> order[n].px,
                          qty |-> order[n].qty + untaken[n]]
    BY <1>1, <1>2
  <2>2. order[n].side \in Side /\ order[n].px \in Levels
        /\ order[n].qty + untaken[n] \in Nat
    BY <1>1
  <2> QED
    BY <2>1, <2>2
<1>4. \A n \in OrderNo : withUntaken[n] \in [side: Side, px: Levels, qty: Nat]
  BY <1>3
<1>5. withUntaken \in [OrderNo -> [side: Side, px: Levels, qty: Nat]]
  BY <1>4 DEF withUntaken
<1>6. Kept!ExchangeTypeOK
  BY <1>5, SameConstants DEF Kept!ExchangeTypeOK, ExchangeTypeOK
<1> QED
  BY <1>1, <1>3, <1>6 DEF KeptSums

LEMMA KeptOrderNext ==
  (ExchangeTypeOK /\ untaken \in [OrderNo -> Nat])'
    => (Kept!ExchangeTypeOK /\ KeptSums)'
BY KeptOrder, PTL

\* The depths of the instance, read by its lemmas or by the account's formula.
LEMMA SameDepth ==
  ASSUME NEW s, NEW l
  PROVE  Account!Depth(s, l) = Kept!Depth(s, l)
BY DEF Account!Depth, Kept!Depth, Account!Share, Kept!Share,
       Account!SumTo, Kept!SumTo, Account!PrefixSum, Kept!PrefixSum,
       Account!OrderNo, Kept!OrderNo

LEMMA KeptDepth ==
  ASSUME Kept!ExchangeTypeOK, NEW s, NEW l
  PROVE  /\ Kept!Depth(s, l) \in Nat
         /\ \A n \in OrderNo :
              withUntaken[n].side = s /\ withUntaken[n].px = l
                => withUntaken[n].qty <= Kept!Depth(s, l)
         /\ Kept!Depth(s, l) > 0
              => \E n \in Kept!Resting(s) : withUntaken[n].px = l
BY Kept!DepthLaws, SameConstants, SpanAssumption, MaxOrdersAssumption,
   PriceSlackAssumption, MaxQtyAssumption

\* A new order enters the instance's book as it enters the exchange's.
LEMMA KeptEnter ==
  ASSUME DayExact, NEW s \in Side, NEW p \in Levels, NEW q \in Nat,
         Enter(s, p, q), untaken' = untaken
  PROVE  /\ ExchangeTypeOK' /\ nextNo \in OrderNo /\ nextNo' = nextNo + 1
         /\ Kept!Enter(s, p, q) /\ withUntaken[nextNo].qty = 0
<1>1. /\ ExchangeTypeOK /\ untaken \in [OrderNo -> Nat] /\ NewUnused
      /\ nextNo \in OrderNo /\ nextNo' = nextNo + 1
      /\ order' = [order EXCEPT ![nextNo] = [side |-> s, px |-> p, qty |-> q]]
  BY DEF DayExact, Enter
<1>2. order[nextNo].qty = 0 /\ untaken[nextNo] = 0
  BY <1>1 DEF NewUnused, OrderNo
<1>3. [side |-> s, px |-> p, qty |-> q] \in [side: Side, px: Prices, qty: Nat]
  BY SameConstants
<1>4. nextNo' \in 1 .. MaxOrders + 1
  BY <1>1, MaxOrdersAssumption DEF OrderNo
<1>5. ExchangeTypeOK'
  BY <1>1, <1>3, <1>4 DEF ExchangeTypeOK
<1>6. \A n \in OrderNo : order'[n] =
        IF n = nextNo THEN [side |-> s, px |-> p, qty |-> q] ELSE order[n]
  BY <1>1 DEF ExchangeTypeOK
<1>7. withUntaken'
        = [n \in OrderNo |-> [order'[n] EXCEPT !.qty = @ + untaken[n]]]
  BY DEF withUntaken
<1>8. \A n \in OrderNo : withUntaken'[n] =
        IF n = nextNo THEN [side |-> s, px |-> p, qty |-> q] ELSE withUntaken[n]
  BY <1>2, <1>6, <1>7 DEF withUntaken
<1>9. withUntaken'
        = [withUntaken EXCEPT ![nextNo] = [side |-> s, px |-> p, qty |-> q]]
  BY <1>7, <1>8 DEF withUntaken
<1>10. withUntaken[nextNo].qty = 0
  BY <1>1, <1>2, KeptOrder DEF KeptSums
<1> QED
  BY <1>1, <1>5, <1>9, <1>10, SameConstants DEF Kept!Enter

\* What leaves an order on the exchange leaves it in the instance's book.
LEMMA KeptReduce ==
  ASSUME DayExact, NEW n \in OrderNo, NEW q \in Nat, q <= order[n].qty,
         Reduce({n}, q), untaken' = untaken
  PROVE  /\ ExchangeTypeOK' /\ nextNo' = nextNo /\ Kept!Reduce({n}, q)
         /\ order'[n].qty = order[n].qty - q
         /\ \A k \in OrderNo : k # n => order'[k] = order[k]
<1>1. /\ ExchangeTypeOK /\ untaken \in [OrderNo -> Nat]
      /\ order' = [k \in OrderNo |-> IF k \in {n}
                     THEN [order[k] EXCEPT !.qty = @ - q] ELSE order[k]]
      /\ nextNo' = nextNo
  BY DEF DayExact, Reduce
<1>2. \A k \in OrderNo :
        order[k] \in [side: Side, px: Prices, qty: Nat] /\ untaken[k] \in Nat
  BY <1>1 DEF ExchangeTypeOK
<1>3. /\ order'[n] = [order[n] EXCEPT !.qty = @ - q]
      /\ \A k \in OrderNo : k # n => order'[k] = order[k]
  BY <1>1
<1>4. /\ order'[n].qty = order[n].qty - q
      /\ \A k \in OrderNo : order'[k] \in [side: Side, px: Prices, qty: Nat]
  BY <1>2, <1>3
<1>5. ExchangeTypeOK'
  BY <1>1, <1>4 DEF ExchangeTypeOK
<1>6. ASSUME NEW k \in OrderNo
      PROVE  [order'[k] EXCEPT !.qty = @ + untaken[k]] =
        IF k \in {n} THEN [withUntaken[k] EXCEPT !.qty = @ - q]
                     ELSE withUntaken[k]
  <2>1. withUntaken[k] = [order[k] EXCEPT !.qty = @ + untaken[k]]
    BY DEF withUntaken
  <2>2. withUntaken[k] = [side |-> order[k].side, px |-> order[k].px,
                          qty |-> order[k].qty + untaken[k]]
    BY <1>2, <2>1
  <2>3. CASE k # n
    BY <1>3, <2>1, <2>3
  <2>4. CASE k = n
    <3>1. order'[k] = [side |-> order[k].side, px |-> order[k].px,
                       qty |-> order[k].qty - q]
      BY <1>2, <1>3, <2>4
    <3>2. (order[k].qty - q) + untaken[k] = (order[k].qty + untaken[k]) - q
      BY <1>2
    <3> QED
      BY <2>2, <2>4, <3>1, <3>2
  <2> QED
    BY <2>3, <2>4
<1>7. withUntaken' = [k \in OrderNo |-> IF k \in {n}
        THEN [withUntaken[k] EXCEPT !.qty = @ - q] ELSE withUntaken[k]]
  BY <1>6 DEF withUntaken
<1> QED
  BY <1>1, <1>3, <1>4, <1>5, <1>7, SameConstants DEF Kept!Reduce

-----------------------------------------------------------------------------
\* The quantities shown are not negative, and none is less than what is kept
\* of an order of its level.
LEMMA KeptShown ==
  ASSUME DayExact
  PROVE  /\ bids \in [Levels -> Nat] /\ asks \in [Levels -> Nat]
         /\ \A n \in OrderNo :
              /\ order[n].side = "B"
                   => order[n].qty + untaken[n] <= bids[order[n].px]
              /\ order[n].side = "S"
                   => order[n].qty + untaken[n] <= asks[order[n].px]
<1>1. Kept!ExchangeTypeOK /\ KeptSums
  BY KeptOrder DEF DayExact
<1>2. \A l \in Levels : bids[l] \in Nat /\ asks[l] \in Nat
  BY <1>1, KeptDepth DEF DayExact, ShowsKept
<1>3. bids \in [Levels -> Nat] /\ asks \in [Levels -> Nat]
  BY <1>2 DEF DayExact
<1>4. ASSUME NEW n \in OrderNo
      PROVE  /\ order[n].side = "B"
                  => order[n].qty + untaken[n] <= bids[order[n].px]
             /\ order[n].side = "S"
                  => order[n].qty + untaken[n] <= asks[order[n].px]
  <2>1. PICK l \in Levels : l = order[n].px
    BY <1>1 DEF KeptSums
  <2>2. \A s : order[n].side = s
          => order[n].qty + untaken[n] <= Kept!Depth(s, l)
    BY <1>1, <2>1, KeptDepth DEF KeptSums
  <2> QED
    BY <2>1, <2>2 DEF DayExact, ShowsKept
<1> QED
  BY <1>3, <1>4

\* A new order keeps the invariant.
LEMMA EnterExact ==
  ASSUME DayExact, NEW s \in Side, NEW p \in Levels, NEW q \in 1 .. MaxQty,
         Enter(s, p, q), onOrderSH(AddMsg(s, p, q)), untaken' = untaken
  PROVE  DayExact'
<1>1. q \in Nat
  BY MaxQtyAssumption
<1>2. /\ ExchangeTypeOK' /\ nextNo \in OrderNo /\ nextNo' = nextNo + 1
      /\ Kept!Enter(s, p, q) /\ withUntaken[nextNo].qty = 0
  BY <1>1, KeptEnter
<1>3. (ExchangeTypeOK /\ untaken \in [OrderNo -> Nat])'
  BY <1>2 DEF DayExact
<1>4. Kept!ExchangeTypeOK /\ KeptSums /\ Kept!ExchangeTypeOK' /\ KeptSums'
  BY <1>3, KeptOrder, KeptOrderNext DEF DayExact
<1>5. \A t, l : Kept!Depth(t, l)' =
        Kept!Depth(t, l) + (IF t = s /\ l = p THEN q ELSE 0)
  BY <1>1, <1>2, <1>4, Kept!EnterDepth, SpanAssumption, MaxOrdersAssumption,
     PriceSlackAssumption, MaxQtyAssumption
<1>6. /\ seq_pxs' = [seq_pxs EXCEPT ![nextNo] = [side |-> s, lvl |-> p]]
      /\ s = "B" => bids' = [bids EXCEPT ![p] = @ + q] /\ asks' = asks
      /\ s = "S" => asks' = [asks EXCEPT ![p] = @ + q] /\ bids' = bids
  BY DEF onOrderSH, AddMsg, AddBuySH, AddSellSH, DelBuySH, DelSellSH
<1>7. /\ bids \in [Levels -> Nat] /\ asks \in [Levels -> Nat]
      /\ seq_pxs \in [OrderNo -> Slot \cup {NoSlot}]
  BY KeptShown DEF DayExact
<1>8. /\ bids' \in [Levels -> Int] /\ asks' \in [Levels -> Int]
      /\ seq_pxs' \in [OrderNo -> Slot \cup {NoSlot}]
  <2>1. [side |-> s, lvl |-> p] \in Slot
    BY DEF Slot
  <2>2. seq_pxs' \in [OrderNo -> Slot \cup {NoSlot}]
    BY <1>6, <1>7, <2>1
  <2>3. bids' \in [Levels -> Int] /\ asks' \in [Levels -> Int]
    BY <1>1, <1>6, <1>7 DEF Side
  <2> QED
    BY <2>2, <2>3
<1>9. ShowsKept'
  BY <1>1, <1>5, <1>6, <1>7 DEF Side, DayExact, ShowsKept
<1>10. \A n \in OrderNo :
         /\ n # nextNo => order'[n] = order[n] /\ seq_pxs'[n] = seq_pxs[n]
         /\ n = nextNo => /\ order'[n] = [side |-> s, px |-> p, qty |-> q]
                          /\ seq_pxs'[n] = [side |-> s, lvl |-> p]
  BY <1>6, <1>7 DEF Enter, DayExact, ExchangeTypeOK
<1>11. NewUnused'
  BY <1>2, <1>10 DEF DayExact, NewUnused, OrderNo
<1>12. KeptIndexed'
  BY <1>10 DEF DayExact, KeptIndexed
<1> QED
  BY <1>3, <1>8, <1>9, <1>11, <1>12 DEF DayExact

\* Quantity q of order n leaves the exchange's book and the level it was added
\* to, and numbers leave the index of which nothing is kept.
LEMMA TakeExact ==
  ASSUME DayExact, NEW n \in OrderNo, NEW q \in Nat, q <= order[n].qty, q > 0,
         Reduce({n}, q), untaken' = untaken,
         order[n].side = "B"
           => bids' = [bids EXCEPT ![order[n].px] = @ - q] /\ asks' = asks,
         order[n].side = "S"
           => asks' = [asks EXCEPT ![order[n].px] = @ - q] /\ bids' = bids,
         NEW S, seq_pxs' = Erase(S),
         \A k \in S \cap OrderNo : k = n /\
           (ShowsKept' => order'[n].qty + untaken'[n] = 0)
  PROVE  DayExact'
<1>1. /\ ExchangeTypeOK' /\ nextNo' = nextNo /\ Kept!Reduce({n}, q)
      /\ order'[n].qty = order[n].qty - q
      /\ \A k \in OrderNo : k # n => order'[k] = order[k]
  BY KeptReduce
<1>2. (ExchangeTypeOK /\ untaken \in [OrderNo -> Nat])'
  BY <1>1 DEF DayExact
<1>3. Kept!ExchangeTypeOK /\ KeptSums /\ Kept!ExchangeTypeOK' /\ KeptSums'
  BY <1>2, KeptOrder, KeptOrderNext DEF DayExact
<1>4. /\ n \in Kept!OrderNo
      /\ withUntaken[n].side = order[n].side /\ withUntaken[n].px = order[n].px
      /\ order[n].side \in Side /\ order[n].px \in Levels
      /\ order[n].qty \in Nat
  BY <1>3, SameConstants DEF KeptSums
<1>5. \A t, l : Kept!Depth(t, l)' = Kept!Depth(t, l) -
        (IF t = withUntaken[n].side /\ l = withUntaken[n].px THEN q ELSE 0)
  BY <1>1, <1>3, <1>4, Kept!ReduceDepth, SpanAssumption, MaxOrdersAssumption,
     PriceSlackAssumption, MaxQtyAssumption
<1>6. \A t, l : Kept!Depth(t, l)' = Kept!Depth(t, l) -
        (IF t = order[n].side /\ l = order[n].px THEN q ELSE 0)
  BY <1>4, <1>5
<1>7. bids \in [Levels -> Nat] /\ asks \in [Levels -> Nat]
  BY KeptShown
<1>8. bids' \in [Levels -> Int] /\ asks' \in [Levels -> Int]
  BY <1>4, <1>7 DEF Side
<1>9. ShowsKept'
  BY <1>4, <1>6, <1>7 DEF Side, DayExact, ShowsKept
<1>10. \A k \in OrderNo :
         /\ k \notin S => seq_pxs'[k] = seq_pxs[k]
         /\ k \in S => k = n /\ seq_pxs'[k] = NoSlot
                      /\ order'[n].qty + untaken'[n] = 0
  BY <1>9 DEF Erase
<1>11. seq_pxs' \in [OrderNo -> Slot \cup {NoSlot}]
  BY <1>10 DEF Erase, DayExact
<1>12. order'[n].side = order[n].side /\ order'[n].px = order[n].px
  BY <1>3, <1>4 DEF Reduce, KeptSums
<1>13. NewUnused'
  <2>1. n < nextNo
    BY <1>4 DEF DayExact, NewUnused, ExchangeTypeOK, OrderNo
  <2> QED
    BY <1>1, <1>10, <2>1 DEF DayExact, NewUnused, OrderNo
<1>14. KeptIndexed'
  <2>1. SUFFICES ASSUME NEW k \in OrderNo, order'[k].qty + untaken'[k] > 0
                 PROVE  seq_pxs'[k]
                          = [side |-> order'[k].side, lvl |-> order'[k].px]
    BY DEF KeptIndexed
  <2>2. k \notin S
    BY <1>10, <2>1
  <2>3. order[k].qty + untaken[k] > 0
    BY <1>1, <1>3, <2>1 DEF KeptSums
  <2>4. order'[k].side = order[k].side /\ order'[k].px = order[k].px
    BY <1>1, <1>12
  <2> QED
    BY <1>10, <2>2, <2>3, <2>4 DEF DayExact, KeptIndexed
<1> QED
  BY <1>2, <1>8, <1>9, <1>11, <1>13, <1>14 DEF DayExact

-----------------------------------------------------------------------------
\* A deletion keeps the invariant: the level holds what is deleted, so that
\* nothing is clamped.
LEMMA DeleteExact ==
  ASSUME DayExact, NEW n \in OrderNo, order[n].qty > 0,
         Reduce({n}, order[n].qty), onOrderSH(DelMsg(n)), untaken' = untaken
  PROVE  DayExact'
<1> DEFINE q == order[n].qty
           p == order[n].px
<1>1. /\ q \in Nat /\ untaken[n] \in Nat /\ p \in Levels
      /\ bids \in [Levels -> Nat] /\ asks \in [Levels -> Nat]
  BY KeptOrder, KeptShown DEF DayExact, KeptSums
<1>2. /\ order[n].side = "B" => q + untaken[n] <= bids[p]
      /\ order[n].side = "S" => q + untaken[n] <= asks[p]
  BY KeptShown
<1>3. /\ order[n].side = "B"
           => bids' = [bids EXCEPT ![p] = Clamp(@ - q)] /\ asks' = asks
      /\ order[n].side = "S"
           => asks' = [asks EXCEPT ![p] = Clamp(@ - q)] /\ bids' = bids
      /\ seq_pxs' = seq_pxs
  BY DEF onOrderSH, DelMsg, AddBuySH, AddSellSH, DelBuySH, DelSellSH
<1>4. /\ order[n].side = "B" => Clamp(bids[p] - q) = bids[p] - q
      /\ order[n].side = "S" => Clamp(asks[p] - q) = asks[p] - q
  BY <1>1, <1>2 DEF Clamp
<1>5. /\ order[n].side = "B"
           => bids' = [bids EXCEPT ![p] = @ - q] /\ asks' = asks
      /\ order[n].side = "S"
           => asks' = [asks EXCEPT ![p] = @ - q] /\ bids' = bids
  BY <1>3, <1>4
<1>6. seq_pxs' = Erase({})
  BY <1>3 DEF DayExact, Erase
<1> HIDE DEF q, p
<1>7. q <= order[n].qty /\ q > 0 /\ Reduce({n}, q)
  BY <1>1 DEF q
<1> QED
  BY <1>1, <1>5, <1>6, <1>7, TakeExact DEF p

\* A trade of an order that rests keeps the invariant.  The number leaves the
\* index with its level's last quantity, when nothing is kept of it.
LEMMA TradeExact ==
  ASSUME DayExact, NEW n \in OrderNo, NEW q \in 1 .. MaxQty,
         q <= order[n].qty, Reduce({n}, q), onTradeSH(TradeMsg(n, q)),
         untaken' = untaken
  PROVE  DayExact'
<1> DEFINE p == order[n].px
           S == Emptied(TradeMsg(n, q))
<1>1. /\ q \in Nat /\ q > 0 /\ order[n].qty \in Nat /\ untaken[n] \in Nat
      /\ p \in Levels /\ order[n].side \in Side
      /\ bids \in [Levels -> Nat] /\ asks \in [Levels -> Nat]
  BY MaxQtyAssumption, KeptOrder, KeptShown DEF DayExact, KeptSums
<1>2. seq_pxs[n] = [side |-> order[n].side, lvl |-> p]
  BY <1>1 DEF DayExact, KeptIndexed
<1>3. Indexed(n) /\ seq_pxs[n].lvl = p
  BY <1>1, <1>2 DEF Indexed, NoSlot, Side
<1>4. ~ Indexed(nextNo)
  BY DEF Indexed, DayExact, NewUnused, ExchangeTypeOK, OrderNo
<1>5. seq_pxs' = Erase(S)
  BY DEF onTradeSH, TradeMsg
<1>6. /\ ExchangeTypeOK' /\ order'[n].qty = order[n].qty - q
      /\ order'[n].side = order[n].side /\ order'[n].px = p
  BY <1>1, KeptReduce DEF Reduce, DayExact, ExchangeTypeOK
<1>7. CASE order[n].side = "B"
  <2>1. TradeMsg(n, q) = [TradeBuyNo |-> n, TradeSellNo |-> nextNo,
                          LastQty |-> q, TradeBSFlag |-> "S"]
    BY <1>7 DEF TradeMsg
  <2>2. TakeBuySH(n, q) /\ TakeSellSH(nextNo, q)
    BY <2>1 DEF onTradeSH
  <2>3. bids' = [bids EXCEPT ![p] = @ - q] /\ asks' = asks
    BY <1>3, <1>4, <2>2 DEF TakeBuySH, TakeSellSH
  <2>4. \A k \in S \cap OrderNo : k = n /\ bids[p] <= q
    BY <1>3, <1>4, <2>1 DEF Emptied
  <2>5. bids[p] <= q => order'[n].qty + untaken'[n] = 0
    BY <1>1, <1>6, <1>7, KeptShown
  <2> HIDE DEF p, S
  <2> QED
    BY <1>1, <1>5, <1>7, <2>3, <2>4, <2>5, TakeExact DEF p
<1>8. CASE order[n].side = "S"
  <2>1. TradeMsg(n, q) = [TradeBuyNo |-> nextNo, TradeSellNo |-> n,
                          LastQty |-> q, TradeBSFlag |-> "B"]
    BY <1>8 DEF TradeMsg
  <2>2. TakeBuySH(nextNo, q) /\ TakeSellSH(n, q)
    BY <2>1 DEF onTradeSH
  <2>3. asks' = [asks EXCEPT ![p] = @ - q] /\ bids' = bids
    BY <1>3, <1>4, <2>2 DEF TakeBuySH, TakeSellSH
  <2>4. \A k \in S \cap OrderNo : k = n /\ asks[p] <= q
    BY <1>3, <1>4, <2>1 DEF Emptied
  <2>5. asks[p] <= q => order'[n].qty + untaken'[n] = 0
    BY <1>1, <1>6, <1>8, KeptShown
  <2> HIDE DEF p, S
  <2> QED
    BY <1>1, <1>5, <1>8, <2>3, <2>4, <2>5, TakeExact DEF p
<1> QED
  BY <1>1, <1>7, <1>8 DEF Side

\* What an auction's trade does to the orders and the account: what is kept of
\* each order stays.
LEMMA UncrossOrders ==
  ASSUME ExchangeTypeOK, untaken \in [OrderNo -> Nat],
         NEW b \in Resting("B"), NEW s \in Resting("S"),
         NEW q \in Nat, q <= order[b].qty, q <= order[s].qty,
         Reduce({b, s}, q),
         untaken' = [untaken EXCEPT ![b] = @ + q, ![s] = @ + q]
  PROVE  /\ ExchangeTypeOK' /\ untaken' \in [OrderNo -> Nat]
         /\ nextNo' = nextNo /\ b \in OrderNo /\ s \in OrderNo
         /\ order[b].qty > 0 /\ order[s].qty > 0
         /\ \A n \in OrderNo :
              /\ order'[n].side = order[n].side /\ order'[n].px = order[n].px
              /\ order'[n].qty + untaken'[n] = order[n].qty + untaken[n]
              /\ n \notin {b, s}
                   => order'[n].qty = order[n].qty /\ untaken'[n] = untaken[n]
<1>1. /\ b \in OrderNo /\ s \in OrderNo /\ b # s
      /\ order[b].qty > 0 /\ order[s].qty > 0
  BY DEF Resting
<1>2. {b, s} \in SUBSET OrderNo /\ \A k \in {b, s} : q <= order[k].qty
  BY <1>1
<1>3. /\ ExchangeTypeOK' /\ nextNo' = nextNo
      /\ \A k \in OrderNo :
           /\ order'[k].side = order[k].side /\ order'[k].px = order[k].px
           /\ order'[k].qty
                = order[k].qty - (IF k \in {b, s} THEN q ELSE 0)
  BY <1>2, ReduceOrders
<1>4. \A n \in OrderNo : order[n].qty \in Nat /\ untaken[n] \in Nat
  BY DEF ExchangeTypeOK
<1>5. \A n \in OrderNo :
        untaken'[n] = untaken[n] + (IF n \in {b, s} THEN q ELSE 0)
  BY <1>1, <1>4
<1>6. untaken' \in [OrderNo -> Nat]
  BY <1>1, <1>4
<1> QED
  BY <1>1, <1>3, <1>4, <1>5, <1>6

\* An auction's trade, which the handler ignores, leaves what is kept alone.
LEMMA UncrossExact ==
  ASSUME DayExact, NEW b \in Resting("B"), NEW s \in Resting("S"),
         NEW q \in Nat, q <= order[b].qty, q <= order[s].qty,
         Reduce({b, s}, q), UNCHANGED bookVars,
         untaken' = [untaken EXCEPT ![b] = @ + q, ![s] = @ + q]
  PROVE  DayExact'
<1>1. ExchangeTypeOK /\ untaken \in [OrderNo -> Nat]
  BY DEF DayExact
<1>2. \A n \in OrderNo : order[n].qty \in Nat /\ untaken[n] \in Nat
  BY <1>1 DEF ExchangeTypeOK
<1>3. /\ ExchangeTypeOK' /\ untaken' \in [OrderNo -> Nat]
      /\ b \in OrderNo /\ s \in OrderNo
      /\ order[b].qty > 0 /\ order[s].qty > 0
      /\ \A n \in OrderNo :
           /\ order'[n].side = order[n].side /\ order'[n].px = order[n].px
           /\ order'[n].qty + untaken'[n] = order[n].qty + untaken[n]
           /\ n \notin {b, s}
                => order'[n].qty = order[n].qty /\ untaken'[n] = untaken[n]
  BY <1>1, UncrossOrders
<1>4. /\ nextNo' = nextNo /\ bids' = bids /\ asks' = asks
      /\ seq_pxs' = seq_pxs
  BY DEF Reduce, bookVars
<1>5. ExchangeTypeOK' /\ untaken' \in [OrderNo -> Nat]
  BY <1>3
<1>6. b < nextNo /\ s < nextNo
  BY <1>3 DEF DayExact, NewUnused, ExchangeTypeOK, OrderNo
<1>7. NewUnused'
  BY <1>3, <1>4, <1>6 DEF DayExact, NewUnused, ExchangeTypeOK, OrderNo
<1>8. KeptIndexed'
  BY <1>3, <1>4 DEF DayExact, KeptIndexed
<1>9. KeptSums /\ KeptSums'
  BY <1>5, KeptOrder, KeptOrderNext DEF DayExact
<1>10. ShowsKept'
  <2>1. ASSUME NEW n \in Kept!OrderNo
        PROVE  /\ withUntaken'[n].side = withUntaken[n].side
               /\ withUntaken'[n].px = withUntaken[n].px
               /\ withUntaken'[n].qty = withUntaken[n].qty
    <3>1. n \in OrderNo
      BY SameConstants
    <3>2. /\ withUntaken[n].side = order[n].side
          /\ withUntaken[n].px = order[n].px
          /\ withUntaken[n].qty = order[n].qty + untaken[n]
      BY <1>9, <3>1 DEF KeptSums
    <3>3. /\ withUntaken'[n].side = order'[n].side
          /\ withUntaken'[n].px = order'[n].px
          /\ withUntaken'[n].qty = order'[n].qty + untaken'[n]
      BY <1>9, <3>1 DEF KeptSums
    <3> QED
      BY <1>3, <3>1, <3>2, <3>3
  <2> SUFFICES \A t, l : Kept!Share(t, l)' = Kept!Share(t, l)
    BY <1>4 DEF Kept!Depth, DayExact, ShowsKept
  <2> QED
    BY <2>1 DEF Kept!Share
<1> QED
  BY <1>4, <1>5, <1>7, <1>8, <1>10 DEF DayExact

-----------------------------------------------------------------------------
\* The quantity of a match in an auction.
LEMMA UncrossQty ==
  ASSUME ExchangeTypeOK, NEW b \in Resting("B"), NEW s \in Resting("S"),
         NEW q, q = Min({order[b].qty, order[s].qty})
  PROVE  q \in Nat /\ q <= order[b].qty /\ q <= order[s].qty
<1>1. order[b].qty \in Nat /\ order[s].qty \in Nat
  BY DEF Resting, ExchangeTypeOK
<1>2. \E x \in {order[b].qty, order[s].qty} :
        \A y \in {order[b].qty, order[s].qty} : x <= y
  BY <1>1
<1> QED
  BY <1>1, <1>2 DEF Min

\* The empty books satisfy the invariant.
LEMMA StartExact ==
  ASSUME JoinInit
  PROVE  DayExact
<1>1. /\ Init /\ untaken = [n \in OrderNo |-> 0]
  BY DEF JoinInit, CallInit
<1>2. ExchangeTypeOK
  BY <1>1, InLimits, SpanAssumption, MaxOrdersAssumption
  DEF Init, ExchangeInit, ExchangeTypeOK, Side, Prices
<1>3. /\ bids \in [Levels -> Int] /\ asks \in [Levels -> Int]
      /\ seq_pxs \in [OrderNo -> Slot \cup {NoSlot}]
  BY <1>1 DEF Init, BookInit
<1>4. NewUnused /\ KeptIndexed
  BY <1>1 DEF Init, ExchangeInit, BookInit, NewUnused, KeptIndexed
<1>5. Kept!ExchangeTypeOK /\ KeptSums
  BY <1>1, <1>2, KeptOrder
<1>6. \A s : Kept!Resting(s) = {}
  BY <1>1, <1>5, SameConstants DEF Init, ExchangeInit, Kept!Resting, KeptSums
<1>7. \A s, l : Kept!Depth(s, l) = 0
  BY <1>5, <1>6, KeptDepth
<1>8. ShowsKept
  BY <1>1, <1>7 DEF Init, BookInit, ShowsKept
<1> QED
  BY <1>1, <1>2, <1>3, <1>4, <1>8 DEF DayExact

\* A step that leaves orders, account and arrays alone keeps it.
LEMMA IdleExact ==
  ASSUME DayExact, UNCHANGED <<vars, untaken>>
  PROVE  DayExact'
<1>1. /\ order' = order /\ nextNo' = nextNo /\ untaken' = untaken
      /\ bids' = bids /\ asks' = asks /\ seq_pxs' = seq_pxs
  BY DEF vars, exchangeVars, bookVars
<1>2. withUntaken' = withUntaken
  BY <1>1 DEF withUntaken
<1>3. ShowsKept'
  BY <1>1, <1>2 DEF DayExact, ShowsKept, Kept!Depth, Kept!Share
<1> QED
  BY <1>1, <1>3 DEF DayExact, ExchangeTypeOK, NewUnused, KeptIndexed

\* So does each step of a day.
LEMMA DayStepExact ==
  ASSUME DayExact, DayNext
  PROVE  DayExact'
<1>1. CASE CallQuote
  BY <1>1, EnterExact DEF CallQuote
<1>2. CASE CallCancel
  BY <1>2, DeleteExact DEF CallCancel, Cancel
<1>3. CASE CallMatch
  <2>1. PICK b \in Resting("B"), s \in Resting("S") :
          LET q == Min({order[b].qty, order[s].qty})
          IN  /\ Reduce({b, s}, q)
              /\ onTradeSH([TradeBuyNo |-> b, TradeSellNo |-> s, LastQty |-> q,
                            TradeBSFlag |-> "N"])
              /\ untaken' = [untaken EXCEPT ![b] = @ + q, ![s] = @ + q]
    BY <1>3 DEF CallMatch
  <2> DEFINE q == Min({order[b].qty, order[s].qty})
  <2>2. q \in Nat /\ q <= order[b].qty /\ q <= order[s].qty
    BY UncrossQty DEF DayExact
  <2>3. /\ UNCHANGED bookVars /\ Reduce({b, s}, q)
        /\ untaken' = [untaken EXCEPT ![b] = @ + q, ![s] = @ + q]
    BY <2>1 DEF onTradeSH
  <2> HIDE DEF q
  <2> QED
    BY <2>2, <2>3, UncrossExact
<1>4. CASE Open \/ Close
  BY <1>4, IdleExact DEF Open, Close
<1>5. CASE Trading /\ Quote
  BY <1>5, EnterExact DEF Trading, Quote
<1>6. CASE Trading /\ Cancel
  BY <1>6, DeleteExact DEF Trading, Cancel
<1>7. CASE Trading /\ Match
  BY <1>7, TradeExact DEF Trading, Match, AtBest
<1> QED
  BY <1>1, <1>2, <1>3, <1>4, <1>5, <1>6, <1>7 DEF DayNext, Trading, Next

\* What the invariant says in the account's terms.
LEMMA AccountRight ==
  ASSUME DayExact
  PROVE  Account!DepthExact /\ RestingIndexed
<1>1. Account!DepthExact
  BY SameDepth
  DEF DayExact, ShowsKept, Account!DepthExact, Account!Levels, Levels
<1>2. KeptSums
  BY KeptOrder DEF DayExact
<1>3. RestingIndexed
  BY <1>2 DEF DayExact, KeptIndexed, KeptSums, RestingIndexed
<1> QED
  BY <1>1, <1>3

\* DayInv is an invariant: a program that heard the first message has heard
\* every message since, and no step makes it one of those.
THEOREM DayInvariant == JoinSpec => []DayInv
<1>1. JoinInit => DayInv
  BY StartExact DEF DayInv
<1>2. DayInv /\ [JoinNext]_joinVars => DayInv'
  <2> SUFFICES ASSUME DayInv, [JoinNext]_joinVars, connected' = "first"
               PROVE  DayExact'
    BY DEF DayInv, FromTheStart
  <2>1. CASE Connect \/ UnheardNext
    BY <2>1 DEF Connect, UnheardNext, UnheardQuote, UnheardCancel,
                UnheardMatch, UnheardUncross, Unheard
  <2>2. CASE HeardNext
    BY <2>2, DayStepExact DEF HeardNext, DayInv, FromTheStart
  <2>3. CASE UNCHANGED joinVars
    BY <2>3, IdleExact DEF joinVars, dayVars, DayInv, FromTheStart
  <2> QED
    BY <2>1, <2>2, <2>3 DEF JoinNext
<1> QED
  BY <1>1, <1>2, PTL DEF JoinSpec

\* Over whole days, each level shows exactly what rests there and what the
\* auctions' trades took from there, for any numbers of levels, orders and auctions:
\* that onTradeSH leaves those trades out is all that is ever wrong with a depth.
THEOREM AuctionsAccounted == JoinSpec => []AuctionAccount
<1>1. DayInv => AuctionAccount
  BY AccountRight DEF DayInv, AuctionAccount
<1> QED
  BY <1>1, DayInvariant, PTL

\* Over whole days no order that rests leaves the index, although the handler
\* takes an order out by its level's quantity, and auctions leave that wrong.
THEOREM DayIndexCorrect == JoinSpec => []DayIndexed
<1>1. DayInv => DayIndexed
  BY AccountRight DEF DayInv, DayIndexed
<1> QED
  BY <1>1, DayInvariant, PTL

-----------------------------------------------------------------------------
(***************************************************************************)
(* A program that was started late.  What it can show is bounded by the    *)
(* orders that are in its index, as they would be without the auctions'    *)
(* trades: an order from before the start is not among them, whatever its  *)
(* deletion or its trades take from the book.                              *)
(***************************************************************************)
heard ==
  [n \in OrderNo |->
     [order[n] EXCEPT !.qty =
        IF seq_pxs[n] = NoSlot THEN 0 ELSE @ + untaken[n]]]

Heard == INSTANCE BookLemmas WITH order <- heard

\* The index names the orders' own sides and levels.
IndexRight ==
  \A n \in OrderNo : seq_pxs[n] # NoSlot =>
    seq_pxs[n] = [side |-> order[n].side, lvl |-> order[n].px]

NoMoreThanHeard ==
  \A l \in Levels : /\ bids[l] <= Heard!Depth("B", l)
                    /\ asks[l] <= Heard!Depth("S", l)

NothingHeard ==
  /\ \A l \in Levels : bids[l] = 0 /\ asks[l] = 0
  /\ \A n \in OrderNo : seq_pxs[n] = NoSlot

\* The inductive invariant.
LateInv ==
  /\ ExchangeTypeOK
  /\ untaken \in [OrderNo -> Nat]
  /\ bids \in [Levels -> Int] /\ asks \in [Levels -> Int]
  /\ seq_pxs \in [OrderNo -> Slot \cup {NoSlot}]
  /\ NewUnused
  /\ IndexRight
  /\ NoMoreThanHeard
  /\ connected = "no" => NothingHeard

HeardSums ==
  \A n \in OrderNo :
    /\ order[n] \in [side: Side, px: Levels, qty: Nat]
    /\ untaken[n] \in Nat
    /\ heard[n].side = order[n].side
    /\ heard[n].px = order[n].px
    /\ heard[n].qty =
         IF seq_pxs[n] = NoSlot THEN 0 ELSE order[n].qty + untaken[n]

LEMMA HeardOrder ==
  ExchangeTypeOK /\ untaken \in [OrderNo -> Nat]
    => Heard!ExchangeTypeOK /\ HeardSums
<1> SUFFICES ASSUME ExchangeTypeOK, untaken \in [OrderNo -> Nat]
             PROVE  Heard!ExchangeTypeOK /\ HeardSums
  OBVIOUS
<1>1. ASSUME NEW n \in OrderNo
      PROVE  /\ order[n] \in [side: Side, px: Levels, qty: Nat]
             /\ untaken[n] \in Nat
             /\ heard[n] \in [side: Side, px: Levels, qty: Nat]
             /\ heard[n].side = order[n].side
             /\ heard[n].px = order[n].px
             /\ heard[n].qty =
                  IF seq_pxs[n] = NoSlot THEN 0 ELSE order[n].qty + untaken[n]
  <2> DEFINE x == IF seq_pxs[n] = NoSlot THEN 0 ELSE order[n].qty + untaken[n]
  <2>1. /\ order[n] \in [side: Side, px: Levels, qty: Nat]
        /\ untaken[n] \in Nat
    BY SameConstants DEF ExchangeTypeOK
  <2>2. heard[n] = [order[n] EXCEPT !.qty = x]
    BY DEF heard
  <2>3. x \in Nat /\ order[n].side \in Side /\ order[n].px \in Levels
    BY <2>1
  <2> HIDE DEF x
  <2>4. heard[n] = [side |-> order[n].side, px |-> order[n].px, qty |-> x]
    BY <2>1, <2>2
  <2>5. heard[n].qty = x
    BY <2>4
  <2> QED
    BY <2>1, <2>3, <2>4, <2>5 DEF x
<1>2. heard \in [OrderNo -> [side: Side, px: Levels, qty: Nat]]
  BY <1>1 DEF heard
<1>3. /\ Heard!Side = Side /\ Heard!Prices = Levels
      /\ Heard!OrderNo = OrderNo /\ Prices = Levels
  BY SameConstants
  DEF Heard!Side, Heard!Prices, Heard!OrderNo, Side, Prices, OrderNo
<1>4. Heard!ExchangeTypeOK
  BY <1>2, <1>3 DEF Heard!ExchangeTypeOK, ExchangeTypeOK
<1> QED
  BY <1>1, <1>4 DEF HeardSums

LEMMA HeardOrderNext ==
  (ExchangeTypeOK /\ untaken \in [OrderNo -> Nat])'
    => (Heard!ExchangeTypeOK /\ HeardSums)'
BY HeardOrder, PTL

LEMMA HeardDepth == Heard!ExchangeTypeOK => \A s, l : Heard!Depth(s, l) \in Nat
BY Heard!DepthLaws, SpanAssumption, MaxOrdersAssumption,
   PriceSlackAssumption, MaxQtyAssumption

LEMMA HeardDepthNext ==
  Heard!ExchangeTypeOK' => (\A s, l : Heard!Depth(s, l) \in Nat)'
BY HeardDepth, PTL

\* A new order that is heard.
LEMMA EnterHeard ==
  ASSUME LateInv, connected' # "no",
         NEW s \in Side, NEW p \in Levels, NEW q \in 1 .. MaxQty,
         Enter(s, p, q), onOrderSH(AddMsg(s, p, q)), untaken' = untaken
  PROVE  LateInv'
<1>1. q \in Nat /\ Prices = Levels
  BY MaxQtyAssumption, SameConstants
<1>2. /\ ExchangeTypeOK' /\ nextNo \in OrderNo /\ nextNo' = nextNo + 1
      /\ \A n \in OrderNo : order'[n] =
           IF n = nextNo THEN [side |-> s, px |-> p, qty |-> q] ELSE order[n]
  BY <1>1, EnterOrders DEF LateInv
<1>3. /\ seq_pxs' = [seq_pxs EXCEPT ![nextNo] = [side |-> s, lvl |-> p]]
      /\ s = "B" => bids' = [bids EXCEPT ![p] = @ + q] /\ asks' = asks
      /\ s = "S" => asks' = [asks EXCEPT ![p] = @ + q] /\ bids' = bids
  BY DEF onOrderSH, AddMsg, AddBuySH, AddSellSH, DelBuySH, DelSellSH
<1>4. \A n \in OrderNo :
        seq_pxs'[n] = IF n = nextNo THEN [side |-> s, lvl |-> p] ELSE seq_pxs[n]
  BY <1>3 DEF LateInv
<1>5. /\ seq_pxs' \in [OrderNo -> Slot \cup {NoSlot}]
      /\ [side |-> s, lvl |-> p] # NoSlot
  <2>1. [side |-> s, lvl |-> p] \in Slot
    BY DEF Slot
  <2>2. [side |-> s, lvl |-> p].side # NoSlot.side
    BY DEF NoSlot, Side
  <2> QED
    BY <1>3, <2>1, <2>2 DEF LateInv
<1>6. bids' \in [Levels -> Int] /\ asks' \in [Levels -> Int]
  BY <1>1, <1>3 DEF LateInv, Side
<1>7. (ExchangeTypeOK /\ untaken \in [OrderNo -> Nat])'
  BY <1>2 DEF LateInv
<1>8. /\ Heard!ExchangeTypeOK /\ HeardSums
      /\ Heard!ExchangeTypeOK' /\ HeardSums'
  BY <1>7, HeardOrder, HeardOrderNext DEF LateInv
<1>9. NewUnused' /\ IndexRight'
  BY <1>2, <1>4 DEF LateInv, NewUnused, IndexRight, OrderNo
<1>10. order[nextNo].qty = 0 /\ untaken[nextNo] = 0 /\ seq_pxs[nextNo] = NoSlot
  BY <1>2 DEF LateInv, NewUnused, OrderNo
<1>11. ASSUME NEW n \in OrderNo
       PROVE  heard'[n] = IF n = nextNo THEN [side |-> s, px |-> p, qty |-> q]
                                        ELSE heard[n]
  <2>1. heard'[n] = [order'[n] EXCEPT !.qty =
          IF seq_pxs'[n] = NoSlot THEN 0 ELSE @ + untaken[n]]
    BY DEF heard
  <2>2. CASE n = nextNo
    BY <1>1, <1>2, <1>4, <1>5, <1>10, <2>1, <2>2
  <2>3. CASE n # nextNo
    BY <1>2, <1>4, <2>1, <2>3 DEF heard
  <2> QED
    BY <2>2, <2>3
<1>12. Heard!OrderNo = OrderNo
  BY DEF Heard!OrderNo, OrderNo
<1>13. heard' = [heard EXCEPT ![nextNo] = [side |-> s, px |-> p, qty |-> q]]
  BY <1>11 DEF heard
<1>14. Heard!Enter(s, p, q) /\ heard[nextNo].qty = 0
  BY <1>2, <1>8, <1>10, <1>12, <1>13 DEF Heard!Enter, HeardSums
<1>15. \A t, l : Heard!Depth(t, l)' =
         Heard!Depth(t, l) + (IF t = s /\ l = p THEN q ELSE 0)
  BY <1>1, <1>8, <1>14, Heard!EnterDepth, SpanAssumption, MaxOrdersAssumption,
     PriceSlackAssumption, MaxQtyAssumption
<1>16. NoMoreThanHeard'
  <2>1. \A t, l : Heard!Depth(t, l) \in Nat
    BY <1>8, HeardDepth
  <2> QED
    BY <1>1, <1>3, <1>15, <2>1 DEF LateInv, NoMoreThanHeard, Side
<1> QED
  BY <1>5, <1>6, <1>7, <1>9, <1>16 DEF LateInv

\* What a message takes from one order and one level: where x is what the order
\* heard loses, the level loses x, or it shows nothing.
LEMMA TakeHeard ==
  ASSUME LateInv, connected' # "no",
         NEW n \in OrderNo, NEW q \in Nat, q > 0, q <= order[n].qty,
         Reduce({n}, q), untaken' = untaken,
         NEW S, seq_pxs' = Erase(S), S \cap OrderNo \in SUBSET {n},
         NEW x, x = IF seq_pxs[n] = NoSlot THEN 0
                    ELSE IF n \in S THEN order[n].qty + untaken[n] ELSE q,
         NEW d \in Int,
         order[n].side = "B" => /\ bids' = [bids EXCEPT ![order[n].px] = d]
                                /\ d <= 0 \/ d <= bids[order[n].px] - x
                                /\ asks' = asks,
         order[n].side = "S" => /\ asks' = [asks EXCEPT ![order[n].px] = d]
                                /\ d <= 0 \/ d <= asks[order[n].px] - x
                                /\ bids' = bids
  PROVE  LateInv'
<1>1. /\ ExchangeTypeOK' /\ nextNo' = nextNo
      /\ \A k \in OrderNo :
           /\ order'[k].side = order[k].side /\ order'[k].px = order[k].px
           /\ order'[k].qty = order[k].qty - (IF k \in {n} THEN q ELSE 0)
  <2>1. /\ ExchangeTypeOK /\ {n} \in SUBSET OrderNo
        /\ \A k \in {n} : q <= order[k].qty
    BY DEF LateInv
  <2> QED
    BY ONLY <2>1, q \in Nat, Reduce({n}, q), ReduceOrders
<1>2. (ExchangeTypeOK /\ untaken \in [OrderNo -> Nat])'
  BY <1>1 DEF LateInv
<1>3. /\ Heard!ExchangeTypeOK /\ HeardSums
      /\ Heard!ExchangeTypeOK' /\ HeardSums'
  BY <1>2, HeardOrder, HeardOrderNext DEF LateInv
<1>4. \A k \in OrderNo : seq_pxs'[k] = IF k \in S THEN NoSlot ELSE seq_pxs[k]
  BY DEF Erase
<1>5. seq_pxs' \in [OrderNo -> Slot \cup {NoSlot}]
  BY <1>4 DEF Erase, LateInv
<1>6. /\ order[n].side \in Side /\ order[n].px \in Levels
      /\ order[n].qty \in Nat /\ untaken[n] \in Nat /\ x \in Nat
  BY <1>3 DEF HeardSums
<1>7. n < nextNo /\ n \in Int /\ nextNo \in Int
  BY <1>6 DEF LateInv, NewUnused, ExchangeTypeOK, OrderNo
<1>8. NewUnused'
  BY <1>1, <1>4, <1>7 DEF LateInv, NewUnused, OrderNo
<1>9. IndexRight'
  BY <1>1, <1>4 DEF LateInv, IndexRight
<1>10. ASSUME NEW k \in OrderNo
       PROVE  /\ heard'[k].side = heard[k].side /\ heard'[k].px = heard[k].px
              /\ heard'[k].qty = heard[k].qty - (IF k = n THEN x ELSE 0)
  <2>1. /\ heard'[k].side = heard[k].side /\ heard'[k].px = heard[k].px
        /\ heard[k].qty \in Nat
    BY <1>1, <1>3 DEF HeardSums
  <2>2. CASE k # n
    <3>1. k \notin S /\ seq_pxs'[k] = seq_pxs[k] /\ order'[k].qty = order[k].qty
      BY <1>1, <1>3, <1>4, <2>2 DEF HeardSums
    <3>2. heard'[k].qty = heard[k].qty
      BY <1>3, <3>1 DEF HeardSums
    <3> QED
      BY <2>1, <2>2, <3>2
  <2>3. CASE k = n
    <3>1. order'[n].qty = order[n].qty - q
      BY <1>1
    <3>2. heard'[n].qty =
            IF seq_pxs'[n] = NoSlot THEN 0 ELSE order'[n].qty + untaken[n]
      BY <1>3 DEF HeardSums
    <3>3. heard[n].qty =
            IF seq_pxs[n] = NoSlot THEN 0 ELSE order[n].qty + untaken[n]
      BY <1>3 DEF HeardSums
    <3>4. heard'[n].qty = heard[n].qty - x
      BY <1>4, <1>6, <3>1, <3>2, <3>3
    <3> QED
      BY <2>1, <2>3, <3>4
  <2> QED
    BY <2>2, <2>3
<1>11. heard[n].side = order[n].side /\ heard[n].px = order[n].px
  BY <1>3 DEF HeardSums
<1>12. Heard!OrderNo = OrderNo
  BY DEF Heard!OrderNo, OrderNo
<1>13. \A t, l : Heard!Depth(t, l)' = Heard!Depth(t, l) -
         (IF order[n].side = t /\ l = order[n].px THEN x ELSE 0)
  BY <1>3, <1>6, <1>10, <1>11, <1>12, Heard!SideDepth, SpanAssumption,
     MaxOrdersAssumption, PriceSlackAssumption, MaxQtyAssumption
<1>14. /\ \A t, l : Heard!Depth(t, l) \in Nat
       /\ \A t, l : Heard!Depth(t, l)' \in Nat
  BY <1>3, HeardDepth, HeardDepthNext
<1> DEFINE p == order[n].px
<1>15. NoMoreThanHeard'
  <2>1. SUFFICES ASSUME NEW l \in Levels
                 PROVE  /\ bids'[l] <= Heard!Depth("B", l)'
                        /\ asks'[l] <= Heard!Depth("S", l)'
    BY DEF NoMoreThanHeard
  <2>2. /\ bids[l] <= Heard!Depth("B", l) /\ asks[l] <= Heard!Depth("S", l)
        /\ bids[l] \in Int /\ asks[l] \in Int
    BY DEF LateInv, NoMoreThanHeard
  <2>3. CASE order[n].side = "B"
    <3>1. Heard!Depth("S", l)' = Heard!Depth("S", l)
      BY <1>13, <1>14, <2>3
    <3>2. asks'[l] = asks[l] /\ bids'[l] = IF l = p THEN d ELSE bids[l]
      BY <1>6, <2>3 DEF LateInv
    <3>3. Heard!Depth("B", l)' = Heard!Depth("B", l) - (IF l = p THEN x ELSE 0)
      BY <1>13, <2>3
    <3>4. d <= 0 \/ d <= bids[p] - x
      BY <2>3
    <3> HIDE DEF p
    <3> QED
      BY <1>6, <1>14, <2>2, <3>1, <3>2, <3>3, <3>4
  <2>4. CASE order[n].side = "S"
    <3>1. Heard!Depth("B", l)' = Heard!Depth("B", l)
      BY <1>13, <1>14, <2>4
    <3>2. bids'[l] = bids[l] /\ asks'[l] = IF l = p THEN d ELSE asks[l]
      BY <1>6, <2>4 DEF LateInv
    <3>3. Heard!Depth("S", l)' = Heard!Depth("S", l) - (IF l = p THEN x ELSE 0)
      BY <1>13, <2>4
    <3>4. d <= 0 \/ d <= asks[p] - x
      BY <2>4
    <3> HIDE DEF p
    <3> QED
      BY <1>6, <1>14, <2>2, <3>1, <3>2, <3>3, <3>4
  <2> QED
    BY <1>6, <2>3, <2>4 DEF Side
<1>16. bids' \in [Levels -> Int] /\ asks' \in [Levels -> Int]
  BY <1>6 DEF LateInv, Side
<1> QED
  BY <1>2, <1>5, <1>8, <1>9, <1>15, <1>16 DEF LateInv

-----------------------------------------------------------------------------
\* A deletion that is heard goes by the message's price: it takes from the level
\* whether or not the order was heard, and clamps what it leaves.
LEMMA DeleteHeard ==
  ASSUME LateInv, connected' # "no", NEW n \in OrderNo, order[n].qty > 0,
         Reduce({n}, order[n].qty), onOrderSH(DelMsg(n)), untaken' = untaken
  PROVE  LateInv'
<1> DEFINE q == order[n].qty
           p == order[n].px
           d == Clamp((IF order[n].side = "B" THEN bids[p] ELSE asks[p]) - q)
           S == {}
           x == IF seq_pxs[n] = NoSlot THEN 0
                ELSE IF n \in S THEN order[n].qty + untaken[n] ELSE q
<1>1. /\ q \in Nat /\ p \in Levels /\ bids[p] \in Int /\ asks[p] \in Int
      /\ order[n].side \in Side
      /\ bids \in [Levels -> Int] /\ asks \in [Levels -> Int]
  <2>1. HeardSums
    BY HeardOrder DEF LateInv
  <2> QED
    BY <2>1 DEF HeardSums, LateInv
<1>2. /\ order[n].side = "B"
           => bids' = [bids EXCEPT ![p] = Clamp(@ - q)] /\ asks' = asks
      /\ order[n].side = "S"
           => asks' = [asks EXCEPT ![p] = Clamp(@ - q)] /\ bids' = bids
      /\ seq_pxs' = seq_pxs
  BY DEF onOrderSH, DelMsg, AddBuySH, AddSellSH, DelBuySH, DelSellSH
<1>3. /\ order[n].side = "B" => /\ bids' = [bids EXCEPT ![p] = d]
                                /\ d <= 0 \/ d <= bids[p] - q
                                /\ asks' = asks
      /\ order[n].side = "S" => /\ asks' = [asks EXCEPT ![p] = d]
                                /\ d <= 0 \/ d <= asks[p] - q
                                /\ bids' = bids
      /\ d \in Int
  BY <1>1, <1>2 DEF Clamp
<1>4. seq_pxs' = Erase(S)
  BY <1>2 DEF LateInv, Erase
<1>5. q > 0 /\ q <= order[n].qty /\ Reduce({n}, q)
      /\ S \cap OrderNo \in SUBSET {n} /\ x \in Int /\ x <= q
  BY <1>1
<1> HIDE DEF d, q, S
<1>6. /\ order[n].side = "B" => d <= 0 \/ d <= bids[p] - x
      /\ order[n].side = "S" => d <= 0 \/ d <= asks[p] - x
  BY <1>1, <1>3, <1>5
<1>7. x = IF seq_pxs[n] = NoSlot THEN 0
           ELSE IF n \in S THEN order[n].qty + untaken[n] ELSE q
  OBVIOUS
<1> HIDE DEF x
<1>8. CASE order[n].side = "B"
  <2>1. order[n].side # "S"
    BY <1>8
  <2> QED
    BY <1>1, <1>3, <1>4, <1>5, <1>6, <1>7, <1>8, <2>1, TakeHeard
<1>9. CASE order[n].side = "S"
  <2>1. order[n].side # "B"
    BY <1>9
  <2> QED
    BY <1>1, <1>3, <1>4, <1>5, <1>6, <1>7, <1>9, <2>1, TakeHeard
<1> QED
  BY <1>1, <1>8, <1>9 DEF Side

\* A trade that is heard takes from the order's level if the order was heard,
\* and nothing otherwise.
LEMMA TradeHeard ==
  ASSUME LateInv, connected' # "no", NEW n \in OrderNo, NEW q \in 1 .. MaxQty,
         q <= order[n].qty, Reduce({n}, q), onTradeSH(TradeMsg(n, q)),
         untaken' = untaken
  PROVE  LateInv'
<1> DEFINE p == order[n].px
           S == Emptied(TradeMsg(n, q))
           have == IF order[n].side = "B" THEN bids[p] ELSE asks[p]
           d == IF seq_pxs[n] = NoSlot THEN have ELSE have - q
           x == IF seq_pxs[n] = NoSlot THEN 0
                ELSE IF n \in S THEN order[n].qty + untaken[n] ELSE q
<1>1. /\ q \in Nat /\ q > 0 /\ p \in Levels /\ order[n].side \in Side
      /\ bids \in [Levels -> Int] /\ asks \in [Levels -> Int]
      /\ have \in Int /\ d \in Int
  <2>1. HeardSums
    BY HeardOrder DEF LateInv
  <2> QED
    BY <2>1, MaxQtyAssumption DEF HeardSums, LateInv
<1>2. seq_pxs[n] # NoSlot => Indexed(n) /\ seq_pxs[n].lvl = p
  BY DEF LateInv, IndexRight, Indexed
<1>3. seq_pxs[n] = NoSlot => ~ Indexed(n)
  BY DEF Indexed
<1>4. ~ Indexed(nextNo)
  BY DEF Indexed, LateInv, NewUnused, ExchangeTypeOK, OrderNo
<1>5. seq_pxs' = Erase(S)
  BY DEF onTradeSH, TradeMsg
<1>6. CASE order[n].side = "B"
  <2>1. TradeMsg(n, q) = [TradeBuyNo |-> n, TradeSellNo |-> nextNo,
                          LastQty |-> q, TradeBSFlag |-> "S"]
    BY <1>6 DEF TradeMsg
  <2>2. TakeBuySH(n, q) /\ TakeSellSH(nextNo, q)
    BY <2>1 DEF onTradeSH
  <2>3. bids' = [bids EXCEPT ![p] = d] /\ asks' = asks
    BY <1>1, <1>2, <1>3, <1>4, <1>6, <2>2 DEF TakeBuySH, TakeSellSH
  <2>4. S \cap OrderNo \in SUBSET {n}
        /\ (n \in S => seq_pxs[n] # NoSlot /\ bids[p] <= q)
    BY <1>2, <1>3, <1>4, <2>1 DEF Emptied
  <2>5. d <= 0 \/ d <= bids[p] - x
    BY <1>1, <1>6, <2>4
  <2>6. order[n].side # "S"
    BY <1>6
  <2> HIDE DEF S, d, have
  <2> QED
    BY <1>1, <1>5, <2>3, <2>4, <2>5, <2>6, TakeHeard
<1>7. CASE order[n].side = "S"
  <2>1. TradeMsg(n, q) = [TradeBuyNo |-> nextNo, TradeSellNo |-> n,
                          LastQty |-> q, TradeBSFlag |-> "B"]
    BY <1>7 DEF TradeMsg
  <2>2. TakeBuySH(nextNo, q) /\ TakeSellSH(n, q)
    BY <2>1 DEF onTradeSH
  <2>3. asks' = [asks EXCEPT ![p] = d] /\ bids' = bids
    BY <1>1, <1>2, <1>3, <1>4, <1>7, <2>2 DEF TakeBuySH, TakeSellSH
  <2>4. S \cap OrderNo \in SUBSET {n}
        /\ (n \in S => seq_pxs[n] # NoSlot /\ asks[p] <= q)
    BY <1>2, <1>3, <1>4, <2>1 DEF Emptied
  <2>5. d <= 0 \/ d <= asks[p] - x
    BY <1>1, <1>7, <2>4
  <2>6. order[n].side # "B"
    BY <1>7
  <2> HIDE DEF S, d, have
  <2> QED
    BY <1>1, <1>5, <2>3, <2>4, <2>5, <2>6, TakeHeard
<1> QED
  BY <1>1, <1>6, <1>7 DEF Side

\* The depths of the orders heard depend on these three alone.
LEMMA SameHeardDepth ==
  ASSUME HeardSums, HeardSums', seq_pxs' = seq_pxs,
         \A n \in OrderNo :
           /\ order'[n].side = order[n].side /\ order'[n].px = order[n].px
           /\ order'[n].qty + untaken'[n] = order[n].qty + untaken[n]
  PROVE  \A t, l : Heard!Depth(t, l)' = Heard!Depth(t, l)
<1>1. Heard!OrderNo = OrderNo
  BY DEF Heard!OrderNo, OrderNo
<1>2. ASSUME NEW n \in OrderNo
      PROVE  /\ heard'[n].side = heard[n].side /\ heard'[n].px = heard[n].px
             /\ heard'[n].qty = heard[n].qty
  BY DEF HeardSums
<1>3. \A t, l : Heard!Share(t, l)' = Heard!Share(t, l)
  BY <1>1, <1>2 DEF Heard!Share
<1> QED
  BY <1>3 DEF Heard!Depth

\* An auction's trade that is heard.
LEMMA UncrossHeard ==
  ASSUME LateInv, connected' = connected,
         NEW b \in Resting("B"), NEW s \in Resting("S"),
         NEW q \in Nat, q <= order[b].qty, q <= order[s].qty,
         Reduce({b, s}, q), UNCHANGED bookVars,
         untaken' = [untaken EXCEPT ![b] = @ + q, ![s] = @ + q]
  PROVE  LateInv'
<1>1. ExchangeTypeOK /\ untaken \in [OrderNo -> Nat]
  BY DEF LateInv
<1>2. /\ ExchangeTypeOK' /\ untaken' \in [OrderNo -> Nat]
      /\ nextNo' = nextNo /\ b \in OrderNo /\ s \in OrderNo
      /\ order[b].qty > 0 /\ order[s].qty > 0
      /\ \A n \in OrderNo :
           /\ order'[n].side = order[n].side /\ order'[n].px = order[n].px
           /\ order'[n].qty + untaken'[n] = order[n].qty + untaken[n]
           /\ n \notin {b, s}
                => order'[n].qty = order[n].qty /\ untaken'[n] = untaken[n]
  BY <1>1, UncrossOrders
<1>3. bids' = bids /\ asks' = asks /\ seq_pxs' = seq_pxs
  BY DEF bookVars
<1>4. HeardSums /\ HeardSums'
  BY <1>1, <1>2, HeardOrder, HeardOrderNext
<1>5. \A t, l : Heard!Depth(t, l)' = Heard!Depth(t, l)
  BY <1>2, <1>3, <1>4, SameHeardDepth
<1>6. NoMoreThanHeard'
  BY <1>3, <1>5 DEF LateInv, NoMoreThanHeard
<1>7. b < nextNo /\ s < nextNo
  BY <1>2 DEF LateInv, NewUnused, ExchangeTypeOK, OrderNo
<1>8. NewUnused'
  BY <1>2, <1>3, <1>7 DEF LateInv, NewUnused, ExchangeTypeOK, OrderNo
<1>9. IndexRight'
  BY <1>2, <1>3 DEF LateInv, IndexRight
<1>10. connected' = "no" => NothingHeard'
  BY <1>3 DEF LateInv, NothingHeard
<1> QED
  BY <1>2, <1>3, <1>6, <1>8, <1>9, <1>10 DEF LateInv

-----------------------------------------------------------------------------
\* A step that only changes the exchange's phase, or nothing.
LEMMA IdleHeard ==
  ASSUME LateInv, UNCHANGED <<vars, untaken>>, connected' = connected
  PROVE  LateInv'
<1>1. /\ order' = order /\ nextNo' = nextNo /\ untaken' = untaken
      /\ bids' = bids /\ asks' = asks /\ seq_pxs' = seq_pxs
  BY DEF vars, exchangeVars, bookVars
<1>2. ExchangeTypeOK /\ ExchangeTypeOK' /\ (untaken \in [OrderNo -> Nat])'
  BY <1>1 DEF LateInv, ExchangeTypeOK
<1>3. HeardSums /\ HeardSums'
  BY <1>2, HeardOrder, HeardOrderNext DEF LateInv
<1>4. \A t, l : Heard!Depth(t, l)' = Heard!Depth(t, l)
  BY <1>1, <1>3, SameHeardDepth
<1>5. NoMoreThanHeard'
  BY <1>1, <1>4 DEF LateInv, NoMoreThanHeard
<1> QED
  BY <1>1, <1>2, <1>5 DEF LateInv, NewUnused, IndexRight, NothingHeard

\* A step of the exchange while the program is not connected: the book stays
\* empty.
LEMMA UnheardKeeps ==
  ASSUME LateInv, connected = "no", UNCHANGED <<bookVars, untaken>>,
         ExchangeTypeOK',
         \A n \in OrderNo : n >= nextNo' => n >= nextNo /\ order'[n].qty = 0
  PROVE  LateInv'
<1>1. /\ untaken' = untaken
      /\ bids' = bids /\ asks' = asks /\ seq_pxs' = seq_pxs
  BY DEF bookVars
<1>2. NothingHeard /\ NothingHeard'
  BY <1>1 DEF LateInv, NothingHeard
<1>3. NewUnused' /\ IndexRight'
  BY <1>1, <1>2 DEF LateInv, NewUnused, IndexRight, NothingHeard
<1>4. (ExchangeTypeOK /\ untaken \in [OrderNo -> Nat])'
  BY <1>1 DEF LateInv
<1>5. \A t, l : Heard!Depth(t, l)' \in Nat
  BY <1>4, HeardOrderNext, HeardDepthNext
<1>6. NoMoreThanHeard'
  BY <1>2, <1>5 DEF NoMoreThanHeard, NothingHeard
<1> QED
  BY <1>1, <1>2, <1>3, <1>4, <1>6 DEF LateInv

\* Orders that lose a quantity have a number that is given out.
LEMMA UnheardReduces ==
  ASSUME LateInv, connected = "no", UNCHANGED <<bookVars, untaken>>,
         NEW T \in SUBSET OrderNo, NEW q \in Nat, Reduce(T, q),
         \A k \in T : q <= order[k].qty
  PROVE  LateInv'
<1>1. /\ ExchangeTypeOK' /\ nextNo' = nextNo
      /\ \A k \in OrderNo :
           order'[k].qty = order[k].qty - (IF k \in T THEN q ELSE 0)
  BY ReduceOrders DEF LateInv
<1>2. \A n \in OrderNo : order'[n].qty \in Nat
  BY <1>1 DEF ExchangeTypeOK
<1>3. \A n \in OrderNo : n >= nextNo => order'[n].qty = 0
  BY <1>1, <1>2 DEF LateInv, NewUnused
<1> QED
  BY <1>1, <1>3, UnheardKeeps

-----------------------------------------------------------------------------
\* The steps the program hears.
LEMMA HeardStep ==
  ASSUME LateInv, HeardNext
  PROVE  LateInv'
<1>1. connected # "no" /\ connected' = connected /\ DayNext
  BY DEF HeardNext
<1>2. CASE CallQuote
  BY <1>1, <1>2, EnterHeard DEF CallQuote
<1>3. CASE CallCancel
  BY <1>1, <1>3, DeleteHeard DEF CallCancel, Cancel
<1>4. CASE CallMatch
  <2>1. PICK b \in Resting("B"), s \in Resting("S") :
          LET q == Min({order[b].qty, order[s].qty})
          IN  /\ Reduce({b, s}, q)
              /\ onTradeSH([TradeBuyNo |-> b, TradeSellNo |-> s, LastQty |-> q,
                            TradeBSFlag |-> "N"])
              /\ untaken' = [untaken EXCEPT ![b] = @ + q, ![s] = @ + q]
    BY <1>4 DEF CallMatch
  <2> DEFINE q == Min({order[b].qty, order[s].qty})
  <2>2. q \in Nat /\ q <= order[b].qty /\ q <= order[s].qty
    BY UncrossQty DEF LateInv
  <2>3. /\ UNCHANGED bookVars /\ Reduce({b, s}, q)
        /\ untaken' = [untaken EXCEPT ![b] = @ + q, ![s] = @ + q]
    BY <2>1 DEF onTradeSH
  <2> HIDE DEF q
  <2> QED
    BY <1>1, <2>2, <2>3, UncrossHeard
<1>5. CASE Open \/ Close
  BY <1>1, <1>5, IdleHeard DEF Open, Close
<1>6. CASE Trading /\ Quote
  BY <1>1, <1>6, EnterHeard DEF Trading, Quote
<1>7. CASE Trading /\ Cancel
  BY <1>1, <1>7, DeleteHeard DEF Trading, Cancel
<1>8. CASE Trading /\ Match
  BY <1>1, <1>8, TradeHeard DEF Trading, Match, AtBest
<1> QED
  BY <1>1, <1>2, <1>3, <1>4, <1>5, <1>6, <1>7, <1>8 DEF DayNext, Trading, Next

\* The steps it does not hear, its connecting among them.
LEMMA UnheardStep ==
  ASSUME LateInv, Connect \/ UnheardNext
  PROVE  LateInv'
<1>1. /\ connected = "no" /\ UNCHANGED <<bookVars, untaken>>
      /\ ExchangeTypeOK /\ NewUnused
  BY DEF Connect, UnheardNext, UnheardQuote, UnheardCancel, UnheardMatch,
         UnheardUncross, Unheard, dayVars, vars, LateInv
<1>2. CASE Connect \/ ((Open \/ Close) /\ Unheard)
  <2>1. order' = order /\ nextNo' = nextNo
    BY <1>2 DEF Connect, Open, Close, dayVars, vars, exchangeVars
  <2> QED
    BY <1>1, <2>1, UnheardKeeps DEF ExchangeTypeOK, NewUnused
<1>3. CASE UnheardQuote
  <2>1. PICK s \in Side, p \in Levels, q \in 1 .. MaxQty : Enter(s, p, q)
    BY <1>3 DEF UnheardQuote
  <2>2. p \in Prices /\ q \in Nat
    BY SameConstants, MaxQtyAssumption
  <2>3. /\ ExchangeTypeOK' /\ nextNo \in OrderNo /\ nextNo' = nextNo + 1
        /\ \A n \in OrderNo : order'[n] =
             IF n = nextNo THEN [side |-> s, px |-> p, qty |-> q] ELSE order[n]
    BY <1>1, <2>1, <2>2, EnterOrders
  <2>4. \A n \in OrderNo : n >= nextNo' => n >= nextNo /\ order'[n].qty = 0
    BY <1>1, <2>3 DEF NewUnused, OrderNo
  <2> QED
    BY <1>1, <2>3, <2>4, UnheardKeeps
<1>4. CASE UnheardCancel
  <2>1. PICK n \in OrderNo : Reduce({n}, order[n].qty)
    BY <1>4 DEF UnheardCancel
  <2>2. order[n].qty \in Nat /\ {n} \in SUBSET OrderNo
        /\ \A k \in {n} : order[n].qty <= order[k].qty
    BY <1>1 DEF ExchangeTypeOK
  <2> QED
    BY <1>1, <2>1, <2>2, UnheardReduces
<1>5. CASE UnheardMatch
  <2>1. PICK n \in OrderNo, q \in 1 .. MaxQty :
          q <= order[n].qty /\ Reduce({n}, q)
    BY <1>5 DEF UnheardMatch
  <2>2. q \in Nat /\ {n} \in SUBSET OrderNo
        /\ \A k \in {n} : q <= order[k].qty
    BY <2>1, MaxQtyAssumption
  <2> QED
    BY <1>1, <2>1, <2>2, UnheardReduces
<1>6. CASE UnheardUncross
  <2>1. PICK b \in Resting("B"), s \in Resting("S") :
          Reduce({b, s}, Min({order[b].qty, order[s].qty}))
    BY <1>6 DEF UnheardUncross
  <2> DEFINE q == Min({order[b].qty, order[s].qty})
  <2>2. q \in Nat /\ q <= order[b].qty /\ q <= order[s].qty
    BY <1>1, UncrossQty
  <2>3. Reduce({b, s}, q)
    BY <2>1
  <2> HIDE DEF q
  <2>4. {b, s} \in SUBSET OrderNo /\ \A k \in {b, s} : q <= order[k].qty
    BY <2>2 DEF Resting
  <2> QED
    BY <1>1, <2>2, <2>3, <2>4, UnheardReduces
<1> QED
  BY <1>2, <1>3, <1>4, <1>5, <1>6 DEF UnheardNext

-----------------------------------------------------------------------------
\* What is heard is part of what is kept.
LEMMA HeardWithinKept ==
  ASSUME ExchangeTypeOK, untaken \in [OrderNo -> Nat], NEW s, NEW l
  PROVE  Heard!Depth(s, l) <= Kept!Depth(s, l)
<1> DEFINE f == Heard!Share(s, l)
           g == Kept!Share(s, l)
<1>1. /\ Heard!ExchangeTypeOK /\ HeardSums /\ Kept!ExchangeTypeOK /\ KeptSums
  BY HeardOrder, KeptOrder
<1>2. f \in [1 .. MaxOrders -> Nat] /\ g \in [1 .. MaxOrders -> Nat]
  BY <1>1, Heard!ShareType, Kept!ShareType, SpanAssumption,
     MaxOrdersAssumption, PriceSlackAssumption, MaxQtyAssumption
<1>3. ASSUME NEW n \in 1 .. MaxOrders
      PROVE  f[n] <= g[n]
  <2>1. n \in OrderNo /\ n \in Heard!OrderNo /\ n \in Kept!OrderNo
    BY DEF OrderNo, Heard!OrderNo, Kept!OrderNo
  <2>2. /\ f[n] = IF heard[n].side = s /\ heard[n].px = l
                  THEN heard[n].qty ELSE 0
        /\ g[n] = IF withUntaken[n].side = s /\ withUntaken[n].px = l
                  THEN withUntaken[n].qty ELSE 0
    BY <2>1 DEF Heard!Share, Kept!Share
  <2> HIDE DEF f, g
  <2> QED
    BY <1>1, <2>1, <2>2 DEF HeardSums, KeptSums
<1>4. Heard!Depth(s, l) = SumTo(f, MaxOrders)
      /\ Kept!Depth(s, l) = SumTo(g, MaxOrders)
  BY DEF Heard!Depth, Kept!Depth, Heard!SumTo, Kept!SumTo,
         Heard!PrefixSum, Kept!PrefixSum, SumTo, PrefixSum
<1> HIDE DEF f, g
<1>5. /\ MaxOrders \in Nat
      /\ f \in [1 .. MaxOrders -> Int] /\ g \in [1 .. MaxOrders -> Int]
  BY <1>2, MaxOrdersAssumption
<1>6. SumTo(f, MaxOrders) <= SumTo(g, MaxOrders)
  BY <1>3, <1>5, SumMonotone
<1> QED
  BY <1>4, <1>6

\* The empty books.
LEMMA StartLate == JoinInit => LateInv
<1> SUFFICES ASSUME JoinInit PROVE LateInv
  OBVIOUS
<1>1. DayExact
  BY StartExact
<1>2. NothingHeard
  BY DEF JoinInit, CallInit, Init, BookInit, NothingHeard
<1>3. Heard!ExchangeTypeOK
  BY <1>1, HeardOrder DEF DayExact
<1>4. NoMoreThanHeard
  BY <1>2, <1>3, HeardDepth DEF NothingHeard, NoMoreThanHeard
<1>5. IndexRight
  BY <1>2 DEF NothingHeard, IndexRight
<1> QED
  BY <1>1, <1>2, <1>4, <1>5 DEF DayExact, LateInv

\* LateInv is an invariant.
LEMMA LateInvariant == JoinSpec => []LateInv
<1>1. LateInv /\ [JoinNext]_joinVars => LateInv'
  <2> SUFFICES ASSUME LateInv, [JoinNext]_joinVars PROVE LateInv'
    OBVIOUS
  <2>1. CASE Connect \/ UnheardNext
    BY <2>1, UnheardStep
  <2>2. CASE HeardNext
    BY <2>2, HeardStep
  <2>3. CASE UNCHANGED joinVars
    BY <2>3, IdleHeard DEF joinVars, dayVars
  <2> QED
    BY <2>1, <2>2, <2>3 DEF JoinNext
<1> QED
  BY <1>1, StartLate, PTL DEF JoinSpec

\* Whenever the program is started, and however many orders, trades and
\* deletions of orders from before it then hears, no level shows more than what
\* rests there and what the auctions' trades it heard took from there.
THEOREM LateBounded == JoinSpec => []LateNeverOverstates
<1>1. LateInv => LateNeverOverstates
  <2> SUFFICES ASSUME LateInv, NEW l \in Levels
               PROVE  /\ bids[l] <= Account!Depth("B", l)
                      /\ asks[l] <= Account!Depth("S", l)
    BY DEF LateNeverOverstates, Account!NeverOverstates, Account!Levels, Levels
  <2>1. /\ Heard!ExchangeTypeOK /\ Kept!ExchangeTypeOK
        /\ bids[l] \in Int /\ asks[l] \in Int
        /\ bids[l] <= Heard!Depth("B", l) /\ asks[l] <= Heard!Depth("S", l)
    BY HeardOrder, KeptOrder DEF LateInv, NoMoreThanHeard
  <2>2. \A s : /\ Heard!Depth(s, l) \in Nat /\ Kept!Depth(s, l) \in Nat
               /\ Heard!Depth(s, l) <= Kept!Depth(s, l)
               /\ Account!Depth(s, l) = Kept!Depth(s, l)
    BY <2>1, HeardDepth, KeptDepth, HeardWithinKept, SameDepth DEF LateInv
  <2> QED
    BY <2>1, <2>2
<1> QED
  BY <1>1, LateInvariant, PTL

-----------------------------------------------------------------------------
(***************************************************************************)
(* What the cursors hide.  A cursor may stand on an empty level here: a    *)
(* level that unheard orders' deletions emptied can be negative for a      *)
(* while, and an order added to it raises the cursor although the level    *)
(* stays empty.  So the cursors are not right, as in continuous trading,   *)
(* but nothing that holds a quantity lies beyond them.                     *)
(***************************************************************************)
BidView(q, c) == \A l \in Filled(q) : c # Nil /\ l <= c
AskView(q, c) == \A l \in Filled(q) : c # Nil /\ l >= c

Cursors == Levels \cup {Nil}

\* Level p of q changed to a quantity that fills it only if it was filled.
Lowered(q, r, p) ==
  /\ \A k \in Levels : k # p => r[k] = q[k]
  /\ r[p] > 0 => q[p] > 0

\* A new order: the cursor moves up to its level, filled or not.
LEMMA ViewAdd ==
  ASSUME NEW q \in Quantities, NEW p \in Levels, NEW x \in Int, NEW c \in Cursors
  PROVE  /\ RaiseTo(p, c) \in Cursors /\ LowerTo(p, c) \in Cursors
         /\ BidView(q, c) => BidView([q EXCEPT ![p] = @ + x], RaiseTo(p, c))
         /\ AskView(q, c) => AskView([q EXCEPT ![p] = @ + x], LowerTo(p, c))
<1> DEFINE r == [q EXCEPT ![p] = @ + x]
<1>1. Filled(r) \in SUBSET (Filled(q) \cup {p})
  BY DEF Filled, Quantities
<1>2. /\ Filled(q) \in SUBSET Int /\ Filled(r) \in SUBSET Int
      /\ p \in Int /\ p # Nil /\ c \in Int
  BY LevelsInt DEF Cursors, Nil
<1> HIDE DEF r
<1>3. BidView(q, c) => BidView(r, RaiseTo(p, c))
  BY <1>1, <1>2 DEF BidView, RaiseTo
<1>4. AskView(q, c) => AskView(r, LowerTo(p, c))
  BY <1>1, <1>2 DEF AskView, LowerTo
<1>5. RaiseTo(p, c) \in Cursors /\ LowerTo(p, c) \in Cursors
  BY DEF RaiseTo, LowerTo, Cursors
<1> QED
  BY <1>3, <1>4, <1>5 DEF r

\* The searches find a level or nothing, and leave nothing behind.
LEMMA ViewScan ==
  ASSUME NEW r \in Quantities, NEW l \in Int
  PROVE  /\ ScanDown(r, l) \in Cursors /\ ScanUp(r, l) \in Cursors
         /\ (\A k \in Filled(r) : k <= l) => BidView(r, ScanDown(r, l))
         /\ (\A k \in Filled(r) : k >= l) => AskView(r, ScanUp(r, l))
<1>1. Filled(r) \in SUBSET Levels /\ Nil \notin Levels
  BY LevelsInt
<1>2. ScanDown(r, l) \in Cursors /\ ScanUp(r, l) \in Cursors
  BY <1>1, ScanDownFinds, ScanUpFinds, Zenon DEF Cursors
<1>3. ASSUME \A k \in Filled(r) : k <= l PROVE BidView(r, ScanDown(r, l))
  <2>1. Top(r, ScanDown(r, l))
    BY <1>3, ScanDownTop
  <2> QED
    BY <1>1, <2>1 DEF Top, BidView
<1>4. ASSUME \A k \in Filled(r) : k >= l PROVE AskView(r, ScanUp(r, l))
  <2>1. Bottom(r, ScanUp(r, l))
    BY <1>4, ScanUpBottom
  <2> QED
    BY <1>1, <2>1 DEF Bottom, AskView
<1> QED
  BY <1>2, <1>3, <1>4

\* A deletion: the cursor moves on when it stands on a level that is empty now.
LEMMA ViewDel ==
  ASSUME NEW q \in Quantities, NEW r \in Quantities, NEW p \in Levels,
         Lowered(q, r, p), NEW c \in Cursors
  PROVE  LET b == IF c = p /\ r[p] <= 0 THEN ScanDown(r, p - 1) ELSE c
             a == IF c = p /\ r[p] <= 0 THEN ScanUp(r, p + 1) ELSE c
         IN  /\ b \in Cursors /\ (BidView(q, c) => BidView(r, b))
             /\ a \in Cursors /\ (AskView(q, c) => AskView(r, a))
<1>1. /\ Filled(r) \in SUBSET Filled(q) /\ Filled(r) \in SUBSET Int
      /\ r[p] <= 0 => p \notin Filled(r)
      /\ p \in Int /\ p - 1 \in Int /\ p + 1 \in Int /\ r[p] \in Int
  BY LevelsInt DEF Filled, Lowered, Quantities
<1>2. CASE c = p /\ r[p] <= 0
  <2>1. BidView(q, c) => \A k \in Filled(r) : k <= p - 1
    BY <1>1, <1>2 DEF BidView
  <2>2. AskView(q, c) => \A k \in Filled(r) : k >= p + 1
    BY <1>1, <1>2 DEF AskView
  <2> QED
    BY <1>1, <1>2, <2>1, <2>2, ViewScan
<1>3. CASE ~ (c = p /\ r[p] <= 0)
  <2>1. /\ BidView(q, c) => BidView(r, c)
        /\ AskView(q, c) => AskView(r, c)
    BY <1>1 DEF BidView, AskView
  <2> QED
    BY <1>3, <2>1
<1> QED
  BY <1>2, <1>3

\* A trade: the cursor is put on its level, or searched from there, which is
\* right when nothing shown is better than that level.
LEMMA ViewTake ==
  ASSUME NEW r \in Quantities, NEW p \in Levels
  PROVE  LET b == IF r[p] <= 0 THEN ScanDown(r, p) ELSE p
             a == IF r[p] <= 0 THEN ScanUp(r, p) ELSE p
         IN  /\ b \in Cursors /\ ((\A k \in Filled(r) : k <= p) => BidView(r, b))
             /\ a \in Cursors /\ ((\A k \in Filled(r) : k >= p) => AskView(r, a))
<1>1. p \in Int /\ p # Nil
  BY LevelsInt
<1>2. CASE r[p] <= 0
  BY <1>1, <1>2, ViewScan
<1>3. CASE ~ (r[p] <= 0)
  BY <1>1, <1>3 DEF BidView, AskView, Cursors
<1> QED
  BY <1>2, <1>3

-----------------------------------------------------------------------------
\* As long as no auction's trade was heard.
NothingTaken == \A n \in OrderNo : untaken[n] = 0

\* With LateInv, the inductive invariant: what is said of the cursors' values
\* holds after an auction too.
ViewInv ==
  /\ bid1 \in Cursors /\ ask1 \in Cursors
  /\ NothingTaken => BidView(bids, bid1) /\ AskView(asks, ask1)

\* A filled level then has an order that rests: what is shown there is no more
\* than the orders heard have left.
LEMMA FilledRests ==
  ASSUME LateInv, NothingTaken
  PROVE  /\ \A k \in Filled(bids) : \E m \in Resting("B") : order[m].px = k
         /\ \A k \in Filled(asks) : \E m \in Resting("S") : order[m].px = k
<1>1. Heard!ExchangeTypeOK /\ HeardSums
  BY HeardOrder DEF LateInv
<1>2. Heard!OrderNo = OrderNo
  BY DEF Heard!OrderNo, OrderNo
<1>3. ASSUME NEW s, NEW k, Heard!Depth(s, k) > 0
      PROVE  \E m \in Resting(s) : order[m].px = k
  <2>1. PICK m \in Heard!Resting(s) : heard[m].px = k
    BY <1>1, <1>3, Heard!DepthLaws, SpanAssumption, MaxOrdersAssumption,
       PriceSlackAssumption, MaxQtyAssumption
  <2>2. m \in OrderNo /\ heard[m].side = s /\ heard[m].qty > 0
    BY <1>2, <2>1 DEF Heard!Resting
  <2>3. order[m].side = s /\ order[m].px = k /\ order[m].qty > 0
    BY <1>1, <2>1, <2>2 DEF HeardSums, NothingTaken
  <2> QED
    BY <2>2, <2>3 DEF Resting
<1>4. \A s, l : Heard!Depth(s, l) \in Nat
  BY <1>1, HeardDepth
<1>5. ASSUME NEW k \in Filled(bids) PROVE Heard!Depth("B", k) > 0
  BY <1>4 DEF LateInv, NoMoreThanHeard, Filled
<1>6. ASSUME NEW k \in Filled(asks) PROVE Heard!Depth("S", k) > 0
  BY <1>4 DEF LateInv, NoMoreThanHeard, Filled
<1> QED
  BY <1>3, <1>5, <1>6

\* A new order that is heard.
LEMMA EnterInView ==
  ASSUME LateInv, ViewInv, NEW s \in Side, NEW p \in Levels,
         NEW q \in 1 .. MaxQty, onOrderSH(AddMsg(s, p, q)), untaken' = untaken
  PROVE  ViewInv'
<1>1. /\ bids \in Quantities /\ asks \in Quantities /\ q \in Int
      /\ bid1 \in Cursors /\ ask1 \in Cursors
  BY DEF LateInv, ViewInv, Quantities
<1>2. NothingTaken' = NothingTaken
  BY DEF NothingTaken
<1>3. CASE s = "B"
  <2>1. /\ bids' = [bids EXCEPT ![p] = @ + q] /\ bid1' = RaiseTo(p, bid1)
        /\ asks' = asks /\ ask1' = ask1
    BY <1>3 DEF onOrderSH, AddMsg, AddBuySH, AddSellSH, DelBuySH, DelSellSH
  <2>2. /\ bid1' \in Cursors
        /\ BidView(bids, bid1) => BidView(bids', bid1')
    BY <1>1, <2>1, ViewAdd
  <2> QED
    BY <1>1, <1>2, <2>1, <2>2 DEF ViewInv
<1>4. CASE s = "S"
  <2>1. /\ asks' = [asks EXCEPT ![p] = @ + q] /\ ask1' = LowerTo(p, ask1)
        /\ bids' = bids /\ bid1' = bid1
    BY <1>4 DEF onOrderSH, AddMsg, AddBuySH, AddSellSH, DelBuySH, DelSellSH
  <2>2. /\ ask1' \in Cursors
        /\ AskView(asks, ask1) => AskView(asks', ask1')
    BY <1>1, <2>1, ViewAdd
  <2> QED
    BY <1>1, <1>2, <2>1, <2>2 DEF ViewInv
<1> QED
  BY <1>3, <1>4 DEF Side

\* A deletion that is heard, of an order that was heard or not.
LEMMA DeleteInView ==
  ASSUME LateInv, ViewInv, NEW n \in OrderNo, onOrderSH(DelMsg(n)),
         untaken' = untaken
  PROVE  ViewInv'
<1> DEFINE q == order[n].qty
           p == order[n].px
<1>1. /\ q \in Nat /\ p \in Levels /\ order[n].side \in Side
      /\ bids \in Quantities /\ asks \in Quantities
      /\ bid1 \in Cursors /\ ask1 \in Cursors
  <2>1. HeardSums
    BY HeardOrder DEF LateInv
  <2> QED
    BY <2>1 DEF HeardSums, LateInv, ViewInv, Quantities
<1>2. NothingTaken' = NothingTaken
  BY DEF NothingTaken
<1>3. CASE order[n].side = "B"
  <2>1. /\ bids' = [bids EXCEPT ![p] = Clamp(@ - q)]
        /\ bid1' = IF bid1 = p /\ bids'[p] <= 0
                   THEN ScanDown(bids', p - 1) ELSE bid1
        /\ asks' = asks /\ ask1' = ask1
    BY <1>3 DEF onOrderSH, DelMsg, AddBuySH, AddSellSH, DelBuySH, DelSellSH
  <2> HIDE DEF p, q
  <2>2. bids' \in Quantities /\ Lowered(bids, bids', p)
    BY <1>1, <2>1 DEF Quantities, Lowered, Clamp
  <2> DEFINE c == IF bid1 = p /\ bids'[p] <= 0
                  THEN ScanDown(bids', p - 1) ELSE bid1
  <2>3. c \in Cursors /\ (BidView(bids, bid1) => BidView(bids', c))
    BY <1>1, <2>2, ViewDel
  <2>4. c = bid1'
    BY <2>1
  <2> HIDE DEF c
  <2> QED
    BY <1>1, <1>2, <2>1, <2>3, <2>4 DEF ViewInv
<1>4. CASE order[n].side = "S"
  <2>1. /\ asks' = [asks EXCEPT ![p] = Clamp(@ - q)]
        /\ ask1' = IF ask1 = p /\ asks'[p] <= 0
                   THEN ScanUp(asks', p + 1) ELSE ask1
        /\ bids' = bids /\ bid1' = bid1
    BY <1>4 DEF onOrderSH, DelMsg, AddBuySH, AddSellSH, DelBuySH, DelSellSH
  <2> HIDE DEF p, q
  <2>2. asks' \in Quantities /\ Lowered(asks, asks', p)
    BY <1>1, <2>1 DEF Quantities, Lowered, Clamp
  <2> DEFINE c == IF ask1 = p /\ asks'[p] <= 0
                  THEN ScanUp(asks', p + 1) ELSE ask1
  <2>3. c \in Cursors /\ (AskView(asks, ask1) => AskView(asks', c))
    BY <1>1, <2>2, ViewDel
  <2>4. c = ask1'
    BY <2>1
  <2> HIDE DEF c
  <2> QED
    BY <1>1, <1>2, <2>1, <2>3, <2>4 DEF ViewInv
<1> QED
  BY <1>1, <1>3, <1>4 DEF Side

\* A trade that is heard puts the cursor on its order's level, if the order was
\* heard: no order that rests is better, so no level that is filled is.
LEMMA TradeInView ==
  ASSUME LateInv, ViewInv, NEW n \in OrderNo, AtBest(n), NEW q \in 1 .. MaxQty,
         onTradeSH(TradeMsg(n, q)), untaken' = untaken
  PROVE  ViewInv'
<1> DEFINE p == order[n].px
<1>1. /\ q \in Nat /\ p \in Levels /\ order[n].side \in Side
      /\ bids \in Quantities /\ asks \in Quantities
      /\ bid1 \in Cursors /\ ask1 \in Cursors
  <2>1. HeardSums
    BY HeardOrder DEF LateInv
  <2> QED
    BY <2>1, MaxQtyAssumption DEF HeardSums, LateInv, ViewInv, Quantities
<1>2. NothingTaken' = NothingTaken
  BY DEF NothingTaken
<1>3. Indexed(n) => seq_pxs[n].lvl = p
  BY DEF LateInv, IndexRight, Indexed
<1>4. ~ Indexed(nextNo)
  BY DEF Indexed, LateInv, NewUnused, ExchangeTypeOK, OrderNo
<1>5. Filled(bids) \in SUBSET Int /\ Filled(asks) \in SUBSET Int /\ p \in Int
  BY <1>1, LevelsInt
<1>6. CASE order[n].side = "B"
  <2>1. TradeMsg(n, q) = [TradeBuyNo |-> n, TradeSellNo |-> nextNo,
                          LastQty |-> q, TradeBSFlag |-> "S"]
    BY <1>6 DEF TradeMsg
  <2>2. TakeBuySH(n, q) /\ TakeSellSH(nextNo, q)
    BY <2>1 DEF onTradeSH
  <2>3. asks' = asks /\ ask1' = ask1
    BY <1>4, <2>2 DEF TakeSellSH
  <2>4. CASE ~ Indexed(n)
    BY <1>1, <1>2, <2>2, <2>3, <2>4 DEF TakeBuySH, ViewInv
  <2>5. CASE Indexed(n)
    <3>1. /\ bids' = [bids EXCEPT ![p] = @ - q]
          /\ bid1' = IF bids'[p] <= 0 THEN ScanDown(bids', p) ELSE p
      BY <1>3, <2>2, <2>5 DEF TakeBuySH
    <3>2. NothingTaken => \A k \in Filled(bids) : k <= p
      BY <1>6, FilledRests DEF AtBest
    <3> HIDE DEF p
    <3>3. bids' \in Quantities /\ Filled(bids') \in SUBSET Filled(bids)
      BY <1>1, <3>1 DEF Quantities, Filled
    <3> DEFINE c == IF bids'[p] <= 0 THEN ScanDown(bids', p) ELSE p
    <3>4. c \in Cursors /\ (NothingTaken => BidView(bids', c))
      BY <1>1, <3>2, <3>3, ViewTake
    <3>5. c = bid1'
      BY <3>1
    <3> HIDE DEF c
    <3> QED
      BY <1>1, <1>2, <2>3, <3>4, <3>5 DEF ViewInv
  <2> QED
    BY <2>4, <2>5
<1>7. CASE order[n].side = "S"
  <2>1. TradeMsg(n, q) = [TradeBuyNo |-> nextNo, TradeSellNo |-> n,
                          LastQty |-> q, TradeBSFlag |-> "B"]
    BY <1>7 DEF TradeMsg
  <2>2. TakeBuySH(nextNo, q) /\ TakeSellSH(n, q)
    BY <2>1 DEF onTradeSH
  <2>3. bids' = bids /\ bid1' = bid1
    BY <1>4, <2>2 DEF TakeBuySH
  <2>4. CASE ~ Indexed(n)
    BY <1>1, <1>2, <2>2, <2>3, <2>4 DEF TakeSellSH, ViewInv
  <2>5. CASE Indexed(n)
    <3>1. /\ asks' = [asks EXCEPT ![p] = @ - q]
          /\ ask1' = IF asks'[p] <= 0 THEN ScanUp(asks', p) ELSE p
      BY <1>3, <2>2, <2>5 DEF TakeSellSH
    <3>2. NothingTaken => \A k \in Filled(asks) : k >= p
      BY <1>7, FilledRests DEF AtBest
    <3> HIDE DEF p
    <3>3. asks' \in Quantities /\ Filled(asks') \in SUBSET Filled(asks)
      BY <1>1, <3>1 DEF Quantities, Filled
    <3> DEFINE c == IF asks'[p] <= 0 THEN ScanUp(asks', p) ELSE p
    <3>4. c \in Cursors /\ (NothingTaken => AskView(asks', c))
      BY <1>1, <3>2, <3>3, ViewTake
    <3>5. c = ask1'
      BY <3>1
    <3> HIDE DEF c
    <3> QED
      BY <1>1, <1>2, <2>3, <3>4, <3>5 DEF ViewInv
  <2> QED
    BY <2>4, <2>5
<1> QED
  BY <1>1, <1>6, <1>7 DEF Side

\* A step that leaves the book alone.
LEMMA BookStays ==
  ASSUME ViewInv, UNCHANGED bookVars, NothingTaken' => NothingTaken
  PROVE  ViewInv'
BY DEF ViewInv, bookVars

LEMMA StepInView ==
  ASSUME LateInv, ViewInv, [JoinNext]_joinVars
  PROVE  ViewInv'
<1>1. CASE UNCHANGED bookVars /\ UNCHANGED untaken
  BY <1>1, BookStays DEF NothingTaken
<1>2. CASE Connect \/ UnheardNext \/ UNCHANGED joinVars
  BY <1>1, <1>2
  DEF Connect, UnheardNext, UnheardQuote, UnheardCancel, UnheardMatch,
      UnheardUncross, Unheard, joinVars, dayVars, vars
<1>3. CASE HeardNext /\ CallQuote
  BY <1>3, EnterInView DEF CallQuote
<1>4. CASE HeardNext /\ CallCancel
  BY <1>4, DeleteInView DEF CallCancel, Cancel
<1>5. CASE HeardNext /\ CallMatch
  <2>1. PICK b \in Resting("B"), s \in Resting("S") :
          LET q == Min({order[b].qty, order[s].qty})
          IN  /\ onTradeSH([TradeBuyNo |-> b, TradeSellNo |-> s, LastQty |-> q,
                            TradeBSFlag |-> "N"])
              /\ untaken' = [untaken EXCEPT ![b] = @ + q, ![s] = @ + q]
    BY <1>5 DEF CallMatch
  <2> DEFINE q == Min({order[b].qty, order[s].qty})
  <2>2. q \in Nat
    BY UncrossQty DEF LateInv
  <2>3. /\ UNCHANGED bookVars
        /\ untaken' = [untaken EXCEPT ![b] = @ + q, ![s] = @ + q]
    BY <2>1 DEF onTradeSH
  <2> HIDE DEF q
  <2>4. untaken \in [OrderNo -> Nat] /\ b \in OrderNo /\ s \in OrderNo
    BY DEF LateInv, Resting
  <2>5. \A n \in OrderNo : untaken[n] \in Nat /\ untaken'[n] >= untaken[n]
    BY <2>2, <2>3, <2>4
  <2>6. NothingTaken' => NothingTaken
    BY <2>5 DEF NothingTaken
  <2> QED
    BY <2>3, <2>6, BookStays
<1>6. CASE HeardNext /\ (Open \/ Close)
  BY <1>1, <1>6 DEF Open, Close, vars
<1>7. CASE HeardNext /\ Trading /\ Quote
  BY <1>7, EnterInView DEF Trading, Quote
<1>8. CASE HeardNext /\ Trading /\ Cancel
  BY <1>8, DeleteInView DEF Trading, Cancel
<1>9. CASE HeardNext /\ Trading /\ Match
  BY <1>9, TradeInView DEF Trading, Match, AtBest
<1> QED
  BY <1>2, <1>3, <1>4, <1>5, <1>6, <1>7, <1>8, <1>9
  DEF JoinNext, HeardNext, DayNext, Trading, Next

\* Until the first trade of an auction is heard, no cursor hides a level that
\* holds a quantity, whenever the program was started and whatever it missed.
THEOREM HiddenNothingYet == JoinSpec => []NothingHiddenYet
<1>1. JoinInit => ViewInv
  <2> SUFFICES ASSUME JoinInit PROVE ViewInv
    OBVIOUS
  <2>1. /\ bids = [l \in Levels |-> 0] /\ asks = [l \in Levels |-> 0]
        /\ bid1 = Nil /\ ask1 = Nil
    BY DEF JoinInit, CallInit, Init, BookInit
  <2>2. Filled(bids) = {} /\ Filled(asks) = {}
    BY <2>1 DEF Filled
  <2> QED
    BY <2>1, <2>2 DEF ViewInv, Cursors, BidView, AskView
<1>2. LateInv /\ ViewInv /\ [JoinNext]_joinVars => ViewInv'
  BY StepInView
<1>3. ViewInv => NothingHiddenYet
  BY DEF ViewInv, NothingHiddenYet, NothingTaken, NothingHidden, BidsInView,
         AsksInView, BidView, AskView
<1> QED
  BY <1>1, <1>2, <1>3, LateInvariant, PTL DEF JoinSpec
=============================================================================
