---------------------------- MODULE BookSZProofs ----------------------------
(***************************************************************************)
(* What a Shenzhen book shows, for any number of levels and of orders and  *)
(* for any quantities: the orders whose messages were not refused.  First  *)
(* of module BookSZ, with the messages in their order and the exchange's   *)
(* own price limits; then of module BookSZRouted, behind the feeders, with *)
(* any limits, where a book also misses trades.  The lemmas on depths are  *)
(* applied to the orders as the book can know them: `known' of BookSZ, and *)
(* `told' below.                                                           *)
(***************************************************************************)
EXTENDS BookSZRouted, BookLemmas

Seen == INSTANCE BookLemmas WITH order <- known

\* Refused orders were given out and are not in the index; of numbers that are
\* not given out yet there is nothing anywhere.
NumbersRight ==
  /\ refused \subseteq 1 .. nextNo - 1
  /\ \A n \in refused : seq_pxs[n] = NoSlot
  /\ \A n \in OrderNo :
       n >= nextNo => order[n].qty = 0 /\ seq_pxs[n] = NoSlot

KnownIndexed ==
  \A n \in OrderNo : order[n].qty > 0 /\ n \notin refused =>
    seq_pxs[n] = [side |-> order[n].side, lvl |-> order[n].px]

ShowsKnown ==
  \A l \in Levels : /\ bids[l] = Seen!Depth("B", l)
                    /\ asks[l] = Seen!Depth("S", l)

\* The inductive invariant.  Of the ask cursor, which withdrawals move off the
\* best level, it says only that it stands on a quantity.
SZInv ==
  /\ TypeOK
  /\ NumbersRight
  /\ KnownIndexed
  /\ ShowsKnown
  /\ Top(bids, bid1)
  /\ AskOnQuantity

-----------------------------------------------------------------------------
\* The instance's types are the module's.
LEMMA SameConstants ==
  /\ Seen!Levels = Levels /\ Seen!OrderNo = OrderNo /\ Seen!Side = Side
  /\ Seen!Prices = Prices
BY DEF Seen!Levels, Seen!OrderNo, Seen!Side, Seen!Prices,
       Levels, OrderNo, Side, Prices

LEMMA PricesLevels ==
  ASSUME PriceSlack = 0 PROVE Prices = Levels
BY SpanAssumption DEF Prices, Levels

\* Its orders are the exchange's, but nothing is left of the refused ones.
KnownSums ==
  \A n \in OrderNo : /\ order[n] \in [side: Side, px: Prices, qty: Nat]
                     /\ known[n].side = order[n].side
                     /\ known[n].px = order[n].px
                     /\ known[n].qty = IF n \in refused THEN 0 ELSE order[n].qty

LEMMA KnownOrder == ExchangeTypeOK => Seen!ExchangeTypeOK /\ KnownSums
<1> SUFFICES ASSUME ExchangeTypeOK PROVE Seen!ExchangeTypeOK /\ KnownSums
  OBVIOUS
<1>1. ASSUME NEW n \in OrderNo
      PROVE  /\ order[n] \in [side: Side, px: Prices, qty: Nat]
             /\ known[n] \in [side: Side, px: Prices, qty: Nat]
             /\ known[n].side = order[n].side
             /\ known[n].px = order[n].px
             /\ known[n].qty = IF n \in refused THEN 0 ELSE order[n].qty
  <2>1. order[n] \in [side: Side, px: Prices, qty: Nat]
    BY DEF ExchangeTypeOK
  <2>2. known[n] = IF n \in refused THEN [order[n] EXCEPT !.qty = 0]
                                    ELSE order[n]
    BY DEF known
  <2> QED
    BY <2>1, <2>2
<1>2. known \in [OrderNo -> [side: Side, px: Prices, qty: Nat]]
  BY <1>1 DEF known
<1>3. Seen!ExchangeTypeOK
  BY <1>2, SameConstants DEF Seen!ExchangeTypeOK, ExchangeTypeOK
<1> QED
  BY <1>1, <1>3 DEF KnownSums

LEMMA KnownOrderNext == ExchangeTypeOK' => Seen!ExchangeTypeOK' /\ KnownSums'
BY KnownOrder, PTL

\* Its depths, read by its lemmas or by the formulas of the run.
LEMMA SameDepth ==
  ASSUME NEW s, NEW l
  PROVE  Known!Depth(s, l) = Seen!Depth(s, l)
BY DEF Known!Depth, Seen!Depth, Known!Share, Seen!Share,
       Known!SumTo, Seen!SumTo, Known!PrefixSum, Seen!PrefixSum,
       Known!OrderNo, Seen!OrderNo

LEMMA SeenDepth ==
  ASSUME Seen!ExchangeTypeOK, NEW s, NEW l
  PROVE  /\ Seen!Depth(s, l) \in Nat
         /\ \A n \in OrderNo : known[n].side = s /\ known[n].px = l
              => known[n].qty <= Seen!Depth(s, l)
         /\ Seen!Depth(s, l) > 0
              => \E n \in Seen!Resting(s) : known[n].px = l
BY Seen!DepthLaws, SameConstants, SpanAssumption, MaxOrdersAssumption,
   PriceSlackAssumption, MaxQtyAssumption

\* The quantities shown are not negative, each of at least a known order's; a
\* filled level has a known order, and none of these is above an order that is
\* the exchange's best.
LEMMA Shown ==
  ASSUME SZInv
  PROVE  /\ bids \in [Levels -> Nat] /\ asks \in [Levels -> Nat]
         /\ \A n \in OrderNo : n \notin refused /\ order[n].px \in Levels =>
              /\ order[n].side = "B" => order[n].qty <= bids[order[n].px]
              /\ order[n].side = "S" => order[n].qty <= asks[order[n].px]
         /\ \A l \in Filled(bids) : \E n \in OrderNo :
              /\ n \notin refused /\ order[n].side = "B"
              /\ order[n].px = l /\ order[n].qty > 0
<1>1. Seen!ExchangeTypeOK /\ KnownSums
  BY KnownOrder DEF SZInv, TypeOK
<1>2. \A l \in Levels : bids[l] \in Nat /\ asks[l] \in Nat
  BY <1>1, SeenDepth DEF SZInv, ShowsKnown
<1>3. bids \in [Levels -> Nat] /\ asks \in [Levels -> Nat]
  BY <1>2 DEF SZInv, TypeOK, BookTypeOK
<1>4. ASSUME NEW n \in OrderNo, n \notin refused, order[n].px \in Levels
      PROVE  /\ order[n].side = "B" => order[n].qty <= bids[order[n].px]
             /\ order[n].side = "S" => order[n].qty <= asks[order[n].px]
  <2>1. PICK l \in Levels : l = order[n].px
    BY <1>4
  <2>2. \A s : order[n].side = s => order[n].qty <= Seen!Depth(s, l)
    BY <1>1, <1>4, <2>1, SeenDepth DEF KnownSums
  <2> QED
    BY <2>1, <2>2 DEF SZInv, ShowsKnown
<1>5. ASSUME NEW l \in Filled(bids)
      PROVE  \E n \in OrderNo : /\ n \notin refused /\ order[n].side = "B"
                                /\ order[n].px = l /\ order[n].qty > 0
  <2>1. l \in Levels /\ Seen!Depth("B", l) > 0
    BY DEF Filled, SZInv, ShowsKnown
  <2>2. PICK n \in Seen!Resting("B") : known[n].px = l
    BY <1>1, <2>1, SeenDepth
  <2>3. n \in OrderNo /\ known[n].side = "B" /\ known[n].qty > 0
    BY <2>2, SameConstants DEF Seen!Resting
  <2> QED
    BY <1>1, <2>2, <2>3 DEF KnownSums
<1> QED
  BY <1>3, <1>4, <1>5

-----------------------------------------------------------------------------
\* A new order, whether the handler takes it or refuses it, enters the book of
\* the known ones, with nothing when it is refused.
LEMMA EnterKnown ==
  ASSUME SZInv, NEW s \in Side, NEW p \in Prices, NEW q \in Nat,
         Enter(s, p, q), NEW x \in Nat,
         \/ refused' = refused /\ x = q
         \/ refused' = refused \cup {nextNo} /\ x = 0
  PROVE  /\ ExchangeTypeOK' /\ nextNo \in OrderNo /\ nextNo' = nextNo + 1
         /\ \A n \in OrderNo : order'[n] =
              IF n = nextNo THEN [side |-> s, px |-> p, qty |-> q] ELSE order[n]
         /\ \A t, l : Seen!Depth(t, l)' =
              Seen!Depth(t, l) + (IF t = s /\ l = p THEN x ELSE 0)
<1>1. ExchangeTypeOK /\ NumbersRight
  BY DEF SZInv, TypeOK
<1>2. /\ ExchangeTypeOK' /\ nextNo \in OrderNo /\ nextNo' = nextNo + 1
      /\ \A n \in OrderNo : order'[n] =
           IF n = nextNo THEN [side |-> s, px |-> p, qty |-> q] ELSE order[n]
  BY <1>1, EnterOrders
<1>3. order[nextNo].qty = 0 /\ nextNo \notin refused
  BY <1>1, <1>2 DEF NumbersRight, OrderNo
<1>4. ASSUME NEW n \in OrderNo
      PROVE  known'[n] = IF n = nextNo THEN [side |-> s, px |-> p, qty |-> x]
                                       ELSE known[n]
  <2>1. known'[n] = IF n \in refused' THEN [order'[n] EXCEPT !.qty = 0]
                                      ELSE order'[n]
    BY DEF known
  <2>2. CASE n = nextNo
    BY <1>2, <1>3, <2>1, <2>2
  <2>3. CASE n # nextNo
    BY <1>2, <2>1, <2>3 DEF known
  <2> QED
    BY <2>2, <2>3
<1>5. known' = [known EXCEPT ![nextNo] = [side |-> s, px |-> p, qty |-> x]]
  BY <1>4 DEF known
<1>6. Seen!Enter(s, p, x)
  BY <1>2, <1>5, SameConstants DEF Seen!Enter
<1>7. Seen!ExchangeTypeOK /\ Seen!ExchangeTypeOK' /\ KnownSums
  BY <1>1, <1>2, KnownOrder, KnownOrderNext
<1>8. known[nextNo].qty = 0
  BY <1>2, <1>3, <1>7 DEF KnownSums
<1>9. \A t, l : Seen!Depth(t, l)' =
         Seen!Depth(t, l) + (IF t = s /\ l = p THEN x ELSE 0)
  BY <1>6, <1>7, <1>8, Seen!EnterDepth, SpanAssumption, MaxOrdersAssumption,
     PriceSlackAssumption, MaxQtyAssumption
<1> QED
  BY <1>2, <1>9

\* The numbers after a new order.
LEMMA NumbersAfter ==
  ASSUME NumbersRight, nextNo \in OrderNo, nextNo' = nextNo + 1,
         \/ refused' = refused
         \/ refused' = refused \cup {nextNo} /\ seq_pxs'[nextNo] = NoSlot,
         \A n \in OrderNo : n # nextNo
           => order'[n] = order[n] /\ seq_pxs'[n] = seq_pxs[n]
  PROVE  NumbersRight'
<1>1. nextNo \in Int /\ nextNo >= 1 /\ OrderNo \in SUBSET Int
  BY MaxOrdersAssumption DEF OrderNo
<1>2. \A n \in refused : n \in OrderNo /\ n < nextNo /\ seq_pxs[n] = NoSlot
  <2>1. SUFFICES ASSUME NEW n \in refused PROVE n \in OrderNo /\ n < nextNo
    BY DEF NumbersRight
  <2>2. n \in 1 .. nextNo - 1
    BY DEF NumbersRight
  <2> QED
    BY <1>1, <2>2, MaxOrdersAssumption DEF OrderNo
<1>3. \A n \in refused' : n \in 1 .. nextNo' - 1 /\ seq_pxs'[n] = NoSlot
  <2>1. SUFFICES ASSUME NEW n \in refused'
                 PROVE  n \in 1 .. nextNo' - 1 /\ seq_pxs'[n] = NoSlot
    OBVIOUS
  <2>2. CASE n \in refused
    BY <1>1, <1>2, <2>2 DEF OrderNo
  <2>3. CASE n = nextNo /\ n \notin refused
    BY <1>1, <2>1, <2>3
  <2> QED
    BY <2>1, <2>2, <2>3
<1>4. ASSUME NEW n \in OrderNo, n >= nextNo'
      PROVE  order'[n].qty = 0 /\ seq_pxs'[n] = NoSlot
  <2> PICK i \in Int, j \in Int : i = n /\ j = nextNo
    BY <1>1
  <2>1. i >= j /\ i # j
    <3>1. i >= j + 1
      BY <1>4
    <3> QED
      BY <3>1
  <2>2. order[n].qty = 0 /\ seq_pxs[n] = NoSlot
    BY <2>1 DEF NumbersRight
  <2>3. order'[n] = order[n] /\ seq_pxs'[n] = seq_pxs[n]
    BY <2>1
  <2> QED
    BY <2>2, <2>3
<1> QED
  BY <1>3, <1>4 DEF NumbersRight

\* An order within the limits keeps the invariant.
LEMMA AcceptKeeps ==
  ASSUME SZInv, NEW s \in Side, NEW p \in Levels, NEW q \in 1 .. MaxQty,
         Enter(s, p, q), onOrderSZ(OrderMsg(s, p, q)),
         p \in Prices, refused' = refused
  PROVE  SZInv'
<1>1. q \in Nat /\ q > 0
  BY MaxQtyAssumption
<1>2. /\ ExchangeTypeOK' /\ nextNo \in OrderNo /\ nextNo' = nextNo + 1
      /\ \A n \in OrderNo : order'[n] =
           IF n = nextNo THEN [side |-> s, px |-> p, qty |-> q] ELSE order[n]
      /\ \A t, l : Seen!Depth(t, l)' =
           Seen!Depth(t, l) + (IF t = s /\ l = p THEN q ELSE 0)
  BY <1>1, EnterKnown
<1>3. /\ seq_pxs' = [seq_pxs EXCEPT ![nextNo] = [side |-> s, lvl |-> p]]
      /\ s = "B" => /\ bids' = [bids EXCEPT ![p] = @ + q]
                    /\ bid1' = RaiseTo(p, bid1) /\ UNCHANGED <<asks, ask1>>
      /\ s = "S" => /\ asks' = [asks EXCEPT ![p] = @ + q]
                    /\ ask1' = LowerTo(p, ask1) /\ UNCHANGED <<bids, bid1>>
  BY DEF onOrderSZ, OrderMsg, InRange, AddBuySZ, AddSellSZ, RefuseSZ
<1>4. /\ bids \in [Levels -> Nat] /\ asks \in [Levels -> Nat]
      /\ bid1 \in Levels \cup {Nil} /\ ask1 \in Levels \cup {Nil}
      /\ seq_pxs \in [OrderNo -> Slot \cup {NoSlot}]
      /\ nextNo \notin refused
  BY Shown DEF SZInv, TypeOK, BookTypeOK, NumbersRight
<1>5. \A n \in OrderNo :
        seq_pxs'[n] = IF n = nextNo THEN [side |-> s, lvl |-> p] ELSE seq_pxs[n]
  BY <1>3, <1>4
<1>6. seq_pxs' \in [OrderNo -> Slot \cup {NoSlot}]
  <2>1. [side |-> s, lvl |-> p] \in Slot
    BY DEF Slot
  <2> QED
    BY <1>3, <1>4, <2>1
<1>7. NumbersRight'
  BY <1>2, <1>5, NumbersAfter DEF SZInv
<1>8. KnownIndexed'
  BY <1>2, <1>5 DEF SZInv, KnownIndexed
<1>9. ShowsKnown'
  BY <1>1, <1>2, <1>3, <1>4 DEF Side, SZInv, ShowsKnown
<1>10. /\ bids' \in [Levels -> Int] /\ asks' \in [Levels -> Int]
  BY <1>1, <1>3, <1>4 DEF Side
<1>11. CASE s = "B"
  <2>1. Top(bids', bid1')
    <3>1. Top(bids, bid1)
      BY DEF SZInv
    <3>2. Top([bids EXCEPT ![p] = @ + q], RaiseTo(p, bid1))
      BY <1>1, <1>4, <3>1, TopAdd
    <3> QED
      BY <1>3, <1>11, <3>2
  <2>2. bid1' \in Levels \cup {Nil}
    BY <1>3, <1>4, <1>11 DEF RaiseTo
  <2>3. BookTypeOK'
    BY <1>3, <1>4, <1>6, <1>10, <1>11, <2>2 DEF BookTypeOK
  <2>4. AskOnQuantity'
    BY <1>3, <1>11 DEF SZInv, AskOnQuantity
  <2> QED
    BY <1>2, <1>7, <1>8, <1>9, <2>1, <2>3, <2>4 DEF SZInv, TypeOK
<1>12. CASE s = "S"
  <2>1. Top(bids', bid1')
    BY <1>3, <1>12 DEF SZInv
  <2>2. ask1' \in Levels \cup {Nil}
    BY <1>3, <1>4, <1>12 DEF LowerTo
  <2>3. BookTypeOK'
    BY <1>3, <1>4, <1>6, <1>10, <1>12, <2>2 DEF BookTypeOK
  <2>4. AskOnQuantity'
    <3>1. /\ asks'[p] = asks[p] + q
          /\ \A l \in Levels : l # p => asks'[l] = asks[l]
      BY <1>1, <1>3, <1>4, <1>12
    <3>2. CASE ask1' = p
      BY <1>1, <1>4, <3>1, <3>2 DEF AskOnQuantity
    <3>3. CASE ask1' # p
      <4>1. ask1' = ask1 /\ ask1 # Nil
        BY <1>3, <1>12, <3>3 DEF LowerTo
      <4> QED
        BY <1>4, <3>1, <3>3, <4>1 DEF SZInv, AskOnQuantity
    <3> QED
      BY <3>2, <3>3
  <2> QED
    BY <1>2, <1>7, <1>8, <1>9, <2>1, <2>3, <2>4 DEF SZInv, TypeOK
<1> QED
  BY <1>11, <1>12 DEF Side

\* So does one that is refused, at whatever price it rests.
LEMMA RefuseKeeps ==
  ASSUME SZInv, NEW s \in Side, NEW p \in Prices, NEW q \in 1 .. MaxQty,
         Enter(s, p, q), UNCHANGED bookVars, refused' = refused \cup {nextNo}
  PROVE  SZInv'
<1>1. q \in Nat
  BY MaxQtyAssumption
<1>2. /\ ExchangeTypeOK' /\ nextNo \in OrderNo /\ nextNo' = nextNo + 1
      /\ \A n \in OrderNo : order'[n] =
           IF n = nextNo THEN [side |-> s, px |-> p, qty |-> q] ELSE order[n]
      /\ \A t, l : Seen!Depth(t, l)' =
           Seen!Depth(t, l) + (IF t = s /\ l = p THEN 0 ELSE 0)
  BY <1>1, EnterKnown
<1>3. /\ bids' = bids /\ asks' = asks /\ bid1' = bid1 /\ ask1' = ask1
      /\ seq_pxs' = seq_pxs
  BY DEF bookVars
<1>4. TypeOK' /\ AskOnQuantity' /\ Top(bids', bid1')
  BY <1>2, <1>3 DEF SZInv, TypeOK, BookTypeOK, AskOnQuantity
<1>5. NumbersRight'
  <2>1. seq_pxs[nextNo] = NoSlot
    BY <1>2 DEF SZInv, NumbersRight, OrderNo
  <2> QED
    BY <1>2, <1>3, <2>1, NumbersAfter DEF SZInv
<1>6. KnownIndexed'
  BY <1>2, <1>3 DEF SZInv, KnownIndexed
<1>7. \A t, l : Seen!Depth(t, l) \in Nat
  BY KnownOrder, SeenDepth DEF SZInv, TypeOK
<1>8. ShowsKnown'
  BY <1>2, <1>3, <1>7 DEF SZInv, ShowsKnown
<1> QED
  BY <1>4, <1>5, <1>6, <1>8 DEF SZInv

-----------------------------------------------------------------------------
\* The known orders of side t among T.
KnownOf(T, t) == {k \in T : k \notin refused /\ order[k].side = t}

\* What a trade message of quantity q that names the orders T does to each side
\* and to the index: of the orders of a side at most one is known, its level
\* loses q, and the cursor is searched from there, after a withdrawal when it
\* stood there, after a fill always.
BidsTook(T, q) ==
  \/ KnownOf(T, "B") = {} /\ UNCHANGED <<bids, bid1>>
  \/ \E n \in OrderNo : LET p == order[n].px IN
       /\ KnownOf(T, "B") = {n}
       /\ bids' = [bids EXCEPT ![p] = @ - q]
       /\ \/ bid1' = IF bid1 = p THEN ScanDown(bids', p) ELSE bid1
          \/ /\ AtBest(n)
             /\ bid1' = IF bids'[p] <= 0 THEN ScanDown(bids', p) ELSE p

AsksTook(T, q) ==
  \/ KnownOf(T, "S") = {} /\ UNCHANGED <<asks, ask1>>
  \/ \E n \in OrderNo : LET p == order[n].px IN
       /\ KnownOf(T, "S") = {n}
       /\ asks' = [asks EXCEPT ![p] = @ - q]
       /\ \/ ask1' = IF ask1 = p THEN ScanUp(asks', p + 1) ELSE ask1
          \/ ask1' = IF asks'[p] <= 0 THEN ScanUp(asks', p) ELSE p

IndexTook(T, q) ==
  \E S : /\ seq_pxs' = Erase(S)
         /\ \A k \in S \cap OrderNo :
              \/ k \in KnownOf(T, "B") /\ bids[order[k].px] <= q
              \/ k \in KnownOf(T, "S") /\ asks[order[k].px] <= q

\* The depth of a side among whose orders n is the only known one that lost q.
LEMMA TakenDepth ==
  ASSUME SZInv, NEW T \in SUBSET OrderNo, NEW q \in Nat, Reduce(T, q),
         \A k \in T : q <= order[k].qty, refused' = refused,
         NEW t \in Side, NEW n \in OrderNo,
         KnownOf(T, t) = {n} \/ KnownOf(T, t) = {}
  PROVE  \A l : Seen!Depth(t, l)' = Seen!Depth(t, l) -
           (IF KnownOf(T, t) = {n} /\ l = order[n].px THEN q ELSE 0)
<1>1. /\ ExchangeTypeOK'
      /\ \A k \in OrderNo :
           /\ order'[k].side = order[k].side /\ order'[k].px = order[k].px
           /\ order'[k].qty = order[k].qty - (IF k \in T THEN q ELSE 0)
  BY ReduceOrders DEF SZInv, TypeOK
<1>2. Seen!ExchangeTypeOK /\ Seen!ExchangeTypeOK' /\ KnownSums /\ KnownSums'
  BY <1>1, KnownOrder, KnownOrderNext DEF SZInv, TypeOK
<1>3. \A k \in OrderNo :
        known'[k].side = known[k].side /\ known'[k].px = known[k].px
  BY <1>1, <1>2 DEF KnownSums
<1> DEFINE x == IF KnownOf(T, t) = {n} THEN q ELSE 0
<1>4. /\ x \in Nat
      /\ KnownOf(T, t) = {n} => x = q
      /\ KnownOf(T, t) # {n} => x = 0
  OBVIOUS
<1> HIDE DEF x
<1>5. ASSUME NEW k \in OrderNo, known[k].side = t
      PROVE  known'[k].qty = known[k].qty - (IF k = n THEN x ELSE 0)
  <2>1. order[k].side = t /\ order[k].qty \in Nat
    BY <1>2, <1>5 DEF KnownSums
  <2>2. CASE k \in refused
    <3>1. k \notin KnownOf(T, t)
      BY <2>2 DEF KnownOf
    <3>2. (IF k = n THEN x ELSE 0) = 0
      BY <1>4, <3>1
    <3>3. known'[k].qty = 0 /\ known[k].qty = 0
      BY <1>2, <2>2 DEF KnownSums
    <3> QED
      BY <3>2, <3>3
  <2>3. CASE k \notin refused
    <3>1. known'[k].qty = order'[k].qty /\ known[k].qty = order[k].qty
      BY <1>2, <2>3 DEF KnownSums
    <3>2. k \in T <=> k \in KnownOf(T, t)
      BY <2>1, <2>3 DEF KnownOf
    <3>3. (IF k \in T THEN q ELSE 0) = (IF k = n THEN x ELSE 0)
      BY <1>4, <3>2
    <3> QED
      BY <1>1, <3>1, <3>3
  <2> QED
    BY <2>2, <2>3
<1>6. \A l : Seen!Depth(t, l)' = Seen!Depth(t, l) -
        (IF known[n].side = t /\ l = known[n].px THEN x ELSE 0)
  BY <1>2, <1>3, <1>5, <1>4, Seen!SideDepth, SameConstants, SpanAssumption,
     MaxOrdersAssumption, PriceSlackAssumption, MaxQtyAssumption
<1>7. known[n].px = order[n].px /\ known[n].side = order[n].side
  BY <1>2 DEF KnownSums
<1>8. KnownOf(T, t) = {n} => order[n].side = t
  BY DEF KnownOf
<1>9. \A l : Seen!Depth(t, l) \in Nat
  BY <1>2, SeenDepth
<1> QED
  BY <1>4, <1>6, <1>7, <1>8, <1>9

\* A known order that rests is within the limits, and its level holds it.
LEMMA KnownShown ==
  ASSUME SZInv, NEW k \in OrderNo, k \notin refused, order[k].qty > 0
  PROVE  /\ order[k].px \in Levels /\ order[k].side \in Side
         /\ order[k].qty \in Nat /\ Indexed(k)
         /\ seq_pxs[k].lvl = order[k].px
         /\ order[k].side = "B" => order[k].qty <= bids[order[k].px]
         /\ order[k].side = "S" => order[k].qty <= asks[order[k].px]
<1>1. order[k].side \in Side /\ order[k].qty \in Nat
  BY DEF SZInv, TypeOK, ExchangeTypeOK
<1>2. /\ seq_pxs[k] = [side |-> order[k].side, lvl |-> order[k].px]
      /\ seq_pxs[k] \in Slot \cup {NoSlot}
  BY DEF SZInv, KnownIndexed, TypeOK, BookTypeOK
<1>3. seq_pxs[k].side = order[k].side /\ seq_pxs[k].lvl = order[k].px
  BY <1>2
<1>4. seq_pxs[k] # NoSlot
  BY <1>1, <1>3 DEF NoSlot, Side
<1>5. order[k].px \in Levels
  BY <1>2, <1>3, <1>4 DEF Slot
<1> QED
  BY <1>1, <1>3, <1>4, <1>5, Shown DEF Indexed

\* The bids after a trade message: exact again, with the cursor on top.
LEMMA BidsKeep ==
  ASSUME SZInv, NEW T \in SUBSET OrderNo, NEW q \in Nat, q > 0, Reduce(T, q),
         \A k \in T : q <= order[k].qty, refused' = refused, BidsTook(T, q)
  PROVE  /\ bids' \in [Levels -> Nat] /\ bid1' \in Levels \cup {Nil}
         /\ \A l \in Levels : bids'[l] = Seen!Depth("B", l)'
         /\ Top(bids', bid1')
<1>1. /\ bids \in [Levels -> Nat] /\ Top(bids, bid1)
      /\ bid1 \in Levels \cup {Nil}
      /\ \A l \in Levels : bids[l] = Seen!Depth("B", l)
  BY Shown DEF SZInv, TypeOK, BookTypeOK, ShowsKnown
<1>2. CASE KnownOf(T, "B") = {} /\ UNCHANGED <<bids, bid1>>
  <2>1. 1 \in OrderNo
    BY MaxOrdersAssumption DEF OrderNo
  <2>2. \A l : Seen!Depth("B", l)' = Seen!Depth("B", l) - 0
    BY <1>2, <2>1, TakenDepth DEF Side
  <2> QED
    BY <1>1, <1>2, <2>2
<1>3. CASE \E n \in OrderNo : LET p == order[n].px IN
             /\ KnownOf(T, "B") = {n}
             /\ bids' = [bids EXCEPT ![p] = @ - q]
             /\ \/ bid1' = IF bid1 = p THEN ScanDown(bids', p) ELSE bid1
                \/ /\ AtBest(n)
                   /\ bid1' = IF bids'[p] <= 0 THEN ScanDown(bids', p) ELSE p
  <2>1. PICK n \in OrderNo : LET p == order[n].px IN
             /\ KnownOf(T, "B") = {n}
             /\ bids' = [bids EXCEPT ![p] = @ - q]
             /\ \/ bid1' = IF bid1 = p THEN ScanDown(bids', p) ELSE bid1
                \/ /\ AtBest(n)
                   /\ bid1' = IF bids'[p] <= 0 THEN ScanDown(bids', p) ELSE p
    BY <1>3
  <2> DEFINE p == order[n].px
  <2>2. n \in T /\ n \notin refused /\ order[n].side = "B" /\ q <= order[n].qty
    BY <2>1 DEF KnownOf
  <2>3. order[n].qty \in Nat /\ order[n].qty > 0
    BY <2>2 DEF SZInv, TypeOK, ExchangeTypeOK
  <2>4. p \in Levels /\ order[n].qty <= bids[p]
    BY <2>2, <2>3, KnownShown
  <2>5. \A l : Seen!Depth("B", l)' =
          Seen!Depth("B", l) - (IF l = p THEN q ELSE 0)
    BY <2>1, TakenDepth DEF Side
  <2>6. bids' = [bids EXCEPT ![p] = @ - q]
    BY <2>1
  <2>7. \/ bid1' = IF bid1 = p THEN ScanDown(bids', p) ELSE bid1
        \/ /\ AtBest(n)
           /\ bid1' = IF bids'[p] <= 0 THEN ScanDown(bids', p) ELSE p
    BY <2>1
  <2>8. ASSUME AtBest(n) PROVE \A k \in Filled(bids) : k <= p
    <3>1. SUFFICES ASSUME NEW l \in Filled(bids) PROVE l <= p
      OBVIOUS
    <3>2. PICK k \in OrderNo :
            order[k].side = "B" /\ order[k].px = l /\ order[k].qty > 0
      BY <3>1, Shown
    <3> QED
      BY <2>2, <2>8, <3>2 DEF AtBest, Resting
  <2> HIDE DEF p
  <2>9. /\ bids' \in [Levels -> Nat] /\ Taken(bids, bids', p)
        /\ \A l \in Levels : bids'[l] = Seen!Depth("B", l)'
    <3>1. bids[p] \in Nat /\ bids[p] - q \in Nat
      BY <1>1, <2>2, <2>3, <2>4
    <3>2. \A l \in Levels : bids'[l] = IF l = p THEN bids[p] - q ELSE bids[l]
      BY <1>1, <2>4, <2>6
    <3>3. bids' \in [Levels -> Nat]
      BY <1>1, <2>6, <3>1
    <3> QED
      BY <1>1, <2>4, <2>5, <3>1, <3>2, <3>3 DEF Taken
  <2>10. /\ p \in Filled(bids) /\ p \in Int /\ bids'[p] \in Nat
         /\ Filled(bids') \in SUBSET Filled(bids)
         /\ Filled(bids') = IF bids'[p] > 0 THEN Filled(bids)
                                            ELSE Filled(bids) \ {p}
    BY <1>1, <2>4, <2>9, FilledTaken, LevelsInt
  <2>11. bid1 \in Filled(bids) /\ \A k \in Filled(bids) : k <= bid1
    BY <1>1, <2>10 DEF Top
  <2>12. Top(bids', bid1')
    <3>1. CASE bid1 = p /\ bid1' = ScanDown(bids', p)
      BY <2>9, <2>10, <2>11, <3>1, ScanDownTop DEF Quantities
    <3>2. CASE bid1 # p /\ bid1' = bid1
      <4>1. bid1 \in Filled(bids')
        BY <2>10, <2>11, <3>2
      <4> QED
        BY <2>10, <2>11, <3>2, <4>1 DEF Top
    <3>3. CASE /\ AtBest(n)
               /\ bid1' = IF bids'[p] <= 0 THEN ScanDown(bids', p) ELSE p
      <4>1. Top(bids, p)
        BY <2>8, <2>10, <3>3 DEF Top
      <4>2. Top(bids', IF bids'[p] <= 0 THEN ScanDown(bids', p) ELSE p)
        BY <1>1, <2>4, <2>9, <4>1, TopTake, Zenon
      <4> QED
        BY <3>3, <4>2, Zenon
    <3> QED
      BY <2>7, <3>1, <3>2, <3>3
  <2>13. bid1' \in Levels \cup {Nil}
    BY <2>12, LevelsInt DEF Top
  <2> QED
    BY <2>9, <2>12, <2>13
<1> QED
  BY <1>2, <1>3 DEF BidsTook

\* The asks after a trade message: exact again, with the cursor on a quantity.
LEMMA AsksKeep ==
  ASSUME SZInv, NEW T \in SUBSET OrderNo, NEW q \in Nat, q > 0, Reduce(T, q),
         \A k \in T : q <= order[k].qty, refused' = refused, AsksTook(T, q)
  PROVE  /\ asks' \in [Levels -> Nat] /\ ask1' \in Levels \cup {Nil}
         /\ \A l \in Levels : asks'[l] = Seen!Depth("S", l)'
         /\ AskOnQuantity'
<1>1. /\ asks \in [Levels -> Nat] /\ AskOnQuantity
      /\ ask1 \in Levels \cup {Nil}
      /\ \A l \in Levels : asks[l] = Seen!Depth("S", l)
  BY Shown DEF SZInv, TypeOK, BookTypeOK, ShowsKnown
<1>2. CASE KnownOf(T, "S") = {} /\ UNCHANGED <<asks, ask1>>
  <2>1. 1 \in OrderNo
    BY MaxOrdersAssumption DEF OrderNo
  <2>2. \A l : Seen!Depth("S", l)' = Seen!Depth("S", l) - 0
    BY <1>2, <2>1, TakenDepth DEF Side
  <2> QED
    BY <1>1, <1>2, <2>2 DEF AskOnQuantity
<1>3. CASE \E n \in OrderNo : LET p == order[n].px IN
             /\ KnownOf(T, "S") = {n}
             /\ asks' = [asks EXCEPT ![p] = @ - q]
             /\ \/ ask1' = IF ask1 = p THEN ScanUp(asks', p + 1) ELSE ask1
                \/ ask1' = IF asks'[p] <= 0 THEN ScanUp(asks', p) ELSE p
  <2>1. PICK n \in OrderNo : LET p == order[n].px IN
             /\ KnownOf(T, "S") = {n}
             /\ asks' = [asks EXCEPT ![p] = @ - q]
             /\ \/ ask1' = IF ask1 = p THEN ScanUp(asks', p + 1) ELSE ask1
                \/ ask1' = IF asks'[p] <= 0 THEN ScanUp(asks', p) ELSE p
    BY <1>3
  <2> DEFINE p == order[n].px
  <2>2. n \in T /\ n \notin refused /\ order[n].side = "S" /\ q <= order[n].qty
    BY <2>1 DEF KnownOf
  <2>3. order[n].qty \in Nat /\ order[n].qty > 0
    BY <2>2 DEF SZInv, TypeOK, ExchangeTypeOK
  <2>4. p \in Levels /\ order[n].qty <= asks[p] /\ p \in Int /\ p + 1 \in Int
    <3>1. p \in Levels /\ order[n].qty <= asks[p]
      BY <2>2, <2>3, KnownShown
    <3> HIDE DEF p
    <3>2. p \in Int
      BY <3>1, LevelsInt
    <3> QED
      BY <3>1, <3>2
  <2>5. \A l : Seen!Depth("S", l)' =
          Seen!Depth("S", l) - (IF l = p THEN q ELSE 0)
    BY <2>1, TakenDepth DEF Side
  <2>6. /\ asks' = [asks EXCEPT ![p] = @ - q]
        /\ \/ ask1' = IF ask1 = p THEN ScanUp(asks', p + 1) ELSE ask1
           \/ ask1' = IF asks'[p] <= 0 THEN ScanUp(asks', p) ELSE p
    BY <2>1
  <2> HIDE DEF p
  <2>7. asks[p] \in Nat /\ asks[p] - q \in Nat
    BY <1>1, <2>2, <2>3, <2>4
  <2>8. \A l \in Levels : asks'[l] = IF l = p THEN asks[p] - q ELSE asks[l]
    BY <1>1, <2>4, <2>6
  <2>9. asks' \in [Levels -> Nat] /\ asks' \in Quantities
    <3>1. asks' = [asks EXCEPT ![p] = asks[p] - q]
      BY <2>6
    <3>2. asks' \in [Levels -> Nat]
      BY <1>1, <2>7, <3>1
    <3> QED
      BY <3>2 DEF Quantities
  <2>10. \A l \in Levels : asks'[l] = Seen!Depth("S", l)'
    BY <1>1, <2>4, <2>5, <2>7, <2>8
  <2>11. \A l \in Int :
           ScanUp(asks', l) # Nil => ScanUp(asks', l) \in Filled(asks')
    BY <2>9, ScanUpFinds
  <2>12. ask1' = Nil \/ ask1' \in Filled(asks')
    <3>1. CASE ask1 # p /\ ask1' = ask1
      BY <1>1, <2>8, <3>1 DEF AskOnQuantity, Filled
    <3>2. CASE ask1' = p /\ ~ (asks'[p] <= 0)
      BY <2>4, <2>9, <3>2 DEF Filled
    <3> QED
      BY <2>4, <2>6, <2>11, <3>1, <3>2
  <2> QED
    BY <2>9, <2>10, <2>12 DEF AskOnQuantity, Filled
<1> QED
  BY <1>2, <1>3 DEF AsksTook

-----------------------------------------------------------------------------
\* A trade message keeps the invariant.  A number leaves the index with its
\* level's last quantity, when nothing is left of the order.
LEMMA TakeKeeps ==
  ASSUME SZInv, NEW T \in SUBSET OrderNo, NEW q \in Nat, q > 0, Reduce(T, q),
         \A k \in T : q <= order[k].qty, refused' = refused,
         BidsTook(T, q), AsksTook(T, q), IndexTook(T, q)
  PROVE  SZInv'
<1>1. /\ ExchangeTypeOK' /\ nextNo' = nextNo
      /\ \A k \in OrderNo :
           /\ order'[k].side = order[k].side /\ order'[k].px = order[k].px
           /\ order'[k].qty = order[k].qty - (IF k \in T THEN q ELSE 0)
  BY ReduceOrders DEF SZInv, TypeOK
<1>2. /\ bids' \in [Levels -> Nat] /\ bid1' \in Levels \cup {Nil}
      /\ asks' \in [Levels -> Nat] /\ ask1' \in Levels \cup {Nil}
      /\ ShowsKnown' /\ Top(bids', bid1') /\ AskOnQuantity'
  BY BidsKeep, AsksKeep DEF ShowsKnown
<1>3. PICK S : /\ seq_pxs' = Erase(S)
               /\ \A k \in S \cap OrderNo :
                    \/ k \in KnownOf(T, "B") /\ bids[order[k].px] <= q
                    \/ k \in KnownOf(T, "S") /\ asks[order[k].px] <= q
  BY DEF IndexTook
<1>4. \A k \in OrderNo : seq_pxs'[k] = IF k \in S THEN NoSlot ELSE seq_pxs[k]
  BY <1>3 DEF Erase
<1>5. seq_pxs' \in [OrderNo -> Slot \cup {NoSlot}]
  BY <1>3, <1>4 DEF Erase, SZInv, TypeOK, BookTypeOK
<1>6. ASSUME NEW k \in S \cap OrderNo PROVE order'[k].qty = 0
  <2>1. k \in T /\ k \notin refused /\ order[k].qty \in Nat /\ q <= order[k].qty
    BY <1>3, <1>6 DEF KnownOf, SZInv, TypeOK, ExchangeTypeOK
  <2>2. order[k].qty > 0
    BY <2>1
  <2>3. /\ order[k].px \in Levels
        /\ order[k].side = "B" => order[k].qty <= bids[order[k].px]
        /\ order[k].side = "S" => order[k].qty <= asks[order[k].px]
    BY <2>1, <2>2, KnownShown
  <2>4. bids[order[k].px] \in Nat /\ asks[order[k].px] \in Nat
    BY <2>3, Shown
  <2>5. order[k].qty <= q
    BY <1>3, <1>6, <2>1, <2>3, <2>4 DEF KnownOf
  <2> QED
    BY <1>1, <2>1, <2>5
<1>7. \A k \in T : k < nextNo /\ k \in Int
  BY DEF SZInv, NumbersRight, TypeOK, ExchangeTypeOK, OrderNo
<1>8. NumbersRight'
  <2>1. \A n \in refused' : seq_pxs'[n] = NoSlot
    <3>1. ASSUME NEW n \in refused PROVE n \in OrderNo
      <4>1. n \in 1 .. nextNo - 1 /\ nextNo \in 1 .. MaxOrders + 1
        BY DEF SZInv, TypeOK, ExchangeTypeOK, NumbersRight
      <4> QED
        BY <4>1, MaxOrdersAssumption DEF OrderNo
    <3> QED
      BY <1>4, <3>1 DEF SZInv, NumbersRight
  <2>2. ASSUME NEW n \in OrderNo, n >= nextNo'
        PROVE  order'[n].qty = 0 /\ seq_pxs'[n] = NoSlot
    <3>1. n \notin T
      BY <1>1, <1>7, <2>2 DEF SZInv, TypeOK, ExchangeTypeOK
    <3> QED
      BY <1>1, <1>4, <2>2, <3>1 DEF SZInv, NumbersRight
  <2> QED
    BY <1>1, <2>1, <2>2 DEF SZInv, NumbersRight
<1>9. KnownIndexed'
  <2>1. SUFFICES ASSUME NEW n \in OrderNo, order'[n].qty > 0, n \notin refused'
                 PROVE  seq_pxs'[n]
                          = [side |-> order'[n].side, lvl |-> order'[n].px]
    BY DEF KnownIndexed
  <2>2. n \notin S
    BY <1>6, <2>1
  <2>3. order[n].qty > 0
    BY <1>1, <2>1 DEF SZInv, TypeOK, ExchangeTypeOK
  <2> QED
    BY <1>1, <1>4, <2>1, <2>2, <2>3 DEF SZInv, KnownIndexed
<1>10. TypeOK'
  BY <1>1, <1>2, <1>5 DEF TypeOK, BookTypeOK
<1> QED
  BY <1>2, <1>8, <1>9, <1>10 DEF SZInv

\* Numbers the book has never seen, or refused, or that no order has.
LEMMA NotIndexed ==
  ASSUME SZInv
  PROVE  /\ ~ Indexed(nextNo) /\ ~ Indexed(0)
         /\ \A n \in refused : ~ Indexed(n)
BY DEF Indexed, SZInv, NumbersRight, TypeOK, ExchangeTypeOK, OrderNo

\* What a fill that names the bid b does to the bids, and to the index.
LEMMA FillsBid ==
  ASSUME SZInv, NEW T \in SUBSET OrderNo, NEW b \in T, NEW q,
         \A k \in T : order[k].side = "B" => k = b,
         order[b].side = "B", order[b].qty > 0, AtBest(b), FillBidSZ(b, q)
  PROVE  /\ BidsTook(T, q)
         /\ Indexed(b) /\ bids[seq_pxs[b].lvl] <= q
              => b \in KnownOf(T, "B") /\ bids[order[b].px] <= q
<1>1. CASE b \in refused
  <2>1. ~ Indexed(b) /\ KnownOf(T, "B") = {}
    BY <1>1, NotIndexed DEF KnownOf
  <2> QED
    BY <2>1 DEF FillBidSZ, BidsTook
<1>2. CASE b \notin refused
  <2>1. Indexed(b) /\ seq_pxs[b].lvl = order[b].px
    BY <1>2, KnownShown
  <2>2. KnownOf(T, "B") = {b}
    BY <1>2 DEF KnownOf
  <2> DEFINE p == order[b].px
  <2>3. /\ bids' = [bids EXCEPT ![p] = @ - q]
        /\ bid1' = IF bids'[p] <= 0 THEN ScanDown(bids', p) ELSE p
    BY <2>1 DEF FillBidSZ
  <2>4. BidsTook(T, q)
    BY <2>2, <2>3, Zenon DEF BidsTook
  <2> QED
    BY <2>1, <2>2, <2>4
<1> QED
  BY <1>1, <1>2

\* What a fill that names the offer s does to the asks, and to the index.
LEMMA FillsOffer ==
  ASSUME SZInv, NEW T \in SUBSET OrderNo, NEW s \in T, NEW q,
         \A k \in T : order[k].side = "S" => k = s,
         order[s].side = "S", order[s].qty > 0, FillOfferSZ(s, q)
  PROVE  /\ AsksTook(T, q)
         /\ Indexed(s) /\ asks[seq_pxs[s].lvl] <= q
              => s \in KnownOf(T, "S") /\ asks[order[s].px] <= q
<1>1. CASE s \in refused
  <2>1. ~ Indexed(s) /\ KnownOf(T, "S") = {}
    BY <1>1, NotIndexed DEF KnownOf
  <2> QED
    BY <2>1 DEF FillOfferSZ, AsksTook
<1>2. CASE s \notin refused
  <2>1. Indexed(s) /\ seq_pxs[s].lvl = order[s].px
    BY <1>2, KnownShown
  <2>2. KnownOf(T, "S") = {s}
    BY <1>2 DEF KnownOf
  <2> DEFINE p == order[s].px
  <2>3. /\ asks' = [asks EXCEPT ![p] = @ - q]
        /\ ask1' = IF asks'[p] <= 0 THEN ScanUp(asks', p) ELSE p
    BY <2>1 DEF FillOfferSZ
  <2>4. AsksTook(T, q)
    BY <2>2, <2>3, Zenon DEF AsksTook
  <2> QED
    BY <2>1, <2>2, <2>4
<1> QED
  BY <1>1, <1>2

\* The numbers a fill takes out of the index.
LEMMA FillsIndex ==
  ASSUME NEW b, NEW s, NEW p, NEW q, NEW T,
         seq_pxs' = Erase(EmptiedSZ(FillMsg(b, s, p, q))),
         Indexed(b) /\ bids[seq_pxs[b].lvl] <= q
           => b \in KnownOf(T, "B") /\ bids[order[b].px] <= q,
         Indexed(s) /\ asks[seq_pxs[s].lvl] <= q
           => s \in KnownOf(T, "S") /\ asks[order[s].px] <= q
  PROVE  IndexTook(T, q)
<1> DEFINE m == FillMsg(b, s, p, q)
<1>1. m.BidApplSeqNum = b /\ m.OfferApplSeqNum = s /\ m.LastQty = q
  BY DEF FillMsg
<1> HIDE DEF m
<1>2. \A k \in EmptiedSZ(m) :
        \/ k = b /\ Indexed(b) /\ bids[seq_pxs[b].lvl] <= q
        \/ k = s /\ Indexed(s) /\ asks[seq_pxs[s].lvl] <= q
  BY <1>1 DEF EmptiedSZ
<1>3. \A k \in EmptiedSZ(m) \cap OrderNo :
        \/ k \in KnownOf(T, "B") /\ bids[order[k].px] <= q
        \/ k \in KnownOf(T, "S") /\ asks[order[k].px] <= q
  BY <1>2
<1> QED
  BY <1>3, Zenon DEF IndexTook, m

-----------------------------------------------------------------------------
\* With the exchange's limits only an order that names no price is refused.
LEMMA SubmitKeeps ==
  ASSUME PriceSlack = 0, SZInv, Submit
  PROVE  SZInv'
<1>1. PICK s \in Side, p \in Prices, q \in 1 .. MaxQty :
        /\ Enter(s, p, q)
        /\ onOrderSZ(OrderMsg(s, p, q))
        /\ Accepted(OrderMsg(s, p, q))
  BY DEF Submit
<1>2. p \in Levels
  BY PricesLevels
<1>3. refused' = refused
  BY <1>1, <1>2 DEF Accepted, OrderMsg, InRange
<1> QED
  BY <1>1, <1>2, <1>3, AcceptKeeps

LEMMA OwnBestKeeps ==
  ASSUME SZInv, SubmitOwnBest
  PROVE  SZInv'
<1>1. PICK n \in OrderNo, q \in 1 .. MaxQty :
        /\ Enter(order[n].side, order[n].px, q)
        /\ onOrderSZ(OrderMsg(order[n].side, Nil, q))
        /\ Accepted(OrderMsg(order[n].side, Nil, q))
  BY DEF SubmitOwnBest
<1>2. order[n].side \in Side /\ order[n].px \in Prices
  BY DEF SZInv, TypeOK, ExchangeTypeOK
<1>3. UNCHANGED bookVars /\ refused' = refused \cup {nextNo}
  BY <1>1, LevelsInt
  DEF onOrderSZ, AddBuySZ, AddSellSZ, RefuseSZ, OrderMsg, InRange, Accepted
<1> QED
  BY <1>1, <1>2, <1>3, RefuseKeeps

\* A withdrawal names one order, and has no price.
LEMMA WithdrawKeeps ==
  ASSUME SZInv, Withdraw
  PROVE  SZInv'
<1>1. PICK n \in OrderNo : /\ order[n].qty > 0
                           /\ Reduce({n}, order[n].qty)
                           /\ onTradeSZ(CancelMsg(n)) /\ refused' = refused
  BY DEF Withdraw
<1> DEFINE q == order[n].qty
           p == order[n].px
           T == {n}
<1>2. q \in Nat /\ order[n].side \in Side
  BY DEF SZInv, TypeOK, ExchangeTypeOK
<1>3. CancelSZ(CancelMsg(n))
  BY <1>1 DEF onTradeSZ, FillSZ, IgnoreSZ, CancelMsg
<1>4. ~ Indexed(0)
  BY NotIndexed
<1>5. seq_pxs' = Erase(EmptiedSZ(CancelMsg(n)))
  BY <1>3 DEF CancelSZ
<1>6. n \notin refused =>
        Indexed(n) /\ seq_pxs[n].lvl = p
  BY <1>1, KnownShown
<1>7. n \in refused => ~ Indexed(n)
  BY NotIndexed
<1>8. CASE order[n].side = "B"
  <2>1. CancelMsg(n) = [ExecType |-> "4", p |-> Nil, LastQty |-> q,
                        BidApplSeqNum |-> n, OfferApplSeqNum |-> 0]
    BY <1>8 DEF CancelMsg
  <2>2. CancelBidSZ(n, q) /\ CancelOfferSZ(0, q)
    BY <1>3, <2>1 DEF CancelSZ
  <2>3. AsksTook(T, q)
    BY <1>4, <1>8, <2>2 DEF CancelOfferSZ, AsksTook, KnownOf
  <2>4. BidsTook(T, q)
    <3>1. CASE n \in refused
      BY <1>7, <2>2, <3>1 DEF CancelBidSZ, BidsTook, KnownOf
    <3>2. CASE n \notin refused
      <4>1. KnownOf(T, "B") = {n}
        BY <1>8, <3>2 DEF KnownOf
      <4>2. /\ bids' = [bids EXCEPT ![p] = @ - q]
            /\ bid1' = IF bid1 = p THEN ScanDown(bids', p) ELSE bid1
        BY <1>6, <2>2, <3>2 DEF CancelBidSZ
      <4> QED
        BY <4>1, <4>2, Zenon DEF BidsTook
    <3> QED
      BY <3>1, <3>2
  <2>5. \A k \in EmptiedSZ(CancelMsg(n)) :
          k \in KnownOf(T, "B") /\ bids[order[k].px] <= q
    BY <1>4, <1>6, <1>7, <1>8, <2>1 DEF EmptiedSZ, KnownOf
  <2>6. IndexTook(T, q)
    BY <1>5, <2>5 DEF IndexTook
  <2> QED
    BY <1>1, <1>2, <2>3, <2>4, <2>6, TakeKeeps
<1>9. CASE order[n].side = "S"
  <2>1. CancelMsg(n) = [ExecType |-> "4", p |-> Nil, LastQty |-> q,
                        BidApplSeqNum |-> 0, OfferApplSeqNum |-> n]
    BY <1>9 DEF CancelMsg
  <2>2. CancelBidSZ(0, q) /\ CancelOfferSZ(n, q)
    BY <1>3, <2>1 DEF CancelSZ
  <2>3. BidsTook(T, q)
    BY <1>4, <1>9, <2>2 DEF CancelBidSZ, BidsTook, KnownOf
  <2>4. AsksTook(T, q)
    <3>1. CASE n \in refused
      BY <1>7, <2>2, <3>1 DEF CancelOfferSZ, AsksTook, KnownOf
    <3>2. CASE n \notin refused
      <4>1. KnownOf(T, "S") = {n}
        BY <1>9, <3>2 DEF KnownOf
      <4>2. /\ asks' = [asks EXCEPT ![p] = @ - q]
            /\ ask1' = IF ask1 = p THEN ScanUp(asks', p + 1) ELSE ask1
        BY <1>6, <2>2, <3>2 DEF CancelOfferSZ
      <4> QED
        BY <4>1, <4>2, Zenon DEF AsksTook
    <3> QED
      BY <3>1, <3>2
  <2>5. \A k \in EmptiedSZ(CancelMsg(n)) :
          k \in KnownOf(T, "S") /\ asks[order[k].px] <= q
    BY <1>4, <1>6, <1>7, <1>9, <2>1 DEF EmptiedSZ, KnownOf
  <2>6. IndexTook(T, q)
    BY <1>5, <2>5 DEF IndexTook
  <2> QED
    BY <1>1, <1>2, <2>3, <2>4, <2>6, TakeKeeps
<1> QED
  BY <1>2, <1>8, <1>9 DEF Side

\* A match names the best orders of both sides; its price is between theirs.
LEMMA MatchKeeps ==
  ASSUME PriceSlack = 0, SZInv, Match
  PROVE  SZInv'
<1>1. PICK b \in Resting("B"), s \in Resting("S"), p \in Prices :
        LET q == Min({order[b].qty, order[s].qty})
        IN  /\ AtBest(b) /\ AtBest(s)
            /\ Reduce({b, s}, q)
            /\ onTradeSZ(FillMsg(b, s, p, q))
            /\ refused' = refused
  BY DEF Match
<1> DEFINE q == Min({order[b].qty, order[s].qty})
           T == {b, s}
<1>2. /\ b \in OrderNo /\ order[b].side = "B" /\ order[b].qty > 0
      /\ s \in OrderNo /\ order[s].side = "S" /\ order[s].qty > 0
      /\ order[b].qty \in Nat /\ order[s].qty \in Nat
  BY DEF Resting, SZInv, TypeOK, ExchangeTypeOK
<1>3. q \in Nat /\ q > 0 /\ q <= order[b].qty /\ q <= order[s].qty
  <2>1. \E x \in {order[b].qty, order[s].qty} :
          \A y \in {order[b].qty, order[s].qty} : x <= y
    BY <1>2
  <2> QED
    BY <1>2, <2>1 DEF Min
<1>4. AtBest(b) /\ Reduce(T, q) /\ onTradeSZ(FillMsg(b, s, p, q))
      /\ refused' = refused
  BY <1>1
<1> HIDE DEF q
<1>5. p \in Levels
  BY PricesLevels
<1>6. /\ FillBidSZ(b, q) /\ FillOfferSZ(s, q)
      /\ seq_pxs' = Erase(EmptiedSZ(FillMsg(b, s, p, q)))
  BY <1>4, <1>5 DEF onTradeSZ, FillMsg, CancelSZ, FillSZ, IgnoreSZ, InRange
<1>7. /\ BidsTook(T, q)
      /\ Indexed(b) /\ bids[seq_pxs[b].lvl] <= q
           => b \in KnownOf(T, "B") /\ bids[order[b].px] <= q
  BY <1>2, <1>4, <1>6, FillsBid
<1>8. /\ AsksTook(T, q)
      /\ Indexed(s) /\ asks[seq_pxs[s].lvl] <= q
           => s \in KnownOf(T, "S") /\ asks[order[s].px] <= q
  BY <1>2, <1>6, FillsOffer
<1>9. IndexTook(T, q)
  BY <1>6, <1>7, <1>8, FillsIndex
<1> QED
  BY <1>2, <1>3, <1>4, <1>7, <1>8, <1>9, TakeKeeps

\* A market order's fill names the best order of one side and a number the book
\* has never taken.
LEMMA MarketKeeps ==
  ASSUME PriceSlack = 0, SZInv, MarketFill
  PROVE  SZInv'
<1>1. PICK n \in OrderNo, q \in 1 .. MaxQty :
        /\ AtBest(n) /\ q <= order[n].qty /\ Reduce({n}, q)
        /\ onTradeSZ(IF order[n].side = "B"
                     THEN FillMsg(n, nextNo, order[n].px, q)
                     ELSE FillMsg(nextNo, n, order[n].px, q))
        /\ refused' = refused
  BY DEF MarketFill
<1> DEFINE p == order[n].px
           T == {n}
<1>2. /\ q \in Nat /\ q > 0 /\ order[n].qty > 0 /\ order[n].side \in Side
      /\ p \in Levels
  BY <1>1, MaxQtyAssumption, PricesLevels
  DEF AtBest, SZInv, TypeOK, ExchangeTypeOK
<1>3. ~ Indexed(nextNo)
  BY NotIndexed
<1>4. CASE order[n].side = "B"
  <2>1. /\ FillBidSZ(n, q) /\ FillOfferSZ(nextNo, q)
        /\ seq_pxs' = Erase(EmptiedSZ(FillMsg(n, nextNo, p, q)))
    BY <1>1, <1>2, <1>4
    DEF onTradeSZ, FillMsg, CancelSZ, FillSZ, IgnoreSZ, InRange
  <2>2. /\ BidsTook(T, q)
        /\ Indexed(n) /\ bids[seq_pxs[n].lvl] <= q
             => n \in KnownOf(T, "B") /\ bids[order[n].px] <= q
    BY <1>1, <1>2, <1>4, <2>1, FillsBid
  <2>3. AsksTook(T, q)
    BY <1>3, <1>4, <2>1 DEF FillOfferSZ, AsksTook, KnownOf
  <2>4. IndexTook(T, q)
    BY <1>3, <2>1, <2>2, FillsIndex
  <2> QED
    BY <1>1, <1>2, <2>2, <2>3, <2>4, TakeKeeps
<1>5. CASE order[n].side = "S"
  <2>1. /\ FillBidSZ(nextNo, q) /\ FillOfferSZ(n, q)
        /\ seq_pxs' = Erase(EmptiedSZ(FillMsg(nextNo, n, p, q)))
    BY <1>1, <1>2, <1>5
    DEF onTradeSZ, FillMsg, CancelSZ, FillSZ, IgnoreSZ, InRange
  <2>2. /\ AsksTook(T, q)
        /\ Indexed(n) /\ asks[seq_pxs[n].lvl] <= q
             => n \in KnownOf(T, "S") /\ asks[order[n].px] <= q
    BY <1>2, <1>5, <2>1, FillsOffer
  <2>3. BidsTook(T, q)
    BY <1>3, <1>5, <2>1 DEF FillBidSZ, BidsTook, KnownOf
  <2>4. IndexTook(T, q)
    BY <1>3, <2>1, <2>2, FillsIndex
  <2> QED
    BY <1>1, <1>2, <2>2, <2>3, <2>4, TakeKeeps
<1> QED
  BY <1>2, <1>4, <1>5 DEF Side

-----------------------------------------------------------------------------
\* The empty books satisfy the invariant.
LEMMA InitKeeps ==
  ASSUME SZInit
  PROVE  SZInv
<1>1. Init /\ refused = {}
  BY DEF SZInit
<1>2. ExchangeTypeOK
  BY <1>1, PriceSlackAssumption, SpanAssumption, MaxOrdersAssumption
  DEF Init, ExchangeInit, ExchangeTypeOK, Side, Prices
<1>3. BookTypeOK /\ AskOnQuantity
  BY <1>1 DEF Init, BookInit, BookTypeOK, AskOnQuantity
<1>4. NumbersRight /\ KnownIndexed
  BY <1>1 DEF Init, ExchangeInit, BookInit, NumbersRight, KnownIndexed
<1>5. Seen!ExchangeTypeOK /\ KnownSums
  BY <1>2, KnownOrder
<1>6. \A s : Seen!Resting(s) = {}
  BY <1>1, <1>5, SameConstants DEF Init, ExchangeInit, Seen!Resting, KnownSums
<1>7. \A s, l : Seen!Depth(s, l) = 0
  BY <1>5, <1>6, SeenDepth
<1>8. ShowsKnown
  BY <1>1, <1>7 DEF Init, BookInit, ShowsKnown
<1>9. Top(bids, bid1)
  <2>1. Filled(bids) = {} /\ bid1 = Nil
    BY <1>1 DEF Init, BookInit, Filled
  <2> QED
    BY <2>1 DEF Top
<1> QED
  BY <1>2, <1>3, <1>4, <1>8, <1>9 DEF SZInv, TypeOK

\* A step that changes nothing keeps it.
LEMMA StutterKeeps ==
  ASSUME SZInv, UNCHANGED szVars
  PROVE  SZInv'
<1>1. /\ order' = order /\ nextNo' = nextNo /\ refused' = refused
      /\ bids' = bids /\ asks' = asks /\ bid1' = bid1 /\ ask1' = ask1
      /\ seq_pxs' = seq_pxs
  BY DEF szVars, vars, exchangeVars, bookVars
<1>2. known' = known
  BY <1>1 DEF known
<1>3. ShowsKnown'
  BY <1>1, <1>2 DEF SZInv, ShowsKnown, Seen!Depth, Seen!Share
<1>4. TypeOK'
  BY <1>1 DEF SZInv, TypeOK, ExchangeTypeOK, BookTypeOK
<1>5. NumbersRight' /\ KnownIndexed' /\ AskOnQuantity' /\ Top(bids', bid1')
  BY <1>1 DEF SZInv, NumbersRight, KnownIndexed, AskOnQuantity
<1> QED
  BY <1>3, <1>4, <1>5 DEF SZInv

\* The bid cursor that is right for the array is on the best level a known
\* order rests at.
LEMMA BidBest ==
  ASSUME SZInv
  PROVE  KnownBidExact
<1>1. /\ KnownSums /\ Known!Resting("B") = {k \in OrderNo :
             k \notin refused /\ order[k].side = "B" /\ order[k].qty > 0}
  BY KnownOrder
  DEF SZInv, TypeOK, KnownSums, Known!Resting, Known!OrderNo, OrderNo
<1>2. ASSUME NEW k \in Known!Resting("B") PROVE known[k].px \in Filled(bids)
  <2>1. /\ k \in OrderNo /\ k \notin refused /\ order[k].side = "B"
        /\ order[k].qty > 0 /\ known[k].px = order[k].px
    BY <1>1 DEF KnownSums
  <2>2. order[k].px \in Levels /\ order[k].qty <= bids[order[k].px]
        /\ order[k].qty \in Nat
    BY <2>1, KnownShown
  <2>3. bids[order[k].px] \in Nat
    BY <2>2, Shown
  <2> QED
    BY <2>1, <2>2, <2>3 DEF Filled
<1>3. ASSUME NEW l \in Filled(bids)
      PROVE  \E k \in Known!Resting("B") : known[k].px = l
  BY <1>1, Shown DEF KnownSums
<1>4. CASE Known!Resting("B") = {}
  <2>1. bid1 = Nil
    BY <1>3, <1>4 DEF SZInv, Top
  <2> QED
    BY <1>4, <2>1
    DEF KnownBidExact, Known!BidExact, Known!OnBest, Known!Nil, Nil
<1>5. CASE Known!Resting("B") # {}
  <2>1. bid1 \in Filled(bids) /\ \A l \in Filled(bids) : l <= bid1
    BY <1>2, <1>5 DEF SZInv, Top
  <2>2. PICK k \in Known!Resting("B") : known[k].px = bid1
    BY <1>3, <2>1
  <2>3. \A j \in Known!Resting("B") : known[j].px <= known[k].px
    BY <1>2, <2>1, <2>2
  <2>4. k \in OrderNo /\ known[k].side = "B" /\ known[k].qty > 0
    BY <1>1, <2>2 DEF KnownSums
  <2>5. Known!AtBest(k)
    BY <2>3, <2>4 DEF Known!AtBest, Known!OrderNo, OrderNo
  <2> QED
    BY <1>5, <2>2, <2>5 DEF KnownBidExact, Known!BidExact, Known!OnBest
<1> QED
  BY <1>4, <1>5

\* SZInv is an invariant of the Shenzhen book.
THEOREM SZInvariant ==
  ASSUME PriceSlack = 0
  PROVE  Spec => []SZInv
<1>1. SZInit => SZInv
  BY InitKeeps
<1>2. SZInv /\ [Next]_szVars => SZInv'
  BY SubmitKeeps, OwnBestKeeps, WithdrawKeeps, MatchKeeps, MarketKeeps,
     StutterKeeps DEF Next
<1> QED
  BY <1>1, <1>2, PTL DEF Spec

\* For any numbers of levels and orders, the Shenzhen cursors and the index only
\* ever name levels of the book, and no refused order is in the index.
THEOREM SZTypesCorrect ==
  ASSUME PriceSlack = 0
  PROVE  Spec => []SZTypeOK
<1>1. SZInv => SZTypeOK
  BY DEF SZInv, NumbersRight, SZTypeOK
<1> QED
  BY <1>1, SZInvariant, PTL

\* Through crossed books, market orders and own-best orders, every level shows
\* exactly what rests there of the orders that were not refused.
THEOREM KnownDepthCorrect ==
  ASSUME PriceSlack = 0
  PROVE  Spec => []KnownDepthExact
<1>1. SZInv => KnownDepthExact
  BY SameDepth DEF SZInv, ShowsKnown, KnownDepthExact, Known!DepthExact,
                   Known!Levels, Levels
<1> QED
  BY <1>1, SZInvariant, PTL

\* The bid cursor, which fills set to their order's level and withdrawals search
\* from, is always on the best level such an order rests at.
THEOREM KnownBidCorrect ==
  ASSUME PriceSlack = 0
  PROVE  Spec => []KnownBidExact
<1>1. SZInv => KnownBidExact
  BY BidBest
<1> QED
  BY <1>1, SZInvariant, PTL

\* The ask cursor, which withdrawals move off its level, never stands on an
\* empty one.
THEOREM AskOnQuantityCorrect ==
  ASSUME PriceSlack = 0
  PROVE  Spec => []AskOnQuantity
<1>1. SZInv => AskOnQuantity
  BY DEF SZInv
<1> QED
  BY <1>1, SZInvariant, PTL

-----------------------------------------------------------------------------
(***************************************************************************)
(* How the ask cursor leaves the best level and returns to it.             *)
(***************************************************************************)
\* The ask cursor is where it should be over the quantities shown.
AskRight == Bottom(asks, ask1)

-----------------------------------------------------------------------------
\* The quantities of sell orders that are shown are those of known orders.
LEMMA ShownAsks ==
  ASSUME SZInv
  PROVE  /\ asks \in [Levels -> Nat]
         /\ \A l \in Filled(asks) : \E n \in OrderNo :
              /\ n \notin refused /\ order[n].side = "S"
              /\ order[n].px = l /\ order[n].qty > 0
<1>1. Seen!ExchangeTypeOK /\ KnownSums
  BY KnownOrder DEF SZInv, TypeOK
<1>2. ASSUME NEW l \in Filled(asks)
      PROVE  \E n \in OrderNo : /\ n \notin refused /\ order[n].side = "S"
                                /\ order[n].px = l /\ order[n].qty > 0
  <2>1. l \in Levels /\ Seen!Depth("S", l) > 0
    BY DEF Filled, SZInv, ShowsKnown
  <2>2. PICK n \in Seen!Resting("S") : known[n].px = l
    BY <1>1, <2>1, SeenDepth
  <2>3. n \in OrderNo /\ known[n].side = "S" /\ known[n].qty > 0
    BY <2>2, SameConstants DEF Seen!Resting
  <2> QED
    BY <1>1, <2>2, <2>3 DEF KnownSums
<1> QED
  BY <1>2, Shown

LEMMA AsksNatNext == SZInv' => (asks \in [Levels -> Nat])'
<1>1. SZInv => asks \in [Levels -> Nat]
  BY ShownAsks
<1> QED
  BY <1>1, PTL

\* Over quantities that are exact, a right cursor is on the best level that a
\* known order rests at, and the other way round.
LEMMA AskBest == SZInv => (Known!AskExact <=> AskRight)
<1> SUFFICES ASSUME SZInv PROVE Known!AskExact <=> AskRight
  OBVIOUS
<1>1. /\ KnownSums /\ Known!Resting("S") = {k \in OrderNo :
             k \notin refused /\ order[k].side = "S" /\ order[k].qty > 0}
  BY KnownOrder
  DEF SZInv, TypeOK, KnownSums, Known!Resting, Known!OrderNo, OrderNo
<1>2. ASSUME NEW k \in Known!Resting("S") PROVE known[k].px \in Filled(asks)
  <2>1. /\ k \in OrderNo /\ k \notin refused /\ order[k].side = "S"
        /\ order[k].qty > 0 /\ known[k].px = order[k].px
    BY <1>1 DEF KnownSums
  <2>2. order[k].px \in Levels /\ order[k].qty <= asks[order[k].px]
        /\ order[k].qty \in Nat
    BY <2>1, KnownShown
  <2>3. asks[order[k].px] \in Nat
    BY <2>2, Shown
  <2> QED
    BY <2>1, <2>2, <2>3 DEF Filled
<1>3. ASSUME NEW l \in Filled(asks)
      PROVE  \E k \in Known!Resting("S") : known[k].px = l
  BY <1>1, ShownAsks DEF KnownSums
<1>4. CASE Known!Resting("S") = {}
  <2>1. Filled(asks) = {}
    BY <1>3, <1>4
  <2> QED
    BY <1>4, <2>1
    DEF AskRight, Bottom, Known!AskExact, Known!OnBest, Known!Nil, Nil
<1>5. CASE Known!Resting("S") # {}
  <2>1. Filled(asks) # {}
    BY <1>2, <1>5
  <2>2. ASSUME AskRight PROVE Known!AskExact
    <3>1. ask1 \in Filled(asks) /\ \A l \in Filled(asks) : l >= ask1
      BY <2>1, <2>2 DEF AskRight, Bottom
    <3>2. PICK k \in Known!Resting("S") : known[k].px = ask1
      BY <1>3, <3>1
    <3>3. \A j \in Known!Resting("S") : known[j].px >= known[k].px
      BY <1>2, <3>1, <3>2
    <3>4. k \in OrderNo /\ known[k].side = "S" /\ known[k].qty > 0
      BY <1>1, <3>2 DEF KnownSums
    <3>5. Known!AtBest(k)
      BY <3>3, <3>4 DEF Known!AtBest, Known!OrderNo, OrderNo
    <3> QED
      BY <1>5, <3>2, <3>5 DEF Known!AskExact, Known!OnBest
  <2>3. ASSUME Known!AskExact PROVE AskRight
    <3>1. PICK k \in Known!Resting("S") :
            Known!AtBest(k) /\ ask1 = known[k].px
      BY <1>5, <2>3 DEF Known!AskExact, Known!OnBest
    <3>2. known[k].side = "S"
      BY <1>1, <3>1 DEF KnownSums
    <3>3. \A j \in Known!Resting("S") : known[j].px >= known[k].px
      BY <3>1, <3>2 DEF Known!AtBest
    <3>4. \A l \in Filled(asks) : l >= ask1
      BY <1>3, <3>1, <3>3
    <3>5. ask1 \in Filled(asks)
      BY <1>2, <3>1
    <3> QED
      BY <2>1, <3>4, <3>5 DEF AskRight, Bottom
  <2> QED
    BY <2>2, <2>3
<1> QED
  BY <1>4, <1>5

LEMMA AskBestNext == SZInv' => (Known!AskExact' <=> AskRight')
BY AskBest, PTL

-----------------------------------------------------------------------------
\* A known sell order stands in the asks with its quantity.
LEMMA SellShown ==
  ASSUME SZInv, NEW n \in OrderNo, n \notin refused, order[n].side = "S",
         order[n].qty > 0
  PROVE  /\ order[n].px \in Levels /\ order[n].px \in Filled(asks)
         /\ Indexed(n) /\ seq_pxs[n].lvl = order[n].px
<1>1. /\ order[n].px \in Levels /\ order[n].qty \in Nat /\ Indexed(n)
      /\ seq_pxs[n].lvl = order[n].px /\ order[n].qty <= asks[order[n].px]
  BY KnownShown
<1>2. asks[order[n].px] \in Nat
  BY <1>1, Shown
<1> QED
  BY <1>1, <1>2 DEF Filled

\* Quantities of which q was taken at level p.
LEMMA AsksTaken ==
  ASSUME SZInv, SZInv', NEW p \in Levels, NEW q \in Nat, q > 0,
         asks' = [asks EXCEPT ![p] = @ - q]
  PROVE  /\ asks \in [Levels -> Nat] /\ asks' \in [Levels -> Nat]
         /\ Taken(asks, asks', p)
<1>1. asks \in [Levels -> Nat] /\ asks' \in [Levels -> Nat]
  BY ShownAsks, AsksNatNext
<1>2. \A l \in Levels : asks'[l] = IF l = p THEN asks[p] - q ELSE asks[l]
  BY <1>1
<1>3. asks[p] \in Nat /\ asks'[p] = asks[p] - q
  BY <1>1, <1>2
<1>4. asks'[p] < asks[p]
  BY <1>3
<1> QED
  BY <1>1, <1>2, <1>4 DEF Taken

\* A fill of a known sell order, which is the exchange's best, puts the cursor
\* right, wherever withdrawals left it.
LEMMA FillRight ==
  ASSUME SZInv, SZInv', NEW n \in OrderNo, NEW q \in Nat, q > 0,
         n \notin refused, order[n].side = "S", AtBest(n), FillOfferSZ(n, q)
  PROVE  AskRight'
<1> DEFINE p == order[n].px
<1>1. order[n].qty > 0
  BY DEF AtBest
<1>2. p \in Levels /\ p \in Filled(asks) /\ Indexed(n) /\ seq_pxs[n].lvl = p
  BY <1>1, SellShown
<1>3. /\ asks' = [asks EXCEPT ![p] = @ - q]
      /\ ask1' = IF asks'[p] <= 0 THEN ScanUp(asks', p) ELSE p
  BY <1>2 DEF FillOfferSZ
<1>4. \A l \in Filled(asks) : l >= p
  <2>1. SUFFICES ASSUME NEW l \in Filled(asks) PROVE l >= p
    OBVIOUS
  <2>2. PICK k \in OrderNo :
          order[k].side = "S" /\ order[k].px = l /\ order[k].qty > 0
    BY <2>1, ShownAsks
  <2> QED
    BY <2>2 DEF AtBest, Resting
<1> HIDE DEF p
<1>5. Bottom(asks, p)
  BY <1>2, <1>4 DEF Bottom
<1>6. /\ asks \in [Levels -> Nat] /\ asks' \in [Levels -> Nat]
      /\ Taken(asks, asks', p)
  BY <1>2, <1>3, AsksTaken
<1>7. Bottom(asks', IF asks'[p] <= 0 THEN ScanUp(asks', p) ELSE p)
  BY <1>2, <1>5, <1>6, BottomTake, Zenon
<1> QED
  BY <1>3, <1>7, Zenon DEF AskRight

\* What leaves the asks alone leaves the cursor right or wrong.
LEMMA SameAsks ==
  ASSUME UNCHANGED <<asks, ask1>>
  PROVE  AskRight' <=> AskRight
BY DEF AskRight

\* A fill leaves the asks alone when its sell order is not in the index.
LEMMA FillUnknown ==
  ASSUME NEW n, NEW q, ~ Indexed(n), FillOfferSZ(n, q)
  PROVE  UNCHANGED <<asks, ask1>>
BY DEF FillOfferSZ

-----------------------------------------------------------------------------
\* A new order is reduced by nothing, and leaves a right cursor right.
LEMMA EnterStep ==
  ASSUME SZInv, SZInv', NEW s \in Side, NEW p \in Prices, NEW q \in Nat,
         Enter(s, p, q), AskRight => AskRight'
  PROVE  AskStep
<1>1. /\ nextNo \in OrderNo
      /\ \A n \in OrderNo : order'[n] =
           IF n = nextNo THEN [side |-> s, px |-> p, qty |-> q] ELSE order[n]
  BY EnterOrders DEF SZInv, TypeOK
<1>2. order[nextNo].qty = 0
  BY <1>1 DEF SZInv, TypeOK, ExchangeTypeOK, NumbersRight, OrderNo
<1>3. ~ KnownSellFilled
  <2>1. SUFFICES ASSUME NEW k \in Resting("S"), order'[k].qty < order[k].qty
                 PROVE  FALSE
    BY DEF KnownSellFilled
  <2>2. k \in OrderNo /\ order[k].qty > 0 /\ order[k].qty \in Nat
    BY DEF Resting, SZInv, TypeOK, ExchangeTypeOK
  <2>3. order'[k] = order[k]
    BY <1>1, <1>2, <2>2
  <2> QED
    BY <2>1, <2>2, <2>3
<1>4. ~ (Known!AskExact /\ ~ Known!AskExact')
  BY AskBest, AskBestNext
<1> QED
  BY <1>3, <1>4 DEF AskStep

LEMMA SubmitStep ==
  ASSUME PriceSlack = 0, SZInv, SZInv', Submit
  PROVE  AskStep
<1>1. PICK s \in Side, p \in Prices, q \in 1 .. MaxQty :
        Enter(s, p, q) /\ onOrderSZ(OrderMsg(s, p, q))
  BY DEF Submit
<1>2. q \in Nat /\ q > 0 /\ p \in Levels
  BY MaxQtyAssumption, PricesLevels
<1>3. /\ s = "B" => UNCHANGED <<asks, ask1>>
      /\ s = "S" => /\ asks' = [asks EXCEPT ![p] = @ + q]
                    /\ ask1' = LowerTo(p, ask1)
  BY <1>1, <1>2
  DEF onOrderSZ, OrderMsg, InRange, AddBuySZ, AddSellSZ, RefuseSZ
<1>4. ASSUME AskRight, s = "S" PROVE AskRight'
  <2>1. asks \in [Levels -> Nat]
    BY ShownAsks
  <2>2. Bottom([asks EXCEPT ![p] = @ + q], LowerTo(p, ask1))
    BY <1>2, <1>4, <2>1, BottomAdd DEF AskRight
  <2> QED
    BY <1>3, <1>4, <2>2 DEF AskRight
<1>5. AskRight => AskRight'
  BY <1>3, <1>4, SameAsks DEF Side
<1> QED
  BY <1>1, <1>2, <1>5, EnterStep

LEMMA OwnBestStep ==
  ASSUME SZInv, SZInv', SubmitOwnBest
  PROVE  AskStep
<1>1. PICK n \in OrderNo, q \in 1 .. MaxQty :
        /\ Enter(order[n].side, order[n].px, q)
        /\ onOrderSZ(OrderMsg(order[n].side, Nil, q))
  BY DEF SubmitOwnBest
<1>2. order[n].side \in Side /\ order[n].px \in Prices /\ q \in Nat
  BY MaxQtyAssumption DEF SZInv, TypeOK, ExchangeTypeOK
<1>3. UNCHANGED <<asks, ask1>>
  BY <1>1, LevelsInt
  DEF onOrderSZ, AddBuySZ, AddSellSZ, RefuseSZ, OrderMsg, InRange, bookVars
<1> QED
  BY <1>1, <1>2, <1>3, SameAsks, EnterStep

-----------------------------------------------------------------------------
\* A message that reduces one order is no fill of two orders that rest.
LEMMA OneReduced ==
  ASSUME ExchangeTypeOK, NEW n, NEW q, Reduce({n}, q)
  PROVE  ~ KnownSellFilled
<1>1. SUFFICES ASSUME NEW b \in Resting("B"), NEW s \in Resting("S"),
                      order'[b].qty < order[b].qty,
                      order'[s].qty < order[s].qty
               PROVE  FALSE
  BY DEF KnownSellFilled
<1>2. ASSUME NEW k \in OrderNo, order'[k].qty < order[k].qty PROVE k = n
  <2>1. order[k].qty \in Nat
    BY DEF ExchangeTypeOK
  <2>2. k # n => order'[k] = order[k]
    BY DEF Reduce
  <2> QED
    BY <1>2, <2>1, <2>2
<1>3. b = n /\ s = n
  BY <1>1, <1>2 DEF Resting
<1> QED
  BY <1>3 DEF Resting

\* A withdrawal moves a right cursor to a wrong level only when it stands at the
\* order's level and something is left there.
LEMMA WithdrawStep ==
  ASSUME SZInv, SZInv', Withdraw
  PROVE  AskStep
<1>1. PICK n \in OrderNo : /\ order[n].qty > 0
                           /\ Reduce({n}, order[n].qty)
                           /\ onTradeSZ(CancelMsg(n)) /\ refused' = refused
  BY DEF Withdraw
<1> DEFINE q == order[n].qty
           p == order[n].px
<1>2. q \in Nat /\ q > 0 /\ order[n].side \in Side /\ ExchangeTypeOK
  BY <1>1 DEF SZInv, TypeOK, ExchangeTypeOK
<1>3. CancelSZ(CancelMsg(n))
  BY <1>1 DEF onTradeSZ, FillSZ, IgnoreSZ, CancelMsg
<1>4. ~ KnownSellFilled
  BY <1>1, <1>2, OneReduced
<1>5. CASE order[n].side = "B" \/ n \in refused
  <2>1. CancelOfferSZ(IF order[n].side = "S" THEN n ELSE 0, q)
    BY <1>3 DEF CancelSZ, CancelMsg
  <2>2. ~ Indexed(IF order[n].side = "S" THEN n ELSE 0)
    BY <1>5, NotIndexed
  <2>3. UNCHANGED <<asks, ask1>>
    BY <2>1, <2>2 DEF CancelOfferSZ
  <2>4. ~ (Known!AskExact /\ ~ Known!AskExact')
    BY <2>3, SameAsks, AskBest, AskBestNext
  <2> QED
    BY <1>4, <2>4 DEF AskStep
<1>6. CASE order[n].side = "S" /\ n \notin refused
  <2>1. CancelOfferSZ(n, q)
    BY <1>3, <1>6 DEF CancelSZ, CancelMsg
  <2>2. p \in Levels /\ Indexed(n) /\ seq_pxs[n].lvl = p
    BY <1>2, <1>6, SellShown
  <2>3. /\ asks' = [asks EXCEPT ![p] = @ - q]
        /\ ask1' = IF ask1 = p THEN ScanUp(asks', p + 1) ELSE ask1
    BY <2>1, <2>2 DEF CancelOfferSZ
  <2>4. /\ asks \in [Levels -> Nat] /\ asks' \in [Levels -> Nat]
        /\ Taken(asks, asks', p)
    BY <1>2, <2>2, <2>3, AsksTaken
  <2>5. /\ known[n].side = "S" /\ known[n].px = p /\ known[n].qty = q
        /\ known'[n].qty = 0
    <3>1. KnownSums /\ KnownSums'
      BY KnownOrder, KnownOrderNext DEF SZInv, TypeOK
    <3>2. order'[n].qty = 0
      BY <1>1, <1>2, ReduceOrders DEF SZInv, TypeOK
    <3> QED
      BY <1>1, <1>6, <3>1, <3>2 DEF KnownSums
  <2>6. CASE ask1 = p /\ asks'[p] > 0
    <3>1. AskLostOnlyBy(n)
      BY <1>2, <2>5, <2>6 DEF AskLostOnlyBy
    <3> QED
      BY <1>4, <3>1 DEF AskStep
  <2>7. CASE ~ (ask1 = p /\ asks'[p] > 0)
    <3>1. asks'[p] \in Nat
      BY <2>2, <2>4
    <3> HIDE DEF p, q
    <3>2. ask1' = IF ask1 = p /\ asks'[p] <= 0 THEN ScanUp(asks', p + 1)
                                               ELSE ask1
      BY <2>3, <2>7, <3>1
    <3>3. ASSUME AskRight PROVE AskRight'
      <4>1. Bottom(asks, ask1)
        BY <3>3 DEF AskRight
      <4>2. Bottom(asks', IF ask1 = p /\ asks'[p] <= 0
                          THEN ScanUp(asks', p + 1) ELSE ask1)
        BY <2>2, <2>4, <4>1, BottomDel, Zenon
      <4> QED
        BY <3>2, <4>2, Zenon DEF AskRight
    <3>4. ~ (Known!AskExact /\ ~ Known!AskExact')
      BY <3>3, AskBest, AskBestNext
    <3> QED
      BY <1>4, <3>4 DEF AskStep
  <2> QED
    BY <2>6, <2>7
<1> QED
  BY <1>2, <1>5, <1>6 DEF Side

-----------------------------------------------------------------------------
\* A fill that names the sell order s, or a number that is not in the index.
LEMMA FillStep ==
  ASSUME SZInv, SZInv', NEW s, NEW q \in Nat, q > 0, FillOfferSZ(s, q),
         \/ ~ Indexed(s)
         \/ s \in OrderNo /\ s \notin refused /\ order[s].side = "S" /\ AtBest(s),
         KnownSellFilled => Indexed(s)
  PROVE  AskStep
<1>1. CASE Indexed(s)
  <2>1. AskRight'
    BY <1>1, FillRight
  <2> QED
    BY <2>1, AskBestNext DEF AskStep
<1>2. CASE ~ Indexed(s)
  <2>1. UNCHANGED <<asks, ask1>>
    BY <1>2, FillUnknown
  <2> QED
    BY <1>2, <2>1, SameAsks, AskBest, AskBestNext DEF AskStep
<1> QED
  BY <1>1, <1>2

LEMMA MatchStep ==
  ASSUME PriceSlack = 0, SZInv, SZInv', Match
  PROVE  AskStep
<1>1. PICK b \in Resting("B"), s \in Resting("S"), p \in Prices :
        LET q == Min({order[b].qty, order[s].qty})
        IN  AtBest(s) /\ Reduce({b, s}, q) /\ onTradeSZ(FillMsg(b, s, p, q))
  BY DEF Match
<1> DEFINE q == Min({order[b].qty, order[s].qty})
<1>2. /\ b \in OrderNo /\ s \in OrderNo
      /\ order[b].side = "B" /\ order[s].side = "S"
      /\ order[b].qty \in Nat /\ order[s].qty \in Nat
      /\ order[b].qty > 0 /\ order[s].qty > 0
  BY DEF Resting, SZInv, TypeOK, ExchangeTypeOK
<1>3. q \in Nat /\ q > 0
  <2>1. \E x \in {order[b].qty, order[s].qty} :
          \A y \in {order[b].qty, order[s].qty} : x <= y
    BY <1>2
  <2> QED
    BY <1>2, <2>1 DEF Min
<1>4. AtBest(s) /\ Reduce({b, s}, q) /\ onTradeSZ(FillMsg(b, s, p, q))
  BY <1>1
<1> HIDE DEF q
<1>5. FillOfferSZ(s, q)
  BY <1>4, PricesLevels DEF onTradeSZ, FillMsg, CancelSZ, FillSZ, IgnoreSZ, InRange
<1>6. s \in refused \/ Indexed(s)
  BY <1>2, SellShown
<1>7. s \in refused => ~ Indexed(s)
  BY NotIndexed
<1>8. ASSUME KnownSellFilled PROVE s \notin refused
  <2>1. PICK k \in Resting("S") : order'[k].qty < order[k].qty /\ k \notin refused
    BY <1>8 DEF KnownSellFilled
  <2>2. k \in OrderNo /\ order[k].side = "S" /\ order[k].qty \in Nat
    BY DEF Resting, SZInv, TypeOK, ExchangeTypeOK
  <2>3. k \in {b, s}
    BY <1>4, <2>1, <2>2 DEF Reduce
  <2> QED
    BY <1>2, <2>1, <2>2, <2>3
<1> QED
  BY <1>2, <1>3, <1>4, <1>5, <1>6, <1>7, <1>8, FillStep

LEMMA MarketStep ==
  ASSUME PriceSlack = 0, SZInv, SZInv', MarketFill
  PROVE  AskStep
<1>1. PICK n \in OrderNo, q \in 1 .. MaxQty :
        /\ AtBest(n) /\ Reduce({n}, q)
        /\ onTradeSZ(IF order[n].side = "B"
                     THEN FillMsg(n, nextNo, order[n].px, q)
                     ELSE FillMsg(nextNo, n, order[n].px, q))
  BY DEF MarketFill
<1>2. /\ q \in Nat /\ q > 0 /\ order[n].qty > 0 /\ order[n].side \in Side
      /\ order[n].px \in Levels /\ ExchangeTypeOK
  BY <1>1, MaxQtyAssumption, PricesLevels
  DEF AtBest, SZInv, TypeOK, ExchangeTypeOK
<1>3. ~ KnownSellFilled
  BY <1>1, <1>2, OneReduced
<1>4. FillOfferSZ(IF order[n].side = "B" THEN nextNo ELSE n, q)
  BY <1>1, <1>2 DEF onTradeSZ, FillMsg, CancelSZ, FillSZ, IgnoreSZ, InRange
<1>5. CASE order[n].side = "B"
  BY <1>2, <1>3, <1>4, <1>5, NotIndexed, FillStep
<1>6. CASE order[n].side = "S"
  <2>1. n \notin refused \/ ~ Indexed(n)
    BY NotIndexed
  <2>2. FillOfferSZ(n, q)
    BY <1>4, <1>6
  <2> QED
    BY <1>1, <1>2, <1>3, <1>6, <2>1, <2>2, FillStep
<1> QED
  BY <1>2, <1>5, <1>6 DEF Side

\* A step that changes nothing.
LEMMA StutterStep ==
  ASSUME SZInv, SZInv', UNCHANGED szVars
  PROVE  AskStep
<1>1. order' = order /\ asks' = asks /\ ask1' = ask1
  BY DEF szVars, vars, exchangeVars, bookVars
<1>2. ~ KnownSellFilled
  BY <1>1 DEF KnownSellFilled, Resting, SZInv, TypeOK, ExchangeTypeOK
<1> QED
  BY <1>1, <1>2, SameAsks, AskBest, AskBestNext DEF AskStep

\* In a Shenzhen book of any size, no message but the withdrawal of one of
\* several orders at the ask cursor's level takes that cursor off the best
\* level, and every fill of a known sell order puts it back.
THEOREM AskStepsCorrect ==
  ASSUME PriceSlack = 0
  PROVE  Spec => AskCursorSteps
<1>1. SZInv /\ SZInv' /\ [Next]_szVars => AskStep
  BY SubmitStep, OwnBestStep, WithdrawStep, MatchStep, MarketStep, StutterStep
  DEF Next
<1>2. SZInv /\ SZInv' /\ [Next]_szVars => [AskStep]_szVars
  BY <1>1
<1> QED
  BY <1>2, SZInvariant, PTL DEF Spec, AskCursorSteps

-----------------------------------------------------------------------------
\* Behind the feeders.  The types of what a message says.
OrderMessage == [Side: Side, OrderNo: OrderNo, p: Int, OrderQty: Nat]
TradeMessage == [ExecType: {"4", "F"}, p: Int, LastQty: Nat \ {0},
                 BidApplSeqNum: Nat, OfferApplSeqNum: Nat]

\* What the trade m takes of order n, and what the trades ts take of it together.
Part(m, n) ==
  IF n \in {m.BidApplSeqNum, m.OfferApplSeqNum} THEN m.LastQty ELSE 0
Pending(ts, n) == SumTo([i \in 1 .. Len(ts) |-> Part(ts[i], n)], Len(ts))

\* What order n has left as far as the book was told: the trades under way and
\* the trades it missed took nothing.
Told(n) == order[n].qty + Pending(trades, n) + missed[n]

\* The message of order n is under way; order n does not enter the book.
Waits(n)   == \E m \in Range(orders) : m.OrderNo = n
NeverIn(n) == n \in refused \/ \E m \in Range(orders) : m.OrderNo = n /\ ~ InRange(m.p)

\* The orders as the book was told of them, and what BookLemmas says of these.
told == [n \in OrderNo |-> [order[n] EXCEPT
           !.qty = IF n \in refused \/ Waits(n) THEN 0 ELSE Told(n)]]
Heard == INSTANCE BookLemmas WITH order <- told

RoutedTypeOK ==
  /\ ExchangeTypeOK
  /\ bids \in [Levels -> Int] /\ asks \in [Levels -> Int]
  /\ seq_pxs \in [OrderNo -> Slot \cup {NoSlot}]
  /\ refused \subseteq OrderNo
  /\ missed \in [OrderNo -> Nat]
  /\ orders \in Seq(OrderMessage) /\ trades \in Seq(TradeMessage)

\* Of numbers not given out yet there is nothing anywhere.
Fresh == \A n \in OrderNo : n >= nextNo =>
  order[n].qty = 0 /\ missed[n] = 0 /\ seq_pxs[n] = NoSlot /\ n \notin refused

\* No two messages are of the same order.
OneEach(os) ==
  \A i, j \in DOMAIN os : i # j => os[i].OrderNo # os[j].OrderNo

\* What an order's message says while it is under way.
OrderRight(m) ==
  /\ m.OrderNo < nextNo /\ m.OrderNo \notin refused
  /\ seq_pxs[m.OrderNo] = NoSlot
  /\ m.OrderQty = Told(m.OrderNo)
  /\ InRange(m.p) \/ order[m.OrderNo].qty > 0 =>
       m.p = order[m.OrderNo].px /\ m.Side = order[m.OrderNo].side

\* The orders a trade's message names.
TradeRight(m) == LET b == m.BidApplSeqNum  s == m.OfferApplSeqNum IN
  /\ b # s /\ b < nextNo /\ s < nextNo
  /\ b # 0 => order[b].side = "B" \/ NeverIn(b)
  /\ s # 0 => order[s].side = "S" \/ NeverIn(s)

TradesRight == \A m \in Range(trades) : TradeRight(m)

MessagesRight ==
  /\ OneEach(orders) /\ \A m \in Range(orders) : OrderRight(m)
  /\ TradesRight

IndexSays == \A n \in OrderNo :
  /\ seq_pxs[n] # NoSlot =>
       n \notin refused /\ seq_pxs[n] = [side |-> order[n].side, lvl |-> order[n].px]
  /\ n \notin refused /\ ~ Waits(n) /\ Told(n) > 0 => seq_pxs[n] # NoSlot

RefusedOutside == \A n \in refused : order[n].qty > 0 => order[n].px \notin Levels

ShowsTold ==
  \A l \in Levels : bids[l] = Heard!Depth("B", l) /\ asks[l] = Heard!Depth("S", l)

RoutedInv ==
  /\ RoutedTypeOK
  /\ Fresh
  /\ MessagesRight
  /\ IndexSays
  /\ RefusedOutside
  /\ ShowsTold

-----------------------------------------------------------------------------
\* A list and one element more, at either end.
LEMMA ListAppend ==
  ASSUME NEW S, NEW q \in Seq(S), NEW r \in S
  PROVE  /\ q \o <<r>> \in Seq(S) /\ Len(q \o <<r>>) = Len(q) + 1
         /\ Len(q) \in Nat
         /\ \A i \in 1 .. Len(q) : (q \o <<r>>)[i] = q[i] /\ q[i] \in S
         /\ (q \o <<r>>)[Len(q) + 1] = r
         /\ DOMAIN q = 1 .. Len(q) /\ DOMAIN (q \o <<r>>) = 1 .. Len(q) + 1
         /\ q \o <<>> = q
BY SMT

LEMMA ListTail ==
  ASSUME NEW S, NEW q \in Seq(S), q # <<>>
  PROVE  /\ Head(q) \in S /\ Tail(q) \in Seq(S)
         /\ Len(q) = Len(Tail(q)) + 1 /\ Len(Tail(q)) \in Nat
         /\ Head(q) = q[1] /\ \A i \in 1 .. Len(Tail(q)) : Tail(q)[i] = q[i + 1]
         /\ \A i \in 1 .. Len(q) : q[i] \in S
         /\ DOMAIN q = 1 .. Len(q) /\ DOMAIN Tail(q) = 1 .. Len(Tail(q))
BY SMT

LEMMA RangeAppend ==
  ASSUME NEW S, NEW q \in Seq(S), NEW r \in S
  PROVE  Range(q \o <<r>>) = Range(q) \cup {r}
<1> PICK k \in Nat, a \in Seq(S) : k = Len(q) /\ a = q \o <<r>>
  BY ListAppend
<1>1. /\ DOMAIN q = 1 .. k /\ DOMAIN a = 1 .. k + 1
      /\ \A i \in 1 .. k : a[i] = q[i]
      /\ a[k + 1] = r
  BY ListAppend
<1>2. DOMAIN a = DOMAIN q \cup {k + 1} /\ \A i \in DOMAIN q : a[i] = q[i]
  BY <1>1
<1>3. ASSUME NEW i \in DOMAIN q PROVE q[i] \in Range(a)
  <2>1. i \in DOMAIN a /\ q[i] = a[i]
    BY <1>2
  <2> QED
    BY <2>1, Zenon DEF Range
<1>4. r \in Range(a)
  BY <1>1, <1>2, Zenon DEF Range
<1>5. ASSUME NEW i \in DOMAIN a PROVE a[i] \in Range(q) \cup {r}
  <2>1. CASE i \in DOMAIN q
    BY <1>2, <2>1, Zenon DEF Range
  <2> QED
    BY <1>1, <1>2, <2>1
<1>6. Range(a) = Range(q) \cup {r}
  <2>1. Range(q) \cup {r} \subseteq Range(a)
    BY <1>3, <1>4, Zenon DEF Range
  <2>2. Range(a) \subseteq Range(q) \cup {r}
    BY <1>5, Zenon DEF Range
  <2> QED
    BY <2>1, <2>2
<1> QED
  BY <1>6

\* The places of a list are the first one and those of its tail, moved by one.
LEMMA TailPlaces ==
  ASSUME NEW S, NEW q \in Seq(S), q # <<>>
  PROVE  /\ 1 \in DOMAIN q /\ q[1] = Head(q)
         /\ \A i \in DOMAIN Tail(q) :
              i + 1 \in DOMAIN q /\ i + 1 # 1 /\ Tail(q)[i] = q[i + 1]
         /\ \A i \in DOMAIN q : i # 1 => \E j \in DOMAIN Tail(q) : i = j + 1
         /\ \A i, j \in DOMAIN Tail(q) : i # j => i + 1 # j + 1
<1> PICK k \in Nat, t \in Seq(S) : k = Len(Tail(q)) /\ t = Tail(q)
  BY ListTail
<1>1. /\ DOMAIN q = 1 .. k + 1 /\ DOMAIN t = 1 .. k
      /\ \A i \in 1 .. k : t[i] = q[i + 1]
      /\ q[1] = Head(q)
  BY ListTail
<1>2. ASSUME NEW i \in 1 .. k + 1, i # 1 PROVE \E j \in 1 .. k : i = j + 1
  <2>1. i - 1 \in 1 .. k /\ i = (i - 1) + 1
    BY <1>2
  <2> QED
    BY <2>1
<1>3. /\ 1 \in 1 .. k + 1
      /\ \A i \in 1 .. k : i + 1 \in 1 .. k + 1 /\ i + 1 # 1
      /\ \A i, j \in 1 .. k : i # j => i + 1 # j + 1
  OBVIOUS
<1> QED
  BY <1>1, <1>2, <1>3

LEMMA RangeTail ==
  ASSUME NEW S, NEW q \in Seq(S), q # <<>>
  PROVE  Range(q) = Range(Tail(q)) \cup {Head(q)}
<1> PICK t : t = Tail(q)
  OBVIOUS
<1>1. /\ 1 \in DOMAIN q /\ q[1] = Head(q)
      /\ \A i \in DOMAIN t : i + 1 \in DOMAIN q /\ t[i] = q[i + 1]
      /\ \A i \in DOMAIN q : i # 1 => \E j \in DOMAIN t : i = j + 1
  BY TailPlaces
<1>2. Head(q) \in Range(q)
  BY <1>1, Zenon DEF Range
<1>3. Range(t) \subseteq Range(q)
  <2>1. ASSUME NEW i \in DOMAIN t PROVE t[i] \in Range(q)
    <3>1. i + 1 \in DOMAIN q /\ t[i] = q[i + 1]
      BY <1>1
    <3> QED
      BY <3>1, Zenon DEF Range
  <2> QED
    BY <2>1, Zenon DEF Range
<1>4. Range(q) \subseteq Range(t) \cup {Head(q)}
  <2>1. ASSUME NEW i \in DOMAIN q PROVE q[i] \in Range(t) \cup {Head(q)}
    <3>1. CASE i = 1
      BY <1>1, <3>1
    <3>2. ASSUME NEW j \in DOMAIN t, i = j + 1 PROVE q[i] \in Range(t)
      <4>1. q[i] = t[j]
        BY <1>1, <3>2
      <4> QED
        BY <4>1, Zenon DEF Range
    <3> QED
      BY <1>1, <3>1, <3>2
  <2> QED
    BY <2>1, Zenon DEF Range
<1> QED
  BY <1>2, <1>3, <1>4

\* One message per order, with one message more or one less.
LEMMA OneEachAppend ==
  ASSUME NEW q \in Seq(OrderMessage), NEW r \in OrderMessage, OneEach(q),
         \A m \in Range(q) : m.OrderNo # r.OrderNo
  PROVE  OneEach(q \o <<r>>)
<1> PICK k \in Nat, a \in Seq(OrderMessage) : k = Len(q) /\ a = q \o <<r>>
  BY ListAppend
<1>1. /\ DOMAIN q = 1 .. k /\ DOMAIN a = 1 .. k + 1
      /\ \A i \in 1 .. k : a[i] = q[i]
      /\ a[k + 1] = r
  BY ListAppend
<1>2. \A i \in DOMAIN q : q[i].OrderNo # r.OrderNo
  BY Zenon DEF Range
<1>3. DOMAIN a = DOMAIN q \cup {k + 1} /\ \A i \in DOMAIN q : a[i] = q[i]
  BY <1>1
<1>4. ASSUME NEW i \in DOMAIN a, NEW j \in DOMAIN a, i # j
      PROVE  a[i].OrderNo # a[j].OrderNo
  BY <1>1, <1>2, <1>3, <1>4 DEF OneEach
<1> QED
  BY <1>4 DEF OneEach

LEMMA OneEachTail ==
  ASSUME NEW q \in Seq(OrderMessage), q # <<>>, OneEach(q)
  PROVE  /\ OneEach(Tail(q))
         /\ \A m \in Range(Tail(q)) : m.OrderNo # Head(q).OrderNo
<1> PICK t : t = Tail(q)
  OBVIOUS
<1>1. /\ 1 \in DOMAIN q /\ q[1] = Head(q)
      /\ \A i \in DOMAIN t :
           i + 1 \in DOMAIN q /\ i + 1 # 1 /\ t[i] = q[i + 1]
      /\ \A i, j \in DOMAIN t : i # j => i + 1 # j + 1
  BY TailPlaces
<1>2. ASSUME NEW i \in DOMAIN t, NEW j \in DOMAIN t, i # j
      PROVE  t[i].OrderNo # t[j].OrderNo
  <2>1. i + 1 \in DOMAIN q /\ j + 1 \in DOMAIN q /\ i + 1 # j + 1
    BY <1>1, <1>2
  <2>2. q[i + 1].OrderNo # q[j + 1].OrderNo
    BY <2>1, Zenon DEF OneEach
  <2> QED
    BY <1>1, <2>2
<1>3. ASSUME NEW i \in DOMAIN t PROVE t[i].OrderNo # q[1].OrderNo
  <2>1. q[i + 1].OrderNo # q[1].OrderNo
    BY <1>1, Zenon DEF OneEach
  <2> QED
    BY <1>1, <2>1
<1>4. \A m \in Range(t) : m.OrderNo # q[1].OrderNo
  BY <1>3, Zenon DEF Range
<1> QED
  BY <1>1, <1>2, <1>4 DEF OneEach

-----------------------------------------------------------------------------
\* What the trades under way take of an order.
LEMMA PartNat ==
  ASSUME NEW m \in TradeMessage, NEW n
  PROVE  Part(m, n) \in Nat /\ m.LastQty \in Nat /\ m.LastQty > 0
BY DEF Part, TradeMessage

LEMMA PendingLaws ==
  ASSUME NEW ts \in Seq(TradeMessage), NEW n
  PROVE  /\ Pending(ts, n) \in Nat
         /\ (\A m \in Range(ts) : Part(m, n) = 0) => Pending(ts, n) = 0
         /\ Pending(<<>>, n) = 0
<1> PICK k \in Nat : k = Len(ts) /\ DOMAIN ts = 1 .. k
  BY SMT
<1> DEFINE f == [i \in 1 .. k |-> Part(ts[i], n)]
<1>1. \A i \in 1 .. k : ts[i] \in TradeMessage /\ ts[i] \in Range(ts)
  <2>1. \A i \in 1 .. k : ts[i] \in TradeMessage
    BY SMT
  <2> QED
    BY <2>1, Zenon DEF Range
<1>2. f \in [1 .. k -> Nat]
  BY <1>1, PartNat
<1>3. SumTo(f, k) = Pending(ts, n)
  BY DEF Pending
<1>4. Pending(ts, n) \in Nat
  <2> HIDE DEF f
  <2> QED
    BY <1>2, <1>3, SumNat
<1>5. ASSUME \A m \in Range(ts) : Part(m, n) = 0 PROVE Pending(ts, n) = 0
  <2>1. \A i \in 1 .. k : f[i] = 0
    BY <1>1, <1>5
  <2> HIDE DEF f
  <2> QED
    BY <1>3, <2>1, SumZero
<1>6. Pending(<<>>, n) = 0
  <2>1. Len(<<>>) = 0 /\ 0 \in Nat
    OBVIOUS
  <2>2. SumTo([i \in 1 .. 0 |-> Part(<<>>[i], n)], 0) = 0
    <3> DEFINE g == [i \in 1 .. 0 |-> Part(<<>>[i], n)]
    <3>1. \A i \in 1 .. 0 : g[i] = 0
      OBVIOUS
    <3> HIDE DEF g
    <3>2. SumTo(g, 0) = 0
      BY <2>1, <3>1, SumZero
    <3> QED
      BY <3>2 DEF g
  <2> QED
    BY <2>1, <2>2 DEF Pending
<1> QED
  BY <1>4, <1>5, <1>6

LEMMA PendingAppend ==
  ASSUME NEW ts \in Seq(TradeMessage), NEW m \in TradeMessage, NEW n
  PROVE  Pending(ts \o <<m>>, n) = Pending(ts, n) + Part(m, n)
<1> PICK k \in Nat, a \in Seq(TradeMessage) : k = Len(ts) /\ a = ts \o <<m>>
  BY ListAppend
<1> DEFINE f == [i \in 1 .. k |-> Part(ts[i], n)]
           g == [i \in 1 .. k + 1 |-> Part(a[i], n)]
<1>1. /\ \A i \in 1 .. k : a[i] = ts[i] /\ ts[i] \in TradeMessage
      /\ a[k + 1] = m /\ Len(a) = k + 1
  BY ListAppend
<1>2. f \in [1 .. k -> Int]
  BY <1>1, PartNat
<1>3. \A i \in 1 .. k + 1 : Part(a[i], n) \in Int
  <2>1. \A i \in 1 .. k + 1 : i \in 1 .. k \/ i = k + 1
    OBVIOUS
  <2> QED
    BY <1>1, <2>1, PartNat
<1>4. g \in [1 .. k + 1 -> Int] /\ g[k + 1] = Part(m, n)
      /\ \A i \in 1 .. k : g[i] = f[i]
  BY <1>1, <1>3
<1>5. Pending(ts, n) = SumTo(f, k) /\ Pending(a, n) = SumTo(g, k + 1)
  BY <1>1 DEF Pending
<1> HIDE DEF f, g
<1>6. SumTo(g, k + 1) = SumTo(f, k) + g[k + 1]
  BY <1>2, <1>4, SumAppend
<1> QED
  BY <1>4, <1>5, <1>6

LEMMA PendingTail ==
  ASSUME NEW ts \in Seq(TradeMessage), ts # <<>>, NEW n
  PROVE  Pending(ts, n) = Part(Head(ts), n) + Pending(Tail(ts), n)
<1> PICK k \in Nat, t \in Seq(TradeMessage) : k = Len(Tail(ts)) /\ t = Tail(ts)
  BY ListTail
<1> DEFINE f == [i \in 1 .. k + 1 |-> Part(ts[i], n)]
           g == [i \in 1 .. k |-> Part(t[i], n)]
<1>1. /\ \A i \in 1 .. k : t[i] = ts[i + 1]
      /\ \A i \in 1 .. k + 1 : ts[i] \in TradeMessage
      /\ ts[1] = Head(ts) /\ Len(ts) = k + 1
  BY ListTail
<1>2. f \in [1 .. k + 1 -> Int] /\ f[1] = Part(Head(ts), n)
  BY <1>1, PartNat
<1>3. g \in [1 .. k -> Int] /\ \A i \in 1 .. k : g[i] = f[i + 1]
  <2>1. \A i \in 1 .. k : i + 1 \in 1 .. k + 1
    OBVIOUS
  <2> QED
    BY <1>1, <2>1, PartNat
<1>4. Pending(t, n) = SumTo(g, k) /\ Pending(ts, n) = SumTo(f, k + 1)
  BY <1>1 DEF Pending
<1> HIDE DEF f, g
<1>5. SumTo(f, k + 1) = f[1] + SumTo(g, k)
  BY <1>2, <1>3, SumTail
<1> QED
  BY <1>2, <1>4, <1>5

\* The elements of a list are of its type.
LEMMA RangeType ==
  ASSUME NEW S, NEW q \in Seq(S)
  PROVE  \A m \in Range(q) : m \in S
<1>1. \A i \in DOMAIN q : q[i] \in S
  BY SMT
<1> QED
  BY <1>1, Zenon DEF Range

-----------------------------------------------------------------------------
\* The instance's types are the module's.
LEMMA HeardConstants ==
  /\ Heard!Levels = Levels /\ Heard!OrderNo = OrderNo /\ Heard!Side = Side
  /\ Heard!Prices = Prices
BY DEF Heard!Levels, Heard!OrderNo, Heard!Side, Heard!Prices,
       Levels, OrderNo, Side, Prices

\* Its orders are the exchange's, with what is left of them as the book was told.
ToldSums ==
  \A n \in OrderNo :
    /\ order[n] \in [side: Side, px: Prices, qty: Nat]
    /\ order[n].qty \in Nat /\ Pending(trades, n) \in Nat /\ missed[n] \in Nat
    /\ Told(n) = order[n].qty + Pending(trades, n) + missed[n]
    /\ Told(n) \in Nat
    /\ told[n].side = order[n].side
    /\ told[n].px = order[n].px
    /\ told[n].qty = IF n \in refused \/ Waits(n) THEN 0 ELSE Told(n)

LEMMA ToldOrder == RoutedTypeOK => Heard!ExchangeTypeOK /\ ToldSums
<1> SUFFICES ASSUME RoutedTypeOK PROVE Heard!ExchangeTypeOK /\ ToldSums
  OBVIOUS
<1>1. ASSUME NEW n \in OrderNo
      PROVE  /\ order[n] \in [side: Side, px: Prices, qty: Nat]
             /\ order[n].qty \in Nat /\ Pending(trades, n) \in Nat
             /\ missed[n] \in Nat
             /\ Told(n) = order[n].qty + Pending(trades, n) + missed[n]
             /\ Told(n) \in Nat
             /\ told[n] \in [side: Side, px: Prices, qty: Nat]
             /\ told[n].side = order[n].side
             /\ told[n].px = order[n].px
             /\ told[n].qty = IF n \in refused \/ Waits(n) THEN 0 ELSE Told(n)
  <2>1. order[n] \in [side: Side, px: Prices, qty: Nat] /\ missed[n] \in Nat
    BY DEF RoutedTypeOK, ExchangeTypeOK
  <2>2. Pending(trades, n) \in Nat
    BY PendingLaws DEF RoutedTypeOK
  <2>3. order[n].qty \in Nat
    BY <2>1
  <2>4. Told(n) = order[n].qty + Pending(trades, n) + missed[n]
    BY DEF Told
  <2>5. Told(n) \in Nat
    BY <2>1, <2>2, <2>3, <2>4
  <2>6. PICK x \in Nat : x = IF n \in refused \/ Waits(n) THEN 0 ELSE Told(n)
    BY <2>5
  <2>7. told[n] = [order[n] EXCEPT !.qty = x]
    BY <2>6 DEF told
  <2>8. /\ told[n] \in [side: Side, px: Prices, qty: Nat]
        /\ told[n].side = order[n].side
        /\ told[n].px = order[n].px
        /\ told[n].qty = x
    BY <2>1, <2>7
  <2> QED
    BY <2>1, <2>2, <2>3, <2>4, <2>5, <2>6, <2>8
<1>2. told \in [OrderNo -> [side: Side, px: Prices, qty: Nat]]
  <2>1. told = [n \in OrderNo |-> told[n]]
    BY DEF told
  <2> QED
    BY <1>1, <2>1
<1>3. Heard!ExchangeTypeOK
  BY <1>2, HeardConstants
  DEF Heard!ExchangeTypeOK, RoutedTypeOK, ExchangeTypeOK
<1> QED
  BY <1>1, <1>3 DEF ToldSums

LEMMA ToldOrderNext == RoutedTypeOK' => Heard!ExchangeTypeOK' /\ ToldSums'
BY ToldOrder, PTL

\* Of a number that is not given out no trade can be under way.
FreshUntold == \A n \in OrderNo : n >= nextNo => Told(n) = 0

LEMMA FreshTold == RoutedTypeOK /\ Fresh /\ TradesRight => FreshUntold
<1> SUFFICES ASSUME RoutedTypeOK, Fresh, TradesRight,
                    NEW n \in OrderNo, n >= nextNo
             PROVE  Told(n) = 0
  BY DEF FreshUntold
<1>1. nextNo \in Int /\ n \in Int
  BY MaxOrdersAssumption DEF RoutedTypeOK, ExchangeTypeOK, OrderNo
<1>2. ASSUME NEW m \in Range(trades) PROVE Part(m, n) = 0
  <2>1. m.BidApplSeqNum < nextNo /\ m.OfferApplSeqNum < nextNo
    BY <1>2 DEF TradesRight, TradeRight
  <2>2. m \in TradeMessage
    BY <1>2, RangeType DEF RoutedTypeOK
  <2>3. m.BidApplSeqNum \in Int /\ m.OfferApplSeqNum \in Int
    BY <2>2 DEF TradeMessage
  <2>4. n # m.BidApplSeqNum /\ n # m.OfferApplSeqNum
    BY <1>1, <2>1, <2>3
  <2> QED
    BY <2>4 DEF Part
<1>3. Pending(trades, n) = 0
  BY <1>2, PendingLaws DEF RoutedTypeOK
<1>4. order[n].qty = 0 /\ missed[n] = 0
  BY DEF Fresh
<1> QED
  BY <1>3, <1>4 DEF Told

LEMMA FreshToldNext == RoutedTypeOK' /\ Fresh' /\ TradesRight' => FreshUntold'
BY FreshTold, PTL

\* The orders that have been given out.
LEMMA Numbers ==
  ASSUME RoutedTypeOK
  PROVE  /\ nextNo \in Int /\ nextNo >= 1 /\ nextNo <= MaxOrders + 1
         /\ OrderNo \in SUBSET Int
         /\ \A n \in Nat : n # 0 /\ n < nextNo => n \in OrderNo
         /\ nextNo <= MaxOrders => nextNo \in OrderNo
BY MaxOrdersAssumption DEF RoutedTypeOK, ExchangeTypeOK, OrderNo

-----------------------------------------------------------------------------
\* What the exchange does and sends leaves the book as it was told: a new order
\* waits, and what a trade took of an order is under way.
LEMMA SendKeeps ==
  ASSUME RoutedInv, RoutedTypeOK', UNCHANGED <<bookVars, refused, missed>>,
         nextNo' \in {nextNo, nextNo + 1},
         \A n \in OrderNo : n < nextNo =>
           /\ order'[n].side = order[n].side /\ order'[n].px = order[n].px
           /\ order'[n].qty <= order[n].qty /\ Told(n)' = Told(n),
         \A n \in OrderNo : n >= nextNo' => order'[n].qty = 0,
         OneEach(orders'), Range(orders) \subseteq Range(orders'),
         \A m \in Range(orders') :
           m \in Range(orders) \/ (m.OrderNo = nextNo /\ OrderRight(m)'),
         \A m \in Range(trades') : m \in Range(trades) \/ TradeRight(m)',
         nextNo' # nextNo => \E m \in Range(orders') : m.OrderNo = nextNo
  PROVE  RoutedInv'
<1>1. /\ RoutedTypeOK /\ Fresh /\ MessagesRight /\ IndexSays /\ RefusedOutside
      /\ ShowsTold
  BY DEF RoutedInv
<1>2. /\ nextNo \in Int /\ OrderNo \in SUBSET Int /\ nextNo <= nextNo'
      /\ nextNo' \in Int
      /\ \A n \in Int : n >= nextNo /\ n < nextNo' => n = nextNo /\ nextNo' # nextNo
      /\ \A n \in Int : n < nextNo => n < nextNo'
  BY <1>1, Numbers
<1>3. /\ bids' = bids /\ asks' = asks /\ seq_pxs' = seq_pxs
      /\ refused' = refused /\ missed' = missed
  BY DEF bookVars
<1>4. \A m \in Range(orders) : m \in OrderMessage /\ OrderRight(m)
  BY <1>1, RangeType DEF RoutedTypeOK, MessagesRight
<1>5. ASSUME NEW n \in OrderNo, n < nextNo PROVE Waits(n)' <=> Waits(n)
  <2>1. Waits(n) => Waits(n)'
    BY DEF Waits
  <2>2. Waits(n)' => Waits(n)
    <3>1. SUFFICES ASSUME NEW m \in Range(orders'), m.OrderNo = n
                   PROVE  m \in Range(orders)
      BY <3>1 DEF Waits
    <3>2. n # nextNo
      BY <1>2, <1>5
    <3> QED
      BY <3>1, <3>2
  <2> QED
    BY <2>1, <2>2
<1>6. \A n : NeverIn(n) => NeverIn(n)'
  BY <1>3 DEF NeverIn
<1>7. Fresh'
  BY <1>1, <1>2, <1>3 DEF Fresh
<1>8. ASSUME NEW m \in Range(orders) PROVE OrderRight(m)'
  <2>1. m.OrderNo \in OrderNo /\ OrderRight(m)
    BY <1>4 DEF OrderMessage
  <2>2. PICK n \in OrderNo : n = m.OrderNo
    BY <2>1
  <2>3. /\ n < nextNo /\ n \notin refused /\ seq_pxs[n] = NoSlot
        /\ m.OrderQty = Told(n)
        /\ InRange(m.p) \/ order[n].qty > 0 =>
             m.p = order[n].px /\ m.Side = order[n].side
    BY <2>1, <2>2 DEF OrderRight
  <2>4. /\ order'[n].side = order[n].side /\ order'[n].px = order[n].px
        /\ order'[n].qty <= order[n].qty /\ Told(n)' = Told(n)
    BY <2>3
  <2>5. order'[n].qty > 0 => order[n].qty > 0
    <3>1. order[n].qty \in Int /\ order'[n].qty \in Int
      BY <1>1, ToldOrder, ToldOrderNext DEF ToldSums
    <3> QED
      BY <2>4, <3>1
  <2>6. n < nextNo'
    BY <1>2, <2>3
  <2> QED
    BY <1>3, <2>2, <2>3, <2>4, <2>5, <2>6 DEF OrderRight
<1>9. ASSUME NEW m \in Range(trades) PROVE TradeRight(m)'
  <2>1. TradeRight(m) /\ m \in TradeMessage
    BY <1>1, RangeType DEF RoutedTypeOK, MessagesRight, TradesRight
  <2>2. PICK b \in Nat, s \in Nat : b = m.BidApplSeqNum /\ s = m.OfferApplSeqNum
    BY <2>1 DEF TradeMessage
  <2>3. /\ b # s /\ b < nextNo /\ s < nextNo
        /\ b # 0 => order[b].side = "B" \/ NeverIn(b)
        /\ s # 0 => order[s].side = "S" \/ NeverIn(s)
    BY <2>1, <2>2 DEF TradeRight
  <2>4. b < nextNo' /\ s < nextNo'
    BY <1>2, <2>3
  <2>5. /\ b # 0 => b \in OrderNo /\ order'[b].side = order[b].side
        /\ s # 0 => s \in OrderNo /\ order'[s].side = order[s].side
    BY <1>1, <2>3, Numbers
  <2>6. /\ b # 0 => order'[b].side = "B" \/ NeverIn(b)'
        /\ s # 0 => order'[s].side = "S" \/ NeverIn(s)'
    BY <1>6, <2>3, <2>5
  <2> QED
    BY <2>2, <2>3, <2>4, <2>6 DEF TradeRight
<1>10. MessagesRight'
  BY <1>8, <1>9 DEF MessagesRight, TradesRight
<1>11. \A n \in OrderNo : n >= nextNo => Told(n) = 0
  BY <1>1, FreshTold DEF MessagesRight, FreshUntold
<1>12. \A n \in OrderNo : n >= nextNo' => Told(n)' = 0
  BY <1>7, <1>10, FreshToldNext DEF MessagesRight, FreshUntold
<1>13. \A n \in OrderNo : \/ n < nextNo
                          \/ n >= nextNo /\ Waits(n)'
                          \/ n >= nextNo /\ n >= nextNo'
  <2> SUFFICES ASSUME NEW n \in OrderNo, n >= nextNo
               PROVE  Waits(n)' \/ n >= nextNo'
    BY <1>2
  <2>1. CASE n < nextNo'
    <3>1. n = nextNo /\ nextNo' # nextNo
      BY <1>2, <2>1
    <3>2. PICK m \in Range(orders') : m.OrderNo = n
      BY <3>1
    <3> QED
      BY <3>2 DEF Waits
  <2> QED
    BY <1>2, <2>1
<1>14. IndexSays'
  <2> SUFFICES ASSUME NEW n \in OrderNo
               PROVE  /\ seq_pxs'[n] # NoSlot =>
                           /\ n \notin refused'
                           /\ seq_pxs'[n] = [side |-> order'[n].side,
                                             lvl |-> order'[n].px]
                      /\ n \notin refused' /\ ~ Waits(n)' /\ Told(n)' > 0
                           => seq_pxs'[n] # NoSlot
    BY Zenon DEF IndexSays
  <2>1. CASE n < nextNo
    BY <1>1, <1>3, <1>5, <2>1 DEF IndexSays
  <2>2. CASE n >= nextNo /\ Waits(n)'
    BY <1>1, <1>3, <2>2 DEF Fresh
  <2>3. CASE n >= nextNo /\ n >= nextNo'
    BY <1>1, <1>3, <1>12, <2>3 DEF Fresh
  <2> QED
    BY <1>13, <2>1, <2>2, <2>3
<1>15. RefusedOutside'
  <2> SUFFICES ASSUME NEW n \in refused, order'[n].qty > 0
               PROVE  order'[n].px \notin Levels
    BY <1>3 DEF RefusedOutside
  <2>1. n \in OrderNo /\ n < nextNo
    BY <1>1, <1>2 DEF RoutedTypeOK, Fresh
  <2>2. order[n].qty \in Int /\ order'[n].qty \in Int
    BY <1>1, <2>1, ToldOrder, ToldOrderNext DEF ToldSums
  <2>3. order[n].qty > 0
    BY <2>1, <2>2
  <2> QED
    BY <1>1, <2>1, <2>3 DEF RefusedOutside
<1>16. ASSUME NEW n \in OrderNo
       PROVE  /\ told'[n].qty = told[n].qty
              /\ told[n].qty # 0 => /\ told'[n].side = told[n].side
                                    /\ told'[n].px = told[n].px
  <2>1. /\ told[n].side = order[n].side /\ told[n].px = order[n].px
        /\ told[n].qty = IF n \in refused \/ Waits(n) THEN 0 ELSE Told(n)
        /\ told'[n].side = order'[n].side /\ told'[n].px = order'[n].px
        /\ told'[n].qty = IF n \in refused' \/ Waits(n)' THEN 0 ELSE Told(n)'
    BY <1>1, ToldOrder, ToldOrderNext DEF ToldSums
  <2>2. CASE n < nextNo
    BY <1>3, <1>5, <2>1, <2>2
  <2>3. CASE n >= nextNo /\ Waits(n)'
    BY <1>11, <2>1, <2>3
  <2>4. CASE n >= nextNo /\ n >= nextNo'
    BY <1>11, <1>12, <2>1, <2>4
  <2> QED
    BY <1>13, <2>2, <2>3, <2>4
<1>17. \A t, l : Heard!Depth(t, l)' = Heard!Depth(t, l)
  BY <1>16, HeardConstants, Heard!SameShares, SpanAssumption,
     MaxOrdersAssumption, PriceSlackAssumption, MaxQtyAssumption
<1>18. ShowsTold'
  BY <1>1, <1>3, <1>17 DEF ShowsTold
<1> QED
  BY <1>7, <1>10, <1>14, <1>15, <1>18 DEF RoutedInv

\* A message more is under way.
LEMMA OrderSent ==
  ASSUME RoutedInv, NEW m \in OrderMessage, m.OrderNo = nextNo,
         orders' = orders \o <<m>>
  PROVE  /\ orders' \in Seq(OrderMessage) /\ OneEach(orders')
         /\ Range(orders') = Range(orders) \cup {m}
<1>1. orders \in Seq(OrderMessage) /\ OneEach(orders)
  BY DEF RoutedInv, RoutedTypeOK, MessagesRight
<1>2. \A x \in Range(orders) : x.OrderNo # m.OrderNo
  <2>1. SUFFICES ASSUME NEW x \in Range(orders) PROVE x.OrderNo # nextNo
    OBVIOUS
  <2>2. x.OrderNo < nextNo /\ x \in OrderMessage
    BY <1>1, RangeType DEF RoutedInv, MessagesRight, OrderRight
  <2>3. x.OrderNo \in Int /\ nextNo \in Int
    BY <2>2, Numbers DEF RoutedInv, OrderMessage
  <2> QED
    BY <2>2, <2>3
<1> QED
  BY <1>1, <1>2, ListAppend, RangeAppend, OneEachAppend

LEMMA TradeSent ==
  ASSUME RoutedInv, NEW m \in TradeMessage, trades' = trades \o <<m>>
  PROVE  /\ trades' \in Seq(TradeMessage)
         /\ Range(trades') = Range(trades) \cup {m}
         /\ \A n : Pending(trades', n) = Pending(trades, n) + Part(m, n)
<1>1. trades \in Seq(TradeMessage)
  BY DEF RoutedInv, RoutedTypeOK
<1> QED
  BY <1>1, ListAppend, RangeAppend, PendingAppend

\* Nothing of the next order is anywhere yet.
LEMMA NextFresh ==
  ASSUME RoutedInv, nextNo \in OrderNo
  PROVE  /\ order[nextNo].qty = 0 /\ Pending(trades, nextNo) = 0
         /\ missed[nextNo] = 0 /\ nextNo \notin refused
         /\ seq_pxs[nextNo] = NoSlot
<1>1. RoutedTypeOK /\ Fresh /\ TradesRight
  BY DEF RoutedInv, MessagesRight
<1>2. nextNo >= nextNo
  BY <1>1, Numbers
<1>3. Told(nextNo) = 0
  BY <1>1, <1>2, FreshTold DEF FreshUntold
<1>4. /\ order[nextNo].qty = 0 /\ missed[nextNo] = 0 /\ nextNo \notin refused
      /\ seq_pxs[nextNo] = NoSlot
  BY <1>1, <1>2 DEF Fresh
<1>5. /\ Pending(trades, nextNo) \in Nat
      /\ Told(nextNo) = order[nextNo].qty + Pending(trades, nextNo)
                          + missed[nextNo]
  BY <1>1, ToldOrder DEF ToldSums
<1> QED
  BY <1>3, <1>4, <1>5

LEMMA SubmitSent ==
  ASSUME RoutedInv, SendSubmit
  PROVE  RoutedInv'
<1>1. PICK s \in Side, p \in Prices, q \in 1 .. MaxQty :
        Enter(s, p, q) /\ Send(<<OrderMsg(s, p, q)>>, <<>>)
  BY DEF SendSubmit
<1>2. q \in Nat /\ p \in Int
  BY MaxQtyAssumption, SpanAssumption, PriceSlackAssumption DEF Prices
<1>3. /\ RoutedTypeOK /\ ExchangeTypeOK /\ orders \in Seq(OrderMessage)
      /\ trades \in Seq(TradeMessage)
  BY DEF RoutedInv, RoutedTypeOK
<1>4. /\ ExchangeTypeOK' /\ nextNo \in OrderNo /\ nextNo' = nextNo + 1
      /\ \A n \in OrderNo : order'[n] =
           IF n = nextNo THEN [side |-> s, px |-> p, qty |-> q] ELSE order[n]
  BY <1>1, <1>2, <1>3, EnterOrders
<1> PICK m \in OrderMessage : m = OrderMsg(s, p, q)
  BY <1>2, <1>4 DEF OrderMsg, OrderMessage
<1>5. m.OrderNo = nextNo /\ m.OrderQty = q /\ m.p = p /\ m.Side = s
  BY DEF OrderMsg
<1>6. /\ orders' = orders \o <<m>> /\ trades' = trades
      /\ UNCHANGED <<bookVars, refused, missed>>
  BY <1>1, <1>3, ListAppend DEF Send
<1>7. /\ orders' \in Seq(OrderMessage) /\ OneEach(orders')
      /\ Range(orders') = Range(orders) \cup {m}
  BY <1>5, <1>6, OrderSent
<1>8. /\ bids' = bids /\ asks' = asks /\ seq_pxs' = seq_pxs
      /\ refused' = refused /\ missed' = missed
  BY <1>6 DEF bookVars
<1>9. RoutedTypeOK'
  BY <1>3, <1>4, <1>6, <1>7, <1>8 DEF RoutedTypeOK
<1>10. nextNo \in Int /\ OrderNo \in SUBSET Int
  BY <1>3, Numbers
<1>11. ASSUME NEW n \in OrderNo, n < nextNo
       PROVE  /\ order'[n].side = order[n].side /\ order'[n].px = order[n].px
              /\ order'[n].qty <= order[n].qty /\ Told(n)' = Told(n)
  <2>1. n # nextNo
    BY <1>10, <1>11
  <2>2. order'[n] = order[n]
    BY <1>4, <2>1
  <2>3. order[n].qty \in Int
    BY <1>3, ToldOrder DEF ToldSums
  <2> QED
    BY <1>6, <1>8, <2>2, <2>3 DEF Told
<1>12. \A n \in OrderNo : n >= nextNo' => order'[n].qty = 0
  <2>1. Fresh
    BY DEF RoutedInv
  <2> QED
    BY <1>4, <1>10, <2>1 DEF Fresh
<1>13. OrderRight(m)'
  <2>1. PICK k \in OrderNo : k = nextNo
    BY <1>4
  <2>2. /\ Pending(trades, k) = 0 /\ missed[k] = 0 /\ k \notin refused
        /\ seq_pxs[k] = NoSlot
    BY <2>1, NextFresh
  <2>3. /\ order'[k].qty = q /\ order'[k].px = p /\ order'[k].side = s
    BY <1>4, <2>1
  <2>4. Told(k)' = q
    BY <1>2, <1>6, <1>8, <2>2, <2>3 DEF Told
  <2>5. k < nextNo'
    BY <1>4, <1>10, <2>1
  <2> QED
    BY <1>5, <1>8, <2>1, <2>2, <2>3, <2>4, <2>5 DEF OrderRight
<1> QED
  BY <1>4, <1>5, <1>6, <1>7, <1>9, <1>11, <1>12, <1>13, SendKeeps

\* A trade of the orders of T, which lose q each and which its message names.
LEMMA ReduceSent ==
  ASSUME RoutedInv, NEW T \in SUBSET OrderNo, NEW q \in Nat, q > 0,
         Reduce(T, q), \A k \in T : q <= order[k].qty,
         NEW m \in TradeMessage, m.LastQty = q, Send(<<>>, <<m>>),
         NEW b \in Nat, NEW s \in Nat, b = m.BidApplSeqNum, s = m.OfferApplSeqNum,
         b # s, \A k \in OrderNo : k \in T <=> k = b \/ k = s,
         b # 0 => b \in OrderNo /\ order[b].side = "B",
         s # 0 => s \in OrderNo /\ order[s].side = "S"
  PROVE  RoutedInv'
<1>1. /\ RoutedTypeOK /\ ExchangeTypeOK /\ orders \in Seq(OrderMessage)
      /\ trades \in Seq(TradeMessage)
  BY DEF RoutedInv, RoutedTypeOK
<1>2. /\ ExchangeTypeOK' /\ nextNo' = nextNo
      /\ \A k \in OrderNo :
           /\ order'[k].side = order[k].side /\ order'[k].px = order[k].px
           /\ order'[k].qty = order[k].qty - (IF k \in T THEN q ELSE 0)
  BY <1>1, ReduceOrders, SMTT(20)
<1>3. /\ orders' = orders /\ trades' = trades \o <<m>>
      /\ UNCHANGED <<bookVars, refused, missed>>
  BY <1>1, ListAppend DEF Send
<1>4. /\ trades' \in Seq(TradeMessage)
      /\ Range(trades') = Range(trades) \cup {m}
      /\ \A n : Pending(trades', n) = Pending(trades, n) + Part(m, n)
  BY <1>3, TradeSent
<1>5. /\ bids' = bids /\ asks' = asks /\ seq_pxs' = seq_pxs
      /\ refused' = refused /\ missed' = missed
  BY <1>3 DEF bookVars
<1>6. RoutedTypeOK'
  BY <1>1, <1>2, <1>3, <1>4, <1>5 DEF RoutedTypeOK
<1>7. nextNo \in Int /\ OrderNo \in SUBSET Int /\ nextNo >= 1 /\ 0 \notin OrderNo
  BY <1>1, Numbers DEF OrderNo
<1>8. ASSUME NEW n \in OrderNo
      PROVE  /\ order'[n].qty <= order[n].qty /\ Told(n)' = Told(n)
  <2>1. Part(m, n) = IF n \in T THEN q ELSE 0
    BY <1>7 DEF Part
  <2>2. /\ order[n].qty \in Nat /\ Pending(trades, n) \in Nat /\ missed[n] \in Nat
        /\ Told(n) = order[n].qty + Pending(trades, n) + missed[n]
    BY <1>1, ToldOrder DEF ToldSums
  <2>3. Told(n)' = order'[n].qty + Pending(trades', n) + missed'[n]
    BY DEF Told
  <2>4. order'[n].qty = order[n].qty - Part(m, n)
    BY <1>2, <2>1
  <2>5. Pending(trades', n) = Pending(trades, n) + Part(m, n) /\ Part(m, n) \in Nat
    BY <1>4, PartNat
  <2> QED
    BY <1>5, <2>2, <2>3, <2>4, <2>5
<1>9. \A k \in T : k < nextNo
  <2>1. SUFFICES ASSUME NEW k \in T, k >= nextNo PROVE FALSE
    BY <1>7
  <2>2. order[k].qty = 0
    BY <2>1 DEF RoutedInv, Fresh
  <2> QED
    BY <2>1, <2>2
<1>10. \A n \in OrderNo : n >= nextNo' => order'[n].qty = 0
  <2>1. SUFFICES ASSUME NEW n \in OrderNo, n >= nextNo PROVE order'[n].qty = 0
    BY <1>2
  <2>2. order[n].qty = 0 /\ n \notin T
    BY <1>7, <1>9, <2>1 DEF RoutedInv, Fresh
  <2>3. order'[n].qty = order[n].qty - 0
    BY <1>2, <2>2
  <2> QED
    BY <2>2, <2>3
<1>11. TradeRight(m)'
  <2>1. /\ b < nextNo /\ s < nextNo
        /\ b # 0 => b \in OrderNo
        /\ s # 0 => s \in OrderNo
    BY <1>7, <1>9
  <2>2. /\ b # 0 => order'[b].side = "B"
        /\ s # 0 => order'[s].side = "S"
    BY <1>2, <2>1
  <2> QED
    BY <1>2, <2>1, <2>2 DEF TradeRight
<1>12. OneEach(orders')
  BY <1>3 DEF RoutedInv, MessagesRight
<1> QED
  BY <1>2, <1>3, <1>4, <1>6, <1>8, <1>10, <1>11, <1>12, SendKeeps

LEMMA WithdrawSent ==
  ASSUME RoutedInv, SendWithdraw
  PROVE  RoutedInv'
<1>1. PICK n \in OrderNo : /\ order[n].qty > 0 /\ Reduce({n}, order[n].qty)
                           /\ Send(<<>>, <<CancelMsg(n)>>)
  BY DEF SendWithdraw
<1>2. /\ order[n].qty \in Nat /\ order[n].side \in Side /\ n \in Nat /\ n # 0
  BY ToldOrder DEF RoutedInv, ToldSums, OrderNo
<1> PICK b \in Nat, s \in Nat, q \in Nat :
        /\ b = IF order[n].side = "B" THEN n ELSE 0
        /\ s = IF order[n].side = "S" THEN n ELSE 0
        /\ q = order[n].qty
  BY <1>2
<1>3. /\ b # s /\ \A k \in OrderNo : k \in {n} <=> k = b \/ k = s
      /\ b # 0 => b \in OrderNo /\ order[b].side = "B"
      /\ s # 0 => s \in OrderNo /\ order[s].side = "S"
  <2>1. \A k \in OrderNo : k # 0
    BY DEF OrderNo
  <2> QED
    BY <1>2, <2>1 DEF Side
<1> PICK m \in TradeMessage : m = CancelMsg(n)
  <2>1. q \in Nat \ {0} /\ Nil \in Int
    BY <1>1, <1>2 DEF Nil
  <2> QED
    BY <2>1 DEF CancelMsg, TradeMessage
<1>4. m.LastQty = q /\ b = m.BidApplSeqNum /\ s = m.OfferApplSeqNum
  BY DEF CancelMsg
<1>5. /\ Send(<<>>, <<m>>) /\ Reduce({n}, q) /\ q > 0
      /\ {n} \in SUBSET OrderNo /\ \A k \in {n} : q <= order[k].qty
  BY <1>1, <1>2
<1> QED
  BY <1>3, <1>4, <1>5, ReduceSent

LEMMA MatchSent ==
  ASSUME RoutedInv, SendMatch
  PROVE  RoutedInv'
<1>1. PICK b \in Resting("B"), s \in Resting("S"), p \in Prices :
        LET q == Min({order[b].qty, order[s].qty})
        IN  Reduce({b, s}, q) /\ Send(<<>>, <<FillMsg(b, s, p, q)>>)
  BY DEF SendMatch
<1>2. /\ b \in OrderNo /\ order[b].side = "B" /\ order[b].qty > 0
      /\ s \in OrderNo /\ order[s].side = "S" /\ order[s].qty > 0
      /\ order[b].qty \in Nat /\ order[s].qty \in Nat
  BY ToldOrder DEF Resting, RoutedInv, ToldSums
<1>3. PICK q \in Nat \ {0} :
        /\ q <= order[b].qty /\ q <= order[s].qty
        /\ Reduce({b, s}, q) /\ Send(<<>>, <<FillMsg(b, s, p, q)>>)
  <2> DEFINE q == Min({order[b].qty, order[s].qty})
  <2>1. q \in Nat \ {0} /\ q <= order[b].qty /\ q <= order[s].qty
    <3>1. \E x \in {order[b].qty, order[s].qty} :
            \A y \in {order[b].qty, order[s].qty} : x <= y
      BY <1>2
    <3> QED
      BY <1>2, <3>1 DEF Min
  <2>2. Reduce({b, s}, q) /\ Send(<<>>, <<FillMsg(b, s, p, q)>>)
    BY <1>1
  <2> HIDE DEF q
  <2> QED
    BY <2>1, <2>2
<1>4. b \in Nat /\ s \in Nat /\ b # s /\ p \in Int
  BY <1>2, SpanAssumption, PriceSlackAssumption DEF OrderNo, Prices
<1>5. PICK m \in TradeMessage :
        /\ m.LastQty = q /\ m.BidApplSeqNum = b /\ m.OfferApplSeqNum = s
        /\ Send(<<>>, <<m>>)
  BY <1>3, <1>4 DEF FillMsg, TradeMessage
<1>6. PICK T \in SUBSET OrderNo :
        /\ Reduce(T, q) /\ \A k \in T : q <= order[k].qty
        /\ \A k \in OrderNo : k \in T <=> k = b \/ k = s
  <2>1. /\ {b, s} \in SUBSET OrderNo /\ \A k \in {b, s} : q <= order[k].qty
        /\ \A k \in OrderNo : k \in {b, s} <=> k = b \/ k = s
    BY <1>2, <1>3
  <2> QED
    BY <1>3, <2>1
<1>7. q \in Nat /\ q > 0
  OBVIOUS
<1> QED
  BY <1>2, <1>4, <1>5, <1>6, <1>7, ReduceSent, SMTT(20)

LEMMA MarketSent ==
  ASSUME RoutedInv, SendMarket
  PROVE  RoutedInv'
<1>1. PICK n \in OrderNo, q \in 1 .. MaxQty :
        /\ AtBest(n) /\ q <= order[n].qty /\ nextNo \in OrderNo
        /\ order' = [order EXCEPT ![n].qty = @ - q]
        /\ nextNo' = nextNo + 1
        /\ IF order[n].side = "B"
           THEN Send(<<OrderMsg("S", Nil, q)>>, <<FillMsg(n, nextNo, order[n].px, q)>>)
           ELSE Send(<<OrderMsg("B", Nil, q)>>, <<FillMsg(nextNo, n, order[n].px, q)>>)
  BY DEF SendMarket
<1> PICK k \in OrderNo : k = nextNo
  BY <1>1
<1>2. /\ RoutedTypeOK /\ ExchangeTypeOK /\ orders \in Seq(OrderMessage)
      /\ trades \in Seq(TradeMessage)
  BY DEF RoutedInv, RoutedTypeOK
<1>3. /\ nextNo \in Int /\ OrderNo \in SUBSET Nat /\ 0 \notin OrderNo
      /\ k + 1 <= MaxOrders + 1 /\ k + 1 >= 1
  BY <1>2, MaxOrdersAssumption, Numbers DEF OrderNo
<1>4. /\ q \in Nat \ {0} /\ q <= order[n].qty
      /\ order[n] \in [side: Side, px: Prices, qty: Nat]
      /\ order[n].px \in Int /\ order[n].qty \in Nat /\ order[n].side \in Side
  <2>1. order[n] \in [side: Side, px: Prices, qty: Nat]
    BY <1>2, ToldOrder DEF ToldSums
  <2> QED
    BY <1>1, <2>1, MaxQtyAssumption, SpanAssumption, PriceSlackAssumption
    DEF Prices
<1>5. order[k].qty = 0 /\ n # k
  BY <1>1, <1>4, NextFresh
<1>6. /\ order'[n].side = order[n].side /\ order'[n].px = order[n].px
      /\ order'[n].qty = order[n].qty - q
      /\ \A j \in OrderNo : j # n => order'[j] = order[j]
  BY <1>1, <1>2 DEF ExchangeTypeOK
<1>7. ExchangeTypeOK'
  <2>1. [order[n] EXCEPT !.qty = @ - q] \in [side: Side, px: Prices, qty: Nat]
    BY <1>4
  <2>2. order' = [order EXCEPT ![n] = [order[n] EXCEPT !.qty = @ - q]]
    BY <1>1, <1>2 DEF ExchangeTypeOK
  <2>3. order' \in [OrderNo -> [side: Side, px: Prices, qty: Nat]]
    BY <1>2, <2>1, <2>2 DEF ExchangeTypeOK
  <2>4. nextNo' \in 1 .. MaxOrders + 1
    BY <1>1, <1>3, MaxOrdersAssumption
  <2> QED
    BY <2>3, <2>4 DEF ExchangeTypeOK
\* The two messages.
<1> PICK t \in Side : t = IF order[n].side = "B" THEN "S" ELSE "B"
  BY DEF Side
<1> PICK b \in OrderNo, s \in OrderNo :
      /\ b = IF order[n].side = "B" THEN n ELSE k
      /\ s = IF order[n].side = "B" THEN k ELSE n
  OBVIOUS
<1> PICK m \in OrderMessage : m = OrderMsg(t, Nil, q)
  BY <1>1, <1>4 DEF OrderMsg, OrderMessage, Nil
<1> PICK f \in TradeMessage : f = FillMsg(b, s, order[n].px, q)
  BY <1>3, <1>4 DEF FillMsg, TradeMessage
<1>8. /\ m.OrderNo = k /\ m.OrderQty = q /\ ~ InRange(m.p)
      /\ f.LastQty = q /\ f.BidApplSeqNum = b /\ f.OfferApplSeqNum = s
      /\ b # s /\ \A j \in OrderNo : j \in {b, s} <=> j = n \/ j = k
  BY <1>5, LevelsInt DEF OrderMsg, FillMsg, InRange
<1>9. Send(<<m>>, <<f>>)
  <2>1. CASE order[n].side = "B"
    BY <1>1, <2>1
  <2>2. CASE order[n].side # "B"
    BY <1>1, <2>2
  <2> QED
    BY <2>1, <2>2
<1>10. /\ orders' = orders \o <<m>> /\ trades' = trades \o <<f>>
       /\ UNCHANGED <<bookVars, refused, missed>>
  BY <1>9 DEF Send
<1>11. /\ orders' \in Seq(OrderMessage) /\ OneEach(orders')
       /\ Range(orders') = Range(orders) \cup {m}
  BY <1>8, <1>10, OrderSent
<1>12. /\ trades' \in Seq(TradeMessage)
       /\ Range(trades') = Range(trades) \cup {f}
       /\ \A j : Pending(trades', j) = Pending(trades, j) + Part(f, j)
  BY <1>10, TradeSent
<1>13. /\ bids' = bids /\ asks' = asks /\ seq_pxs' = seq_pxs
       /\ refused' = refused /\ missed' = missed
  BY <1>10 DEF bookVars
<1>14. RoutedTypeOK'
  BY <1>2, <1>7, <1>11, <1>12, <1>13 DEF RoutedTypeOK
<1>15. ASSUME NEW j \in OrderNo
       PROVE  /\ Told(j)' = order'[j].qty + Pending(trades, j) + Part(f, j) + missed[j]
              /\ Told(j) = order[j].qty + Pending(trades, j) + missed[j]
              /\ order[j].qty \in Nat /\ Pending(trades, j) \in Nat
              /\ missed[j] \in Nat /\ order'[j].qty \in Nat
              /\ Part(f, j) = IF j = n \/ j = k THEN q ELSE 0
  <2>1. /\ Told(j) = order[j].qty + Pending(trades, j) + missed[j]
        /\ order[j].qty \in Nat /\ Pending(trades, j) \in Nat
        /\ missed[j] \in Nat /\ order'[j].qty \in Nat
    BY <1>2, <1>14, ToldOrder, ToldOrderNext DEF ToldSums
  <2>2. Part(f, j) = IF j = n \/ j = k THEN q ELSE 0
    BY <1>8 DEF Part
  <2>3. Told(j)' = order'[j].qty + Pending(trades', j) + missed'[j]
    BY DEF Told
  <2>4. Pending(trades', j) = Pending(trades, j) + Part(f, j) /\ Part(f, j) \in Nat
    BY <1>12, PartNat
  <2>5. Told(j)' = order'[j].qty + Pending(trades, j) + Part(f, j) + missed[j]
    BY <1>13, <2>1, <2>3, <2>4
  <2> QED
    BY <2>1, <2>2, <2>5
<1>16. ASSUME NEW j \in OrderNo, j < nextNo
       PROVE  /\ order'[j].side = order[j].side /\ order'[j].px = order[j].px
              /\ order'[j].qty <= order[j].qty /\ Told(j)' = Told(j)
  <2>1. CASE j = n
    <3>1. Part(f, j) = q
      BY <1>15, <2>1
    <3> QED
      BY <1>4, <1>6, <1>15, <2>1, <3>1
  <2>2. CASE j # n
    <3>1. order'[j] = order[j] /\ j # k /\ Part(f, j) = 0
      BY <1>3, <1>6, <1>15, <1>16, <2>2
    <3> QED
      BY <1>15, <3>1
  <2> QED
    BY <2>1, <2>2
<1>17. n < nextNo
  BY <1>3, <1>4 DEF RoutedInv, Fresh
<1>18. ASSUME NEW j \in OrderNo, j >= nextNo'
       PROVE  order'[j].qty = 0
  <2>1. j >= nextNo /\ j # n
    BY <1>1, <1>3, <1>17, <1>18
  <2> QED
    BY <1>6, <2>1 DEF RoutedInv, Fresh
<1>19. OrderRight(m)'
  <2>1. /\ Pending(trades, k) = 0 /\ missed[k] = 0 /\ k \notin refused
        /\ seq_pxs[k] = NoSlot
    BY <1>1, NextFresh
  <2>2. order'[k].qty = 0 /\ Part(f, k) = q
    BY <1>5, <1>6, <1>15
  <2>3. Told(k)' = q
    BY <1>4, <1>15, <2>1, <2>2
  <2>4. k < nextNo' /\ ~ (order'[k].qty > 0)
    BY <1>1, <1>3, <2>2
  <2>5. ~ InRange(m.p)'
    BY <1>8 DEF InRange
  <2> QED
    BY <1>8, <1>13, <2>1, <2>3, <2>4, <2>5 DEF OrderRight
<1>20. TradeRight(f)'
  <2>1. NeverIn(k)'
    BY <1>8, <1>11 DEF NeverIn, InRange
  <2>2. b < nextNo' /\ s < nextNo'
    BY <1>1, <1>3, <1>17
  <2>3. /\ order'[b].side = "B" \/ NeverIn(b)'
        /\ order'[s].side = "S" \/ NeverIn(s)'
    BY <1>4, <1>6, <2>1 DEF Side
  <2> QED
    BY <1>8, <2>2, <2>3 DEF TradeRight
<1> QED
  BY <1>1, <1>8, <1>10, <1>11, <1>12, <1>14, <1>16, <1>18, <1>19, <1>20,
     SendKeeps

-----------------------------------------------------------------------------
\* The quotient and the remainder of a division.
LEMMA Division ==
  ASSUME NEW a \in Nat, NEW b \in Nat \ {0}
  PROVE  /\ a \div b \in Nat
         /\ (a \div b) * b <= a
         /\ a < (a \div b) * b + b
<1>1. a = b * (a \div b) + (a % b) /\ a % b \in 0 .. b - 1 /\ a \div b \in Int
  BY SMTT(30)
<1>2. a \div b \in Nat
  BY SMTT(30)
<1> QED
  BY <1>1, <1>2, SMTT(30)

\* EverySymbolRouted for every lobnum and every number of workers: the rounding
\* up in init is what onFeedRawData's test of the worker index relies on.
THEOREM EverySymbolRoutedTheorem == EverySymbolRouted
<1>1. symnum_of_worker \in Nat \ {0} /\ lobnum <= symnum_of_worker * workers
  BY Division, LobnumAssumption, WorkersAssumption, SMTT(30) DEF symnum_of_worker
<1>2. ASSUME NEW symbolid \in 0 .. lobnum - 1 PROVE Routed(symbolid)
  BY <1>1, Division, LobnumAssumption, WorkersAssumption, SMTT(30)
  DEF Routed, worker_idx
<1> QED
  BY <1>2 DEF EverySymbolRouted

\* So the messages of this book's orders are never dropped.
LEMMA OwnWorker == Routed(SecurityID) /\ InWorklist(SecurityID)
<1>1. SecurityID \in 0 .. lobnum - 1 /\ SecurityID \in symbol_list
  BY ListAssumption, SecurityIDAssumption
<1>2. SecurityID < lobnum
  BY <1>1, LobnumAssumption
<1> QED
  BY <1>1, <1>2, EverySymbolRoutedTheorem DEF EverySymbolRouted, InWorklist

-----------------------------------------------------------------------------
\* The first order's message arrives: it waits no more, and all else is as before.
LEMMA Arrives ==
  ASSUME RoutedInv, orders # <<>>, orders' = Tail(orders),
         trades' = trades, order' = order, nextNo' = nextNo, missed' = missed,
         LET n == Head(orders).OrderNo
         IN  \/ refused' = refused /\ InRange(Head(orders).p)
             \/ refused' = refused \cup {n} /\ ~ InRange(Head(orders).p)
  PROVE  LET m == Head(orders)
             n == m.OrderNo
         IN  /\ m \in OrderMessage /\ n \in OrderNo /\ OrderRight(m)
             /\ orders' \in Seq(OrderMessage) /\ OneEach(orders')
             /\ Range(orders') \subseteq Range(orders)
             /\ \A x \in Range(orders') : x.OrderNo # n
             /\ \A k : Waits(k)' <=> Waits(k) /\ k # n
             /\ \A k : NeverIn(k) => NeverIn(k)'
             /\ \A k : Told(k)' = Told(k)
<1> PICK m, n : m = Head(orders) /\ n = m.OrderNo
  OBVIOUS
<1>1. orders \in Seq(OrderMessage) /\ OneEach(orders)
  BY DEF RoutedInv, RoutedTypeOK, MessagesRight
<1>2. /\ m \in OrderMessage /\ orders' \in Seq(OrderMessage)
      /\ Range(orders) = Range(orders') \cup {m}
      /\ OneEach(orders')
      /\ \A x \in Range(orders') : x.OrderNo # n
  BY <1>1, ListTail, RangeTail, OneEachTail
<1>3. n \in OrderNo /\ OrderRight(m)
  BY <1>2 DEF OrderMessage, RoutedInv, MessagesRight
<1>4. ASSUME NEW k PROVE Waits(k)' <=> Waits(k) /\ k # n
  BY <1>2 DEF Waits
<1>5. ASSUME NEW k, NeverIn(k) PROVE NeverIn(k)'
  <2>1. CASE k \in refused
    BY <2>1 DEF NeverIn
  <2>2. CASE \E x \in Range(orders) : x.OrderNo = k /\ ~ InRange(x.p)
    <3>1. PICK x \in Range(orders) : x.OrderNo = k /\ ~ InRange(x.p)
      BY <2>2
    <3>2. CASE x \in Range(orders')
      BY <3>1, <3>2 DEF NeverIn, InRange
    <3>3. CASE x = m
      BY <3>1, <3>3 DEF NeverIn
    <3> QED
      BY <1>2, <3>2, <3>3
  <2> QED
    BY <1>5, <2>1, <2>2 DEF NeverIn
<1>6. \A k : Told(k)' = Told(k)
  BY DEF Told
<1> QED
  BY <1>2, <1>3, <1>4, <1>5, <1>6

\* What of the invariant does not depend on which way the handler went.
LEMMA ArrivesKeeps ==
  ASSUME RoutedInv, orders # <<>>, orders' = Tail(orders),
         trades' = trades, order' = order, nextNo' = nextNo, missed' = missed,
         RoutedTypeOK', NEW n, n = Head(orders).OrderNo,
         \/ /\ refused' = refused /\ InRange(Head(orders).p)
            /\ seq_pxs'[n] = [side |-> order[n].side, lvl |-> order[n].px]
            /\ seq_pxs'[n] # NoSlot
         \/ /\ refused' = refused \cup {n} /\ ~ InRange(Head(orders).p)
            /\ seq_pxs'[n] = NoSlot,
         \A k \in OrderNo : k # n => seq_pxs'[k] = seq_pxs[k],
         ShowsTold'
  PROVE  RoutedInv'
<1> PICK m : m = Head(orders)
  OBVIOUS
<1>1. /\ RoutedTypeOK /\ Fresh /\ MessagesRight /\ IndexSays /\ RefusedOutside
  BY DEF RoutedInv
<1>2. /\ m \in OrderMessage /\ n \in OrderNo /\ OrderRight(m)
      /\ OneEach(orders')
      /\ Range(orders') \subseteq Range(orders)
      /\ \A x \in Range(orders') : x.OrderNo # n
      /\ \A k : Waits(k)' <=> Waits(k) /\ k # n
      /\ \A k : NeverIn(k) => NeverIn(k)'
      /\ \A k : Told(k)' = Told(k)
  BY Arrives
<1>3. /\ n < nextNo /\ n \notin refused
      /\ InRange(m.p) \/ order[n].qty > 0 => m.p = order[n].px
  BY <1>2 DEF OrderRight
<1>4. nextNo \in Int /\ OrderNo \in SUBSET Int
  BY <1>1, Numbers
<1>5. Fresh'
  <2>1. SUFFICES ASSUME NEW k \in OrderNo, k >= nextNo
                 PROVE  /\ order[k].qty = 0 /\ missed[k] = 0
                        /\ seq_pxs'[k] = NoSlot /\ k \notin refused'
    BY DEF Fresh
  <2>2. k # n
    BY <1>3, <1>4, <2>1
  <2> QED
    BY <1>1, <2>1, <2>2 DEF Fresh
<1>6. ASSUME NEW x \in Range(orders') PROVE OrderRight(x)'
  <2>1. /\ OrderRight(x) /\ x.OrderNo # n /\ x \in OrderMessage
    BY <1>1, <1>2, RangeType DEF MessagesRight, RoutedTypeOK
  <2>2. PICK k \in OrderNo : k = x.OrderNo
    BY <2>1 DEF OrderMessage
  <2>3. seq_pxs'[k] = seq_pxs[k] /\ k \notin refused' /\ Told(k)' = Told(k)
    BY <1>2, <2>1, <2>2 DEF OrderRight
  <2> QED
    BY <2>1, <2>2, <2>3 DEF OrderRight, InRange
<1>7. ASSUME NEW x \in Range(trades) PROVE TradeRight(x)'
  <2>1. TradeRight(x)
    BY <1>1 DEF MessagesRight, TradesRight
  <2>2. PICK b, s : b = x.BidApplSeqNum /\ s = x.OfferApplSeqNum
    OBVIOUS
  <2> QED
    BY <1>2, <2>1, <2>2 DEF TradeRight
<1>8. MessagesRight'
  BY <1>2, <1>6, <1>7 DEF MessagesRight, TradesRight
<1>9. IndexSays'
  <2> SUFFICES ASSUME NEW k \in OrderNo
               PROVE  /\ seq_pxs'[k] # NoSlot =>
                           /\ k \notin refused'
                           /\ seq_pxs'[k] = [side |-> order[k].side,
                                             lvl |-> order[k].px]
                      /\ k \notin refused' /\ ~ Waits(k)' /\ Told(k)' > 0
                           => seq_pxs'[k] # NoSlot
    BY DEF IndexSays
  <2>1. CASE k = n
    BY <1>3, <2>1
  <2>2. CASE k # n
    BY <1>1, <1>2, <2>2 DEF IndexSays
  <2> QED
    BY <2>1, <2>2
<1>10. RefusedOutside'
  <2> SUFFICES ASSUME NEW k \in refused', order[k].qty > 0
               PROVE  order[k].px \notin Levels
    BY DEF RefusedOutside
  <2>1. CASE k \in refused
    BY <1>1, <2>1 DEF RefusedOutside
  <2>2. CASE k \notin refused
    <3>1. k = n /\ ~ InRange(m.p)
      BY <2>2
    <3> QED
      BY <1>3, <3>1 DEF InRange
  <2> QED
    BY <2>1, <2>2
<1> QED
  BY <1>5, <1>8, <1>9, <1>10 DEF RoutedInv

LEMMA OrderArrives ==
  ASSUME RoutedInv, ReceiveOrder
  PROVE  RoutedInv'
<1> PICK m, n : m = Head(orders) /\ n = m.OrderNo
  OBVIOUS
<1>1. /\ orders # <<>> /\ orders' = Tail(orders) /\ onOrderSZ(m)
      /\ refused' = IF InRange(m.p) THEN refused ELSE refused \cup {n}
      /\ order' = order /\ nextNo' = nextNo /\ trades' = trades
      /\ missed' = missed
  BY OwnWorker DEF ReceiveOrder, ForwardOrder, onFeedRawData, WorkerEnqueue,
                   onMessage, Accepted, exchangeVars
<1>2. /\ m \in OrderMessage /\ n \in OrderNo /\ OrderRight(m)
      /\ orders' \in Seq(OrderMessage)
      /\ \A k : Waits(k)' <=> Waits(k) /\ k # n
      /\ \A k : Told(k)' = Told(k)
  BY <1>1, Arrives
<1>3. /\ n \notin refused /\ seq_pxs[n] = NoSlot /\ m.OrderQty = Told(n)
      /\ InRange(m.p) => m.p = order[n].px /\ m.Side = order[n].side
  BY <1>2 DEF OrderRight
<1>4. /\ RoutedTypeOK /\ ShowsTold /\ ToldSums /\ Heard!ExchangeTypeOK
      /\ bids \in [Levels -> Int] /\ asks \in [Levels -> Int]
      /\ seq_pxs \in [OrderNo -> Slot \cup {NoSlot}]
  BY ToldOrder DEF RoutedInv, RoutedTypeOK
<1>5. Waits(n)
  <2>1. m \in Range(orders)
    <3>1. orders \in Seq(OrderMessage)
      BY <1>4 DEF RoutedTypeOK
    <3> QED
      BY <1>1, <3>1, RangeTail
  <2> QED
    BY <2>1 DEF Waits
<1>6. CASE ~ InRange(m.p)
  <2>1. /\ bids' = bids /\ asks' = asks /\ seq_pxs' = seq_pxs
        /\ refused' = refused \cup {n}
    BY <1>1, <1>6 DEF onOrderSZ, AddBuySZ, AddSellSZ, RefuseSZ, bookVars
  <2>2. RoutedTypeOK'
    BY <1>1, <1>2, <1>4, <2>1 DEF RoutedTypeOK, ExchangeTypeOK
  <2>3. ASSUME NEW k \in OrderNo
        PROVE  /\ told'[k].qty = told[k].qty
               /\ told'[k].side = told[k].side /\ told'[k].px = told[k].px
    <3>1. /\ told[k].qty = IF k \in refused \/ Waits(k) THEN 0 ELSE Told(k)
          /\ told'[k].qty = IF k \in refused' \/ Waits(k)' THEN 0 ELSE Told(k)'
          /\ told[k].side = order[k].side /\ told'[k].side = order'[k].side
          /\ told[k].px = order[k].px /\ told'[k].px = order'[k].px
      BY <1>4, <2>2, ToldOrderNext DEF ToldSums
    <3>2. k \in refused' \/ Waits(k)' <=> k \in refused \/ Waits(k)
      BY <1>2, <1>5, <2>1
    <3> QED
      BY <1>1, <1>2, <3>1, <3>2
  <2>4. \A t, l : Heard!Depth(t, l)' = Heard!Depth(t, l)
    BY <2>3, HeardConstants, Heard!SameShares, SpanAssumption,
       MaxOrdersAssumption, PriceSlackAssumption, MaxQtyAssumption
  <2>5. ShowsTold'
    BY <1>4, <2>1, <2>4 DEF ShowsTold
  <2> QED
    BY <1>1, <1>3, <1>6, <2>1, <2>2, <2>5, ArrivesKeeps
<1>7. CASE InRange(m.p)
  <2>1. PICK p \in Levels, s \in Side, q \in Nat :
          /\ p = m.p /\ p = order[n].px /\ s = m.Side /\ s = order[n].side
          /\ q = m.OrderQty /\ q = Told(n)
    BY <1>2, <1>3, <1>7 DEF InRange, OrderMessage
  <2>2. /\ seq_pxs' = [seq_pxs EXCEPT ![n] = [side |-> s, lvl |-> p]]
        /\ bids' = IF s = "B" THEN [bids EXCEPT ![p] = @ + q] ELSE bids
        /\ asks' = IF s = "S" THEN [asks EXCEPT ![p] = @ + q] ELSE asks
        /\ refused' = refused
    BY <1>1, <1>7, <2>1 DEF onOrderSZ, AddBuySZ, AddSellSZ, RefuseSZ, Side
  <2>3. [side |-> s, lvl |-> p] \in Slot /\ [side |-> s, lvl |-> p] # NoSlot
    BY LevelsInt DEF Slot, NoSlot
  <2>4. RoutedTypeOK'
    <3>1. seq_pxs' \in [OrderNo -> Slot \cup {NoSlot}]
      BY <1>4, <2>2, <2>3
    <3>2. bids' \in [Levels -> Int] /\ asks' \in [Levels -> Int]
      BY <1>4, <2>2
    <3> QED
      BY <1>1, <1>2, <1>4, <2>2, <3>1, <3>2 DEF RoutedTypeOK, ExchangeTypeOK
  <2>5. /\ seq_pxs'[n] = [side |-> order[n].side, lvl |-> order[n].px]
        /\ \A k \in OrderNo : k # n => seq_pxs'[k] = seq_pxs[k]
    BY <1>2, <1>4, <2>1, <2>2
  <2>6. ASSUME NEW k \in OrderNo
        PROVE  /\ told'[k].side = told[k].side /\ told'[k].px = told[k].px
               /\ told'[k].qty = IF k = n THEN q ELSE told[k].qty
               /\ k = n => told[k].qty = 0 /\ told[k].side = s /\ told[k].px = p
    <3>1. /\ told[k].qty = IF k \in refused \/ Waits(k) THEN 0 ELSE Told(k)
          /\ told'[k].qty = IF k \in refused' \/ Waits(k)' THEN 0 ELSE Told(k)'
          /\ told[k].side = order[k].side /\ told'[k].side = order'[k].side
          /\ told[k].px = order[k].px /\ told'[k].px = order'[k].px
      BY <1>4, <2>4, ToldOrderNext DEF ToldSums
    <3>2. CASE k = n
      BY <1>1, <1>2, <1>3, <1>5, <2>1, <2>2, <3>1, <3>2
    <3>3. CASE k # n
      BY <1>1, <1>2, <2>2, <3>1, <3>3
    <3> QED
      BY <3>2, <3>3
  <2>7. Heard!ExchangeTypeOK'
    BY <2>4, ToldOrderNext
  <2>8. ASSUME NEW t, NEW l
        PROVE  Heard!Depth(t, l)' = Heard!Depth(t, l)
                 + (IF s = t /\ p = l THEN q ELSE 0)
    <3>1. Heard!Depth(t, l)' = Heard!Depth(t, l)
            + (IF told'[n].side = t /\ told'[n].px = l THEN told'[n].qty ELSE 0)
            - (IF told[n].side = t /\ told[n].px = l THEN told[n].qty ELSE 0)
      <4>1. \A k \in OrderNo : k # n =>
              /\ told'[k].side = told[k].side /\ told'[k].px = told[k].px
              /\ told'[k].qty = told[k].qty
        BY <2>6
      <4>2. Heard!ExchangeTypeOK /\ Heard!ExchangeTypeOK' /\ n \in OrderNo
        BY <1>2, <1>4, <2>7
      <4> QED
        BY <4>1, <4>2, HeardConstants, Heard!OneDepth, SpanAssumption,
           MaxOrdersAssumption, PriceSlackAssumption, MaxQtyAssumption
    <3>2. Heard!Depth(t, l) \in Nat
      BY <1>4, Heard!DepthLaws, SpanAssumption,
         MaxOrdersAssumption, PriceSlackAssumption, MaxQtyAssumption
    <3>3. /\ told'[n].side = s /\ told'[n].px = p /\ told'[n].qty = q
          /\ told[n].side = s /\ told[n].px = p /\ told[n].qty = 0
      BY <1>2, <2>6
    <3> QED
      BY <3>1, <3>2, <3>3
  <2>9. ShowsTold'
    <3> SUFFICES ASSUME NEW l \in Levels
                 PROVE  /\ bids'[l] = Heard!Depth("B", l)'
                        /\ asks'[l] = Heard!Depth("S", l)'
      BY DEF ShowsTold
    <3>1. bids[l] = Heard!Depth("B", l) /\ asks[l] = Heard!Depth("S", l)
      BY <1>4 DEF ShowsTold
    <3>2. /\ bids'[l] = bids[l] + (IF s = "B" /\ p = l THEN q ELSE 0)
          /\ asks'[l] = asks[l] + (IF s = "S" /\ p = l THEN q ELSE 0)
      BY <1>4, <2>2
    <3> QED
      BY <2>8, <3>1, <3>2
  <2> QED
    BY <1>1, <1>7, <2>2, <2>3, <2>4, <2>5, <2>1, <2>9, ArrivesKeeps
<1> QED
  BY <1>6, <1>7

-----------------------------------------------------------------------------
\* The orders a trade's message leaves as they are.
LEMMA MissedSays ==
  ASSUME NEW m, NEW n \in OrderNo
  PROVE  n \in Missed(m) <=>
           /\ n \in {m.BidApplSeqNum, m.OfferApplSeqNum}
           /\ \/ ~ Routed(FeedNo(m.BidApplSeqNum))
              \/ m.ExecType = "F" /\ ~ InRange(m.p)
              \/ Waits(n)
<1>1. Waits(n) <=> \E i \in DOMAIN orders : orders[i].OrderNo = n
  BY Zenon DEF Waits, Range
<1> QED
  BY <1>1, Zenon DEF Missed

\* The first trade's message arrives.  Of the order n it is now missed what the
\* handler did not apply, and no longer under way what it took.
LEMMA TradeComes ==
  ASSUME RoutedInv, ReceiveTrade
  PROVE  LET m == Head(trades)
         IN  /\ m \in TradeMessage /\ TradeRight(m)
             /\ trades' \in Seq(TradeMessage) /\ Range(trades') \subseteq Range(trades)
             /\ orders' = orders /\ order' = order /\ nextNo' = nextNo
             /\ refused' = refused /\ missed' \in [OrderNo -> Nat]
             /\ \A n : /\ Waits(n)' <=> Waits(n)
                       /\ NeverIn(n)' <=> NeverIn(n)
             /\ \A n \in OrderNo :
                  /\ Told(n) \in Nat
                  /\ Part(m, n) > 0 => Told(n) >= m.LastQty
                  /\ Told(n)' = Told(n) - (IF n \in Missed(m) THEN 0
                                                              ELSE Part(m, n))
<1> PICK m : m = Head(trades)
  OBVIOUS
<1>1. /\ trades # <<>> /\ trades' = Tail(trades) /\ orders' = orders
      /\ order' = order /\ nextNo' = nextNo /\ refused' = refused
      /\ missed' = [n \in OrderNo |-> IF n \in Missed(m)
                                      THEN missed[n] + m.LastQty ELSE missed[n]]
  BY DEF ReceiveTrade, exchangeVars
<1>2. RoutedTypeOK /\ trades \in Seq(TradeMessage) /\ missed \in [OrderNo -> Nat]
  BY DEF RoutedInv, RoutedTypeOK
<1>3. /\ m \in TradeMessage /\ trades' \in Seq(TradeMessage)
      /\ Range(trades) = Range(trades') \cup {m}
      /\ \A n : Pending(trades, n) = Part(m, n) + Pending(trades', n)
  BY <1>1, <1>2, ListTail, RangeTail, PendingTail
<1>4. TradeRight(m)
  BY <1>3 DEF RoutedInv, MessagesRight, TradesRight
<1>5. ASSUME NEW n \in OrderNo
      PROVE  /\ missed'[n] \in Nat
             /\ missed'[n] = missed[n] + (IF n \in Missed(m) THEN m.LastQty ELSE 0)
  <2>1. m.LastQty \in Nat /\ missed[n] \in Nat
    BY <1>2, <1>3, PartNat
  <2> QED
    BY <1>1, <2>1
<1>6. missed' \in [OrderNo -> Nat]
  BY <1>1, <1>5
<1>7. \A n : (Waits(n)' <=> Waits(n)) /\ (NeverIn(n)' <=> NeverIn(n))
  BY <1>1 DEF Waits, NeverIn, InRange
<1>8. ASSUME NEW n \in OrderNo
      PROVE  /\ Told(n) \in Nat
             /\ Part(m, n) > 0 => Told(n) >= m.LastQty
             /\ Told(n)' = Told(n) - (IF n \in Missed(m) THEN 0 ELSE Part(m, n))
  <2>1. /\ order[n].qty \in Nat /\ missed[n] \in Nat /\ Told(n) \in Nat
        /\ Told(n) = order[n].qty + Pending(trades, n) + missed[n]
    BY <1>2, ToldOrder DEF ToldSums
  <2>2. Told(n)' = order[n].qty + Pending(trades', n) + missed'[n]
    BY <1>1 DEF Told
  <2>3. Pending(trades', n) \in Nat
    BY <1>3, PendingLaws
  <2>4. /\ Part(m, n) \in Nat /\ m.LastQty \in Nat
        /\ Part(m, n) > 0 => Part(m, n) = m.LastQty
        /\ n \in Missed(m) => Part(m, n) = m.LastQty
    <3>1. Part(m, n) \in Nat /\ m.LastQty \in Nat
      BY <1>3, PartNat
    <3>2. n \in Missed(m) => n \in {m.BidApplSeqNum, m.OfferApplSeqNum}
      BY MissedSays
    <3>3. \/ Part(m, n) = m.LastQty
          \/ Part(m, n) = 0 /\ n \notin {m.BidApplSeqNum, m.OfferApplSeqNum}
      BY DEF Part
    <3> QED
      BY <3>1, <3>2, <3>3
  <2>5. Pending(trades, n) = Part(m, n) + Pending(trades', n)
    BY <1>3
  <2>6. Part(m, n) > 0 => Told(n) >= m.LastQty
    BY <2>1, <2>3, <2>4, <2>5
  <2>7. CASE n \in Missed(m)
    <3>1. missed'[n] = missed[n] + m.LastQty
      BY <1>5, <2>7
    <3> QED
      BY <2>1, <2>2, <2>3, <2>4, <2>5, <2>6, <2>7, <3>1
  <2>8. CASE n \notin Missed(m)
    <3>1. missed'[n] = missed[n] + 0
      BY <1>5, <2>8
    <3> QED
      BY <2>1, <2>2, <2>3, <2>4, <2>5, <2>6, <2>8, <3>1
  <2> QED
    BY <2>7, <2>8
<1> QED
  BY <1>1, <1>3, <1>4, <1>6, <1>7, <1>8

\* What of the invariant follows from how the index and the shown quantities
\* change, whether or not the trade was applied.
LEMMA TradeComesKeeps ==
  ASSUME RoutedInv, ReceiveTrade, RoutedTypeOK', ShowsTold',
         \A n \in OrderNo :
           /\ Told(n)' <= Told(n)
           /\ Waits(n) => Told(n)' = Told(n)
           /\ seq_pxs'[n] = seq_pxs[n]
              \/ (seq_pxs'[n] = NoSlot /\ Told(n)' <= 0)
  PROVE  RoutedInv'
<1>1. /\ RoutedTypeOK /\ Fresh /\ MessagesRight /\ IndexSays /\ RefusedOutside
  BY DEF RoutedInv
<1>2. /\ Range(trades') \subseteq Range(trades) /\ orders' = orders
      /\ order' = order /\ nextNo' = nextNo /\ refused' = refused
      /\ \A n : (Waits(n)' <=> Waits(n)) /\ (NeverIn(n)' <=> NeverIn(n))
  BY TradeComes
<1>3. \A n \in OrderNo :
        /\ Told(n) \in Nat /\ Told(n)' \in Nat /\ missed'[n] \in Nat
        /\ order[n].qty \in Nat /\ Pending(trades', n) \in Nat
        /\ Told(n)' = order[n].qty + Pending(trades', n) + missed'[n]
  BY <1>1, <1>2, ToldOrder, ToldOrderNext DEF ToldSums
<1>4. Fresh'
  <2>1. SUFFICES ASSUME NEW n \in OrderNo, n >= nextNo
                 PROVE  /\ order[n].qty = 0 /\ missed'[n] = 0
                        /\ seq_pxs'[n] = NoSlot /\ n \notin refused
    BY <1>2 DEF Fresh
  <2>2. Told(n) = 0
    BY <1>1, <2>1, FreshTold DEF FreshUntold, MessagesRight
  <2>3. order[n].qty = 0 /\ seq_pxs[n] = NoSlot /\ n \notin refused
    BY <1>1, <2>1 DEF Fresh
  <2>4. missed'[n] = 0
    BY <1>3, <2>2
  <2> QED
    BY <2>3, <2>4
<1>5. ASSUME NEW x \in Range(orders) PROVE OrderRight(x)'
  <2>1. OrderRight(x) /\ x \in OrderMessage
    BY <1>1, RangeType DEF MessagesRight, RoutedTypeOK
  <2>2. PICK k \in OrderNo : k = x.OrderNo
    BY <2>1 DEF OrderMessage
  <2>3. Waits(k)
    BY <2>2 DEF Waits
  <2>4. seq_pxs'[k] = NoSlot /\ Told(k)' = Told(k)
    BY <2>1, <2>2, <2>3 DEF OrderRight
  <2> QED
    BY <1>2, <2>1, <2>2, <2>4 DEF OrderRight, InRange
<1>6. ASSUME NEW x \in Range(trades') PROVE TradeRight(x)'
  <2>1. TradeRight(x)
    BY <1>1, <1>2 DEF MessagesRight, TradesRight
  <2>2. PICK b, s : b = x.BidApplSeqNum /\ s = x.OfferApplSeqNum
    OBVIOUS
  <2> QED
    BY <1>2, <2>1, <2>2 DEF TradeRight
<1>7. MessagesRight'
  <2>1. OneEach(orders') /\ \A x \in Range(orders') : OrderRight(x)'
    BY <1>1, <1>2, <1>5 DEF MessagesRight
  <2> QED
    BY <1>6, <2>1 DEF MessagesRight, TradesRight
<1>8. IndexSays'
  <2> SUFFICES ASSUME NEW n \in OrderNo
               PROVE  /\ seq_pxs'[n] # NoSlot =>
                           /\ n \notin refused
                           /\ seq_pxs'[n] = [side |-> order[n].side,
                                             lvl |-> order[n].px]
                      /\ n \notin refused /\ ~ Waits(n) /\ Told(n)' > 0
                           => seq_pxs'[n] # NoSlot
    BY <1>2 DEF IndexSays
  <2>1. CASE seq_pxs'[n] = seq_pxs[n]
    <3>1. Told(n)' > 0 => Told(n) > 0
      BY <1>3
    <3> QED
      BY <1>1, <2>1, <3>1 DEF IndexSays
  <2>2. CASE seq_pxs'[n] = NoSlot /\ Told(n)' <= 0
    <3>1. ~ (Told(n)' > 0)
      BY <1>3, <2>2
    <3> QED
      BY <2>2, <3>1
  <2> QED
    BY <2>1, <2>2
<1>9. RefusedOutside'
  BY <1>1, <1>2 DEF RefusedOutside
<1> QED
  BY <1>4, <1>7, <1>8, <1>9 DEF RoutedInv

\* A trade without a worker, or a fill outside the limits, leaves the book alone.
LEMMA LostKeeps ==
  ASSUME RoutedInv, ReceiveTrade, UNCHANGED bookVars,
         \A n \in OrderNo : Part(Head(trades), n) # 0 => n \in Missed(Head(trades))
  PROVE  RoutedInv'
<1>1. /\ RoutedTypeOK /\ ShowsTold
  BY DEF RoutedInv
<1>2. /\ trades' \in Seq(TradeMessage) /\ orders' = orders
      /\ order' = order /\ nextNo' = nextNo /\ refused' = refused
      /\ missed' \in [OrderNo -> Nat]
      /\ \A n : (Waits(n)' <=> Waits(n))
  BY TradeComes
<1>3. bids' = bids /\ asks' = asks /\ seq_pxs' = seq_pxs
  BY DEF bookVars
<1>4. RoutedTypeOK'
  BY <1>1, <1>2, <1>3 DEF RoutedTypeOK, ExchangeTypeOK
<1>5. ASSUME NEW n \in OrderNo PROVE Told(n)' = Told(n) /\ Told(n) \in Nat
  <2>1. /\ Told(n) \in Nat
        /\ Told(n)' = Told(n) - (IF n \in Missed(Head(trades))
                                 THEN 0 ELSE Part(Head(trades), n))
    BY TradeComes
  <2>2. Told(n)' = Told(n) - 0
    BY <2>1
  <2> QED
    BY <2>1, <2>2
<1>6. ASSUME NEW k \in OrderNo
      PROVE  /\ told'[k].qty = told[k].qty
             /\ told'[k].side = told[k].side /\ told'[k].px = told[k].px
  <2>1. /\ told[k].qty = IF k \in refused \/ Waits(k) THEN 0 ELSE Told(k)
        /\ told'[k].qty = IF k \in refused' \/ Waits(k)' THEN 0 ELSE Told(k)'
        /\ told[k].side = order[k].side /\ told'[k].side = order'[k].side
        /\ told[k].px = order[k].px /\ told'[k].px = order'[k].px
    BY <1>1, <1>4, ToldOrder, ToldOrderNext DEF ToldSums
  <2> QED
    BY <1>2, <1>5, <2>1
<1>7. \A t, l : Heard!Depth(t, l)' = Heard!Depth(t, l)
  BY <1>6, HeardConstants, Heard!SameShares, SpanAssumption,
     MaxOrdersAssumption, PriceSlackAssumption, MaxQtyAssumption
<1>8. ShowsTold'
  BY <1>1, <1>3, <1>7 DEF ShowsTold
<1>9. \A n \in OrderNo : Told(n)' <= Told(n) /\ Told(n)' = Told(n)
  BY <1>5
<1> QED
  BY <1>3, <1>4, <1>8, <1>9, TradeComesKeeps

-----------------------------------------------------------------------------
\* The array Q shows the side t; a trade takes q of order k, if that is in the
\* index, and nothing else of its side.
ShowsSide(t, Q) == \A l \in Levels : Q[l] = Heard!Depth(t, l)

TakesOf(t, k, q) ==
  /\ Indexed(k) => /\ seq_pxs[k].lvl \in Levels
                   /\ told[k].side = t /\ told[k].px = seq_pxs[k].lvl
  /\ \A j \in OrderNo :
       /\ told'[j].side = told[j].side /\ told'[j].px = told[j].px
       /\ told[j].side = t => told'[j].qty =
            told[j].qty - (IF j = k /\ Indexed(k) THEN q ELSE 0)

\* Then the side's depth becomes what the handler leaves in Q, and the level runs
\* empty only if nothing is left of the order.
LEMMA SideTaken ==
  ASSUME Heard!ExchangeTypeOK, Heard!ExchangeTypeOK', NEW t \in Side, NEW k,
         NEW q \in Nat, NEW Q \in [Levels -> Int],
         ShowsSide(t, Q), TakesOf(t, k, q)
  PROVE  /\ \A l \in Levels : Heard!Depth(t, l)' =
              Q[l] - (IF Indexed(k) /\ l = seq_pxs[k].lvl THEN q ELSE 0)
         /\ Indexed(k) /\ Q[seq_pxs[k].lvl] <= q => told[k].qty <= q
<1>0. /\ \A l \in Levels : Q[l] = Heard!Depth(t, l)
      /\ Indexed(k) => /\ seq_pxs[k].lvl \in Levels
                       /\ told[k].side = t /\ told[k].px = seq_pxs[k].lvl
      /\ \A j \in OrderNo :
           told'[j].side = told[j].side /\ told'[j].px = told[j].px
      /\ \A j \in OrderNo : told[j].side = t => told'[j].qty =
           told[j].qty - (IF j = k /\ Indexed(k) THEN q ELSE 0)
  BY DEF ShowsSide, TakesOf
<1>1. ASSUME NEW n \in OrderNo, NEW x \in Nat,
             \A j \in OrderNo : told[j].side = t =>
               told'[j].qty = told[j].qty - (IF j = n THEN x ELSE 0)
      PROVE  \A l : Heard!Depth(t, l)' = Heard!Depth(t, l)
               - (IF told[n].side = t /\ l = told[n].px THEN x ELSE 0)
  <2>1. \A j \in OrderNo :
          told'[j].side = told[j].side /\ told'[j].px = told[j].px
    BY <1>0
  <2> QED
    BY <1>1, <2>1, HeardConstants, Heard!SideDepth, SpanAssumption,
       MaxOrdersAssumption, PriceSlackAssumption, MaxQtyAssumption
<1>2. \A l : Heard!Depth(t, l) \in Nat
  BY Heard!DepthLaws, SpanAssumption,
     MaxOrdersAssumption, PriceSlackAssumption, MaxQtyAssumption
<1>3. CASE Indexed(k)
  <2>1. PICK c \in Levels : c = seq_pxs[k].lvl
    BY <1>0, <1>3
  <2>2. k \in OrderNo /\ told[k].side = t /\ told[k].px = c
    BY <1>0, <1>3, <2>1 DEF Indexed
  <2>3. ASSUME NEW l \in Levels
        PROVE  Heard!Depth(t, l)' = Q[l] - (IF l = c THEN q ELSE 0)
    <3>1. Heard!Depth(t, l)' = Heard!Depth(t, l) - (IF l = c THEN q ELSE 0)
      BY <1>0, <1>1, <1>3, <2>2
    <3> QED
      BY <1>0, <3>1
  <2>4. \A l \in Levels : Heard!Depth(t, l)' =
          Q[l] - (IF Indexed(k) /\ l = seq_pxs[k].lvl THEN q ELSE 0)
    BY <1>3, <2>1, <2>3
  <2>5. told[k].qty <= Q[c]
    <3>1. told[k].qty <= Heard!Depth(t, c)
      BY <2>2, Heard!DepthLaws, HeardConstants, SpanAssumption,
         MaxOrdersAssumption, PriceSlackAssumption, MaxQtyAssumption
    <3> QED
      BY <1>0, <3>1
  <2>6. Q[c] <= q => told[k].qty <= q
    <3>1. told[k].qty \in Int
      BY <2>2, HeardConstants DEF Heard!ExchangeTypeOK
    <3>2. Q[c] \in Int
      OBVIOUS
    <3> QED
      BY <2>5, <3>1, <3>2
  <2> QED
    BY <2>1, <2>4, <2>6
<1>4. CASE ~ Indexed(k)
  <2>1. 1 \in OrderNo /\ 0 \in Nat
    BY MaxOrdersAssumption DEF OrderNo
  <2>2. \A j \in OrderNo : told[j].side = t =>
          told'[j].qty = told[j].qty - (IF j = 1 THEN 0 ELSE 0)
    BY <1>0, <1>4
  <2>3. \A l : Heard!Depth(t, l)' = Heard!Depth(t, l)
          - (IF told[1].side = t /\ l = told[1].px THEN 0 ELSE 0)
    BY <1>1, <2>1, <2>2
  <2>4. ASSUME NEW l \in Levels PROVE Heard!Depth(t, l)' = Q[l] - 0
    <3>1. Heard!Depth(t, l)' = Heard!Depth(t, l) - 0
      BY <2>3
    <3> QED
      BY <1>0, <1>2, <3>1
  <2> QED
    BY <1>4, <2>4
<1> QED
  BY <1>3, <1>4

\* What a routed trade that is not refused takes of the orders as the book was
\* told of them: of those in the index, what it says.
LEMMA TradeTakes ==
  ASSUME RoutedInv, ReceiveTrade, NEW m, m = Head(trades),
         Routed(FeedNo(m.BidApplSeqNum)), ~ (m.ExecType = "F" /\ ~ InRange(m.p)),
         NEW n \in OrderNo
  PROVE  /\ Indexed(n) => told[n].qty = Told(n) /\ ~ NeverIn(n)
         /\ Waits(n) => Told(n)' = Told(n)
         /\ Told(n)' <= Told(n) /\ Told(n) \in Nat
         /\ n \in {m.BidApplSeqNum, m.OfferApplSeqNum} /\ Indexed(n)
              => Told(n)' = Told(n) - m.LastQty
         /\ (IF n \in refused \/ Waits(n) THEN 0 ELSE Told(n)')
              = told[n].qty
                - (IF n \in {m.BidApplSeqNum, m.OfferApplSeqNum} /\ Indexed(n)
                   THEN m.LastQty ELSE 0)
<1>1. /\ RoutedTypeOK /\ IndexSays /\ ToldSums
      /\ \A x \in Range(orders) : OrderRight(x)
  BY ToldOrder DEF RoutedInv, MessagesRight
<1>2. /\ m \in TradeMessage
      /\ Told(n) \in Nat
      /\ Part(m, n) > 0 => Told(n) >= m.LastQty
      /\ Told(n)' = Told(n) - (IF n \in Missed(m) THEN 0 ELSE Part(m, n))
  BY TradeComes
<1> PICK q, T : q = m.LastQty /\ T = {m.BidApplSeqNum, m.OfferApplSeqNum}
  OBVIOUS
<1>3. /\ q \in Nat /\ q > 0
      /\ Part(m, n) = IF n \in T THEN q ELSE 0
  <2>1. q \in Nat /\ q > 0
    BY <1>2, PartNat
  <2> QED
    BY <2>1 DEF Part
<1>4. n \in Missed(m) <=> n \in T /\ Waits(n)
  BY MissedSays
<1>5. Indexed(n) => n \notin refused /\ ~ Waits(n) /\ ~ NeverIn(n)
  <2>1. Indexed(n) => n \notin refused
    BY <1>1 DEF Indexed, IndexSays
  <2>2. Indexed(n) => \A x \in Range(orders) : x.OrderNo # n
    BY <1>1 DEF Indexed, OrderRight
  <2> QED
    BY <2>1, <2>2 DEF Waits, NeverIn
<1>6. told[n].qty = IF n \in refused \/ Waits(n) THEN 0 ELSE Told(n)
  BY <1>1 DEF ToldSums
<1>7. Waits(n) => Told(n)' = Told(n)
  <2>1. Waits(n) => (IF n \in Missed(m) THEN 0 ELSE Part(m, n)) = 0
    BY <1>3, <1>4
  <2> QED
    BY <1>2, <2>1
<1>8. ~ Waits(n) => Told(n)' = Told(n) - Part(m, n)
  BY <1>2, <1>4
<1>9. Told(n)' <= Told(n)
  BY <1>2, <1>3, <1>7, <1>8
<1>10. n \in T /\ Indexed(n) => Told(n)' = Told(n) - q
  BY <1>3, <1>5, <1>8
<1>11. n \in T /\ n \notin refused /\ ~ Waits(n) => Indexed(n)
  <2>1. n \in T => Told(n) > 0
    BY <1>2, <1>3
  <2> QED
    BY <1>1, <2>1 DEF IndexSays, Indexed
<1>12. (IF n \in refused \/ Waits(n) THEN 0 ELSE Told(n)')
         = told[n].qty - (IF n \in T /\ Indexed(n) THEN q ELSE 0)
  <2>1. CASE n \in refused \/ Waits(n)
    BY <1>5, <1>6, <2>1
  <2>2. CASE ~ (n \in refused \/ Waits(n))
    <3>1. told[n].qty = Told(n) /\ Told(n)' = Told(n) - Part(m, n)
      BY <1>6, <1>8, <2>2
    <3>2. Part(m, n) = IF n \in T /\ Indexed(n) THEN q ELSE 0
      BY <1>3, <1>11, <2>2
    <3> QED
      BY <2>2, <3>1, <3>2
  <2> QED
    BY <2>1, <2>2
<1> QED
  BY <1>2, <1>5, <1>6, <1>7, <1>9, <1>10, <1>12

\* A withdrawal or a fill that the handler applies.
LEMMA AppliedKeeps ==
  ASSUME RoutedInv, ReceiveTrade, NEW m, m = Head(trades),
         Routed(FeedNo(m.BidApplSeqNum)), CancelSZ(m) \/ FillSZ(m)
  PROVE  RoutedInv'
<1>1. /\ RoutedTypeOK /\ IndexSays /\ ShowsTold /\ ToldSums
      /\ Heard!ExchangeTypeOK
      /\ bids \in [Levels -> Int] /\ asks \in [Levels -> Int]
      /\ seq_pxs \in [OrderNo -> Slot \cup {NoSlot}]
  BY ToldOrder DEF RoutedInv, RoutedTypeOK
<1>2. /\ m \in TradeMessage /\ TradeRight(m)
      /\ trades' \in Seq(TradeMessage) /\ orders' = orders
      /\ order' = order /\ nextNo' = nextNo /\ refused' = refused
      /\ missed' \in [OrderNo -> Nat]
      /\ \A n : Waits(n)' <=> Waits(n)
  BY TradeComes
<1> PICK b \in Nat, s \in Nat, q \in Nat :
      b = m.BidApplSeqNum /\ s = m.OfferApplSeqNum /\ q = m.LastQty
  BY <1>2 DEF TradeMessage
<1>3. ASSUME NEW n \in OrderNo
      PROVE  /\ Indexed(n) => told[n].qty = Told(n) /\ ~ NeverIn(n)
             /\ Waits(n) => Told(n)' = Told(n)
             /\ Told(n)' <= Told(n) /\ Told(n) \in Nat
             /\ n \in {b, s} /\ Indexed(n) => Told(n)' = Told(n) - q
             /\ (IF n \in refused \/ Waits(n) THEN 0 ELSE Told(n)')
                  = told[n].qty - (IF n \in {b, s} /\ Indexed(n) THEN q ELSE 0)
  <2>1. ~ (m.ExecType = "F" /\ ~ InRange(m.p))
    BY DEF CancelSZ, FillSZ
  <2> QED
    BY <2>1, TradeTakes
<1>4. ASSUME NEW n \in OrderNo, Indexed(n)
      PROVE  /\ seq_pxs[n].lvl \in Levels
             /\ told[n].px = seq_pxs[n].lvl /\ told[n].side = order[n].side
  <2>1. seq_pxs[n] \in Slot /\ seq_pxs[n] = [side |-> order[n].side, lvl |-> order[n].px]
    BY <1>1, <1>4 DEF IndexSays, Indexed
  <2> QED
    BY <1>1, <2>1 DEF Slot, ToldSums
<1>5. /\ Indexed(b) => b \in OrderNo /\ told[b].side = "B"
      /\ Indexed(s) => s \in OrderNo /\ told[s].side = "S"
  <2>1. 0 \notin OrderNo
    BY DEF OrderNo
  <2>2. /\ Indexed(b) => b \in OrderNo /\ b # 0
        /\ Indexed(s) => s \in OrderNo /\ s # 0
    BY <2>1 DEF Indexed
  <2>3. /\ b # 0 => order[b].side = "B" \/ NeverIn(b)
        /\ s # 0 => order[s].side = "S" \/ NeverIn(s)
    BY <1>2 DEF TradeRight
  <2>4. /\ Indexed(b) => ~ NeverIn(b) /\ told[b].side = order[b].side
        /\ Indexed(s) => ~ NeverIn(s) /\ told[s].side = order[s].side
    BY <1>3, <1>4, <2>2, SMTT(20)
  <2> QED
    BY <2>2, <2>3, <2>4
<1>6. /\ bids' = IF Indexed(b)
                 THEN [bids EXCEPT ![seq_pxs[b].lvl] = @ - q] ELSE bids
      /\ asks' = IF Indexed(s)
                 THEN [asks EXCEPT ![seq_pxs[s].lvl] = @ - q] ELSE asks
      /\ seq_pxs' = Erase(EmptiedSZ(m))
  BY DEF CancelSZ, FillSZ, CancelBidSZ, CancelOfferSZ, FillBidSZ, FillOfferSZ
<1>7. /\ bids' \in [Levels -> Int] /\ asks' \in [Levels -> Int]
      /\ seq_pxs' \in [OrderNo -> Slot \cup {NoSlot}]
  <2>1. /\ Indexed(b) => \E l \in Levels : l = seq_pxs[b].lvl
        /\ Indexed(s) => \E l \in Levels : l = seq_pxs[s].lvl
    BY <1>4, <1>5
  <2>2. bids' \in [Levels -> Int]
    BY <1>1, <1>6, <2>1
  <2>3. asks' \in [Levels -> Int]
    BY <1>1, <1>6, <2>1
  <2> QED
    BY <1>1, <1>6, <2>2, <2>3 DEF Erase
<1>8. RoutedTypeOK'
  BY <1>1, <1>2, <1>7 DEF RoutedTypeOK, ExchangeTypeOK
<1>9. ToldSums' /\ Heard!ExchangeTypeOK'
  BY <1>8, ToldOrderNext
<1>10. ASSUME NEW n \in OrderNo
       PROVE  /\ told'[n].side = told[n].side /\ told'[n].px = told[n].px
              /\ told'[n].qty =
                   told[n].qty - (IF n \in {b, s} /\ Indexed(n) THEN q ELSE 0)
  <2>1. /\ told'[n].qty = IF n \in refused' \/ Waits(n)' THEN 0 ELSE Told(n)'
        /\ told[n].side = order[n].side /\ told'[n].side = order'[n].side
        /\ told[n].px = order[n].px /\ told'[n].px = order'[n].px
    BY <1>1, <1>9 DEF ToldSums
  <2>2. told'[n].qty = IF n \in refused \/ Waits(n) THEN 0 ELSE Told(n)'
    BY <1>2, <2>1
  <2> QED
    BY <1>2, <1>3, <2>1, <2>2
<1>11. ASSUME NEW j \in OrderNo
       PROVE  /\ told[j].side = "B" => told'[j].qty = told[j].qty
                   - (IF j = b /\ Indexed(b) THEN q ELSE 0)
              /\ told[j].side = "S" => told'[j].qty = told[j].qty
                   - (IF j = s /\ Indexed(s) THEN q ELSE 0)
  <2>1. /\ told[j].side = "B" =>
             (j \in {b, s} /\ Indexed(j) <=> j = b /\ Indexed(b))
        /\ told[j].side = "S" =>
             (j \in {b, s} /\ Indexed(j) <=> j = s /\ Indexed(s))
    BY <1>5
  <2> QED
    BY <1>10, <2>1
<1>12. \A l \in Levels : bids[l] = Heard!Depth("B", l) /\ asks[l] = Heard!Depth("S", l)
  BY <1>1 DEF ShowsTold
<1>13. /\ \A l \in Levels : bids'[l] = Heard!Depth("B", l)'
       /\ Indexed(b) /\ bids[seq_pxs[b].lvl] <= q => told[b].qty <= q
  <2>1. "B" \in Side
    BY DEF Side
  <2>2. Indexed(b) => /\ seq_pxs[b].lvl \in Levels
                      /\ told[b].side = "B" /\ told[b].px = seq_pxs[b].lvl
    BY <1>4, <1>5
  <2>3. ShowsSide("B", bids) /\ TakesOf("B", b, q)
    BY <1>10, <1>11, <1>12, <2>2 DEF ShowsSide, TakesOf
  <2>4. /\ \A l \in Levels : Heard!Depth("B", l)' =
             bids[l] - (IF Indexed(b) /\ l = seq_pxs[b].lvl THEN q ELSE 0)
        /\ Indexed(b) /\ bids[seq_pxs[b].lvl] <= q => told[b].qty <= q
    BY <1>1, <1>9, <2>1, <2>3, SideTaken
  <2>5. ASSUME NEW l \in Levels
        PROVE  bids'[l] =
                 bids[l] - (IF Indexed(b) /\ l = seq_pxs[b].lvl THEN q ELSE 0)
    <3>1. CASE Indexed(b)
      BY <1>1, <1>6, <2>2, <3>1
    <3>2. CASE ~ Indexed(b)
      BY <1>1, <1>6, <3>2
    <3> QED
      BY <3>1, <3>2
  <2> QED
    BY <2>4, <2>5
<1>14. /\ \A l \in Levels : asks'[l] = Heard!Depth("S", l)'
       /\ Indexed(s) /\ asks[seq_pxs[s].lvl] <= q => told[s].qty <= q
  <2>1. "S" \in Side
    BY DEF Side
  <2>2. Indexed(s) => /\ seq_pxs[s].lvl \in Levels
                      /\ told[s].side = "S" /\ told[s].px = seq_pxs[s].lvl
    BY <1>4, <1>5
  <2>3. ShowsSide("S", asks) /\ TakesOf("S", s, q)
    BY <1>10, <1>11, <1>12, <2>2 DEF ShowsSide, TakesOf
  <2>4. /\ \A l \in Levels : Heard!Depth("S", l)' =
             asks[l] - (IF Indexed(s) /\ l = seq_pxs[s].lvl THEN q ELSE 0)
        /\ Indexed(s) /\ asks[seq_pxs[s].lvl] <= q => told[s].qty <= q
    BY <1>1, <1>9, <2>1, <2>3, SideTaken
  <2>5. ASSUME NEW l \in Levels
        PROVE  asks'[l] =
                 asks[l] - (IF Indexed(s) /\ l = seq_pxs[s].lvl THEN q ELSE 0)
    <3>1. CASE Indexed(s)
      BY <1>1, <1>6, <2>2, <3>1
    <3>2. CASE ~ Indexed(s)
      BY <1>1, <1>6, <3>2
    <3> QED
      BY <3>1, <3>2
  <2> QED
    BY <2>4, <2>5
<1>15. ShowsTold'
  BY <1>13, <1>14 DEF ShowsTold
<1>16. ASSUME NEW n \in OrderNo
       PROVE  \/ seq_pxs'[n] = seq_pxs[n]
              \/ seq_pxs'[n] = NoSlot /\ Told(n)' <= 0
  <2>1. CASE n \notin EmptiedSZ(m)
    BY <1>6, <2>1 DEF Erase
  <2>2. CASE n \in EmptiedSZ(m)
    <3>1. n \in {b, s} /\ Indexed(n) /\ told[n].qty <= q
      BY <1>13, <1>14, <2>2 DEF EmptiedSZ
    <3>2. /\ Told(n) \in Nat /\ Told(n) = told[n].qty
          /\ Told(n)' = Told(n) - q
      BY <1>3, <3>1
    <3>3. Told(n)' <= 0
      BY <3>1, <3>2
    <3> QED
      BY <1>6, <2>2, <3>3 DEF Erase
  <2> QED
    BY <2>1, <2>2
<1>17. \A n \in OrderNo :
         /\ Told(n)' <= Told(n)
         /\ Waits(n) => Told(n)' = Told(n)
         /\ seq_pxs'[n] = seq_pxs[n]
            \/ (seq_pxs'[n] = NoSlot /\ Told(n)' <= 0)
  BY <1>3, <1>16
<1> QED
  BY <1>8, <1>15, <1>17, TradeComesKeeps

LEMMA TradeArrives ==
  ASSUME RoutedInv, ReceiveTrade
  PROVE  RoutedInv'
<1> PICK m : m = Head(trades)
  OBVIOUS
<1>1. \A n : Part(m, n) # 0 => n \in {m.BidApplSeqNum, m.OfferApplSeqNum}
  BY DEF Part
<1>2. CASE ~ Routed(FeedNo(m.BidApplSeqNum))
  <2>1. UNCHANGED bookVars
    BY <1>2 DEF ReceiveTrade, ForwardTrade, onFeedRawData
  <2>2. \A n \in OrderNo : Part(m, n) # 0 => n \in Missed(m)
    BY <1>1, <1>2, MissedSays
  <2> QED
    BY <2>1, <2>2, LostKeeps
<1>3. CASE Routed(FeedNo(m.BidApplSeqNum))
  <2>1. onTradeSZ(m)
    BY <1>3, OwnWorker DEF ReceiveTrade, ForwardTrade, onFeedRawData,
                           WorkerEnqueue, onMessage
  <2>2. CASE CancelSZ(m) \/ FillSZ(m)
    BY <1>3, <2>2, AppliedKeeps
  <2>3. CASE IgnoreSZ(m)
    <3>1. UNCHANGED bookVars /\ m.ExecType = "F" /\ ~ InRange(m.p)
      BY <2>3 DEF IgnoreSZ
    <3>2. \A n \in OrderNo : Part(m, n) # 0 => n \in Missed(m)
      BY <1>1, <3>1, MissedSays
    <3> QED
      BY <3>1, <3>2, LostKeeps
  <2> QED
    BY <2>1, <2>2, <2>3 DEF onTradeSZ
<1> QED
  BY <1>2, <1>3

-----------------------------------------------------------------------------
\* The start, and a step that changes nothing.
LEMMA RoutedStart ==
  ASSUME RoutedInit
  PROVE  RoutedInv
<1>1. /\ order = [n \in OrderNo |-> [side |-> "B", px |-> 0, qty |-> 0]]
      /\ nextNo = 1 /\ refused = {} /\ orders = <<>> /\ trades = <<>>
      /\ bids = [l \in Levels |-> 0] /\ asks = [l \in Levels |-> 0]
      /\ seq_pxs = [n \in OrderNo |-> NoSlot]
      /\ missed = [n \in OrderNo |-> 0]
  BY DEF RoutedInit, SZInit, Init, ExchangeInit, BookInit
<1>2. [side |-> "B", px |-> 0, qty |-> 0] \in [side: Side, px: Prices, qty: Nat]
  BY SpanAssumption, PriceSlackAssumption DEF Side, Prices
<1>3. ExchangeTypeOK
  BY <1>1, <1>2, MaxOrdersAssumption DEF ExchangeTypeOK
<1>4. RoutedTypeOK
  BY <1>1, <1>3 DEF RoutedTypeOK
<1>5. Range(orders) = {} /\ Range(trades) = {}
  BY <1>1 DEF Range
<1>6. ASSUME NEW n \in OrderNo
      PROVE  /\ order[n].qty = 0 /\ Told(n) = 0 /\ told[n].qty = 0
  <2>1. order[n].qty = 0 /\ missed[n] = 0
    BY <1>1
  <2>2. Pending(trades, n) = 0
    BY <1>1, <1>4, PendingLaws DEF RoutedTypeOK
  <2>3. Told(n) = 0
    BY <2>1, <2>2 DEF Told
  <2> QED
    BY <1>4, <2>1, <2>3, ToldOrder DEF ToldSums
<1>7. Fresh
  BY <1>1, <1>6 DEF Fresh
<1>8. OneEach(orders)
  BY <1>1 DEF OneEach
<1>9. MessagesRight
  BY <1>5, <1>8 DEF MessagesRight, TradesRight
<1>10. IndexSays
  <2>1. \A n \in OrderNo : seq_pxs[n] = NoSlot /\ ~ (Told(n) > 0)
    BY <1>1, <1>6
  <2> QED
    BY <2>1 DEF IndexSays
<1>11. RefusedOutside
  BY <1>1 DEF RefusedOutside
<1>12. ASSUME NEW t, NEW l PROVE Heard!Depth(t, l) = 0
  <2>1. /\ Heard!Depth(t, l) \in Nat
        /\ Heard!Depth(t, l) > 0 => \E n \in Heard!Resting(t) : told[n].px = l
    BY <1>4, ToldOrder, Heard!DepthLaws, SpanAssumption,
       MaxOrdersAssumption, PriceSlackAssumption, MaxQtyAssumption
  <2>2. Heard!Resting(t) = {}
    BY <1>6, HeardConstants DEF Heard!Resting
  <2> QED
    BY <2>1, <2>2
<1>13. ShowsTold
  BY <1>1, <1>12 DEF ShowsTold
<1> QED
  BY <1>4, <1>7, <1>9, <1>10, <1>11, <1>13 DEF RoutedInv

LEMMA RoutedStutter ==
  ASSUME RoutedInv, UNCHANGED routedVars
  PROVE  RoutedInv'
<1>1. /\ UNCHANGED <<bookVars, refused, missed>>
      /\ order' = order /\ nextNo' = nextNo
      /\ orders' = orders /\ trades' = trades
      /\ bids' = bids /\ asks' = asks /\ seq_pxs' = seq_pxs
      /\ refused' = refused /\ missed' = missed
  BY DEF routedVars, szVars, vars, exchangeVars, bookVars
<1>2. RoutedTypeOK /\ Fresh /\ OneEach(orders)
  BY DEF RoutedInv, MessagesRight
<1>3. RoutedTypeOK'
  BY <1>1, <1>2 DEF RoutedTypeOK, ExchangeTypeOK
<1>4. \A n \in OrderNo : n >= nextNo' => order'[n].qty = 0
  BY <1>1, <1>2 DEF Fresh
<1>5. \A n \in OrderNo :
        /\ order'[n].side = order[n].side /\ order'[n].px = order[n].px
        /\ order'[n].qty <= order[n].qty /\ Told(n)' = Told(n)
  <2>1. \A n \in OrderNo : order[n].qty \in Int
    BY <1>2, ToldOrder DEF ToldSums
  <2> QED
    BY <1>1, <2>1 DEF Told
<1> QED
  BY <1>1, <1>2, <1>3, <1>4, <1>5, SendKeeps

\* RoutedInv is an invariant of the book behind the feeders.
THEOREM RoutedInvariant == RoutedSpec => []RoutedInv
<1>1. RoutedInit => RoutedInv
  BY RoutedStart
<1>2. RoutedInv /\ [RoutedNext]_routedVars => RoutedInv'
  BY OrderArrives, TradeArrives, SubmitSent, WithdrawSent, MatchSent, MarketSent,
     RoutedStutter DEF RoutedNext
<1> QED
  BY <1>1, <1>2, PTL DEF RoutedSpec

\* Whatever the order in which the two topics deliver, and whatever the feeders
\* drop and the handler refuses, a trade never takes anything from another order:
\* once all messages have arrived, every level shows what rests there and exactly
\* the quantities of the trades that were missed.
THEOREM MissedLedgerCorrect == RoutedSpec => []MissedLedger
<1>1. RoutedInv => MissedLedger
  <2> SUFFICES ASSUME RoutedInv, Drained PROVE Ledger!DepthExact
    BY DEF MissedLedger
  <2>1. RoutedTypeOK /\ ToldSums
    BY ToldOrder DEF RoutedInv
  <2>2. orders = <<>> /\ trades = <<>>
    BY DEF Drained
  <2>3. ASSUME NEW n \in OrderNo PROVE withMissed[n] = told[n]
    <3>1. order[n] \in [side: Side, px: Prices, qty: Nat] /\ missed[n] \in Nat
      BY <2>1 DEF ToldSums
    <3>2. ~ Waits(n)
      BY <2>2 DEF Waits, Range
    <3>3. Told(n) = order[n].qty + missed[n]
      <4>1. Pending(trades, n) = 0
        BY <2>1, <2>2, PendingLaws DEF RoutedTypeOK
      <4> QED
        BY <3>1, <4>1 DEF Told
    <3>4. CASE n \in refused
      <4>1. told[n] = [order[n] EXCEPT !.qty = 0]
        BY <3>4 DEF told
      <4>2. known[n] = [order[n] EXCEPT !.qty = 0]
        BY <3>4 DEF known
      <4>3. withMissed[n] = [known[n] EXCEPT !.qty = 0]
        BY <3>4 DEF withMissed
      <4> QED
        BY <3>1, <4>1, <4>2, <4>3
    <3>5. CASE n \notin refused
      <4>1. told[n] = [order[n] EXCEPT !.qty = Told(n)]
        BY <3>2, <3>5 DEF told
      <4>2. known[n] = order[n]
        BY <3>5 DEF known
      <4>3. withMissed[n] = [known[n] EXCEPT !.qty = @ + missed[n]]
        BY <3>5 DEF withMissed
      <4> QED
        BY <3>1, <3>3, <4>1, <4>2, <4>3
    <3> QED
      BY <3>4, <3>5
  <2>4. withMissed = told
    <3>1. /\ withMissed = [n \in OrderNo |-> withMissed[n]]
          /\ told = [n \in OrderNo |-> told[n]]
      BY DEF withMissed, told
    <3> QED
      BY <2>3, <3>1, Zenon
  <2>5. \A s, l : Ledger!Depth(s, l) = Heard!Depth(s, l)
    BY <2>4 DEF Ledger!Depth, Heard!Depth, Ledger!Share, Heard!Share,
       Ledger!SumTo, Heard!SumTo, Ledger!PrefixSum, Heard!PrefixSum,
       Ledger!OrderNo, Heard!OrderNo
  <2>6. Ledger!Levels = Levels
    BY DEF Ledger!Levels, Levels
  <2> QED
    BY <2>5, <2>6 DEF RoutedInv, ShowsTold, Ledger!DepthExact
<1> QED
  BY <1>1, RoutedInvariant, PTL

\* An order within the limits whose message has arrived is in the index as long
\* as it rests: a level never runs empty under an order that is still there, also
\* not by trades that came too early for the others.
THEOREM ArrivedIndexedCorrect == RoutedSpec => []ArrivedIndexed
<1>1. RoutedInv => ArrivedIndexed
  <2> SUFFICES ASSUME RoutedInv, NEW n \in OrderNo, order[n].qty > 0,
                      order[n].px \in Levels,
                      \A i \in DOMAIN orders : orders[i].OrderNo # n
               PROVE  seq_pxs[n] = [side |-> order[n].side, lvl |-> order[n].px]
    BY DEF ArrivedIndexed
  <2>1. IndexSays /\ RefusedOutside /\ ToldSums
    BY ToldOrder DEF RoutedInv
  <2>2. ~ Waits(n)
    BY Zenon DEF Waits, Range
  <2>3. n \notin refused
    BY <2>1 DEF RefusedOutside
  <2>4. Told(n) > 0
    BY <2>1 DEF ToldSums
  <2> QED
    BY <2>1, <2>2, <2>3, <2>4 DEF IndexSays
<1> QED
  BY <1>1, RoutedInvariant, PTL
=============================================================================
