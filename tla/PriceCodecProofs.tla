-------------------------- MODULE PriceCodecProofs --------------------------
(***************************************************************************)
(* How the decoders turn decimal prices into integers by way of single     *)
(* precision, for every price below 16777 yuan.                            *)
(***************************************************************************)
EXTENDS PriceCodec, TLAPS

-----------------------------------------------------------------------------
\* The quotient and the remainder of a division.
LEMMA Division ==
  ASSUME NEW a \in Nat, NEW b \in Nat \ {0}
  PROVE  /\ a \div b \in Nat
         /\ (a \div b) * b <= a
         /\ a < (a \div b) * b + b
<1>1. a = b * (a \div b) + (a % b) /\ a % b \in 0 .. b - 1 /\ a \div b \in Int
  BY SMTT(30)
<1>2. a \div b \in Nat
  BY SMTT(30)
<1> QED
  BY <1>1, <1>2, SMTT(30)

-----------------------------------------------------------------------------
\* The prices, in cents, whose floats the model computes exactly.
Prices == {c \in Nat : 1 <= c /\ c <= 1677700}

\* The price c is a significand of 24 bits when it is scaled by p.
Scaled(c, p) == 838860800 <= c * p /\ c * p < 1677721600

LEMMA Powers ==
  /\ 2^0 = 1  /\ 2^1 = 2  /\ 2^2 = 4
  /\ 2^3 = 8  /\ 2^4 = 16  /\ 2^5 = 32
  /\ 2^6 = 64  /\ 2^7 = 128  /\ 2^8 = 256
  /\ 2^9 = 512  /\ 2^10 = 1024  /\ 2^11 = 2048
  /\ 2^12 = 4096  /\ 2^13 = 8192  /\ 2^14 = 16384
  /\ 2^15 = 32768  /\ 2^16 = 65536  /\ 2^17 = 131072
  /\ 2^18 = 262144  /\ 2^19 = 524288  /\ 2^20 = 1048576
  /\ 2^21 = 2097152  /\ 2^22 = 4194304  /\ 2^23 = 8388608
  /\ 2^24 = 16777216  /\ 2^25 = 33554432  /\ 2^26 = 67108864
  /\ 2^27 = 134217728  /\ 2^28 = 268435456  /\ 2^29 = 536870912
  /\ 2^30 = 1073741824
BY SMT

\* Every price has an exponent, and none of these is below 9.
LEMMA ScaleExists ==
  ASSUME NEW c \in Prices
  PROVE  \/ Scaled(c, 512)  \/ Scaled(c, 1024)  \/ Scaled(c, 2048)
         \/ Scaled(c, 4096)  \/ Scaled(c, 8192)  \/ Scaled(c, 16384)
         \/ Scaled(c, 32768)  \/ Scaled(c, 65536)  \/ Scaled(c, 131072)
         \/ Scaled(c, 262144)  \/ Scaled(c, 524288)  \/ Scaled(c, 1048576)
         \/ Scaled(c, 2097152)  \/ Scaled(c, 4194304)  \/ Scaled(c, 8388608)
         \/ Scaled(c, 16777216)  \/ Scaled(c, 33554432)  \/ Scaled(c, 67108864)
         \/ Scaled(c, 134217728)  \/ Scaled(c, 268435456)
         \/ Scaled(c, 536870912)  \/ Scaled(c, 1073741824)
<1> c \in Int /\ 1 <= c /\ c <= 1677700
  BY SMT DEF Prices
<1>1. c * 512 < 838860800 \/ Scaled(c, 512)
  BY SMT DEF Scaled
<1>2. c * 512 < 838860800 => (c * 1024 < 838860800) \/ Scaled(c, 1024)
  BY SMT DEF Scaled
<1>3. c * 1024 < 838860800 => (c * 2048 < 838860800) \/ Scaled(c, 2048)
  BY SMT DEF Scaled
<1>4. c * 2048 < 838860800 => (c * 4096 < 838860800) \/ Scaled(c, 4096)
  BY SMT DEF Scaled
<1>5. c * 4096 < 838860800 => (c * 8192 < 838860800) \/ Scaled(c, 8192)
  BY SMT DEF Scaled
<1>6. c * 8192 < 838860800 => (c * 16384 < 838860800) \/ Scaled(c, 16384)
  BY SMT DEF Scaled
<1>7. c * 16384 < 838860800 => (c * 32768 < 838860800) \/ Scaled(c, 32768)
  BY SMT DEF Scaled
<1>8. c * 32768 < 838860800 => (c * 65536 < 838860800) \/ Scaled(c, 65536)
  BY SMT DEF Scaled
<1>9. c * 65536 < 838860800 => (c * 131072 < 838860800) \/ Scaled(c, 131072)
  BY SMT DEF Scaled
<1>10. c * 131072 < 838860800 => (c * 262144 < 838860800) \/ Scaled(c, 262144)
  BY SMT DEF Scaled
<1>11. c * 262144 < 838860800 => (c * 524288 < 838860800) \/ Scaled(c, 524288)
  BY SMT DEF Scaled
<1>12. c * 524288 < 838860800 => (c * 1048576 < 838860800) \/ Scaled(c, 1048576)
  BY SMT DEF Scaled
<1>13. c * 1048576 < 838860800 => (c * 2097152 < 838860800) \/ Scaled(c, 2097152)
  BY SMT DEF Scaled
<1>14. c * 2097152 < 838860800 => (c * 4194304 < 838860800) \/ Scaled(c, 4194304)
  BY SMT DEF Scaled
<1>15. c * 4194304 < 838860800 => (c * 8388608 < 838860800) \/ Scaled(c, 8388608)
  BY SMT DEF Scaled
<1>16. c * 8388608 < 838860800 => (c * 16777216 < 838860800) \/ Scaled(c, 16777216)
  BY SMT DEF Scaled
<1>17. c * 16777216 < 838860800 => (c * 33554432 < 838860800) \/ Scaled(c, 33554432)
  BY SMT DEF Scaled
<1>18. c * 33554432 < 838860800 => (c * 67108864 < 838860800) \/ Scaled(c, 67108864)
  BY SMT DEF Scaled
<1>19. c * 67108864 < 838860800 => (c * 134217728 < 838860800) \/ Scaled(c, 134217728)
  BY SMT DEF Scaled
<1>20. c * 134217728 < 838860800 => (c * 268435456 < 838860800) \/ Scaled(c, 268435456)
  BY SMT DEF Scaled
<1>21. c * 268435456 < 838860800 => (c * 536870912 < 838860800) \/ Scaled(c, 536870912)
  BY SMT DEF Scaled
<1>22. c * 536870912 < 838860800 => (c * 1073741824 < 838860800) \/ Scaled(c, 1073741824)
  BY SMT DEF Scaled
<1> QED
  BY <1>1, <1>2, <1>3, <1>4, <1>5, <1>6, <1>7, <1>8, <1>9, <1>10, <1>11, <1>12, <1>13, <1>14, <1>15, <1>16, <1>17, <1>18, <1>19, <1>20, <1>21, <1>22, SMT DEF Scaled

LEMMA ExponentExists ==
  ASSUME NEW c \in Prices
  PROVE  \E k \in 0 .. 30 : Scaled(c, 2^k)
<1>1. ASSUME NEW k \in 0 .. 30, Scaled(c, 2^k)
      PROVE  \E e \in 0 .. 30 : Scaled(c, 2^e)
  BY <1>1
<1>2. /\ Scaled(c, 512) => Scaled(c, 2^9)
      /\ Scaled(c, 1024) => Scaled(c, 2^10)
      /\ Scaled(c, 2048) => Scaled(c, 2^11)
      /\ Scaled(c, 4096) => Scaled(c, 2^12)
      /\ Scaled(c, 8192) => Scaled(c, 2^13)
      /\ Scaled(c, 16384) => Scaled(c, 2^14)
      /\ Scaled(c, 32768) => Scaled(c, 2^15)
      /\ Scaled(c, 65536) => Scaled(c, 2^16)
      /\ Scaled(c, 131072) => Scaled(c, 2^17)
      /\ Scaled(c, 262144) => Scaled(c, 2^18)
      /\ Scaled(c, 524288) => Scaled(c, 2^19)
      /\ Scaled(c, 1048576) => Scaled(c, 2^20)
      /\ Scaled(c, 2097152) => Scaled(c, 2^21)
      /\ Scaled(c, 4194304) => Scaled(c, 2^22)
      /\ Scaled(c, 8388608) => Scaled(c, 2^23)
      /\ Scaled(c, 16777216) => Scaled(c, 2^24)
      /\ Scaled(c, 33554432) => Scaled(c, 2^25)
      /\ Scaled(c, 67108864) => Scaled(c, 2^26)
      /\ Scaled(c, 134217728) => Scaled(c, 2^27)
      /\ Scaled(c, 268435456) => Scaled(c, 2^28)
      /\ Scaled(c, 536870912) => Scaled(c, 2^29)
      /\ Scaled(c, 1073741824) => Scaled(c, 2^30)
  BY Powers, SMT
<1>3. /\ 9 \in 0 .. 30 /\ 10 \in 0 .. 30 /\ 11 \in 0 .. 30 /\ 12 \in 0 .. 30
      /\ 13 \in 0 .. 30 /\ 14 \in 0 .. 30 /\ 15 \in 0 .. 30 /\ 16 \in 0 .. 30
      /\ 17 \in 0 .. 30 /\ 18 \in 0 .. 30 /\ 19 \in 0 .. 30 /\ 20 \in 0 .. 30
      /\ 21 \in 0 .. 30 /\ 22 \in 0 .. 30 /\ 23 \in 0 .. 30 /\ 24 \in 0 .. 30
      /\ 25 \in 0 .. 30 /\ 26 \in 0 .. 30 /\ 27 \in 0 .. 30 /\ 28 \in 0 .. 30
      /\ 29 \in 0 .. 30 /\ 30 \in 0 .. 30
  BY SMT
<1> QED
  BY <1>1, <1>2, <1>3, ScaleExists, SMT

\* The exponent of stof's result scales the price to 24 bits, and prices below
\* 16777 yuan have at least nine binary digits after the point.
LEMMA ExponentScales ==
  ASSUME NEW c \in Prices
  PROVE  /\ 2^Exponent(c) \in Nat
         /\ 512 <= 2^Exponent(c)
         /\ Scaled(c, 2^Exponent(c))
<1>1. Exponent(c) \in 0 .. 30 /\ Scaled(c, 2^Exponent(c))
  <2>1. 2^23 * 100 = 838860800 /\ 2^24 * 100 = 1677721600
    BY Powers, SMT
  <2>2. \E k \in 0 .. 30 : 2^23 * 100 <= c * 2^k /\ c * 2^k < 2^24 * 100
    BY <2>1, ExponentExists, SMT DEF Scaled
  <2>3. /\ Exponent(c) \in 0 .. 30
        /\ 2^23 * 100 <= c * 2^Exponent(c) /\ c * 2^Exponent(c) < 2^24 * 100
    BY <2>2 DEF Exponent
  <2> QED
    BY <2>1, <2>3, SMT DEF Scaled
<1> DEFINE Fit(p) == p \in Nat /\ (Scaled(c, p) => 512 <= p)
<1>2. /\ Fit(2^0) /\ Fit(2^1) /\ Fit(2^2) /\ Fit(2^3)
      /\ Fit(2^4) /\ Fit(2^5) /\ Fit(2^6) /\ Fit(2^7)
      /\ Fit(2^8) /\ Fit(2^9) /\ Fit(2^10) /\ Fit(2^11)
      /\ Fit(2^12) /\ Fit(2^13) /\ Fit(2^14) /\ Fit(2^15)
      /\ Fit(2^16) /\ Fit(2^17) /\ Fit(2^18) /\ Fit(2^19)
      /\ Fit(2^20) /\ Fit(2^21) /\ Fit(2^22) /\ Fit(2^23)
      /\ Fit(2^24) /\ Fit(2^25) /\ Fit(2^26) /\ Fit(2^27)
      /\ Fit(2^28) /\ Fit(2^29) /\ Fit(2^30)
  BY SMT DEF Prices, Scaled
<1>3. ASSUME NEW k \in 0 .. 30
      PROVE  \/ k = 0 \/ k = 1 \/ k = 2 \/ k = 3 \/ k = 4 \/ k = 5
             \/ k = 6 \/ k = 7 \/ k = 8 \/ k = 9 \/ k = 10 \/ k = 11
             \/ k = 12 \/ k = 13 \/ k = 14 \/ k = 15 \/ k = 16 \/ k = 17
             \/ k = 18 \/ k = 19 \/ k = 20 \/ k = 21 \/ k = 22 \/ k = 23
             \/ k = 24 \/ k = 25 \/ k = 26 \/ k = 27 \/ k = 28 \/ k = 29
             \/ k = 30
  BY SMT
<1> HIDE DEF Fit
<1>4. ASSUME NEW k \in 0 .. 30 PROVE Fit(2^k)
  BY <1>2, <1>3
<1>5. Fit(2^Exponent(c))
  BY <1>1, <1>4
<1> QED
  BY <1>1, <1>5, SMT DEF Fit

\* Rounding to the nearest moves a number by at most half of the unit.
LEMMA RoundingError ==
  ASSUME NEW n \in Nat, NEW d \in Nat \ {0}
  PROVE  /\ RoundHalfEven(n, d) \in Nat
         /\ 2 * (n - RoundHalfEven(n, d) * d) <= d
         /\ 2 * (RoundHalfEven(n, d) * d - n) <= d
<1> DEFINE q == n \div d
           r == n % d
<1>1. n = q * d + r /\ r \in Int /\ 0 <= r /\ r < d /\ q \in Nat
  BY Division, SMTT(30)
<1>2. (q + 1) * d = q * d + d
  BY <1>1, SMT
<1>3. \/ RoundHalfEven(n, d) = q /\ 2 * r <= d
      \/ RoundHalfEven(n, d) = q + 1 /\ d <= 2 * r
  BY <1>1 DEF RoundHalfEven
<1> HIDE DEF q, r
<1> QED
  BY <1>1, <1>2, <1>3, SMT

\* The product in single precision is less than 115 units of its last place
\* away from the price: 50 from the conversion and 64 from the product.
LEMMA ProductError ==
  ASSUME NEW c \in Prices
  PROVE  /\ TimesHundred(c) \in Nat
         /\ c * 2^Exponent(c) - 114 <= TimesHundred(c)
         /\ TimesHundred(c) <= c * 2^Exponent(c) + 114
<1> DEFINE x == c * 2^Exponent(c)
           exact == Significand(c) * 100
           unit == IF exact < 2^30 THEN 2^6 ELSE 2^7
<1>1. x \in Nat
  BY ExponentScales, SMT DEF Prices
<1>2. Significand(c) \in Nat /\ x - 50 <= exact /\ exact <= x + 50
  BY <1>1, RoundingError, SMT DEF Significand
<1>3. exact \in Nat
  BY <1>2, SMT
<1>4. unit \in Nat \ {0} /\ unit <= 128
  BY Powers, SMT
<1>5. TimesHundred(c) = RoundHalfEven(exact, unit) * unit
  BY SMT DEF TimesHundred
<1> HIDE DEF x, exact, unit
<1>6. /\ RoundHalfEven(exact, unit) \in Nat
      /\ 2 * (exact - RoundHalfEven(exact, unit) * unit) <= unit
      /\ 2 * (RoundHalfEven(exact, unit) * unit - exact) <= unit
  BY <1>3, <1>4, RoundingError
<1>7. /\ TimesHundred(c) \in Nat
      /\ 2 * (exact - TimesHundred(c)) <= 128
      /\ 2 * (TimesHundred(c) - exact) <= 128
  BY <1>3, <1>4, <1>5, <1>6, SMT
<1> QED
  BY <1>1, <1>2, <1>3, <1>7, SMT DEF x

\* The integer is the price or one less.
LEMMA DecodedPrice ==
  ASSUME NEW c \in Prices
  PROVE  ToPrice(c) \in {c - 1, c}
<1> DEFINE p == 2^Exponent(c)
           t == TimesHundred(c)
<1>1. p \in Nat \ {0} /\ 512 <= p /\ c \in Nat /\ 1 <= c
  BY ExponentScales, SMT DEF Prices
<1>2. t \in Nat /\ c * p - 114 <= t /\ t <= c * p + 114
  BY ProductError
<1>3. ToPrice(c) = t \div p
  BY DEF ToPrice
<1> HIDE DEF p, t
<1>4. t \div p \in Nat /\ (t \div p) * p <= t /\ t < (t \div p) * p + p
  BY <1>1, <1>2, Division
<1> DEFINE q == t \div p
<1> HIDE DEF q
<1>5. q \in Nat /\ q * p < c * p + p /\ c * p < q * p + 2 * p
  BY <1>1, <1>2, <1>4, SMT DEF q
<1>6. q < c + 1
  <2>1. SUFFICES ASSUME c + 1 <= q PROVE FALSE
    BY <1>1, <1>5, SMT
  <2>2. (c + 1) * p <= q * p
    BY <1>1, <1>5, <2>1, SMT
  <2> QED
    BY <1>1, <1>5, <2>2, SMT
<1>7. c < q + 2
  <2>1. SUFFICES ASSUME q + 2 <= c PROVE FALSE
    BY <1>1, <1>5, SMT
  <2>2. (q + 2) * p <= c * p
    BY <1>1, <1>5, <2>1, SMT
  <2> QED
    BY <1>1, <1>5, <2>2, SMT
<1> QED
  BY <1>1, <1>3, <1>5, <1>6, <1>7, SMT DEF q

-----------------------------------------------------------------------------
\* The prices that are tried are within the limits.
CodecInv ==
  /\ low \in Lows
  /\ high \in low .. low + MaxSpan
  /\ price \in low .. high

LEMMA CodecPrices ==
  ASSUME CodecInv
  PROVE  /\ low \in Prices /\ high \in Prices /\ price \in Prices
         /\ low <= price /\ price <= high
  BY LowsAssumption, MaxSpanAssumption, SMT DEF CodecInv, Prices

LEMMA CodecInvariant == Spec => []CodecInv
<1>1. Init => CodecInv
  <2> SUFFICES ASSUME Init PROVE CodecInv
    OBVIOUS
  <2>1. low \in Int
    BY LowsAssumption, MaxSpanAssumption, SMT DEF Init
  <2> QED
    BY <2>1, MaxSpanAssumption, SMT DEF Init, CodecInv
<1>2. CodecInv /\ [NextTick]_codecVars => CodecInv'
  <2> SUFFICES ASSUME CodecInv, [NextTick]_codecVars PROVE CodecInv'
    OBVIOUS
  <2>1. low \in Int /\ high \in Int /\ price \in Int
    BY CodecPrices, SMT DEF Prices
  <2>2. CASE NextTick
    BY <2>1, <2>2, SMT DEF NextTick, CodecInv
  <2>3. CASE UNCHANGED codecVars
    BY <2>3 DEF codecVars, CodecInv
  <2> QED
    BY <2>2, <2>3
<1> QED
  BY <1>1, <1>2, PTL DEF Spec

\* The integer an order's price is decoded to is the price in cents or one less:
\* never more, and never further away, whatever exponent the float has.
THEOREM OffByAtMostOneTheorem == Spec => []OffByAtMostOne
<1>1. CodecInv => OffByAtMostOne
  BY CodecPrices, DecodedPrice DEF OffByAtMostOne
<1> QED
  BY <1>1, CodecInvariant, PTL

\* A price within the limits indexes inside the arrays that createPxList makes
\* for them: both limits and the price are truncated by the same conversion.
THEOREM IndexInArraysTheorem == Spec => []IndexInArrays
<1>1. ASSUME CodecInv PROVE IndexInArrays
  <2>1. /\ low \in Int /\ high \in Int /\ price \in Int
        /\ low <= price /\ price <= high
    BY <1>1, CodecPrices, SMT DEF Prices
  <2>2. /\ ToPrice(low) \in {low - 1, low}
        /\ ToPrice(high) \in {high - 1, high}
        /\ ToPrice(price) \in {price - 1, price}
    BY <1>1, CodecPrices, DecodedPrice
  <2>3. CASE low < price /\ price < high
    BY <2>1, <2>2, <2>3, SMT DEF IndexInArrays, LevelOf, get_px_span, pxLow, pxHigh
  <2>4. CASE low = price \/ price = high
    BY <2>1, <2>2, <2>4, SMT DEF IndexInArrays, LevelOf, get_px_span, pxLow, pxHigh
  <2> QED
    BY <2>1, <2>3, <2>4, SMT
<1> QED
  BY <1>1, CodecInvariant, PTL

\* Decoding keeps the order of prices: the next tick's level is the same, the next
\* or the one after it.
THEOREM TicksInOrderTheorem == Spec => TicksInOrder
<1>1. ASSUME CodecInv, CodecInv', [NextTick]_codecVars
      PROVE  [LevelOf(price') - LevelOf(price) \in 0 .. 2]_codecVars
  <2>1. CASE UNCHANGED codecVars
    BY <2>1
  <2>2. CASE NextTick
    <3>1. /\ price \in Prices /\ price' \in Prices /\ low \in Prices
          /\ price' = price + 1 /\ low' = low
      <4>1. price \in Prices /\ low \in Prices
        BY <1>1, CodecPrices
      <4>2. price' \in Prices
        BY <1>1, <2>2, LowsAssumption, MaxSpanAssumption, SMT
        DEF CodecInv, Prices, NextTick
      <4> QED
        BY <4>1, <4>2, <2>2 DEF NextTick
    <3>2. /\ ToPrice(price) \in {price - 1, price}
          /\ ToPrice(price') \in {price, price + 1}
          /\ ToPrice(low) \in {low - 1, low}
      <4>1. (price + 1) - 1 = price
        BY <3>1, SMT DEF Prices
      <4>2. ToPrice(price') \in {price' - 1, price'}
        BY <3>1, DecodedPrice
      <4> QED
        BY <3>1, <4>1, <4>2, DecodedPrice
    <3>3. LevelOf(price') - LevelOf(price) = ToPrice(price') - ToPrice(price)
      BY <3>1, <3>2, SMT DEF LevelOf, pxLow, Prices
    <3>4. LevelOf(price') - LevelOf(price) \in 0 .. 2
      BY <3>1, <3>2, <3>3, SMT DEF Prices
    <3> QED
      BY <3>4
  <2> QED
    BY <1>1, <2>1, <2>2
<1>2. Spec => [][NextTick]_codecVars
  BY DEF Spec
<1> QED
  BY <1>1, <1>2, CodecInvariant, PTL DEF TicksInOrder

=============================================================================
