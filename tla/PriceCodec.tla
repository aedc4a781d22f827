----------------------------- MODULE PriceCodec -----------------------------
(***************************************************************************)
(* How a price of the feed becomes an index of a level.  The decoders read *)
(* the decimal text into a float, multiply by 100 in float and truncate to *)
(* an integer; createPxList does the same to the symbol's limits; the      *)
(* handlers subtract the lower limit and use the difference as an index,   *)
(* in onOrderSH without a test of its range.                               *)
(*                                                                         *)
(* A price is its number of cents.  A float (IEEE single precision, round  *)
(* to nearest even) is a significand of 24 bits and a power of two, both   *)
(* exact integers here: everything stays below 2^31 for prices up to       *)
(* 1677721 cents.                                                          *)
(***************************************************************************)
EXTENDS Integers

CONSTANTS
  Lows,     \* the lower limits that are tried, in cents (bounds the run)
  MaxSpan   \* the largest number of ticks between the limits (bounds the run)

ASSUME LowsAssumption    == Lows \subseteq 1 .. 1677700 - MaxSpan
ASSUME MaxSpanAssumption == MaxSpan \in Nat

VARIABLES
  low, high,  \* the symbol's limits, in cents, as the limits file has them
  price       \* the price of an order, in cents, as the feed has it

codecVars == <<low, high, price>>

\* n / d rounded to the nearest integer, halves to the even one.
RoundHalfEven(n, d) ==
  LET q == n \div d
      r == n % d
  IN  IF 2 * r > d \/ (2 * r = d /\ q % 2 = 1) THEN q + 1 ELSE q

\* stof: the float next to c / 100 is Significand(c) / 2^Exponent(c).
Exponent(c) ==
  CHOOSE k \in 0 .. 30 : /\ 2^23 * 100 <= c * 2^k
                         /\ c * 2^k < 2^24 * 100

Significand(c) == RoundHalfEven(c * 2^Exponent(c), 100)

\* The float product of that float and 100, again as a multiple of
\* 1 / 2^Exponent(c): the exact product has 6 or 7 bits too many.
TimesHundred(c) ==
  LET exact == Significand(c) * 100
      extra == IF exact < 2^30 THEN 6 ELSE 7
  IN  RoundHalfEven(exact, 2^extra) * 2^extra

\* ToPrice if the product were rounded up.
ToPriceUp(c) == (TimesHundred(c) + 2^Exponent(c) - 1) \div 2^Exponent(c)

\* ToPrice if the float were truncated before it is multiplied.
ToPriceYuan(c) == (Significand(c) \div 2^Exponent(c)) * 100

\* The integer that std::stof(Price) * 100 is converted to.
ToPrice(c) == TimesHundred(c) \div 2^Exponent(c)

\* createPxList: the limits go the same way, so the arrays have this length.
pxLow      == ToPrice(low)
pxHigh     == ToPrice(high)
get_px_span_open == pxHigh - pxLow   \* get_px_span without the upper limit
get_px_span == pxHigh - pxLow + 1

\* The index the handlers compute for an order at price c.
LevelOf(c) == ToPrice(c) - pxLow

-----------------------------------------------------------------------------
\* Each symbol's prices are tried from its lower limit up, tick by tick.
Init ==
  /\ low \in Lows
  /\ high \in low .. low + MaxSpan
  /\ price = low

NextTick == price < high /\ price' = price + 1 /\ UNCHANGED <<low, high>>

Spec == Init /\ [][NextTick]_codecVars

-----------------------------------------------------------------------------
\* A price within the limits never indexes outside the arrays, although the
\* conversion truncates and onOrderSH does not test: the limits and the prices
\* are truncated alike and the conversion never turns an order around.
IndexInArrays == LevelOf(price) \in 0 .. get_px_span - 1

\* The integer is the price or one cent less, never more: a published price is
\* never further than one tick from the order's.
OffByAtMostOne == ToPrice(price) \in {price - 1, price}

\* The next tick is never decoded to a lower level, and never further up than
\* two levels: the order of prices survives, but two may share a level.
TicksInOrder ==
  [][LevelOf(price') - LevelOf(price) \in 0 .. 2]_codecVars
=============================================================================
