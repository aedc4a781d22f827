-------------------------------- MODULE Sums --------------------------------
(***************************************************************************)
(* The total of a function of 1..N, as a recursive function so that its    *)
(* laws can be proved (module BookLemmas).  The order book modules use it  *)
(* to say what a price level should hold: the sum of the quantities left   *)
(* of the orders that rest on it.                                          *)
(***************************************************************************)
EXTENDS Integers

\* The totals of f over 1..n, for every n in 0..N.
PrefixSum(f, N) ==
  LET S[n \in 0..N] == IF n = 0 THEN 0 ELSE S[n - 1] + f[n] IN S

SumTo(f, N) == PrefixSum(f, N)[N]
=============================================================================
