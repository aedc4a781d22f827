---------------------------- MODULE MarketDepth ----------------------------
(***************************************************************************)
(* What a rebuilt order book promises its readers, with no orders, order   *)
(* numbers or cursors that are moved: for each side a quantity per level   *)
(* and a best level that is always the best level with a quantity.  Each   *)
(* message changes one level, and quantity is only added where it does not *)
(* meet the other side: the book is never shown crossed.                   *)
(***************************************************************************)
EXTENDS LobTypes

CONSTANT MaxQty    \* the largest quantity of one order

VARIABLES
  depth,   \* side |-> level |-> quantity
  best     \* side |-> the best level with a quantity, or Nil

depthVars == <<depth, best>>

Other(s) == IF s = "B" THEN "S" ELSE "B"

\* Level p is a better price for side s than level k.
Better(s, p, k) == IF s = "B" THEN p > k ELSE p < k

\* The level b is where side s is best in the quantities d.
IsBest(s, d, b) ==
  IF \A p \in Levels : d[p] = 0
  THEN b = Nil
  ELSE /\ b \in Levels
       /\ d[b] > 0
       /\ \A p \in Levels : d[p] > 0 => ~ Better(s, p, b)

Init ==
  /\ depth = [s \in Side |-> [p \in Levels |-> 0]]
  /\ best = [s \in Side |-> Nil]

-----------------------------------------------------------------------------
\* The quantity of one level changes, and the best level of its side with it.
Change(s, p, q) ==
  /\ depth' = [depth EXCEPT ![s][p] = q]
  /\ best' \in [Side -> Levels \cup {Nil}]
  /\ best'[Other(s)] = best[Other(s)]
  /\ IsBest(s, depth'[s], best'[s])

Add == \E s \in Side, p \in Levels, q \in 1 .. MaxQty :
  /\ best[Other(s)] = Nil \/ Better(s, best[Other(s)], p)
  /\ Change(s, p, depth[s][p] + q)

Take == \E s \in Side, p \in Levels : \E q \in 0 .. depth[s][p] - 1 :
  Change(s, p, q)

Next == Add \/ Take

Spec == Init /\ [][Next]_depthVars
=============================================================================
