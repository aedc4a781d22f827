--------------------------- MODULE BookSHAuction ---------------------------
(***************************************************************************)
(* The Shanghai book over a whole day: continuous trading (BookSH) between *)
(* call auctions.  In a call auction orders come to rest although they     *)
(* cross; when it ends, the exchange matches the best orders of the two    *)
(* sides until none cross and reports these trades with the flag 'N'       *)
(* (message.h: the flag of the trades at the end of a call auction).  Both *)
(* of their orders rest in the book.                                       *)
(***************************************************************************)
EXTENDS BookSH

VARIABLES
  phase,    \* "call", "uncross" or "continuous"
  untaken   \* what auctions' trades took of each order (auxiliary)

dayVars == <<vars, phase, untaken>>

CallInit ==
  /\ Init
  /\ phase = "call"
  /\ untaken = [n \in OrderNo |-> 0]

CallQuote == \E s \in Side, p \in Levels, q \in 1 .. MaxQty :
  /\ phase = "call"
  /\ Enter(s, p, q)
  /\ onOrderSH(AddMsg(s, p, q))
  /\ UNCHANGED <<phase, untaken>>

CallCancel == phase = "call" /\ Cancel /\ UNCHANGED <<phase, untaken>>

CallMatch == \E b \in Resting("B"), s \in Resting("S") :
  LET q == Min({order[b].qty, order[s].qty})
  IN  /\ phase \in {"call", "uncross"}
      /\ AtBest(b) /\ AtBest(s)
      /\ order[b].px >= order[s].px
      /\ Reduce({b, s}, q)
      /\ onTradeSH([TradeBuyNo |-> b, TradeSellNo |-> s, LastQty |-> q,
                    TradeBSFlag |-> "N"])
      /\ phase' = "uncross"
      /\ untaken' = [untaken EXCEPT ![b] = @ + q, ![s] = @ + q]

Open ==
  /\ phase \in {"call", "uncross"}
  /\ \A b \in Resting("B"), s \in Resting("S") : order[b].px < order[s].px
  /\ phase' = "continuous"
  /\ UNCHANGED <<vars, untaken>>

Close == phase = "continuous" /\ phase' = "call" /\ UNCHANGED <<vars, untaken>>

Trading == phase = "continuous" /\ Next /\ UNCHANGED <<phase, untaken>>

DayNext == CallQuote \/ CallCancel \/ CallMatch \/ Open \/ Close \/ Trading

DaySpec == CallInit /\ [][DayNext]_dayVars

-----------------------------------------------------------------------------
\* The orders as they would be had the auctions' trades not happened.
withUntaken == [n \in OrderNo |-> [order[n] EXCEPT !.qty = @ + untaken[n]]]

Account == INSTANCE BookVsExchange WITH order <- withUntaken
=============================================================================
