--------------------------- MODULE BookSHLateJoin ---------------------------
(***************************************************************************)
(* The Shanghai book of a program that is started before a day's first     *)
(* message or in the middle of the day, in continuous trading or in an     *)
(* auction.  Until then the exchange's messages reach no one (a ZMQ or     *)
(* Redis subscriber gets what is published after it subscribed, and the    *)
(* program asks for no snapshot); from then on every message arrives.      *)
(***************************************************************************)
EXTENDS BookSHAuction

VARIABLE connected   \* "no", "late", or "first": before the first message

joinVars == <<dayVars, connected>>

JoinInit == CallInit /\ connected \in {"no", "first"}

Connect == connected = "no" /\ connected' = "late" /\ UNCHANGED dayVars

-----------------------------------------------------------------------------
\* The exchange's steps before the program is connected.
Unheard == connected = "no" /\ UNCHANGED <<bookVars, untaken, connected>>

UnheardQuote == \E s \in Side, p \in Levels, q \in 1 .. MaxQty :
  /\ Unheard /\ UNCHANGED phase
  /\ phase = "call" \/ (phase = "continuous" /\ ~ Crosses(s, p))
  /\ Enter(s, p, q)

UnheardCancel == \E n \in OrderNo :
  /\ Unheard /\ UNCHANGED phase
  /\ phase # "uncross"
  /\ order[n].qty > 0
  /\ Reduce({n}, order[n].qty)

UnheardMatch == \E n \in OrderNo, q \in 1 .. MaxQty :
  /\ Unheard /\ UNCHANGED phase
  /\ phase = "continuous"
  /\ AtBest(n) /\ q <= order[n].qty
  /\ Reduce({n}, q)

UnheardUncross == \E b \in Resting("B"), s \in Resting("S") :
  /\ Unheard /\ phase' = "uncross"
  /\ phase \in {"call", "uncross"}
  /\ AtBest(b) /\ AtBest(s) /\ order[b].px >= order[s].px
  /\ Reduce({b, s}, Min({order[b].qty, order[s].qty}))

UnheardNext == \/ UnheardQuote \/ UnheardCancel \/ UnheardMatch \/ UnheardUncross
               \/ (Open \/ Close) /\ Unheard

HeardNext == connected # "no" /\ DayNext /\ UNCHANGED connected

JoinNext == Connect \/ UnheardNext \/ HeardNext

JoinSpec == JoinInit /\ [][JoinNext]_joinVars

-----------------------------------------------------------------------------
FromTheStart == connected = "first"

\* Whatever comes after an auction, deletions and trades of the same orders
\* included, each level shows exactly what rests there and what the auctions'
\* trades took from there: that part stays for ever, and it is all that is
\* wrong with the depth of a program that heard every message.
AuctionAccount == FromTheStart => Account!DepthExact

\* No order that rests leaves the index of such a program, auctions or not.
DayIndexed == FromTheStart => RestingIndexed

\* Whenever the program was started, no level shows more than what rests there and
\* what the auctions' trades it heard took from there: the trades of orders
\* from before the start, which are ignored, and their deletions, which take from
\* a level that never had them and are clamped at zero, leave nothing shown that
\* no order stands for.
LateNeverOverstates == Account!NeverOverstates

\* As long as no auction's trade was heard, no cursor hides a level that holds a
\* quantity, after a late start either.  (After one, a trade puts its cursor past
\* the levels where an auction's quantity stayed.)
NothingHiddenYet == (\A n \in OrderNo : untaken[n] = 0) => NothingHidden
=============================================================================
