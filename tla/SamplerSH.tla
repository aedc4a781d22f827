----------------------------- MODULE SamplerSH -----------------------------
(***************************************************************************)
(* Sampling a Shanghai book while it changes.  The main thread reads the   *)
(* book in getPxList, under a shared lock; the feeder's thread changes it  *)
(* in the handlers, which take no lock (the line is commented out).  So    *)
(* the two interleave between any two accesses to what they share: the     *)
(* quantities, which are atomic, and the cursors, plain pointers that the  *)
(* handlers set to null before they search for the next level.             *)
(*                                                                         *)
(* BookSH's handlers are taken apart into the steps another thread can     *)
(* tell apart; the index seq_pxs is the feeder's alone.  Each load in the  *)
(* source is a load of the program: the build sets no optimisation.        *)
(***************************************************************************)
EXTENDS BookSH, Sequences

CONSTANT sample_px_depth   \* how many levels of each side a record has

ASSUME SampleDepthAssumption == sample_px_depth \in Nat \ {0}

VARIABLES
  fpc,     \* the feeder: "idle", or what is next of the handler it is in
  fside, flvl,   \* the side and the level that handler changes
  tpc,     \* the timer: "idle", or what is next in getPxList
  tside,   \* the side it reads: "S", then "B"
  px,      \* its pointer into that side's array
  pxr,     \* the record: side |-> the levels and quantities read so far
  quiet    \* no handler ran since the record was begun (auxiliary)

feederVars == <<exchangeVars, bookVars, fpc, fside, flvl>>
timerVars  == <<tpc, tside, px, pxr>>
allVars    == <<feederVars, timerVars, quiet>>

Quantity(s) == IF s = "B" THEN bids ELSE asks
Cursor(s)   == IF s = "B" THEN bid1 ELSE ask1
Away(s, l)  == IF s = "B" THEN l - 1 ELSE l + 1

\* The next filled level from l on, going away from the other side.
Scan(s, l) == IF s = "B" THEN ScanDown(bids, l) ELSE ScanUp(asks, l)

SamplerTypeOK ==
  /\ TypeOK
  /\ fpc \in {"idle", "add", "clamp", "test", "taken", "scan"}
  /\ fside \in Side /\ flvl \in Levels \cup {Nil, Span}
  /\ tpc \in {"idle", "check", "load", "loop", "push", "crashed"}
  /\ tside \in Side /\ px \in Levels \cup {Nil, Span}
  /\ pxr \in [Side -> Seq(Levels \X Int)]
  /\ quiet \in BOOLEAN

SamplerInit ==
  /\ Init
  /\ fpc = "idle" /\ fside = "B" /\ flvl = Nil
  /\ tpc = "idle" /\ tside = "S" /\ px = Nil
  /\ pxr = [s \in Side |-> <<>>]
  /\ quiet = FALSE

-----------------------------------------------------------------------------
\* The feeder.  A message arrives and its handler changes one quantity.
ChangeQuantity(s, l, q) ==
  IF s = "B" THEN bids' = [bids EXCEPT ![l] = @ + q] /\ UNCHANGED asks
             ELSE asks' = [asks EXCEPT ![l] = @ + q] /\ UNCHANGED bids

SetCursor(s, c) ==
  IF s = "B" THEN bid1' = c /\ UNCHANGED ask1 ELSE ask1' = c /\ UNCHANGED bid1

Arrive(s, l, next) ==
  /\ tpc # "crashed"
  /\ fpc = "idle" /\ fpc' = next /\ fside' = s /\ flvl' = l
  /\ quiet' = FALSE
  /\ UNCHANGED <<bid1, ask1, timerVars>>

FeedAdd == \E s \in Side, l \in Levels, q \in 1 .. MaxQty :
  /\ ~ Crosses(s, l)
  /\ Enter(s, l, q)
  /\ Arrive(s, l, "add")
  /\ ChangeQuantity(s, l, q)
  /\ seq_pxs' = [seq_pxs EXCEPT ![nextNo] = [side |-> s, lvl |-> l]]

FeedDel == \E n \in OrderNo :
  /\ order[n].qty > 0
  /\ Reduce({n}, order[n].qty)
  /\ Arrive(order[n].side, order[n].px, "clamp")
  /\ ChangeQuantity(order[n].side, order[n].px, 0 - order[n].qty)
  /\ UNCHANGED seq_pxs

FeedTrade == \E n \in OrderNo, q \in 1 .. MaxQty :
  /\ AtBest(n)
  /\ q <= order[n].qty
  /\ Reduce({n}, q)
  /\ Indexed(n)
  /\ Arrive(seq_pxs[n].side, seq_pxs[n].lvl, "taken")
  /\ ChangeQuantity(seq_pxs[n].side, seq_pxs[n].lvl, 0 - q)
  /\ seq_pxs' = Erase(Emptied(TradeMsg(n, q)))

\* The rest of a handler, step by step.
Handler(pc, next) ==
  /\ tpc # "crashed"
  /\ fpc = pc /\ fpc' = next
  /\ UNCHANGED <<exchangeVars, seq_pxs, fside, timerVars, quiet>>

RaiseCursor ==
  /\ Handler("add", "idle")
  /\ SetCursor(fside, IF fside = "B" THEN RaiseTo(flvl, bid1)
                                     ELSE LowerTo(flvl, ask1))
  /\ UNCHANGED <<bids, asks, flvl>>

ClampQuantity ==
  /\ Handler("clamp", "test")
  /\ LET q == Quantity(fside)[flvl] IN ChangeQuantity(fside, flvl, Clamp(q) - q)
  /\ UNCHANGED <<bid1, ask1, flvl>>

\* A deleted order's level: is it the cursor's, and empty?
CursorToNull ==
  /\ Handler("test", "scan")
  /\ Cursor(fside) = flvl /\ Quantity(fside)[flvl] <= 0
  /\ SetCursor(fside, Nil)
  /\ flvl' = Away(fside, flvl)
  /\ UNCHANGED <<bids, asks>>

CursorStays ==
  /\ Handler("test", "idle")
  /\ ~ (Cursor(fside) = flvl /\ Quantity(fside)[flvl] <= 0)
  /\ UNCHANGED <<bids, asks, bid1, ask1, flvl>>

\* A traded order's level: the cursor is put there, or searched from there.
TakenEmpty ==
  /\ Handler("taken", "scan")
  /\ Quantity(fside)[flvl] <= 0
  /\ SetCursor(fside, Nil)
  /\ UNCHANGED <<bids, asks, flvl>>

TakenLeft ==
  /\ Handler("taken", "idle")
  /\ Quantity(fside)[flvl] > 0
  /\ SetCursor(fside, flvl)
  /\ UNCHANGED <<bids, asks, flvl>>

\* SearchNext if it went one level on before its first test.
SearchBeyond ==
  /\ Handler("scan", "idle")
  /\ SetCursor(fside, Scan(fside, Away(fside, flvl)))
  /\ UNCHANGED <<bids, asks, flvl>>

\* The search reads what only the feeder writes, and sets the cursor once.
SearchNext ==
  /\ Handler("scan", "idle")
  /\ SetCursor(fside, Scan(fside, flvl))
  /\ UNCHANGED <<bids, asks, flvl>>

Feeder == \/ FeedAdd \/ FeedDel \/ FeedTrade
          \/ RaiseCursor \/ ClampQuantity \/ CursorToNull \/ CursorStays
          \/ TakenEmpty \/ TakenLeft \/ SearchNext

-----------------------------------------------------------------------------
\* The timer, in getPxList.
StartSample ==
  /\ tpc = "idle" /\ tpc' = "check"
  /\ tside' = "S" /\ px' = Nil
  /\ pxr' = [s \in Side |-> <<>>]
  /\ quiet' = (fpc = "idle")
  /\ UNCHANGED feederVars

Read(pc) == tpc = pc /\ UNCHANGED <<feederVars, quiet>>

\* One side is read: the bids are next, or the record is complete.
SideDone ==
  /\ IF tside = "S" THEN tpc' = "check" /\ tside' = "B"
                    ELSE tpc' = "idle" /\ UNCHANGED tside
  /\ px' = Nil
  /\ UNCHANGED pxr

\* if (ask1 != nullptr)
CheckCursor ==
  /\ Read("check")
  /\ IF Cursor(tside) = Nil
     THEN SideDone
     ELSE tpc' = "load" /\ UNCHANGED <<tside, px, pxr>>

\* px = ask1; px->px = ...: a second load, which may find the null pointer.
LoadCursor ==
  /\ Read("load")
  /\ px' = Cursor(tside)
  /\ tpc' = IF Cursor(tside) = Nil THEN "crashed" ELSE "loop"
  /\ UNCHANGED <<tside, pxr>>

\* TestLevel if the pointer only moved on after a level was taken.
TestLevelStays ==
  /\ Read("loop")
  /\ IF px \notin Levels
     THEN SideDone
     ELSE /\ tpc' = IF Quantity(tside)[px] > 0 THEN "push" ELSE "loop"
          /\ UNCHANGED <<tside, px, pxr>>

\* One turn of the loop: the quantity is loaded for the test, and when it is
\* positive once more for the record.
TestLevel ==
  /\ Read("loop")
  /\ IF px \notin Levels
     THEN SideDone
     ELSE /\ IF Quantity(tside)[px] > 0
             THEN tpc' = "push" /\ UNCHANGED px
             ELSE px' = Away(tside, px) /\ UNCHANGED tpc
          /\ UNCHANGED <<tside, pxr>>

\* PushLevel if the depth were tested with > instead of >=.
PushLevelOneMore ==
  /\ Read("push")
  /\ pxr' = [pxr EXCEPT ![tside] = Append(@, <<px, Quantity(tside)[px]>>)]
  /\ IF Len(pxr'[tside]) > sample_px_depth
     THEN IF tside = "S" THEN tpc' = "check" /\ tside' = "B" /\ px' = Nil
                         ELSE tpc' = "idle" /\ px' = Nil /\ UNCHANGED tside
     ELSE tpc' = "loop" /\ px' = Away(tside, px) /\ UNCHANGED tside

\* PushLevel if the pointer did not move on with the level that was taken.
PushLevelStays ==
  /\ Read("push")
  /\ pxr' = [pxr EXCEPT ![tside] = Append(@, <<px, Quantity(tside)[px]>>)]
  /\ IF Len(pxr'[tside]) >= sample_px_depth
     THEN IF tside = "S" THEN tpc' = "check" /\ tside' = "B" /\ px' = Nil
                         ELSE tpc' = "idle" /\ px' = Nil /\ UNCHANGED tside
     ELSE tpc' = "loop" /\ UNCHANGED <<px, tside>>

PushLevel ==
  /\ Read("push")
  /\ pxr' = [pxr EXCEPT ![tside] = Append(@, <<px, Quantity(tside)[px]>>)]
  /\ IF Len(pxr'[tside]) >= sample_px_depth
     THEN IF tside = "S" THEN tpc' = "check" /\ tside' = "B" /\ px' = Nil
                         ELSE tpc' = "idle" /\ px' = Nil /\ UNCHANGED tside
     ELSE tpc' = "loop" /\ px' = Away(tside, px) /\ UNCHANGED tside

GetPxList == CheckCursor \/ LoadCursor \/ TestLevel \/ PushLevel

SamplerNext == Feeder \/ StartSample \/ GetPxList

SamplerSpec == SamplerInit /\ [][SamplerNext]_allVars /\ WF_allVars(GetPxList)

-----------------------------------------------------------------------------
\* Between two messages the book is exact: the handlers taken apart make the
\* same book as the handlers in one step, whatever the reader does.
ExactBetweenMessages == fpc = "idle" => DepthExact /\ BestExact

\* The first levels, at most sample_px_depth, that a record of side s should
\* have: those where the exchange holds something, the best first.
TrueLevels(s) == {l \in Levels : Depth(s, l) > 0}

IsTop(s, rec) ==
  /\ Len(rec) = Min({sample_px_depth, Cardinality(TrueLevels(s))})
  /\ \A i \in DOMAIN rec :
       /\ rec[i][1] \in TrueLevels(s)
       /\ rec[i][2] = Depth(s, rec[i][1])
       /\ i > 1 => rec[i][1] # rec[i-1][1]
       /\ \A l \in TrueLevels(s) :
            (IF s = "B" THEN l > rec[i][1] ELSE l < rec[i][1]) =>
               \E j \in 1 .. i - 1 : rec[j][1] = l

\* A record taken while no message is handled is the top of the exchange's
\* book, on both sides, and never less of it than the depth asks for.
QuietRecordExact ==
  tpc = "idle" /\ quiet => \A s \in Side : IsTop(s, pxr[s])

\* Whatever ran into it, a record's levels go away from the other side without
\* a repetition, each is one at which an order of that side was entered, and no
\* quantity is negative.  (A quantity may be 0: it is loaded once more after the
\* test; and the two sides may cross.)
Farther(s, k, l) == IF s = "B" THEN k < l ELSE k > l

AnyRecordOrdered == \A s \in Side :
  /\ Len(pxr[s]) <= sample_px_depth
  /\ \A i \in DOMAIN pxr[s] :
       /\ pxr[s][i][2] >= 0
       /\ \E n \in 1 .. nextNo - 1 : order[n].side = s /\ order[n].px = pxr[s][i][1]
       /\ i > 1 => Farther(s, pxr[s][i][1], pxr[s][i-1][1])

\* getPxList comes to an end although the feeder changes the book under it.
SampleEnds == tpc # "idle" ~> tpc \in {"idle", "crashed"}

\* ordtrd_pxlist.cpp: getPxList obtains the order book of a symbol; it does not
\* stop the program.
NeverCrashes == tpc # "crashed"
=============================================================================
