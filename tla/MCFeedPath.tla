----------------------------- MODULE MCFeedPath -----------------------------
(***************************************************************************)
(* Three symbol ids are in range and two of them have books, 1 in Shanghai *)
(* and 2 in Shenzhen; 3 has a worker but no entry, and 9 has no worker.    *)
(* Each kind of line comes whole and in each way it can be lost: a symbol  *)
(* that has no book, a number that routes it nowhere, blanks at its end,   *)
(* a garbled column that a feeder or a decoder reads.                      *)
(***************************************************************************)
EXTENDS FeedPath

MCNumber ==
  [n \in {ToString(i) : i \in {0, 1, 2, 3, 4, 7, 9, 11, 49, 50, 70}} |->
     CHOOSE i \in {0, 1, 2, 3, 4, 7, 9, 11, 49, 50, 70} : ToString(i) = n]

MCChar == (49 :> "1") @@ (50 :> "2") @@ (70 :> "F")

MCCents == [p \in {"0.02"} |-> 2]

EventSH(type, flag, SecurityID, blank, bad) ==
  [mdl |-> "mdl_4_24", type |-> type, flag |-> flag, SecurityID |-> SecurityID,
   no |-> 1, blank |-> blank, bad |-> bad]

Event(mdl, SecurityID, no, blank, bad) ==
  [mdl |-> mdl, type |-> "", flag |-> "", SecurityID |-> SecurityID, no |-> no,
   blank |-> blank, bad |-> bad]

MCEvents ==
  {EventSH(e[1], e[2], 1, FALSE, -1) :
     e \in {<<"A", "B">>, <<"A", "S">>, <<"D", "S">>, <<"T", "B">>, <<"T", "N">>,
            <<"S", "OCALL">>}}
    \cup {EventSH("A", "B", s, FALSE, -1) : s \in {0, 3, 9}}
    \cup {EventSH("A", "S", 1, FALSE, 6), EventSH("T", "S", 1, TRUE, -1)}
    \cup {EventSH("T", "B", 1, FALSE, i) : i \in {2, 8}}
    \cup {Event("mdl_6_33", 2, 1, FALSE, i) : i \in {-1, 3, 9}}
    \cup {Event("mdl_6_36", 2, n, FALSE, -1) : n \in {1, 9}}
    \cup {Event("mdl_6_36", 1, 1, FALSE, i) : i \in {3, 5}}
    \cup {Event("mdl_9_9", 1, 1, FALSE, -1), Event("", 1, 1, TRUE, -1), Event("", 1, 1, FALSE, -1)}
=============================================================================
