--------------------------- MODULE FeedPathProofs ---------------------------
(***************************************************************************)
(* The way of a line to a handler, for any lines of the known kinds, whole *)
(* or with a garbled column: the invariants of module FeedPath.            *)
(*                                                                         *)
(* First what the feeders and the decoder make of a line, then who holds   *)
(* what, then what becomes of every line behind a market feed.             *)
(***************************************************************************)
EXTENDS FeedPath, FiniteSetTheorems, TLAPS

Known(e) == e.mdl \in {"mdl_4_24", "mdl_6_33", "mdl_6_36"}

\* The texts a line of e is made of.
Texts(e) ==
  {SymbolText(e), NumberText(e), e.mdl, e.type, e.flag, "x", "0", "0.02", "1",
   "102", "11", "3", "4", "49", "50", "7", "70", "9"}

\* The columns of a line that a feeder forwards, in the text of a buffer.
Columns(e) == Append(Line(e), e.mdl)
Carries(text, e) == text.fields = Columns(e) /\ text.blank = FALSE

-----------------------------------------------------------------------------
\* What Append adds to.
LEMMA AppendLaws ==
  ASSUME NEW T, NEW s \in Seq(T), NEW x \in T
  PROVE  /\ Append(s, x) \in Seq(T) /\ Len(Append(s, x)) = Len(s) + 1
         /\ \A i \in 1 .. Len(s) : Append(s, x)[i] = s[i]
         /\ Append(s, x)[Len(s) + 1] = x
  OBVIOUS

\* The columns of a line of a known kind: twelve or more, the garbled one aside
\* as the publisher wrote them.
LEMMA WholeColumns ==
  ASSUME NEW e \in Events, Known(e)
  PROVE  Whole(e) \in Seq(Texts(e)) /\ Len(Whole(e)) \in {12, 13}
<1> DEFINE T == Texts(e)
<1>1. /\ "0" \in T /\ "0.02" \in T /\ "1" \in T /\ "102" \in T /\ "11" \in T
      /\ "3" \in T /\ "4" \in T /\ "49" \in T /\ "50" \in T /\ "7" \in T
      /\ "70" \in T /\ "9" \in T /\ SymbolText(e) \in T /\ NumberText(e) \in T
      /\ e.type \in T /\ e.flag \in T
      /\ SideText(e, "B") \in T /\ SideText(e, "S") \in T
  BY DEF Texts, SideText
<1> HIDE DEF T
<1>2. LineSH(e) \in Seq(T) /\ Len(LineSH(e)) = 13
  BY <1>1 DEF LineSH
<1>3. LineOrderSZ(e) \in Seq(T) /\ Len(LineOrderSZ(e)) = 12
  BY <1>1 DEF LineOrderSZ
<1>4. LineTradeSZ(e) \in Seq(T) /\ Len(LineTradeSZ(e)) = 13
  BY <1>1 DEF LineTradeSZ
<1> QED
  BY <1>2, <1>3, <1>4 DEF Known, Whole, T

LEMMA BadColumn ==
  ASSUME NEW e \in Events
  PROVE  e.bad \in Int
<1>1. e.bad \in Converted(e) \cup {-1}
  BY EventsAssumption
<1>2. Converted(e) \subseteq 0 .. 10
  BY DEF Converted
<1> QED
  BY <1>1, <1>2

LEMMA LineColumns ==
  ASSUME NEW e \in Events, Known(e)
  PROVE  /\ Line(e) \in Seq(Texts(e)) /\ Len(Line(e)) \in {12, 13}
         /\ \A i \in 1 .. Len(Line(e)) :
              Line(e)[i] = IF i = e.bad + 1 THEN "x" ELSE Whole(e)[i]
<1> DEFINE T == Texts(e)
           W == Whole(e)
<1>1. W \in Seq(T) /\ Len(W) \in {12, 13} /\ "x" \in T
  BY WholeColumns DEF Texts
<1>2. Line(e) = IF e.bad + 1 \in DOMAIN W THEN [W EXCEPT ![e.bad + 1] = "x"] ELSE W
  BY DEF Line
<1> HIDE DEF T, W
<1>3. /\ Line(e) \in Seq(T) /\ Len(Line(e)) = Len(W)
      /\ \A i \in 1 .. Len(Line(e)) :
           Line(e)[i] = IF i = e.bad + 1 THEN "x" ELSE W[i]
  BY <1>1, <1>2, BadColumn
<1> QED
  BY <1>1, <1>3 DEF T, W

\* The last field of a text, and the others.
LEMMA LastField ==
  ASSUME NEW S, NEW s \in Seq(S), NEW x
  PROVE  /\ Append(s, x) # <<>> /\ Last(Append(s, x)) = x
         /\ Front(Append(s, x)) = s
<1> DEFINE T == S \cup {x}
           C == Append(s, x)
<1>1. s \in Seq(T) /\ x \in T
  OBVIOUS
<1>2. /\ C \in Seq(T) /\ Len(C) = Len(s) + 1 /\ C[Len(s) + 1] = x
      /\ \A i \in 1 .. Len(s) : C[i] = s[i]
  BY <1>1, AppendLaws
<1> HIDE DEF C, T
<1>3. Last(C) = x /\ C # <<>>
  BY <1>2 DEF Last
<1>4. Front(C) = s
  BY <1>1, <1>2 DEF Front
<1> QED
  BY <1>3, <1>4 DEF C

LEMMA OneField ==
  ASSUME NEW x
  PROVE  <<x>> \in Seq({x}) /\ <<x>> = Append(<<>>, x) /\ <<>> \in Seq({x})
OBVIOUS

Empty(field) == field = ""

LEMMA SplitLast ==
  ASSUME NEW S, NEW s \in Seq(S), NEW x, NEW text, text.fields = Append(s, x),
         NEW last, last = IF text.blank THEN WithBlanks(x) ELSE x
  PROVE  /\ ~ Empty(last) => /\ splitString(text) = Append(s, last)
                             /\ splitString(text) # <<>>
                             /\ Kind(splitString(text)) = last
         /\ Empty(last) => splitString(text) = s
<1>1. Last(text.fields) = x /\ Front(text.fields) = s
  BY LastField
<1>2. splitString(text) = IF Empty(last) THEN s ELSE Append(s, last)
  BY <1>1, Zenon DEF splitString, Empty
<1>3. Append(s, last) # <<>> /\ Last(Append(s, last)) = last
  BY LastField
<1> QED
  BY <1>2, <1>3, Zenon DEF Kind

LEMMA ForwardedColumns ==
  ASSUME NEW e \in Events, Known(e)
  PROVE  /\ Columns(e) # <<>> /\ Last(Columns(e)) = e.mdl
         /\ \A i \in 0 .. 11 :
              Col(Columns(e), i) = IF i = e.bad THEN "x" ELSE Whole(e)[i + 1]
<1> DEFINE T == Texts(e)
           L == Line(e)
<1>1. /\ L \in Seq(T) /\ Len(L) \in {12, 13}
      /\ \A i \in 1 .. 12 : L[i] = IF i = e.bad + 1 THEN "x" ELSE Whole(e)[i]
  BY LineColumns, SMTT(20)
<1>2. e.mdl \in T /\ e.bad \in Int
  BY BadColumn DEF Texts
<1> HIDE DEF T, L
<1> DEFINE C == Append(L, e.mdl)
<1>3. /\ C \in Seq(T) /\ Len(C) = Len(L) + 1
      /\ \A i \in 1 .. Len(L) : C[i] = L[i]
      /\ C[Len(L) + 1] = e.mdl
  BY <1>1, <1>2, AppendLaws
<1>4. Columns(e) = C
  BY DEF Columns, L
<1> HIDE DEF C
<1>5. Last(C) = e.mdl /\ C # <<>>
  BY <1>1, <1>3 DEF Last
<1>6. \A i \in 0 .. 11 : Col(C, i) = IF i = e.bad THEN "x" ELSE Whole(e)[i + 1]
  <2>1. \A j \in 1 .. 12 : j \in 1 .. Len(L)
    <3>1. CASE Len(L) = 12
      BY <3>1
    <3>2. CASE Len(L) = 13
      BY <3>2
    <3> QED
      BY <1>1, <3>1, <3>2
  <2>2. \A j \in 1 .. 12 : C[j] = IF j = e.bad + 1 THEN "x" ELSE Whole(e)[j]
    BY <1>1, <1>3, <2>1
  <2> TAKE i \in 0 .. 11
  <2>3. i + 1 \in 1 .. 12 /\ (i + 1 = e.bad + 1 <=> i = e.bad)
    BY <1>2
  <2> QED
    BY <2>2, <2>3 DEF Col
<1> QED
  BY <1>4, <1>5, <1>6

LEMMA SplitForwarded ==
  ASSUME NEW e \in Events, Known(e), NEW text, Carries(text, e)
  PROVE  /\ splitString(text) = Columns(e)
         /\ splitString(text) # <<>> /\ Kind(splitString(text)) = e.mdl
<1>1. Line(e) \in Seq(Texts(e))
  BY LineColumns
<1>2. text.fields = Append(Line(e), e.mdl)
  BY DEF Carries, Columns
<1>3. e.mdl = IF text.blank THEN WithBlanks(e.mdl) ELSE e.mdl
  BY DEF Carries
<1>4. ~ Empty(e.mdl)
  BY Zenon DEF Known, Empty
<1> QED
  BY <1>1, <1>2, <1>3, <1>4, SplitLast DEF Columns

\* The texts that are converted, and what they are converted to.
LEMMA TextsConvert ==
  ASSUME NEW e \in Events
  PROVE  /\ \A s \in {SymbolText(e), NumberText(e), "0", "1", "3", "4", "7", "9",
                      "49", "50", "70"} :
              s \in DOMAIN Number /\ Number[s] \in Nat
         /\ Number[SymbolText(e)] = e.SecurityID
         /\ Number[NumberText(e)] = e.no
         /\ "0.02" \in DOMAIN Cents /\ Cents["0.02"] \in Nat
         /\ "x" \notin DOMAIN Number /\ "x" \notin DOMAIN Cents
<1>1. e.SecurityID \in Nat /\ e.no \in Nat
  BY EventsAssumption
<1>2. /\ SymbolText(e) \in DOMAIN Number /\ Number[SymbolText(e)] = e.SecurityID
      /\ NumberText(e) \in DOMAIN Number /\ Number[NumberText(e)] = e.no
  BY TextsAssumption DEF SymbolText, NumberText
<1>3. \A s \in {"0", "1", "3", "4", "7", "9", "49", "50", "70"} :
        s \in DOMAIN Number /\ Number[s] \in Nat
  BY TextsAssumption
<1> QED
  BY <1>1, <1>2, <1>3, TextsAssumption

\* What the decoder reads of each kind of line.
ReadsWhole(e, numbers, prices) ==
  /\ \A i \in numbers : /\ Col(Columns(e), i) \in DOMAIN Number <=> i # e.bad
                        /\ i # e.bad => Number[Col(Columns(e), i)] \in Nat
  /\ \A i \in prices : /\ Col(Columns(e), i) \in DOMAIN Cents <=> i # e.bad
                       /\ i # e.bad => Cents[Col(Columns(e), i)] \in Nat

LEMMA ReadsSH ==
  ASSUME NEW e \in Events, e.mdl = "mdl_4_24"
  PROVE  /\ ReadsWhole(e, {0, 1, 2, 5, 6, 8}, {7, 9})
         /\ e.bad # 2 => Number[Col(Columns(e), 2)] = e.SecurityID
         /\ Col(Columns(e), 4) = e.type /\ Col(Columns(e), 10) = e.flag
<1> DEFINE W == Whole(e)
           ss == Columns(e)
<1>1. \A i \in 0 .. 11 : Col(ss, i) = IF i = e.bad THEN "x" ELSE W[i + 1]
  BY ForwardedColumns DEF Known
<1>2. e.bad # 4 /\ e.bad # 10
  BY EventsAssumption DEF Converted
<1>3. W = LineSH(e)
  BY DEF Whole
<1> HIDE DEF W, ss
<1>4. /\ W[1] = "7" /\ W[2] = "3" /\ W[3] = SymbolText(e) /\ W[5] = e.type
      /\ W[6] = SideText(e, "B") /\ W[7] = SideText(e, "S") /\ W[8] = "0.02"
      /\ W[9] = "1" /\ W[10] = "0.02" /\ W[11] = e.flag
  BY <1>3 DEF LineSH
<1>5. Col(ss, 4) = e.type /\ Col(ss, 10) = e.flag
  BY <1>1, <1>2, <1>4
<1>6. e.bad # 2 => Col(ss, 2) = SymbolText(e)
  BY <1>1, <1>4
<1>7. \A i \in {0, 1, 2, 5, 6, 8} :
        Col(ss, i) = IF i = e.bad THEN "x" ELSE
                 CASE i = 0 -> "7" [] i = 1 -> "3" [] i = 2 -> SymbolText(e)
                   [] i = 5 -> SideText(e, "B") [] i = 6 -> SideText(e, "S")
                   [] OTHER -> "1"
  BY <1>1, <1>4
<1>8. \A i \in {7, 9} : Col(ss, i) = IF i = e.bad THEN "x" ELSE "0.02"
  BY <1>1, <1>4
<1>9. \A i \in {0, 1, 2, 5, 6, 8} :
        /\ Col(ss, i) \in DOMAIN Number <=> i # e.bad
        /\ i # e.bad => Number[Col(ss, i)] \in Nat
  BY <1>7, TextsConvert DEF SideText
<1>10. \A i \in {7, 9} :
        /\ Col(ss, i) \in DOMAIN Cents <=> i # e.bad
        /\ i # e.bad => Cents[Col(ss, i)] \in Nat
  BY <1>8, TextsConvert
<1>11. ReadsWhole(e, {0, 1, 2, 5, 6, 8}, {7, 9})
  BY <1>9, <1>10 DEF ss, ReadsWhole
<1>12. e.bad # 2 => Number[Col(ss, 2)] = e.SecurityID
  BY <1>6, TextsConvert
<1> QED
  BY <1>5, <1>11, <1>12 DEF ss

LEMMA ReadsOrderSZ ==
  ASSUME NEW e \in Events, e.mdl = "mdl_6_33"
  PROVE  /\ ReadsWhole(e, {0, 1, 3, 6, 7, 8, 9}, {5})
         /\ e.bad # 3 => Number[Col(Columns(e), 3)] = e.SecurityID
         /\ e.bad # 7 => Char[Number[Col(Columns(e), 7)]] = "1"
         /\ e.bad # 9 => Char[Number[Col(Columns(e), 9)]] = "2"
<1> DEFINE W == Whole(e)
           ss == Columns(e)
<1>1. \A i \in 0 .. 11 : Col(ss, i) = IF i = e.bad THEN "x" ELSE W[i + 1]
  BY ForwardedColumns DEF Known
<1>2. W = LineOrderSZ(e)
  BY DEF Whole
<1> HIDE DEF W, ss
<1>3. /\ W[1] = "4" /\ W[2] = "7" /\ W[4] = SymbolText(e) /\ W[6] = "0.02"
      /\ W[7] = "1" /\ W[8] = "49" /\ W[9] = "9" /\ W[10] = "50"
  BY <1>2 DEF LineOrderSZ
<1>4. \A i \in {0, 1, 3, 6, 7, 8, 9} :
        Col(ss, i) = IF i = e.bad THEN "x" ELSE
                 CASE i = 0 -> "4" [] i = 1 -> "7" [] i = 3 -> SymbolText(e)
                   [] i = 6 -> "1" [] i = 7 -> "49" [] i = 8 -> "9"
                   [] OTHER -> "50"
  BY <1>1, <1>3
<1>5. Col(ss, 5) = IF 5 = e.bad THEN "x" ELSE "0.02"
  BY <1>1, <1>3
<1>6. \A i \in {0, 1, 3, 6, 7, 8, 9} :
        /\ Col(ss, i) \in DOMAIN Number <=> i # e.bad
        /\ i # e.bad => Number[Col(ss, i)] \in Nat
  BY <1>4, TextsConvert
<1>7. \A i \in {5} :
        /\ Col(ss, i) \in DOMAIN Cents <=> i # e.bad
        /\ i # e.bad => Cents[Col(ss, i)] \in Nat
  BY <1>5, TextsConvert
<1>8. ReadsWhole(e, {0, 1, 3, 6, 7, 8, 9}, {5})
  BY <1>6, <1>7 DEF ss, ReadsWhole
<1>9. /\ e.bad # 3 => Col(ss, 3) = SymbolText(e)
      /\ e.bad # 7 => Col(ss, 7) = "49"
      /\ e.bad # 9 => Col(ss, 9) = "50"
  BY <1>4
<1>10. /\ e.bad # 3 => Number[Col(ss, 3)] = e.SecurityID
       /\ e.bad # 7 => Char[Number[Col(ss, 7)]] = "1"
       /\ e.bad # 9 => Char[Number[Col(ss, 9)]] = "2"
  BY <1>9, TextsConvert, TextsAssumption
<1> QED
  BY <1>8, <1>10 DEF ss

LEMMA ReadsTradeSZ ==
  ASSUME NEW e \in Events, e.mdl = "mdl_6_36"
  PROVE  /\ ReadsWhole(e, {0, 1, 3, 4, 5, 8, 9, 10}, {7})
         /\ e.bad # 3 => Number[Col(Columns(e), 3)] = e.no
         /\ e.bad # 5 => Number[Col(Columns(e), 5)] = e.SecurityID
         /\ e.bad # 9 => Char[Number[Col(Columns(e), 9)]] = "F"
<1> DEFINE W == Whole(e)
           ss == Columns(e)
<1>1. \A i \in 0 .. 11 : Col(ss, i) = IF i = e.bad THEN "x" ELSE W[i + 1]
  BY ForwardedColumns DEF Known
<1>2. W = LineTradeSZ(e)
  BY DEF Whole
<1> HIDE DEF W, ss
<1>3. /\ W[1] = "4" /\ W[2] = "7" /\ W[4] = NumberText(e) /\ W[5] = "0"
      /\ W[6] = SymbolText(e) /\ W[8] = "0.02" /\ W[9] = "1" /\ W[10] = "70"
      /\ W[11] = "9"
  BY <1>2 DEF LineTradeSZ
<1>4. \A i \in {0, 1, 3, 4, 5, 8, 9, 10} :
        Col(ss, i) = IF i = e.bad THEN "x" ELSE
                 CASE i = 0 -> "4" [] i = 1 -> "7" [] i = 3 -> NumberText(e)
                   [] i = 4 -> "0" [] i = 5 -> SymbolText(e) [] i = 8 -> "1"
                   [] i = 9 -> "70" [] OTHER -> "9"
  BY <1>1, <1>3
<1>5. Col(ss, 7) = IF 7 = e.bad THEN "x" ELSE "0.02"
  BY <1>1, <1>3
<1>6. \A i \in {0, 1, 3, 4, 5, 8, 9, 10} :
        /\ Col(ss, i) \in DOMAIN Number <=> i # e.bad
        /\ i # e.bad => Number[Col(ss, i)] \in Nat
  BY <1>4, TextsConvert
<1>7. \A i \in {7} :
        /\ Col(ss, i) \in DOMAIN Cents <=> i # e.bad
        /\ i # e.bad => Cents[Col(ss, i)] \in Nat
  BY <1>5, TextsConvert
<1>8. ReadsWhole(e, {0, 1, 3, 4, 5, 8, 9, 10}, {7})
  BY <1>6, <1>7 DEF ss, ReadsWhole
<1>9. /\ e.bad # 3 => Col(ss, 3) = NumberText(e)
      /\ e.bad # 5 => Col(ss, 5) = SymbolText(e)
      /\ e.bad # 9 => Col(ss, 9) = "70"
  BY <1>4
<1>10. /\ e.bad # 3 => Number[Col(ss, 3)] = e.no
       /\ e.bad # 5 => Number[Col(ss, 5)] = e.SecurityID
       /\ e.bad # 9 => Char[Number[Col(ss, 9)]] = "F"
  BY <1>9, TextsConvert, TextsAssumption
<1> QED
  BY <1>8, <1>10 DEF ss

-----------------------------------------------------------------------------
\* m is the message of the whole line of e.
MessageOf(m, e) ==
  /\ m \in OrderMessage \cup TradeMessage
  /\ m.head.SecurityID = e.SecurityID
  /\ HandlersOf(m) = IF e.SecurityID \in symbol_list THEN {HandlerOf(e)} ELSE {"none"}

\* What the decoder makes of a line that a feeder forwards.
DecodedRight(text, e) ==
  /\ Reported(e) /\ e.bad = -1 =>
       \E m : decode(text) = {m} /\ MessageOf(m, e)
  /\ ~ (Reported(e) /\ e.bad = -1) => decode(text) = {}
  /\ Created(text) = IF ~ Reported(e) THEN 0
                          ELSE IF e.mdl = "mdl_6_36" THEN 2 ELSE 1

LEMMA Listed ==
  ASSUME NEW m, NEW id, m.head.SecurityID = id
  PROVE  InWorklist(m) <=> id \in symbol_list
<1>1. \A s \in symbol_list : s < lobnum
  BY ListAssumption, LobnumAssumption, SMTT(20)
<1> QED
  BY <1>1 DEF InWorklist

LEMMA ChannelInRange ==
  ASSUME NEW n \in Nat
  PROVE  uint16(n) \in uint16_t
  BY DEF uint16, uint16_t

LEMMA HeadsSH ==
  ASSUME NEW e \in Events, e.mdl = "mdl_4_24", e.bad \notin {0, 1, 2}, NEW type
  PROVE  /\ HeadSH(Columns(e), type) \in Message(type, "SH")
         /\ HeadSH(Columns(e), type).MsgType = type
         /\ HeadSH(Columns(e), type).SecurityIDSource = "SH"
         /\ HeadSH(Columns(e), type).SecurityID = e.SecurityID
<1> DEFINE ss == Columns(e)
<1>1. /\ Number[Col(ss, 0)] \in Nat /\ Number[Col(ss, 1)] \in Nat
      /\ Number[Col(ss, 2)] = e.SecurityID /\ e.SecurityID \in Nat
  BY ReadsSH, EventsAssumption DEF ReadsWhole
<1>2. uint16(Number[Col(ss, 1)]) \in uint16_t
  BY <1>1, ChannelInRange
<1> DEFINE h == HeadSH(ss, type)
<1>3. h = [MsgType |-> type, SecurityIDSource |-> "SH",
           SecurityID |-> e.SecurityID,
           ChannelNo |-> uint16(Number[Col(ss, 1)]),
           ApplSeqNum |-> Number[Col(ss, 0)]]
  BY <1>1 DEF HeadSH
<1> HIDE DEF ss, h
<1>4. h \in Message(type, "SH")
  BY <1>1, <1>2, <1>3 DEF Message
<1>5. h.MsgType = type /\ h.SecurityIDSource = "SH" /\ h.SecurityID = e.SecurityID
  BY <1>3
<1> QED
  BY <1>4, <1>5 DEF ss, h

LEMMA OrdersSH ==
  ASSUME NEW e \in Events, e.mdl = "mdl_4_24", e.bad # 2, e.type \in {"A", "D"}
  PROVE  /\ e.bad = -1 => \E m : OrderSH(Columns(e)) = {m} /\ MessageOf(m, e)
         /\ e.bad # -1 => OrderSH(Columns(e)) = {}
<1> DEFINE ss == Columns(e)
           col == IF e.flag = "B" THEN 5 ELSE 6
<1>1. NoColumns(ss) = {col} /\ e.flag \in {"B", "S"} /\ Col(ss, 10) = e.flag
  BY EventsAssumption, ReadsSH DEF NoColumns
<1>2. e.bad \in {-1, 0, 1, 7, 8} \cup {col}
  <2>1. e.bad \in Converted(e) \cup {-1}
    BY EventsAssumption
  <2>2. Converted(e) = {0, 1, 2, 7, 8} \cup (IF e.flag = "S" THEN {6} ELSE {5})
    BY DEF Converted
  <2> QED
    BY <1>1, <2>1, <2>2
<1>3. Converts(ss, {0, 1, 2, 8} \cup {col}, {7}) <=> e.bad = -1
  <2>1. CASE e.flag = "B"
    BY <1>2, <2>1, ReadsSH DEF ReadsWhole, Converts
  <2>2. CASE e.flag = "S"
    BY <1>2, <2>2, ReadsSH DEF ReadsWhole, Converts
  <2> QED
    BY <1>1, <2>1, <2>2
<1>4. CASE e.bad # -1
  BY <1>1, <1>3, <1>4 DEF OrderSH
<1>5. CASE e.bad = -1
  <2> DEFINE body == [OrdType |-> Col(ss, 4), Side |-> Col(ss, 10),
                      OrderNo |-> Number[Col(ss, col)], Price |-> Cents[Col(ss, 7)],
                      OrderQty |-> Number[Col(ss, 8)]]
             m == [head |-> HeadSH(ss, "Order"), body |-> body]
  <2>1. OrderSH(ss) = {m}
    <3> HIDE DEF col
    <3>1. (CHOOSE i \in {col} : TRUE) = col /\ {col} # {}
      OBVIOUS
    <3> QED
      BY <1>1, <1>3, <1>5, <3>1 DEF OrderSH
  <2>2. body \in SBE_SSH_ord_t
    <3>1. /\ Number[Col(ss, 5)] \in Nat /\ Number[Col(ss, 6)] \in Nat
          /\ Number[Col(ss, 8)] \in Nat /\ Cents[Col(ss, 7)] \in Nat
      BY <1>5, ReadsSH DEF ReadsWhole
    <3>2. Col(ss, 4) \in {"A", "D"}
      BY ReadsSH
    <3> HIDE DEF ss
    <3>3. Number[Col(ss, col)] \in Nat
      BY <3>1
    <3> QED
      BY <1>1, <3>1, <3>2, <3>3 DEF SBE_SSH_ord_t
  <2>3. /\ m.head \in Message("Order", "SH") /\ m.head.MsgType = "Order"
        /\ m.head.SecurityIDSource = "SH" /\ m.head.SecurityID = e.SecurityID
    BY <1>5, HeadsSH
  <2>4. m \in OrderMessage
    BY <2>2, <2>3 DEF OrderMessage
  <2>5. HandlerOf(e) = "onOrderSH"
    BY DEF HandlerOf
  <2> HIDE DEF m
  <2>6. HandlersOf(m) = IF e.SecurityID \in symbol_list THEN {"onOrderSH"} ELSE {"none"}
    BY <2>3, Listed DEF HandlersOf, onOrder
  <2> QED
    BY <1>5, <2>1, <2>3, <2>4, <2>5, <2>6 DEF MessageOf
<1> QED
  BY <1>4, <1>5

LEMMA TradesSH ==
  ASSUME NEW e \in Events, e.mdl = "mdl_4_24", e.bad # 2, e.type = "T"
  PROVE  /\ e.bad = -1 => \E m : TradeSH(Columns(e)) = {m} /\ MessageOf(m, e)
         /\ e.bad # -1 => TradeSH(Columns(e)) = {}
<1> DEFINE ss == Columns(e)
<1>1. e.bad \in {-1, 0, 1, 5, 6, 7, 8, 9}
  BY EventsAssumption DEF Converted
<1>2. Converts(ss, {0, 1, 2, 5, 6, 8}, {7, 9}) <=> e.bad = -1
  BY <1>1, ReadsSH DEF ReadsWhole, Converts
<1>3. CASE e.bad # -1
  BY <1>2, <1>3 DEF TradeSH
<1>4. CASE e.bad = -1
  <2> DEFINE body == [TradeBuyNo |-> Number[Col(ss, 5)],
                      TradeSellNo |-> Number[Col(ss, 6)],
                      LastPx |-> Cents[Col(ss, 7)], LastQty |-> Number[Col(ss, 8)],
                      TradeBSFlag |-> Col(ss, 10)]
             m == [head |-> HeadSH(ss, "Trade"), body |-> body]
  <2>1. TradeSH(ss) = {m}
    BY <1>2, <1>4 DEF TradeSH
  <2>2. body \in SBE_SSH_exe_t
    BY <1>4, EventsAssumption, ReadsSH DEF ReadsWhole, SBE_SSH_exe_t
  <2>3. /\ m.head \in Message("Trade", "SH") /\ m.head.MsgType = "Trade"
        /\ m.head.SecurityIDSource = "SH" /\ m.head.SecurityID = e.SecurityID
    BY <1>4, HeadsSH
  <2>4. m \in TradeMessage
    BY <2>2, <2>3 DEF TradeMessage
  <2>5. HandlerOf(e) = "onTradeSH"
    BY DEF HandlerOf
  <2> HIDE DEF m
  <2>6. HandlersOf(m) = IF e.SecurityID \in symbol_list THEN {"onTradeSH"} ELSE {"none"}
    BY <2>3, Listed DEF HandlersOf, onTrade
  <2> QED
    BY <1>4, <2>1, <2>3, <2>4, <2>5, <2>6 DEF MessageOf
<1> QED
  BY <1>3, <1>4

\* The head of a message of SZ, with the two fields decode sets once more.
LEMMA HeadsSZ ==
  ASSUME NEW ss, NEW type, NEW id \in Nat, NEW body,
         Number[Col(ss, 0)] \in Nat, Number[Col(ss, 1)] \in Nat
  PROVE  LET m == Swapped(ss, [head |-> HeadSZ(ss, type, id), body |-> body])
         IN  /\ m = [head |-> m.head, body |-> body]
             /\ m.head \in Message(type, "SZ") /\ m.head.MsgType = type
             /\ m.head.SecurityIDSource = "SZ" /\ m.head.SecurityID = id
<1> DEFINE c == uint16(Number[Col(ss, 1)])
           n == Number[Col(ss, 0)]
           h == HeadSZ(ss, type, id)
           g == [h EXCEPT !.ChannelNo = c, !.ApplSeqNum = n]
           m == Swapped(ss, [head |-> h, body |-> body])
<1>1. c \in uint16_t /\ n \in Nat
  BY ChannelInRange
<1>2. h \in Message(type, "SZ")
  BY ChannelInRange DEF HeadSZ, Message
<1>3. h.MsgType = type /\ h.SecurityIDSource = "SZ" /\ h.SecurityID = id
  BY DEF HeadSZ
<1>4. m = [head |-> g, body |-> body]
  <2> HIDE DEF h, c, n
  <2> QED
    BY DEF Swapped, c, n
<1> HIDE DEF h, c, n
<1>5. /\ g \in Message(type, "SZ") /\ g.MsgType = h.MsgType
      /\ g.SecurityIDSource = h.SecurityIDSource /\ g.SecurityID = h.SecurityID
  BY <1>1, <1>2 DEF Message
<1> HIDE DEF m, g
<1> QED
  BY <1>3, <1>4, <1>5 DEF m, h

LEMMA OrdersSZ ==
  ASSUME NEW e \in Events, e.mdl = "mdl_6_33", e.bad # 3
  PROVE  LET made == {Swapped(Columns(e), m) : m \in OrderSZ(Columns(e))}
         IN  /\ e.bad = -1 => \E m : made = {m} /\ MessageOf(m, e)
             /\ e.bad # -1 => made = {}
<1> DEFINE ss == Columns(e)
<1>1. e.bad \in {-1, 0, 1, 5, 6, 7, 8, 9}
  BY EventsAssumption DEF Converted
<1>2. Converts(ss, {0, 1, 3, 6, 7, 8, 9}, {5}) <=> e.bad = -1
  BY <1>1, ReadsOrderSZ DEF ReadsWhole, Converts
<1>3. CASE e.bad # -1
  BY <1>2, <1>3 DEF OrderSZ
<1>4. CASE e.bad = -1
  <2> DEFINE body == [OrderNo |-> Number[Col(ss, 1)], Price |-> Cents[Col(ss, 5)],
                      OrderQty |-> Number[Col(ss, 6)],
                      Side |-> Char[Number[Col(ss, 7)]],
                      OrdType |-> Char[Number[Col(ss, 9)]]]
             id == Number[Col(ss, 3)]
             n == [head |-> HeadSZ(ss, "Order", id), body |-> body]
             m == Swapped(ss, n)
  <2>1. OrderSZ(ss) = {n}
    BY <1>2, <1>4 DEF OrderSZ
  <2>2. {Swapped(ss, x) : x \in OrderSZ(ss)} = {m}
    <3> HIDE DEF n
    <3> QED
      BY <2>1
  <2>3. body \in SBE_SSZ_ord_t
    BY <1>4, ReadsOrderSZ DEF ReadsWhole, SBE_SSZ_ord_t
  <2>4. /\ id = e.SecurityID /\ id \in Nat
        /\ Number[Col(ss, 0)] \in Nat /\ Number[Col(ss, 1)] \in Nat
    BY <1>4, ReadsOrderSZ, EventsAssumption DEF ReadsWhole
  <2> HIDE DEF body, id
  <2>5. /\ m = [head |-> m.head, body |-> body]
        /\ m.head \in Message("Order", "SZ") /\ m.head.MsgType = "Order"
        /\ m.head.SecurityIDSource = "SZ" /\ m.head.SecurityID = e.SecurityID
    BY <2>4, HeadsSZ
  <2> HIDE DEF m
  <2>6. m \in OrderMessage
    BY <2>3, <2>5 DEF OrderMessage
  <2>7. HandlerOf(e) = "onOrderSZ"
    BY DEF HandlerOf
  <2>8. HandlersOf(m) = IF e.SecurityID \in symbol_list THEN {"onOrderSZ"} ELSE {"none"}
    BY <2>5, Listed DEF HandlersOf, onOrder
  <2> QED
    BY <1>4, <2>2, <2>5, <2>6, <2>7, <2>8 DEF MessageOf
<1> QED
  BY <1>3, <1>4

LEMMA TradesSZ ==
  ASSUME NEW e \in Events, e.mdl = "mdl_6_36", e.bad # 3
  PROVE  LET made == {Swapped(Columns(e), m) : m \in TradeSZ(Columns(e))}
         IN  /\ e.bad = -1 => \E m : made = {m} /\ MessageOf(m, e)
             /\ e.bad # -1 => made = {}
<1> DEFINE ss == Columns(e)
<1>1. e.bad \in {-1, 0, 1, 4, 5, 7, 8, 9, 10}
  BY EventsAssumption DEF Converted
<1>2. Converts(ss, {0, 1, 3, 4, 5, 8, 9, 10}, {7}) <=> e.bad = -1
  BY <1>1, ReadsTradeSZ DEF ReadsWhole, Converts
<1>3. CASE e.bad # -1
  BY <1>2, <1>3 DEF TradeSZ
<1>4. CASE e.bad = -1
  <2> DEFINE body == [BidApplSeqNum |-> Number[Col(ss, 3)],
                      OfferApplSeqNum |-> Number[Col(ss, 4)],
                      LastPx |-> Cents[Col(ss, 7)], LastQty |-> Number[Col(ss, 8)],
                      ExecType |-> Char[Number[Col(ss, 9)]]]
             id == Number[Col(ss, 5)]
             n == [head |-> HeadSZ(ss, "Trade", id), body |-> body]
             m == Swapped(ss, n)
  <2>1. TradeSZ(ss) = {n}
    BY <1>2, <1>4 DEF TradeSZ
  <2>2. {Swapped(ss, x) : x \in TradeSZ(ss)} = {m}
    <3> HIDE DEF n
    <3> QED
      BY <2>1
  <2>3. body \in SBE_SSZ_exe_t
    BY <1>4, ReadsTradeSZ DEF ReadsWhole, SBE_SSZ_exe_t
  <2>4. /\ id = e.SecurityID /\ id \in Nat
        /\ Number[Col(ss, 0)] \in Nat /\ Number[Col(ss, 1)] \in Nat
    BY <1>4, ReadsTradeSZ, EventsAssumption DEF ReadsWhole
  <2> HIDE DEF body, id
  <2>5. /\ m = [head |-> m.head, body |-> body]
        /\ m.head \in Message("Trade", "SZ") /\ m.head.MsgType = "Trade"
        /\ m.head.SecurityIDSource = "SZ" /\ m.head.SecurityID = e.SecurityID
    BY <2>4, HeadsSZ
  <2> HIDE DEF m
  <2>6. m \in TradeMessage
    BY <2>3, <2>5 DEF TradeMessage
  <2>7. HandlerOf(e) = "onTradeSZ"
    BY DEF HandlerOf
  <2>8. HandlersOf(m) = IF e.SecurityID \in symbol_list THEN {"onTradeSZ"} ELSE {"none"}
    BY <2>5, Listed DEF HandlersOf, onTrade
  <2> QED
    BY <1>4, <2>2, <2>5, <2>6, <2>7, <2>8 DEF MessageOf
<1> QED
  BY <1>3, <1>4

LEMMA Decoding ==
  ASSUME NEW e \in Events, Known(e), e.bad # RouteColumn(e),
         NEW text, Carries(text, e)
  PROVE  DecodedRight(text, e)
<1> DEFINE ss == Columns(e)
<1>1. splitString(text) = ss
  BY SplitForwarded
<1>2. Kind(ss) = e.mdl
  BY <1>1, SplitForwarded
<1>3. CASE e.mdl = "mdl_4_24"
  <2>1. e.type \in {"A", "D", "T", "S"} /\ e.bad # 2 /\ Col(ss, 4) = e.type
    BY <1>3, EventsAssumption, ReadsSH DEF RouteColumn
  <2>2. /\ decode(text) = decodeSH(ss)
        /\ Created(text) = IF Col(ss, 4) \in {"A", "D", "T"} THEN 1 ELSE 0
    BY <1>1, <1>2, <1>3 DEF decode, Created
  <2>3. decodeSH(ss) = IF e.type \in {"A", "D"} THEN OrderSH(ss)
                       ELSE IF e.type = "T" THEN TradeSH(ss) ELSE {}
    BY <2>1 DEF decodeSH
  <2>4. Reported(e) <=> e.type \in {"A", "D", "T"}
    BY <1>3, <2>1 DEF Reported
  <2> QED
    BY <1>3, <2>1, <2>2, <2>3, <2>4, OrdersSH, TradesSH DEF DecodedRight
<1>4. CASE e.mdl = "mdl_6_33"
  <2>1. /\ decode(text) = {Swapped(ss, m) : m \in OrderSZ(ss)}
        /\ Created(text) = 1
    BY <1>1, <1>2, <1>4 DEF decode, Created
  <2>2. Reported(e) /\ e.bad # 3
    BY <1>4 DEF Reported, RouteColumn
  <2> QED
    BY <1>4, <2>1, <2>2, OrdersSZ DEF DecodedRight
<1>5. CASE e.mdl = "mdl_6_36"
  <2>1. /\ decode(text) = {Swapped(ss, m) : m \in TradeSZ(ss)}
        /\ Created(text) = 2
    BY <1>1, <1>2, <1>5 DEF decode, Created
  <2>2. Reported(e) /\ e.bad # 3
    BY <1>5 DEF Reported, RouteColumn
  <2> QED
    BY <1>5, <2>1, <2>2, TradesSZ DEF DecodedRight
<1> QED
  BY <1>3, <1>4, <1>5 DEF Known

-----------------------------------------------------------------------------
LEMMA ZmqForwards ==
  ASSUME NEW e \in Events, feed_type = "mdl_zmq"
  PROVE  /\ Forwarded(e) => /\ ZmqIds(splitString(ZmqText(e))) = {RouteId(e)}
                            /\ Carries(ZmqText(e), e)
         /\ ~ Forwarded(e) => ZmqIds(splitString(ZmqText(e))) = {}
<1> DEFINE text == ZmqText(e)
           ss == splitString(text)
           last == IF e.blank THEN WithBlanks(e.mdl) ELSE e.mdl
<1>1. CASE Known(e) /\ ~ e.blank
  <2>1. Carries(text, e)
    <3>1. e.mdl # "" /\ e.blank = FALSE
      BY <1>1, EventsAssumption, Zenon DEF Known
    <3> QED
      BY <3>1, Zenon DEF ZmqText, Carries, Columns
  <2>2. ss = Columns(e) /\ ss # <<>> /\ Kind(ss) = e.mdl
    BY <1>1, <2>1, SplitForwarded
  <2>3. Forwarded(e) <=> e.bad # RouteColumn(e)
    BY <1>1 DEF Forwarded, Known
  <2>4. Col(ss, RouteColumn(e)) \in DOMAIN Number <=> e.bad # RouteColumn(e)
    BY <1>1, <2>2, ReadsSH, ReadsOrderSZ, ReadsTradeSZ DEF Known, RouteColumn, ReadsWhole
  <2>5. e.bad # RouteColumn(e) => Number[Col(ss, RouteColumn(e))] = RouteId(e)
    BY <1>1, <2>2, ReadsSH, ReadsOrderSZ, ReadsTradeSZ DEF Known, RouteColumn, RouteId
  <2>6. ZmqIds(ss) = RoutingIds(ss, RouteColumn(e))
    BY <1>1, <2>2 DEF ZmqIds, Known, RouteColumn
  <2> HIDE DEF ss, text
  <2>7. RoutingIds(ss, RouteColumn(e)) =
          IF e.bad # RouteColumn(e) THEN {RouteId(e)} ELSE {}
    BY <2>4, <2>5 DEF RoutingIds
  <2> QED
    BY <2>1, <2>3, <2>6, <2>7 DEF ss, text
<1>2. CASE e.blank \/ ~ Known(e)
  <2>1. ~ Forwarded(e)
    BY <1>2 DEF Forwarded, Known
  <2>2. \E S : \E s \in Seq(S) : text.fields = Append(s, e.mdl)
    <3>1. CASE e.mdl = ""
      <4>1. text.fields = <<"">>
        BY <3>1, Zenon DEF ZmqText
      <4> QED
        BY <3>1, <4>1, OneField, Zenon
    <3>2. CASE e.mdl # ""
      <4>1. text.fields = Append(Line(e), e.mdl)
        BY <3>2, Zenon DEF ZmqText
      <4>2. CASE Known(e)
        BY <4>1, <4>2, LineColumns, Zenon
      <4>3. CASE ~ Known(e)
        <5>1. Converted(e) = {}
          BY <4>3, Zenon DEF Converted, Known
        <5>2. Whole(e) = <<"">>
          BY <4>3, Zenon DEF Whole, Known
        <5>3. e.bad = -1
          BY <5>1, EventsAssumption
        <5>4. ASSUME NEW x, Whole(e) = <<x>>
              PROVE  Line(e) = <<x>>
          BY <5>3, <5>4 DEF Line
        <5>5. Line(e) = <<"">>
          BY <5>2, <5>4, Zenon
        <5> QED
          BY <4>1, <5>5, OneField, Zenon
      <4> QED
        BY <4>2, <4>3
    <3> QED
      BY <3>1, <3>2, Zenon
  <2>3. last \notin {"mdl_4_24", "mdl_6_33", "mdl_6_36"}
    BY <1>2, BlanksAssumption, Zenon DEF Known
  <2>4. text.blank = e.blank
    BY Zenon DEF ZmqText
  <2>5. last = "" => e.blank = FALSE /\ e.mdl = ""
    BY BlanksAssumption, EventsAssumption, Zenon
  <2>6. ss = <<>> \/ Kind(ss) = last
    <3>1. CASE ~ Empty(last)
      <4>1. PICK S : \E s \in Seq(S) : text.fields = Append(s, e.mdl)
        BY <2>2
      <4>2. PICK s \in Seq(S) : text.fields = Append(s, e.mdl)
        BY <4>1
      <4>3. last = IF text.blank THEN WithBlanks(e.mdl) ELSE e.mdl
        BY <2>4, Zenon
      <4> QED
        BY <3>1, <4>2, <4>3, SplitLast
    <3>2. CASE Empty(last)
      <4>1. text.blank = FALSE /\ e.mdl = ""
        BY <2>4, <2>5, <3>2, Zenon DEF Empty
      <4>2. text.fields = <<e.mdl>>
        BY <4>1, Zenon DEF ZmqText
      <4>3. text.fields = Append(<<>>, e.mdl) /\ <<>> \in Seq({e.mdl})
        BY <4>2, OneField
      <4>4. Empty(e.mdl) /\ e.mdl = IF text.blank THEN WithBlanks(e.mdl) ELSE e.mdl
        BY <4>1, Zenon DEF Empty
      <4> QED
        BY <4>3, <4>4, SplitLast
    <3> QED
      BY <3>1, <3>2
  <2>7. ZmqIds(ss) = {}
    <3> HIDE DEF ss, last
    <3>1. CASE ss = <<>>
      BY <3>1, Zenon DEF ZmqIds, Kind
    <3>2. CASE ss # <<>> /\ Kind(ss) = last
      BY <2>3, <3>2, Zenon DEF ZmqIds
    <3> QED
      BY <2>6, <3>1, <3>2
  <2> QED
    BY <2>1, <2>7
<1> QED
  BY <1>1, <1>2

LEMMA FirstOnes ==
  ASSUME NEW S, NEW s \in Seq(S), NEW n \in Nat, n < Len(s)
  PROVE  /\ SubSeq(s, 1, n) \in Seq(S) /\ Len(SubSeq(s, 1, n)) = n
         /\ \A j \in 1 .. n : SubSeq(s, 1, n)[j] = s[j]
OBVIOUS

LEMMA FrontKeeps ==
  ASSUME NEW S, NEW s \in Seq(S), Len(s) \in {12, 13}
  PROVE  /\ Front(s) \in Seq(S) /\ Len(Front(s)) \in {11, 12}
         /\ \A j \in 1 .. 11 : Front(s)[j] = s[j]
<1>1. PICK n : n = Len(s) - 1
  OBVIOUS
<1>2. n \in {11, 12} /\ n < Len(s) /\ n \in Nat
  BY <1>1
<1>3. Front(s) = SubSeq(s, 1, n)
  BY <1>1 DEF Front
<1>4. \A j \in 1 .. 11 : j \in 1 .. n
  BY <1>2
<1> QED
  BY <1>2, <1>3, <1>4, FirstOnes

\* Splitting leaves all columns but the last alone.
LEMMA SplitKeeps ==
  ASSUME NEW S, NEW s \in Seq(S), Len(s) \in {12, 13}, NEW text, text.fields = s,
         NEW i \in 0 .. 10
  PROVE  Col(splitString(text), i) = Col(s, i)
<1> DEFINE ss == splitString(text)
           last == IF text.blank THEN WithBlanks(Last(s)) ELSE Last(s)
           T == S \cup {last}
           F == Front(s)
<1>1. ss = F \/ ss = Append(F, last)
  BY Zenon DEF splitString
<1> HIDE DEF last, ss
<1>2. F \in Seq(T) /\ Len(F) \in {11, 12} /\ \A j \in 1 .. 11 : F[j] = s[j]
  <2>1. s \in Seq(T)
    OBVIOUS
  <2> QED
    BY <2>1, FrontKeeps
<1>3. last \in T
  OBVIOUS
<1> HIDE DEF F, T
<1>4. \A j \in 1 .. 11 : Append(F, last)[j] = F[j]
  <2>1. \A j \in 1 .. 11 : j \in 1 .. Len(F)
    <3>1. CASE Len(F) = 11
      BY <3>1
    <3>2. CASE Len(F) = 12
      BY <3>2
    <3> QED
      BY <1>2, <3>1, <3>2
  <2> QED
    BY <1>2, <1>3, <2>1, AppendLaws
<1>5. i + 1 \in 1 .. 11
  OBVIOUS
<1> QED
  BY <1>1, <1>2, <1>4, <1>5 DEF Col, ss

LEMMA LineColumn ==
  ASSUME NEW e \in Events, Known(e), NEW i \in 0 .. 10
  PROVE  Col(Line(e), i) = Col(Columns(e), i)
<1>1. i \in 0 .. 11 /\ i + 1 \in 1 .. 12
  OBVIOUS
<1>2. Col(Columns(e), i) = IF i = e.bad THEN "x" ELSE Whole(e)[i + 1]
  BY <1>1, ForwardedColumns
<1>3. Line(e)[i + 1] = IF i + 1 = e.bad + 1 THEN "x" ELSE Whole(e)[i + 1]
  <2>1. i + 1 \in 1 .. Len(Line(e))
    <3>1. CASE Len(Line(e)) = 12
      BY <1>1, <3>1
    <3>2. CASE Len(Line(e)) = 13
      BY <1>1, <3>2
    <3> QED
      BY <3>1, <3>2, LineColumns
  <2> QED
    BY <2>1, LineColumns
<1>4. i + 1 = e.bad + 1 <=> i = e.bad
  BY BadColumn
<1> QED
  BY <1>2, <1>3, <1>4 DEF Col

LEMMA LastColumn ==
  ASSUME NEW e \in Events, Known(e)
  PROVE  Last(Line(e)) = "7"
<1> DEFINE W == Whole(e)
           n == Len(W)
<1>1. W[n] = "7" /\ n \in {12, 13} /\ Len(Line(e)) = n
  <2>1. CASE e.mdl = "mdl_4_24"
    BY <2>1 DEF Whole, LineSH, Line
  <2>2. CASE e.mdl = "mdl_6_33"
    BY <2>2 DEF Whole, LineOrderSZ, Line
  <2>3. CASE e.mdl = "mdl_6_36"
    BY <2>3 DEF Whole, LineTradeSZ, Line
  <2> QED
    BY <2>1, <2>2, <2>3 DEF Known
<1> HIDE DEF W, n
<1>2. e.bad + 1 # n
  <2>1. e.bad \in -1 .. 10
    BY EventsAssumption DEF Converted
  <2> QED
    BY <1>1, <2>1
<1>3. Line(e)[n] = W[n]
  <2>1. n \in 1 .. Len(Line(e))
    BY <1>1
  <2> QED
    BY <1>2, <2>1, LineColumns DEF W
<1> QED
  BY <1>1, <1>3 DEF Last

LEMMA RedisForwards ==
  ASSUME NEW e \in Events, feed_type = "mdl_redis"
  PROVE  LET text == trim(RedisText(e))
         IN  /\ Forwarded(e) =>
                  /\ RedisIds(e.mdl, splitString(text)) = {RouteId(e)}
                  /\ Carries([text EXCEPT !.fields = Append(@, e.mdl)], e)
             /\ ~ Forwarded(e) => RedisIds(e.mdl, splitString(text)) = {}
<1> DEFINE text == trim(RedisText(e))
           ss == splitString(text)
<1>1. CASE Known(e)
  <2>1. text.fields = Line(e) /\ text.blank = FALSE
    BY DEF trim, RedisText
  <2>2. Carries([text EXCEPT !.fields = Append(@, e.mdl)], e)
    BY DEF trim, RedisText, Carries, Columns
  <2>3. ss # <<>> /\ \A i \in 0 .. 10 : Col(ss, i) = Col(Columns(e), i)
    <3>2. \A i \in 0 .. 10 : Col(ss, i) = Col(Line(e), i)
      BY <1>1, <2>1, LineColumns, SplitKeeps
    <3>3. ss # <<>>
      <4>1. ss = Append(Front(Line(e)), "7")
        <5>1. "7" # ""
          BY Zenon
        <5> QED
          BY <1>1, <2>1, <5>1, LastColumn, Zenon DEF splitString
      <4>2. PICK S : Line(e) \in Seq(S) /\ Len(Line(e)) \in {12, 13}
        BY <1>1, LineColumns
      <4>3. Front(Line(e)) \in Seq(S)
        BY <4>2, FrontKeeps
      <4> QED
        BY <4>1, <4>3, LastField
    <3> QED
      BY <1>1, <3>2, <3>3, LineColumn
  <2>4. Forwarded(e) <=> e.bad # RouteColumn(e)
    BY <1>1 DEF Forwarded, Known
  <2>5. RouteColumn(e) \in 0 .. 10
    BY DEF RouteColumn
  <2>6. Col(ss, RouteColumn(e)) \in DOMAIN Number <=> e.bad # RouteColumn(e)
    BY <1>1, <2>3, <2>5, ReadsSH, ReadsOrderSZ, ReadsTradeSZ
       DEF Known, RouteColumn, ReadsWhole
  <2>7. e.bad # RouteColumn(e) => Number[Col(ss, RouteColumn(e))] = RouteId(e)
    BY <1>1, <2>3, <2>5, ReadsSH, ReadsOrderSZ, ReadsTradeSZ
       DEF Known, RouteColumn, RouteId
  <2>8. RedisIds(e.mdl, ss) = RoutingIds(ss, RouteColumn(e))
    BY <1>1, <2>3 DEF RedisIds, Known, RouteColumn
  <2> HIDE DEF ss, text
  <2>9. RoutingIds(ss, RouteColumn(e)) =
          IF e.bad # RouteColumn(e) THEN {RouteId(e)} ELSE {}
    BY <2>6, <2>7 DEF RoutingIds
  <2> QED
    BY <2>2, <2>4, <2>8, <2>9 DEF ss, text
<1>2. CASE ~ Known(e)
  <2>1. ~ Forwarded(e)
    BY <1>2 DEF Forwarded, Known
  <2> HIDE DEF ss
  <2>2. RedisIds(e.mdl, ss) = {}
    BY <1>2 DEF RedisIds, Known
  <2> QED
    BY <2>1, <2>2 DEF ss
<1> QED
  BY <1>1, <1>2

\* The column the CSV decoder reads of an order's line is the symbol's.
LEMMA CsvColumn ==
  ASSUME NEW e \in Events, e.mdl = "mdl_6_33",
         Col(splitString(RedisText(e)), 3) \in DOMAIN Number
  PROVE  Number[Col(splitString(RedisText(e)), 3)] = e.SecurityID
<1>1. RedisText(e).fields = Line(e)
  BY DEF RedisText
<1>2. Known(e) /\ 3 \in 0 .. 10
  BY DEF Known
<1>3. Col(splitString(RedisText(e)), 3) = Col(Line(e), 3)
  BY <1>1, <1>2, LineColumns, SplitKeeps
<1>4. Col(Line(e), 3) = Col(Columns(e), 3)
  BY <1>2, LineColumn
<1> QED
  BY <1>3, <1>4, ReadsOrderSZ DEF ReadsWhole

-----------------------------------------------------------------------------
\* Who holds what: a line in hand has a buffer of its own, and only one thread
\* ever gets a message.
Places == {"start", "poll", "route", "decode", "dispatch", "handler", "delete",
           "free", "done"}
Call == [handler: {"onOrderSH", "onOrderSZ", "onTradeSH", "onTradeSZ"},
         symbolid: Nat, line: Nat, thread: Threads]

Holds(t)  == pc[t] \in {"route", "decode", "dispatch", "handler", "delete", "free"}
HasMsg(t) == pc[t] \in {"dispatch", "handler", "delete"}
Writer    == IF feed_type = "mdl_csv" THEN "order" ELSE "feed"

PathTypes ==
  /\ feed_type \in {"mdl_zmq", "mdl_redis", "mdl_csv"}
  /\ received \in Seq(Events)
  /\ pc \in [Threads -> Places]
  /\ DOMAIN data = Threads
  /\ msg \in [Threads -> SUBSET MessageOfFeed]
  /\ buffers \subseteq 1 .. Len(received)
  /\ objects \in Nat
  /\ calls \in Seq(Call)

\* The text in t's buffer is that of the line it was made from.
TextInHand(t) ==
  LET e == received[data[t].line]
  IN  IF feed_type = "mdl_csv"
      THEN /\ data[t].user = t /\ data[t].text = RedisText(e)
           /\ t = "order" => e.mdl = "mdl_6_33"
      ELSE Forwarded(e) /\ Carries(data[t].text, e)

InHand(t) ==
  /\ Holds(t) => data[t].line \in buffers
  /\ pc[t] \in {"route", "decode"} => TextInHand(t)
  /\ msg[t] # {} <=> HasMsg(t)
  /\ HasMsg(t) => t = Writer /\ objects > 0

OwnLines == \A t, u \in Threads :
  t # u /\ Holds(t) /\ Holds(u) => data[t].line # data[u].line

CalledBy == \A i \in DOMAIN calls : calls[i].thread = Writer

HoldInv ==
  /\ PathTypes
  /\ \A t \in Threads : InHand(t)
  /\ OwnLines
  /\ CalledBy

LEMMA HoldInit == Init => HoldInv
<1> SUFFICES ASSUME Init PROVE HoldInv
  OBVIOUS
<1>1. PathTypes
  BY DEF Init, PathTypes, Places
<1>2. \A t \in Threads : InHand(t)
  BY DEF Init, InHand, Holds, HasMsg
<1>3. OwnLines
  BY DEF Init, OwnLines, Holds
<1>4. CalledBy
  BY DEF Init, CalledBy
<1> QED
  BY <1>1, <1>2, <1>3, <1>4 DEF HoldInv

\* A step of t that leaves the lines, the buffers and the data alone.
LEMMA MoveKeeps ==
  ASSUME HoldInv, NEW t \in Threads, NEW p \in Places,
         pc' = [pc EXCEPT ![t] = p],
         UNCHANGED <<feed_type, received, data, buffers>>,
         p \in {"route", "decode", "dispatch", "handler", "delete", "free"} => Holds(t),
         p \in {"route", "decode"} => pc[t] \in {"route", "decode"},
         msg' \in [Threads -> SUBSET MessageOfFeed],
         \A u \in Threads \ {t} : msg'[u] = msg[u],
         msg'[t] # {} <=> p \in {"dispatch", "handler", "delete"},
         msg'[t] # {} => t = Writer /\ objects' > 0,
         objects' \in Nat, \A u \in Threads \ {t} : HasMsg(u) => objects' > 0,
         calls' \in Seq(Call), \A i \in DOMAIN calls' : calls'[i].thread = Writer
  PROVE  HoldInv'
<1>1. /\ Threads' = Threads /\ Writer' = Writer /\ Call' = Call
      /\ MessageOfFeed' = MessageOfFeed
  BY DEF Threads, Writer, Call, MessageOfFeed
<1>2. /\ pc' \in [Threads -> Places] /\ pc'[t] = p
      /\ \A u \in Threads \ {t} : pc'[u] = pc[u]
  BY DEF HoldInv, PathTypes
<1>3. PathTypes'
  BY <1>1, <1>2 DEF HoldInv, PathTypes
<1>4. \A u \in Threads : Holds(u)' => Holds(u)
  BY <1>2 DEF Holds
<1>5. \A u \in Threads : InHand(u)'
  <2> TAKE u \in Threads
  <2>1. InHand(u)
    BY DEF HoldInv
  <2>2. pc'[u] \in {"route", "decode"} => pc[u] \in {"route", "decode"}
    BY <1>2
  <2>3. TextInHand(u) => TextInHand(u)'
    BY DEF TextInHand, Forwarded, Known
  <2>4. CASE u = t
    BY <1>1, <1>2, <1>4, <2>1, <2>2, <2>3, <2>4 DEF InHand, HasMsg
  <2>5. CASE u # t
    BY <1>1, <1>2, <1>4, <2>1, <2>2, <2>3, <2>5 DEF InHand, HasMsg
  <2> QED
    BY <2>4, <2>5
<1>6. OwnLines'
  BY <1>1, <1>4 DEF HoldInv, OwnLines
<1>7. CalledBy'
  BY <1>1 DEF CalledBy
<1> QED
  BY <1>1, <1>3, <1>5, <1>6, <1>7 DEF HoldInv

LEMMA ReceivedGrows ==
  ASSUME HoldInv, NEW t, NEW e \in Events, Receive(t, e)
  PROVE  /\ received' \in Seq(Events) /\ Len(received') = Len(received) + 1
         /\ Len(received) \in Nat
         /\ \A i \in 1 .. Len(received) : received'[i] = received[i]
         /\ received'[Len(received) + 1] = e
  BY DEF HoldInv, PathTypes, Receive

LEMMA AllocKeeps ==
  ASSUME HoldInv, NEW t \in Threads, NEW e \in Events, Receive(t, e),
         NEW text, NEW symbolid, NEW user, Alloc(t, text, symbolid, user),
         IF feed_type = "mdl_csv"
         THEN user = t /\ text = RedisText(e) /\ (t = "order" => e.mdl = "mdl_6_33")
         ELSE Forwarded(e) /\ Carries(text, e)
  PROVE  HoldInv'
<1> DEFINE n == Len(received)
<1>1. /\ Threads' = Threads /\ Writer' = Writer /\ Call' = Call
      /\ MessageOfFeed' = MessageOfFeed
  BY DEF Threads, Writer, Call, MessageOfFeed, Receive
<1>2. /\ pc' \in [Threads -> Places] /\ pc'[t] = "route"
      /\ \A u \in Threads \ {t} : pc'[u] = pc[u]
  BY DEF HoldInv, PathTypes, Alloc, Places
<1>3. /\ DOMAIN data' = Threads /\ data'[t] = lob_data_t(text, symbolid, user)
      /\ \A u \in Threads \ {t} : data'[u] = data[u]
  BY DEF HoldInv, PathTypes, Alloc
<1>4. data'[t].text = text /\ data'[t].user = user /\ data'[t].line = n + 1
  BY <1>3 DEF lob_data_t
<1>5. PathTypes'
  <2>1. buffers' \subseteq 1 .. Len(received')
    <3>1. buffers \subseteq 1 .. n
      BY DEF HoldInv, PathTypes
    <3>2. buffers' = buffers \cup {n + 1}
      BY DEF Alloc
    <3>3. Len(received') = n + 1 /\ n \in Nat
      BY ReceivedGrows
    <3> HIDE DEF n
    <3>4. buffers' \subseteq 1 .. n + 1
      BY <3>1, <3>2, <3>3
    <3> QED
      BY <3>3, <3>4
  <2> QED
    BY <1>1, <1>2, <1>3, <2>1, ReceivedGrows DEF HoldInv, PathTypes, Receive
<1>6. \A u \in Threads : Holds(u) => data[u].line \in 1 .. n
  BY DEF HoldInv, PathTypes, InHand
<1>7. \A u \in Threads : InHand(u)'
  <2> TAKE u \in Threads
  <2>1. InHand(u)
    BY DEF HoldInv
  <2>2. CASE u = t
    <3>1. Holds(u)' /\ data'[u].line \in buffers'
      BY <1>2, <1>4, <2>2 DEF Holds, Alloc
    <3>2. TextInHand(u)'
      <4>1. received'[data'[u].line] = e
        BY <1>4, <2>2, ReceivedGrows
      <4> QED
        BY <1>4, <2>2, <4>1 DEF TextInHand, Receive, Forwarded, Known
    <3>3. msg'[u] = {} /\ ~ HasMsg(u)'
      BY <1>2, <2>1, <2>2 DEF Receive, InHand, HasMsg
    <3> QED
      BY <3>1, <3>2, <3>3 DEF InHand
  <2>3. CASE u # t
    <3>1. /\ pc'[u] = pc[u] /\ data'[u] = data[u] /\ msg' = msg /\ objects' = objects
          /\ feed_type' = feed_type /\ buffers \subseteq buffers'
      BY <1>2, <1>3, <2>3 DEF Receive, Alloc
    <3>2. Holds(u) => received'[data[u].line] = received[data[u].line]
      BY <1>6, ReceivedGrows
    <3>3. /\ Holds(u)' <=> Holds(u)
          /\ HasMsg(u)' <=> HasMsg(u)
          /\ pc[u] \in {"route", "decode"} => Holds(u)
      BY <3>1 DEF Holds, HasMsg
    <3>4. pc[u] \in {"route", "decode"} => (TextInHand(u) => TextInHand(u)')
      BY <3>1, <3>2, <3>3 DEF TextInHand, Forwarded, Known
    <3> QED
      BY <1>1, <2>1, <3>1, <3>3, <3>4 DEF InHand
  <2> QED
    BY <2>2, <2>3
<1>8. OwnLines'
  <2> SUFFICES ASSUME NEW u \in Threads, NEW v \in Threads, u # v, Holds(u)', Holds(v)'
               PROVE  data'[u].line # data'[v].line
    BY <1>1 DEF OwnLines
  <2>1. \A w \in Threads \ {t} : Holds(w)' => Holds(w) /\ data'[w] = data[w]
    BY <1>2, <1>3 DEF Holds
  <2>2. CASE u # t /\ v # t
    BY <2>1, <2>2 DEF HoldInv, OwnLines
  <2>3. CASE u = t
    <3>1. v # t /\ data'[v].line \in 1 .. n
      BY <1>6, <2>1, <2>3
    <3> QED
      BY <1>4, <2>3, <3>1, ReceivedGrows
  <2>4. CASE v = t
    <3>1. u # t /\ data'[u].line \in 1 .. n
      BY <1>6, <2>1, <2>4
    <3> QED
      BY <1>4, <2>4, <3>1, ReceivedGrows
  <2> QED
    BY <2>2, <2>3, <2>4
<1>9. CalledBy'
  BY <1>1 DEF CalledBy, HoldInv, Receive
<1> QED
  BY <1>1, <1>5, <1>7, <1>8, <1>9 DEF HoldInv

LEMMA SkipKeeps ==
  ASSUME HoldInv, NEW t \in Threads, NEW e \in Events, Receive(t, e), Skip(t)
  PROVE  HoldInv'
<1>1. /\ Threads' = Threads /\ Writer' = Writer /\ Call' = Call
      /\ MessageOfFeed' = MessageOfFeed
  BY DEF Threads, Writer, Call, MessageOfFeed, Receive
<1>2. UNCHANGED <<feed_type, pc, data, msg, buffers, objects, calls>>
  BY DEF Receive, Skip
<1>3. PathTypes'
  <2>1. buffers' \subseteq 1 .. Len(received')
    <3>1. buffers \subseteq 1 .. Len(received) /\ buffers' = buffers
      BY <1>2 DEF HoldInv, PathTypes
    <3> QED
      BY <3>1, ReceivedGrows
  <2> QED
    BY <1>1, <1>2, <2>1, ReceivedGrows DEF HoldInv, PathTypes
<1>4. \A u \in Threads : InHand(u)'
  <2> TAKE u \in Threads
  <2>1. InHand(u) /\ buffers \subseteq 1 .. Len(received)
    BY DEF HoldInv, PathTypes
  <2>2. Holds(u) => received'[data[u].line] = received[data[u].line]
    BY <2>1, ReceivedGrows DEF InHand
  <2>3. pc[u] \in {"route", "decode"} => (TextInHand(u) => TextInHand(u)')
    BY <1>2, <2>2 DEF TextInHand, Forwarded, Known, Holds
  <2> QED
    BY <1>1, <1>2, <2>1, <2>3 DEF InHand, Holds, HasMsg
<1>5. OwnLines' /\ CalledBy'
  BY <1>1, <1>2 DEF HoldInv, OwnLines, CalledBy, Holds
<1> QED
  BY <1>1, <1>3, <1>4, <1>5 DEF HoldInv

\* A step of t that leaves messages and calls alone too.
LEMMA QuietMove ==
  ASSUME HoldInv, NEW t \in Threads, NEW p \in Places,
         pc' = [pc EXCEPT ![t] = p],
         UNCHANGED <<feed_type, received, data, msg, buffers, objects, calls>>,
         p \in {"route", "decode", "dispatch", "handler", "delete", "free"} => Holds(t),
         p \in {"route", "decode"} => pc[t] \in {"route", "decode"},
         p \in {"dispatch", "handler", "delete"} <=> HasMsg(t)
  PROVE  HoldInv'
<1>1. /\ msg' \in [Threads -> SUBSET MessageOfFeed]
      /\ objects' \in Nat /\ calls' \in Seq(Call)
      /\ \A i \in DOMAIN calls' : calls'[i].thread = Writer
  BY DEF HoldInv, PathTypes, CalledBy
<1>2. \A u \in Threads : InHand(u)
  BY DEF HoldInv
<1>3. \A u \in Threads \ {t} : HasMsg(u) => objects' > 0
  BY <1>2 DEF InHand
<1>4. /\ msg'[t] # {} <=> p \in {"dispatch", "handler", "delete"}
      /\ msg'[t] # {} => t = Writer /\ objects' > 0
  BY <1>2 DEF InHand
<1> QED
  BY <1>1, <1>3, <1>4, MoveKeeps

LEMMA DecodedKeeps ==
  ASSUME HoldInv, NEW t \in Threads, pc[t] = "decode", NEW found, Decoded(t, found),
         found \subseteq MessageOfFeed,
         found # {} => t = Writer /\ objects' > 0,
         objects' \in Nat, objects' >= objects
  PROVE  HoldInv'
<1> DEFINE p == IF found = {} THEN "free" ELSE "dispatch"
<1>1. p \in Places /\ Holds(t)
  BY DEF Places, Holds
<1>2. /\ pc' = [pc EXCEPT ![t] = p]
      /\ UNCHANGED <<feed_type, received, data, buffers>>
  BY DEF Decoded
<1>3. /\ p \notin {"route", "decode"}
      /\ p \in {"dispatch", "handler", "delete"} <=> found # {}
  OBVIOUS
<1> HIDE DEF p
<1>4. /\ msg' \in [Threads -> SUBSET MessageOfFeed]
      /\ msg'[t] = found /\ \A u \in Threads \ {t} : msg'[u] = msg[u]
  BY DEF Decoded, HoldInv, PathTypes
<1>5. \A u \in Threads \ {t} : HasMsg(u) => objects' > 0
  <2>1. objects \in Nat /\ \A u \in Threads : HasMsg(u) => objects > 0
    BY DEF HoldInv, PathTypes, InHand
  <2> QED
    BY <2>1
<1>6. calls' \in Seq(Call) /\ \A i \in DOMAIN calls' : calls'[i].thread = Writer
  BY DEF Decoded, HoldInv, PathTypes, CalledBy
<1> QED
  BY <1>1, <1>2, <1>3, <1>4, <1>5, <1>6, MoveKeeps

\* What a market's decoder makes of the line in hand.
LEMMA MarketDecodes ==
  ASSUME HoldInv, NEW t \in Threads, pc[t] = "decode", feed_type # "mdl_csv"
  PROVE  LET e == received[data[t].line]
         IN  /\ t = Writer
             /\ e \in Events /\ Known(e) /\ Forwarded(e)
             /\ DecodedRight(data[t].text, e)
<1> DEFINE e == received[data[t].line]
<1>1. TextInHand(t) /\ data[t].line \in 1 .. Len(received)
  BY DEF HoldInv, InHand, Holds, PathTypes
<1>2. e \in Events
  BY <1>1 DEF HoldInv, PathTypes
<1>3. Forwarded(e) /\ Carries(data[t].text, e)
  BY <1>1 DEF TextInHand
<1>4. Known(e) /\ e.bad # RouteColumn(e)
  BY <1>3 DEF Forwarded, Known
<1>5. t = Writer
  BY DEF Threads, Writer
<1> HIDE DEF e
<1>6. DecodedRight(data[t].text, e)
  BY <1>2, <1>3, <1>4, Decoding
<1> QED
  BY <1>2, <1>3, <1>4, <1>5, <1>6 DEF e

LEMMA MarketDecodeKeeps ==
  ASSUME HoldInv, NEW t \in Threads, ZmqDecode(t) \/ RedisDecode(t)
  PROVE  HoldInv'
<1> DEFINE text == data[t].text
           e == received[data[t].line]
<1>1. /\ pc[t] = "decode" /\ feed_type # "mdl_csv" /\ Decoded(t, decode(text))
      /\ objects' = objects + Created(text)
  BY DEF ZmqDecode, RedisDecode, tonglianDecode
<1>2. t = Writer /\ DecodedRight(text, e)
  BY <1>1, MarketDecodes
<1> HIDE DEF text, e
<1>3. /\ decode(text) \subseteq MessageOfFeed
      /\ Created(text) \in 0 .. 2
      /\ decode(text) # {} => Created(text) > 0
  BY <1>1, <1>2 DEF DecodedRight, MessageOf, MessageOfFeed
<1>4. objects \in Nat
  BY DEF HoldInv, PathTypes
<1>5. objects' \in Nat /\ objects' >= objects /\ (Created(text) > 0 => objects' > 0)
  BY <1>1, <1>3, <1>4
<1> QED
  BY <1>1, <1>2, <1>3, <1>5, DecodedKeeps

LEMMA CsvDecodeKeeps ==
  ASSUME HoldInv, NEW t \in Threads, CsvDecode(t)
  PROVE  HoldInv'
<1> DEFINE ss == splitString(data[t].text)
           e == received[data[t].line]
<1>1. /\ pc[t] = "decode" /\ feed_type = "mdl_csv" /\ Decoded(t, csvDecode(data[t]))
      /\ CsvConverts(t) /\ objects' = objects + Cardinality(csvDecode(data[t]))
  BY DEF CsvDecode
<1>2. TextInHand(t) /\ data[t].line \in 1 .. Len(received) /\ objects \in Nat
  BY <1>1 DEF HoldInv, InHand, Holds, PathTypes
<1>3. e \in Events
  BY <1>2 DEF HoldInv, PathTypes
<1>4. data[t].user = t /\ data[t].text = RedisText(e) /\ (t = "order" => e.mdl = "mdl_6_33")
  BY <1>1, <1>2 DEF TextInHand
<1>5. CASE t = "order"
  <2>1. Col(ss, 3) \in DOMAIN Number
    BY <1>1, <1>4, <1>5 DEF CsvConverts, Converts
  <2>2. Number[Col(ss, 3)] \in Nat
    <3> HIDE DEF e
    <3> QED
      BY <1>3, <1>4, <1>5, <2>1, CsvColumn, EventsAssumption
  <2> HIDE DEF ss
  <2>3. PICK m : csvDecode(data[t]) = {m} /\ m \in UnfilledOrder
    <3> DEFINE head == [MsgType |-> "Order", SecurityIDSource |-> Unset,
                        SecurityID |-> Number[Col(ss, 3)],
                        ChannelNo |-> Unset, ApplSeqNum |-> Unset]
    <3>1. csvDecode(data[t]) = {[head |-> head, body |-> Unset]}
      BY <1>4, <1>5 DEF csvDecode, ss
    <3>2. [head |-> head, body |-> Unset] \in UnfilledOrder
      BY <2>2 DEF UnfilledOrder
    <3> QED
      BY <3>1, <3>2
  <2>4. Cardinality(csvDecode(data[t])) = 1
    BY <2>3, FS_Singleton
  <2>5. t = Writer
    BY <1>1, <1>5 DEF Writer
  <2>6. objects' \in Nat /\ objects' > 0 /\ objects' >= objects
    BY <1>1, <1>2, <2>4
  <2> QED
    BY <1>1, <2>3, <2>5, <2>6, DecodedKeeps DEF MessageOfFeed
<1>6. CASE t # "order"
  <2>1. csvDecode(data[t]) = {}
    BY <1>4, <1>6 DEF csvDecode
  <2>2. Cardinality(csvDecode(data[t])) = 0
    BY <2>1, FS_EmptySet
  <2>3. objects' \in Nat /\ objects' >= objects
    BY <1>1, <1>2, <2>2
  <2> QED
    BY <1>1, <2>1, <2>3, DecodedKeeps
<1> QED
  BY <1>5, <1>6

LEMMA OnMessageKeeps ==
  ASSUME HoldInv, NEW t \in Threads, onMessage(t)
  PROVE  HoldInv'
<1>1. PICK m \in msg[t] : \E h \in HandlersOf(m) :
        /\ pc[t] = "dispatch"
        /\ IF h = "none"
           THEN pc' = [pc EXCEPT ![t] = "delete"] /\ UNCHANGED calls
           ELSE /\ pc' = [pc EXCEPT ![t] = "handler"]
                /\ calls' = Append(calls, [handler |-> h, symbolid |-> m.head.SecurityID,
                                           line |-> data[t].line, thread |-> t])
        /\ UNCHANGED <<feed_type, received, data, msg, buffers, objects>>
  BY DEF onMessage
<1>2. PICK h \in HandlersOf(m) :
        /\ pc[t] = "dispatch"
        /\ IF h = "none"
           THEN pc' = [pc EXCEPT ![t] = "delete"] /\ UNCHANGED calls
           ELSE /\ pc' = [pc EXCEPT ![t] = "handler"]
                /\ calls' = Append(calls, [handler |-> h, symbolid |-> m.head.SecurityID,
                                           line |-> data[t].line, thread |-> t])
        /\ UNCHANGED <<feed_type, received, data, msg, buffers, objects>>
  BY <1>1
<1> DEFINE call == [handler |-> h, symbolid |-> m.head.SecurityID,
                    line |-> data[t].line, thread |-> t]
           p == IF h = "none" THEN "delete" ELSE "handler"
<1>3. m \in MessageOfFeed
  BY DEF HoldInv, PathTypes
<1>4. InHand(t) /\ HasMsg(t) /\ Holds(t)
  BY <1>2 DEF HoldInv, HasMsg, Holds
<1>5. t = Writer /\ objects > 0 /\ data[t].line \in Nat
  <2>1. t = Writer /\ objects > 0 /\ data[t].line \in buffers
    BY <1>4 DEF InHand
  <2>2. buffers \subseteq 1 .. Len(received) /\ Len(received) \in Nat
    BY DEF HoldInv, PathTypes
  <2>3. \A i \in 1 .. Len(received) : i \in Nat
    BY <2>2
  <2> QED
    BY <2>1, <2>2, <2>3
<1>6. h # "none" => call \in Call /\ call.thread = Writer
  <2>1. m.head.SecurityID \in Nat
    BY <1>3 DEF MessageOfFeed, OrderMessage, TradeMessage, Message, UnfilledOrder
  <2>2. h \in {"onOrderSH", "onOrderSZ", "onTradeSH", "onTradeSZ", "none"}
    BY DEF HandlersOf, onOrder, onTrade
  <2> QED
    BY <1>5, <2>1, <2>2 DEF Call
<1> HIDE DEF call
<1>7. calls' \in Seq(Call) /\ \A i \in DOMAIN calls' : calls'[i].thread = Writer
  <2>1. calls \in Seq(Call) /\ \A i \in DOMAIN calls : calls[i].thread = Writer
    BY DEF HoldInv, PathTypes, CalledBy
  <2>2. CASE h = "none"
    BY <1>2, <2>1, <2>2
  <2>3. CASE h # "none"
    <3>1. calls' = Append(calls, call) /\ call \in Call /\ call.thread = Writer
      BY <1>2, <1>6, <2>3 DEF call
    <3> QED
      BY <2>1, <3>1
  <2> QED
    BY <2>2, <2>3
<1>8. p \in Places /\ p \in {"delete", "handler"} /\ pc' = [pc EXCEPT ![t] = p]
  BY <1>2 DEF Places
<1> HIDE DEF p
<1>9. /\ msg' \in [Threads -> SUBSET MessageOfFeed]
      /\ \A u \in Threads \ {t} : msg'[u] = msg[u]
      /\ msg'[t] # {}
      /\ objects' \in Nat /\ objects' > 0
  BY <1>2, <1>4, <1>5 DEF HoldInv, PathTypes, InHand
<1> QED
  BY <1>2, <1>4, <1>5, <1>7, <1>8, <1>9, MoveKeeps

LEMMA DeleteKeeps ==
  ASSUME HoldInv, NEW t \in Threads, Delete(t)
  PROVE  HoldInv'
<1>1. /\ pc[t] = "delete" /\ pc' = [pc EXCEPT ![t] = "free"]
      /\ UNCHANGED <<feed_type, received, data, buffers, calls>>
  BY DEF Delete
<1>2. InHand(t) /\ HasMsg(t) /\ Holds(t)
  BY <1>1 DEF HoldInv, HasMsg, Holds
<1>3. t = Writer /\ objects \in Nat /\ objects > 0
  BY <1>2 DEF InHand, HoldInv, PathTypes
<1>4. /\ msg' \in [Threads -> SUBSET MessageOfFeed]
      /\ \A u \in Threads \ {t} : msg'[u] = msg[u]
      /\ msg'[t] = {}
  BY DEF Delete, HoldInv, PathTypes
<1>5. objects' \in Nat
  BY <1>3 DEF Delete
<1>6. \A u \in Threads \ {t} : ~ HasMsg(u)
  BY <1>3 DEF HoldInv, InHand
<1>7. calls' \in Seq(Call) /\ \A i \in DOMAIN calls' : calls'[i].thread = Writer
  BY <1>1 DEF HoldInv, PathTypes, CalledBy
<1>8. "free" \in Places
  BY DEF Places
<1> QED
  BY <1>1, <1>2, <1>4, <1>5, <1>6, <1>7, <1>8, MoveKeeps

LEMMA FreeKeeps ==
  ASSUME HoldInv, NEW t \in Threads, Free(t)
  PROVE  HoldInv'
<1>1. /\ Threads' = Threads /\ Writer' = Writer /\ Call' = Call
      /\ MessageOfFeed' = MessageOfFeed
  BY DEF Threads, Writer, Call, MessageOfFeed, Free
<1>2. /\ pc' \in [Threads -> Places] /\ pc'[t] = "poll" /\ pc[t] = "free"
      /\ \A u \in Threads \ {t} : pc'[u] = pc[u]
  BY DEF HoldInv, PathTypes, Free, Places
<1>3. /\ buffers' = buffers \ {data[t].line}
      /\ UNCHANGED <<feed_type, received, data, msg, objects, calls>>
  BY DEF Free
<1>4. PathTypes'
  BY <1>1, <1>2, <1>3 DEF HoldInv, PathTypes
<1>5. \A u \in Threads : InHand(u)'
  <2> TAKE u \in Threads
  <2>1. InHand(u)
    BY DEF HoldInv
  <2>2. CASE u = t
    BY <1>2, <1>3, <2>1, <2>2 DEF InHand, Holds, HasMsg
  <2>3. CASE u # t
    <3>1. pc'[u] = pc[u]
      BY <1>2, <2>3
    <3>2. Holds(u) => data[u].line # data[t].line
      BY <1>2, <2>3 DEF HoldInv, OwnLines, Holds
    <3>3. Holds(u)' => data'[u].line \in buffers'
      BY <1>3, <2>1, <3>1, <3>2 DEF InHand, Holds
    <3>4. TextInHand(u) => TextInHand(u)'
      BY <1>3 DEF TextInHand, Forwarded, Known
    <3>5. msg'[u] # {} <=> HasMsg(u)'
      BY <1>3, <2>1, <3>1 DEF InHand, HasMsg
    <3>6. HasMsg(u)' => u = Writer' /\ objects' > 0
      BY <1>1, <1>3, <2>1, <3>1 DEF InHand, HasMsg
    <3> QED
      BY <2>1, <3>1, <3>3, <3>4, <3>5, <3>6 DEF InHand
  <2> QED
    BY <2>2, <2>3
<1>6. OwnLines'
  <2>1. \A u \in Threads : Holds(u)' => Holds(u)
    BY <1>2 DEF Holds
  <2> QED
    BY <1>1, <1>3, <2>1 DEF HoldInv, OwnLines
<1>7. CalledBy'
  BY <1>1, <1>3 DEF HoldInv, CalledBy
<1> QED
  BY <1>1, <1>4, <1>5, <1>6, <1>7 DEF HoldInv

LEMMA MarketReceives ==
  ASSUME ZmqReceive \/ RedisReceive
  PROVE  /\ feed_type # "mdl_csv" /\ "feed" \in Threads
         /\ \E e \in Events :
              /\ Receive("feed", e)
              /\ IF Forwarded(e)
                 THEN \E text : Carries(text, e) /\ Alloc("feed", text, RouteId(e), "")
                 ELSE Skip("feed")
<1>1. feed_type \in {"mdl_zmq", "mdl_redis"} /\ "feed" \in Threads
  BY DEF ZmqReceive, RedisReceive, Threads
<1>2. CASE ZmqReceive
  <2>1. PICK e \in Events :
          LET ids == ZmqIds(splitString(ZmqText(e)))
          IN  /\ feed_type = "mdl_zmq" /\ Receive("feed", e)
              /\ IF ids = {} THEN Skip("feed")
                 ELSE \E id \in ids : Alloc("feed", ZmqText(e), id, "")
    BY <1>2 DEF ZmqReceive
  <2>2. CASE Forwarded(e)
    BY <1>1, <2>1, <2>2, ZmqForwards
  <2>3. CASE ~ Forwarded(e)
    BY <1>1, <2>1, <2>3, ZmqForwards
  <2> QED
    BY <2>2, <2>3
<1>3. CASE RedisReceive
  <2>1. PICK e \in Events :
          LET text == trim(RedisText(e))
              ids  == RedisIds(e.mdl, splitString(text))
          IN  /\ feed_type = "mdl_redis" /\ Receive("feed", e)
              /\ IF ids = {} THEN Skip("feed")
                 ELSE \E id \in ids :
                        Alloc("feed", [text EXCEPT !.fields = Append(@, e.mdl)], id, "")
    BY <1>3 DEF RedisReceive
  <2>2. CASE Forwarded(e)
    BY <1>1, <2>1, <2>2, RedisForwards
  <2>3. CASE ~ Forwarded(e)
    BY <1>1, <2>1, <2>3, RedisForwards
  <2> QED
    BY <2>2, <2>3
<1> QED
  BY <1>2, <1>3

LEMMA ReceiveKeeps ==
  ASSUME HoldInv, Feeder
  PROVE  HoldInv'
<1>1. ASSUME ZmqReceive \/ RedisReceive PROVE HoldInv'
  <2>1. PICK e \in Events :
          /\ Receive("feed", e)
          /\ IF Forwarded(e)
             THEN \E text : Carries(text, e) /\ Alloc("feed", text, RouteId(e), "")
             ELSE Skip("feed")
    BY <1>1, MarketReceives
  <2>2. feed_type # "mdl_csv" /\ "feed" \in Threads
    BY <1>1, MarketReceives
  <2>3. CASE Forwarded(e)
    <3>1. PICK text : Carries(text, e) /\ Alloc("feed", text, RouteId(e), "")
      BY <2>1, <2>3
    <3> QED
      BY <2>1, <2>2, <2>3, <3>1, AllocKeeps
  <2>4. CASE ~ Forwarded(e)
    BY <2>1, <2>2, <2>4, SkipKeeps
  <2> QED
    BY <2>3, <2>4
<1>2. ASSUME CsvReadOrder \/ CsvReadTrade PROVE HoldInv'
  <2>1. PICK t \in {"order", "trade"}, e \in Events :
          /\ CsvRead(t, e)
          /\ t = "order" => e.mdl = "mdl_6_33"
    BY <1>2 DEF CsvReadOrder, CsvReadTrade
  <2>2. PICK id \in 0 .. workers * symnum_of_worker :
          /\ feed_type = "mdl_csv" /\ Receive(t, e) /\ Alloc(t, RedisText(e), id, t)
    BY <2>1 DEF CsvRead
  <2>3. t \in Threads
    BY <2>2 DEF Threads
  <2> QED
    BY <2>1, <2>2, <2>3, AllocKeeps
<1> QED
  BY <1>1, <1>2 DEF Feeder

LEMMA HoldStep == HoldInv /\ [Next]_pathVars => HoldInv'
<1> SUFFICES ASSUME HoldInv, [Next]_pathVars PROVE HoldInv'
  OBVIOUS
<1>1. ASSUME NEW t \in Threads, FeedStarts(t) \/ CsvFileMissing(t) PROVE HoldInv'
  <2>1. PICK p \in {"poll", "done"} : Start(t, p)
    BY <1>1 DEF FeedStarts, CsvFileMissing
  <2>2. p \in Places /\ ~ HasMsg(t)
    BY <2>1 DEF Places, HasMsg, Start
  <2> QED
    BY <2>1, <2>2, QuietMove DEF Start
<1>2. ASSUME NEW t \in Threads, onFeedRawData(t) PROVE HoldInv'
  <2>1. PICK p \in {"decode", "poll"} : pc' = [pc EXCEPT ![t] = p]
    BY <1>2 DEF onFeedRawData
  <2>2. p \in Places /\ ~ HasMsg(t) /\ Holds(t) /\ pc[t] = "route"
    BY <1>2, <2>1 DEF Places, HasMsg, Holds, onFeedRawData
  <2> QED
    BY <1>2, <2>1, <2>2, QuietMove DEF onFeedRawData
<1>3. ASSUME NEW t \in Threads, HandlerReturns(t) PROVE HoldInv'
  <2>1. "delete" \in Places /\ HasMsg(t) /\ Holds(t)
    BY <1>3 DEF Places, HasMsg, Holds, HandlerReturns
  <2> QED
    BY <1>3, <2>1, QuietMove DEF HandlerReturns
<1>4. ASSUME NEW t \in Threads, CsvDecodeThrows(t) PROVE HoldInv'
  <2>1. pc' = [pc EXCEPT ![t] = "decode"] /\ pc[t] = "decode"
    BY <1>4 DEF CsvDecodeThrows, HoldInv, PathTypes
  <2>2. "decode" \in Places /\ Holds(t)
    BY <2>1 DEF Places, Holds
  <2>3. /\ msg' = msg /\ calls' = calls /\ objects \in Nat /\ objects' = objects + 1
        /\ UNCHANGED <<feed_type, received, data, buffers>>
    BY <1>4 DEF CsvDecodeThrows, HoldInv, PathTypes
  <2>4. /\ msg' \in [Threads -> SUBSET MessageOfFeed]
        /\ calls' \in Seq(Call) /\ \A i \in DOMAIN calls' : calls'[i].thread = Writer
    BY <2>3 DEF HoldInv, PathTypes, CalledBy
  <2>5. msg'[t] = {}
    BY <2>1, <2>3 DEF HoldInv, InHand, HasMsg
  <2>6. objects' \in Nat /\ objects' > 0
    BY <2>3
  <2> QED
    BY <2>1, <2>2, <2>3, <2>4, <2>5, <2>6, MoveKeeps
<1>5. CASE Feeder
  BY <1>5, ReceiveKeeps
<1>6. ASSUME NEW t \in Threads, Worker(t) PROVE HoldInv'
  BY <1>3, <1>4, <1>6, MarketDecodeKeeps, CsvDecodeKeeps, OnMessageKeeps, DeleteKeeps,
     FreeKeeps DEF Worker
<1>7. CASE UNCHANGED pathVars
  BY <1>7 DEF pathVars, HoldInv, PathTypes, InHand, Holds, HasMsg, TextInHand, Forwarded,
              OwnLines, CalledBy, Threads, Writer, Call, MessageOfFeed
<1> QED
  BY <1>1, <1>2, <1>5, <1>6, <1>7 DEF Next

LEMMA FeedStays ==
  ASSUME [Next]_pathVars
  PROVE  feed_type' = feed_type
  BY DEF Next, pathVars, Feeder, ZmqReceive, RedisReceive, CsvReadOrder, CsvReadTrade,
         CsvRead, Receive, FeedStarts, CsvFileMissing, Start, onFeedRawData, Worker,
         ZmqDecode, RedisDecode, CsvDecode, CsvDecodeThrows, Decoded, onMessage,
         HandlerReturns, Delete, Free

LEMMA Held == Spec => []HoldInv
<1>1. Init => HoldInv
  BY HoldInit
<1>2. HoldInv /\ [Next]_pathVars => HoldInv'
  BY HoldStep
<1> QED
  BY <1>1, <1>2, PTL DEF Spec

-----------------------------------------------------------------------------
\* The types of what the threads have in hand: a buffer that is allocated, and
\* behind a market feed a message of one market, head and body, filled in for
\* either side; behind the CSV feeder an order of which only type and symbol
\* are set (TypeOK).
THEOREM PathTypeCorrect == Spec => []TypeOK
<1>1. HoldInv => TypeOK
  <2> SUFFICES ASSUME HoldInv PROVE TypeOK
    OBVIOUS
  <2>1. \A t \in Threads :
          /\ pc[t] \in Places
          /\ msg[t] \subseteq MessageOfFeed
          /\ Holds(t) => data[t].line \in buffers
    BY DEF HoldInv, PathTypes, InHand
  <2>2. buffers \subseteq DOMAIN received /\ objects \in Nat
    BY DEF HoldInv, PathTypes
  <2> QED
    BY <2>1, <2>2 DEF TypeOK, Places, Holds
<1> QED
  BY <1>1, Held, PTL

\* One thread alone calls the handlers, whichever feeder runs (OneWriter).
THEOREM OneWriterCorrect == Spec => []OneWriter
<1>1. HoldInv => OneWriter
  <2> SUFFICES ASSUME HoldInv PROVE OneWriter
    OBVIOUS
  <2> DEFINE S == {calls[i].thread : i \in DOMAIN calls}
  <2>1. S \subseteq {Writer}
    BY DEF HoldInv, CalledBy
  <2>2. S = {} \/ S = {Writer}
    BY <2>1
  <2> HIDE DEF S
  <2>3. Cardinality(S) \in {0, 1}
    BY <2>2, FS_EmptySet, FS_Singleton
  <2>4. Cardinality(S) <= 1
    BY <2>3
  <2> QED
    BY <2>4 DEF OneWriter, S
<1> QED
  BY <1>1, Held, PTL

-----------------------------------------------------------------------------
\* Behind the CSV feeder: the calls that were made, and the line in hand of the
\* thread that reads the orders' file, which is later than all of them.
CsvCallOf(call) ==
  LET e == received[call.line]
  IN  /\ call.line \in DOMAIN received
      /\ e.mdl = "mdl_6_33"
      /\ call.handler \in {"onOrderSH", "onOrderSZ"}
      /\ call.symbolid = e.SecurityID /\ e.SecurityID \in symbol_list

CsvCalls ==
  /\ \A i \in DOMAIN calls : CsvCallOf(calls[i])
  /\ \A i, j \in DOMAIN calls : i < j => calls[i].line < calls[j].line

CsvLater ==
  pc["order"] \in {"route", "decode", "dispatch"} =>
    \A i \in DOMAIN calls : calls[i].line < data["order"].line

CsvMessage ==
  LET e == received[data["order"].line]
  IN  pc["order"] = "dispatch" => /\ e.mdl = "mdl_6_33"
                                  /\ \A m \in msg["order"] : m.head.SecurityID = e.SecurityID

CsvInv == feed_type = "mdl_csv" => CsvCalls /\ CsvLater /\ CsvMessage

LEMMA CsvLineInHand ==
  ASSUME HoldInv, feed_type = "mdl_csv", Holds("order")
  PROVE  data["order"].line \in DOMAIN received /\ data["order"].line \in Nat
<1>1. "order" \in Threads
  BY DEF Threads
<1>2. data["order"].line \in buffers /\ buffers \subseteq 1 .. Len(received)
  BY <1>1 DEF HoldInv, PathTypes, InHand
<1>3. DOMAIN received = 1 .. Len(received) /\ Len(received) \in Nat
  BY DEF HoldInv, PathTypes
<1>4. \A i \in 1 .. Len(received) : i \in Nat
  BY <1>3
<1>5. data["order"].line \in 1 .. Len(received)
  BY <1>1, <1>2
<1> QED
  BY <1>3, <1>4, <1>5

\* A step that calls no handler and takes the orders' thread no nearer to a call.
LEMMA CsvMove ==
  ASSUME HoldInv, CsvInv, feed_type = "mdl_csv", calls' = calls,
         DOMAIN received \subseteq DOMAIN received',
         \A n \in DOMAIN received : received'[n] = received[n],
         data'["order"] = data["order"],
         pc'["order"] \in {"route", "decode", "dispatch"} =>
           pc["order"] \in {"route", "decode", "dispatch"},
         pc'["order"] = "dispatch" =>
           pc["order"] = "dispatch" /\ msg'["order"] = msg["order"]
  PROVE  CsvInv'
<1>1. CsvCalls /\ CsvLater /\ CsvMessage
  BY DEF CsvInv
<1>2. CsvCalls'
  BY <1>1 DEF CsvCalls, CsvCallOf
<1>3. CsvLater'
  BY <1>1 DEF CsvLater
<1>4. CsvMessage'
  <2>1. CASE pc'["order"] = "dispatch"
    <3>1. data["order"].line \in DOMAIN received
      BY <2>1, CsvLineInHand DEF Holds
    <3> QED
      BY <1>1, <2>1, <3>1 DEF CsvMessage
  <2>2. CASE pc'["order"] # "dispatch"
    BY <2>2 DEF CsvMessage
  <2> QED
    BY <2>1, <2>2
<1> QED
  BY <1>2, <1>3, <1>4 DEF CsvInv

LEMMA CsvReceiveKeeps ==
  ASSUME HoldInv, CsvInv, feed_type = "mdl_csv", Feeder
  PROVE  CsvInv'
<1>1. PICK t \in {"order", "trade"}, e \in Events : CsvRead(t, e)
  BY DEF Feeder, ZmqReceive, RedisReceive, CsvReadOrder, CsvReadTrade
<1>2. PICK id : Receive(t, e) /\ Alloc(t, RedisText(e), id, t)
  BY <1>1 DEF CsvRead
<1>3. /\ Threads = {"order", "trade"} /\ t \in DOMAIN pc /\ t \in DOMAIN data
      /\ "order" \in DOMAIN pc /\ "order" \in DOMAIN data
  BY DEF HoldInv, PathTypes, Threads
<1>4. /\ Len(received') = Len(received) + 1 /\ Len(received) \in Nat
      /\ DOMAIN received = 1 .. Len(received) /\ DOMAIN received' = 1 .. Len(received')
      /\ \A i \in 1 .. Len(received) : received'[i] = received[i]
  BY <1>2, ReceivedGrows DEF HoldInv, PathTypes
<1>5. DOMAIN received \subseteq DOMAIN received'
  BY <1>4
<1>6. calls' = calls /\ msg' = msg
  BY <1>2 DEF Receive
<1>7. CASE t = "trade"
  <2>1. pc'["order"] = pc["order"] /\ data'["order"] = data["order"]
    BY <1>2, <1>3, <1>7 DEF Alloc
  <2> QED
    BY <1>4, <1>5, <1>6, <2>1, CsvMove
<1>8. CASE t = "order"
  <2>1. pc'["order"] = "route" /\ data'["order"].line = Len(received) + 1
    BY <1>2, <1>3, <1>8 DEF Alloc, lob_data_t
  <2>2. CsvCalls /\ CsvMessage'
    BY <2>1 DEF CsvInv, CsvMessage
  <2>3. CsvCalls'
    BY <1>4, <1>5, <1>6, <2>2 DEF CsvCalls, CsvCallOf
  <2>4. CsvLater'
    <3>1. \A i \in DOMAIN calls : calls[i].line \in 1 .. Len(received)
      BY <1>4, <2>2 DEF CsvCalls, CsvCallOf
    <3>2. \A i \in DOMAIN calls : calls[i].line < Len(received) + 1
      BY <1>4, <3>1
    <3> QED
      BY <1>6, <2>1, <3>2 DEF CsvLater
  <2> QED
    BY <2>2, <2>3, <2>4 DEF CsvInv
<1> QED
  BY <1>7, <1>8

LEMMA CsvDecodeOwn ==
  ASSUME HoldInv, CsvInv, feed_type = "mdl_csv", NEW t \in Threads, CsvDecode(t)
  PROVE  CsvInv'
<1> DEFINE e == received[data["order"].line]
           ss == splitString(data["order"].text)
<1>1. /\ pc[t] = "decode" /\ CsvConverts(t)
      /\ pc' = [pc EXCEPT ![t] = IF csvDecode(data[t]) = {} THEN "free" ELSE "dispatch"]
      /\ msg' = [msg EXCEPT ![t] = csvDecode(data[t])]
      /\ UNCHANGED <<feed_type, received, data, calls>>
  BY DEF CsvDecode, Decoded
<1>2. /\ Threads = {"order", "trade"} /\ DOMAIN pc = Threads
      /\ msg \in [Threads -> SUBSET MessageOfFeed]
  BY DEF HoldInv, PathTypes, Threads
<1>3. CASE t = "trade"
  BY <1>1, <1>2, <1>3, CsvMove
<1>4. CASE t = "order"
  <2>1. /\ data["order"].user = "order" /\ data["order"].text = RedisText(e)
        /\ e.mdl = "mdl_6_33" /\ data["order"].line \in 1 .. Len(received)
    BY <1>1, <1>2, <1>4 DEF HoldInv, InHand, TextInHand, Holds, PathTypes
  <2>2. e \in Events
    BY <2>1 DEF HoldInv, PathTypes
  <2>3. Col(ss, 3) \in DOMAIN Number
    BY <1>1, <1>4, <2>1 DEF CsvConverts, Converts
  <2>4. Number[Col(ss, 3)] = e.SecurityID
    <3> HIDE DEF e
    <3> QED
      BY <2>1, <2>2, <2>3, CsvColumn
  <2>5. \A m \in csvDecode(data["order"]) : m.head.SecurityID = Number[Col(ss, 3)]
    BY DEF csvDecode
  <2>6. msg'["order"] = csvDecode(data["order"]) /\ pc'["order"] # "route"
    BY <1>1, <1>2, <1>4
  <2> HIDE DEF e, ss
  <2>7. \A m \in msg'["order"] : m.head.SecurityID = e.SecurityID
    BY <2>4, <2>5, <2>6
  <2>8. CsvMessage'
    BY <1>1, <2>1, <2>7 DEF CsvMessage, e
  <2>9. CsvCalls' /\ CsvLater'
    BY <1>1, <1>4 DEF CsvInv, CsvCalls, CsvCallOf, CsvLater
  <2> QED
    BY <2>8, <2>9 DEF CsvInv
<1> QED
  BY <1>2, <1>3, <1>4

LEMMA CsvMessageOwn ==
  ASSUME HoldInv, CsvInv, feed_type = "mdl_csv", NEW t \in Threads, onMessage(t)
  PROVE  CsvInv'
<1> DEFINE n == data["order"].line
<1>1. t = "order" /\ pc["order"] = "dispatch"
  <2>1. pc[t] = "dispatch"
    BY DEF onMessage
  <2> QED
    BY <2>1 DEF HoldInv, InHand, HasMsg, Writer
<1>2. PICK m \in msg["order"] : \E h \in HandlersOf(m) :
        /\ IF h = "none"
           THEN pc' = [pc EXCEPT !["order"] = "delete"] /\ UNCHANGED calls
           ELSE /\ pc' = [pc EXCEPT !["order"] = "handler"]
                /\ calls' = Append(calls, [handler |-> h, symbolid |-> m.head.SecurityID,
                                           line |-> n, thread |-> "order"])
        /\ UNCHANGED <<feed_type, received, data, msg>>
  BY <1>1 DEF onMessage
<1>3. PICK h \in HandlersOf(m) :
        /\ IF h = "none"
           THEN pc' = [pc EXCEPT !["order"] = "delete"] /\ UNCHANGED calls
           ELSE /\ pc' = [pc EXCEPT !["order"] = "handler"]
                /\ calls' = Append(calls, [handler |-> h, symbolid |-> m.head.SecurityID,
                                           line |-> n, thread |-> "order"])
        /\ UNCHANGED <<feed_type, received, data, msg>>
  BY <1>2
<1>4. /\ "order" \in DOMAIN pc /\ calls \in Seq(Call) /\ m \in UnfilledOrder
      /\ n \in DOMAIN received /\ n \in Nat
  <2>1. msg["order"] \subseteq MessageOfFeed /\ MessageOfFeed = UnfilledOrder
    BY <1>1 DEF HoldInv, PathTypes, MessageOfFeed
  <2>2. n \in DOMAIN received /\ n \in Nat
    BY <1>1, CsvLineInHand DEF Holds
  <2>3. "order" \in DOMAIN pc /\ calls \in Seq(Call)
    BY <1>1 DEF HoldInv, PathTypes
  <2> QED
    BY <2>1, <2>2, <2>3
<1>5. pc'["order"] \in {"delete", "handler"}
  BY <1>3, <1>4
<1>6. CASE h = "none"
  BY <1>3, <1>5, <1>6, CsvMove
<1>7. CASE h # "none"
  <2> DEFINE call == [handler |-> h, symbolid |-> m.head.SecurityID,
                      line |-> n, thread |-> "order"]
             k == Len(calls) + 1
  <2>1. h \in {"onOrderSH", "onOrderSZ"} /\ m.head.SecurityID \in symbol_list
    <3>1. m.head.MsgType = "Order"
      BY <1>4 DEF UnfilledOrder
    <3>2. InWorklist(m) /\ h \in onOrder(m.head.SecurityIDSource)
      BY <1>7, <3>1 DEF HandlersOf
    <3> QED
      BY <1>7, <3>2 DEF InWorklist, onOrder
  <2>2. CsvCalls /\ CsvLater /\ CsvMessage
    BY DEF CsvInv
  <2>3. CsvCallOf(call)
    BY <1>1, <1>4, <2>1, <2>2 DEF CsvCallOf, CsvMessage
  <2>4. \A i \in DOMAIN calls : calls[i].line < n
    BY <1>1, <2>2 DEF CsvLater
  <2>5. call \in Call
    <3>1. m.head.SecurityID \in Nat
      BY <1>4 DEF UnfilledOrder
    <3> QED
      BY <1>1, <1>4, <2>1, <3>1 DEF Call
  <2>6. calls' = Append(calls, call)
    BY <1>3, <1>7
  <2>7. call.line = n
    OBVIOUS
  <2> HIDE DEF call, n
  <2>8. /\ DOMAIN calls = 1 .. Len(calls) /\ Len(calls) \in Nat
        /\ DOMAIN calls' = DOMAIN calls \cup {k} /\ calls'[k] = call
        /\ \A i \in DOMAIN calls : calls'[i] = calls[i]
    BY <1>4, <2>5, <2>6
  <2>9. \A i \in DOMAIN calls' : CsvCallOf(calls'[i])
    <3> HIDE DEF k
    <3> QED
      BY <2>2, <2>3, <2>8 DEF CsvCalls
  <2>10. ASSUME NEW i \in DOMAIN calls', NEW j \in DOMAIN calls', i < j
         PROVE  calls'[i].line < calls'[j].line
    <3>1. CASE j \in DOMAIN calls
      BY <2>2, <2>8, <2>10, <3>1 DEF CsvCalls
    <3>2. CASE j = k
      <4>1. i \in DOMAIN calls
        BY <2>8, <2>10, <3>2
      <4> QED
        BY <2>4, <2>7, <2>8, <3>2, <4>1
    <3> QED
      BY <2>8, <3>1, <3>2
  <2>11. CsvCalls'
    BY <1>3, <2>9, <2>10 DEF CsvCalls, CsvCallOf
  <2>12. CsvLater' /\ CsvMessage'
    BY <1>5 DEF CsvLater, CsvMessage
  <2> QED
    BY <2>11, <2>12 DEF CsvInv
<1> QED
  BY <1>6, <1>7

LEMMA CsvStep ==
  ASSUME HoldInv, CsvInv, feed_type = "mdl_csv", [Next]_pathVars
  PROVE  CsvInv'
<1>1. "order" \in DOMAIN pc /\ DOMAIN pc = Threads
  BY DEF HoldInv, PathTypes, Threads
<1>2. ASSUME NEW t \in Threads,
             \/ FeedStarts(t) \/ CsvFileMissing(t) \/ onFeedRawData(t)
             \/ CsvDecodeThrows(t) \/ HandlerReturns(t) \/ Delete(t) \/ Free(t)
      PROVE  CsvInv'
  <2>1. UNCHANGED <<received, data, calls>>
    BY <1>2 DEF FeedStarts, CsvFileMissing, Start, onFeedRawData, CsvDecodeThrows,
                HandlerReturns, Delete, Free
  <2>2. CASE t = "order"
    <3>1. /\ pc'["order"] \in {"route", "decode", "dispatch"} =>
               pc["order"] \in {"route", "decode", "dispatch"}
          /\ pc'["order"] = "dispatch" => pc["order"] = "dispatch" /\ msg' = msg
      BY <1>1, <1>2, <2>2 DEF FeedStarts, CsvFileMissing, Start, onFeedRawData,
                              CsvDecodeThrows, HandlerReturns, Delete, Free
    <3> QED
      BY <2>1, <3>1, CsvMove
  <2>3. CASE t # "order"
    <3>1. pc'["order"] = pc["order"] /\ msg'["order"] = msg["order"]
      <4>1. "order" \in DOMAIN msg
        BY DEF HoldInv, PathTypes, Threads
      <4> QED
        BY <1>1, <1>2, <2>3, <4>1 DEF FeedStarts, CsvFileMissing, Start, onFeedRawData,
                                      CsvDecodeThrows, HandlerReturns, Delete, Free
    <3> QED
      BY <2>1, <3>1, CsvMove
  <2> QED
    BY <2>2, <2>3
<1>3. ASSUME NEW t \in Threads, Worker(t)
      PROVE  CsvInv'
  <2>1. ~ ZmqDecode(t) /\ ~ RedisDecode(t)
    BY DEF ZmqDecode, RedisDecode
  <2> QED
    BY <1>2, <1>3, <2>1, CsvDecodeOwn, CsvMessageOwn DEF Worker
<1>4. CASE UNCHANGED pathVars
  BY <1>4, CsvMove DEF pathVars
<1> QED
  BY <1>2, <1>3, <1>4, CsvReceiveKeeps DEF Next

\* Behind the CSV feeder a handler is called for the lines of the orders' file
\* alone, each for its own listed symbol, in the file's order and never twice,
\* whatever ids the lines were routed by (CsvCallsOwn).
THEOREM CsvCallsOwnCorrect == Spec => []CsvCallsOwn
<1>1. Init => CsvInv
  BY DEF Init, CsvInv, CsvCalls, CsvLater, CsvMessage, Threads
<1>2. HoldInv /\ CsvInv /\ [Next]_pathVars => CsvInv'
  <2> SUFFICES ASSUME HoldInv, CsvInv, [Next]_pathVars PROVE CsvInv'
    OBVIOUS
  <2>1. feed_type' = feed_type
    BY FeedStays
  <2>2. CASE feed_type = "mdl_csv"
    BY <2>2, CsvStep
  <2>3. CASE feed_type # "mdl_csv"
    BY <2>1, <2>3 DEF CsvInv
  <2> QED
    BY <2>2, <2>3
<1>3. CsvInv => CsvCallsOwn
  BY DEF CsvInv, CsvCalls, CsvCallOf, CsvCallsOwn
<1> QED
  BY <1>1, <1>2, <1>3, Held, PTL DEF Spec

-----------------------------------------------------------------------------
\* Behind a market feed there is one thread.  What has become of a line depends
\* on the event alone, the last line aside: it may still be in hand.
Lines(lines, S) == {n \in DOMAIN lines : lines[n] \in S}

Delivered   == Lines(received, {e \in Events : Deliverable(e)})
LeftBehind  == Lines(received, {e \in Events : Forwarded(e) /\ ~ Routed(RouteId(e))})
Unused      == Lines(received, {e \in Events : UnusedTrade(e)})
Thrown      == Lines(received, {e \in Events : Threw(e)})

InUse        == IF Holds("feed") THEN {Len(received)} ELSE {}
Undecoded    == IF pc["feed"] \in {"route", "decode"} THEN {Len(received)} ELSE {}
Undispatched == IF pc["feed"] \in {"route", "decode", "dispatch"}
                THEN {Len(received)} ELSE {}

LineInHand ==
  LET e == received[Len(received)]
  IN  /\ Holds("feed") => /\ data["feed"].line = Len(received)
                          /\ data["feed"].symbolid = RouteId(e)
                          /\ Forwarded(e)
      /\ Holds("feed") /\ pc["feed"] # "route" => Routed(RouteId(e))
      /\ HasMsg("feed") => /\ Reported(e) /\ e.bad = -1
                           /\ \A m \in msg["feed"] : MessageOf(m, e)

CallOf(call, e) == call.handler = HandlerOf(e) /\ call.symbolid = e.SecurityID

CallsMade ==
  /\ {calls[i].line : i \in DOMAIN calls} = Delivered \ Undispatched
  /\ \A i, j \in DOMAIN calls : i < j => calls[i].line < calls[j].line
  /\ \A i \in DOMAIN calls : CallOf(calls[i], received[calls[i].line])

BuffersLeft == buffers = LeftBehind \cup InUse

ObjectsLeft ==
  objects = Cardinality(Unused \ Undecoded) + Cardinality(Thrown \ Undecoded)
              + (IF HasMsg("feed") THEN 1 ELSE 0)

MarketInv ==
  MarketFeed => LineInHand /\ CallsMade /\ BuffersLeft /\ ObjectsLeft

\* The lines of the events of a set, with one line more.
LEMMA LinesGrow ==
  ASSUME NEW S, NEW e \in Events, NEW lines \in Seq(Events)
  PROVE  Lines(Append(lines, e), S) =
           Lines(lines, S) \cup (IF e \in S THEN {Len(lines) + 1} ELSE {})
<1> DEFINE more == Append(lines, e)
           n == Len(lines) + 1
<1>1. /\ DOMAIN more = DOMAIN lines \cup {n} /\ more[n] = e
      /\ \A i \in DOMAIN lines : more[i] = lines[i]
      /\ n \notin DOMAIN lines
  OBVIOUS
<1> HIDE DEF more, n
<1> QED
  BY <1>1 DEF Lines, more, n

LEMMA LinesFinite ==
  ASSUME NEW S, NEW lines \in Seq(Events)
  PROVE  /\ IsFiniteSet(Lines(lines, S)) /\ Lines(lines, S) \subseteq 1 .. Len(lines)
<1>1. Lines(lines, S) \subseteq 1 .. Len(lines) /\ Len(lines) \in Nat
  BY DEF Lines
<1>2. IsFiniteSet(1 .. Len(lines))
  BY <1>1, FS_Interval
<1>3. Lines(lines, S) \in SUBSET (1 .. Len(lines))
  BY <1>1
<1>4. IsFiniteSet(Lines(lines, S))
  BY <1>2, <1>3, FS_Subset
<1> QED
  BY <1>1, <1>4

\* What a line that is received adds.
LEMMA LedgersGrow ==
  ASSUME HoldInv, NEW e \in Events, Receive("feed", e)
  PROVE  LET n == Len(received) + 1
         IN  /\ Delivered' = Delivered \cup (IF Deliverable(e) THEN {n} ELSE {})
             /\ LeftBehind' = LeftBehind \cup
                  (IF Forwarded(e) /\ ~ Routed(RouteId(e)) THEN {n} ELSE {})
             /\ Unused' = Unused \cup (IF UnusedTrade(e) THEN {n} ELSE {})
             /\ Thrown' = Thrown \cup (IF Threw(e) THEN {n} ELSE {})
<1> DEFINE n == Len(received) + 1
<1>1. received \in Seq(Events) /\ received' = Append(received, e)
  BY DEF Receive, HoldInv, PathTypes
<1>2. \A f : Forwarded(f)' = Forwarded(f)
  BY DEF Receive, Forwarded
<1>3. \A f : /\ Deliverable(f)' = Deliverable(f)
             /\ UnusedTrade(f)' = UnusedTrade(f) /\ Threw(f)' = Threw(f)
  BY <1>2 DEF Deliverable, UnusedTrade, Threw
<1> DEFINE D == {f \in Events : Deliverable(f)}
           B == {f \in Events : Forwarded(f) /\ ~ Routed(RouteId(f))}
           U == {f \in Events : UnusedTrade(f)}
           T == {f \in Events : Threw(f)}
<1>4. /\ Delivered' = Lines(received', D) /\ LeftBehind' = Lines(received', B)
      /\ Unused' = Lines(received', U) /\ Thrown' = Lines(received', T)
  BY <1>2, <1>3 DEF Delivered, LeftBehind, Unused, Thrown
<1>5. /\ Delivered = Lines(received, D) /\ LeftBehind = Lines(received, B)
      /\ Unused = Lines(received, U) /\ Thrown = Lines(received, T)
  BY DEF Delivered, LeftBehind, Unused, Thrown
<1>6. /\ e \in D <=> Deliverable(e)
      /\ e \in B <=> Forwarded(e) /\ ~ Routed(RouteId(e))
      /\ e \in U <=> UnusedTrade(e)
      /\ e \in T <=> Threw(e)
  OBVIOUS
<1> HIDE DEF D, B, U, T
<1>7. \A S : Lines(received', S) =
              Lines(received, S) \cup (IF e \in S THEN {n} ELSE {})
  BY <1>1, LinesGrow
<1> HIDE DEF n
<1>8. /\ Delivered' = Delivered \cup (IF Deliverable(e) THEN {n} ELSE {})
      /\ LeftBehind' = LeftBehind \cup
           (IF Forwarded(e) /\ ~ Routed(RouteId(e)) THEN {n} ELSE {})
      /\ Unused' = Unused \cup (IF UnusedTrade(e) THEN {n} ELSE {})
      /\ Thrown' = Thrown \cup (IF Threw(e) THEN {n} ELSE {})
  BY <1>4, <1>5, <1>6, <1>7
<1> QED
  BY <1>8 DEF n

LEMMA LedgersStay ==
  ASSUME UNCHANGED <<feed_type, received>>
  PROVE  UNCHANGED <<Delivered, LeftBehind, Unused, Thrown>>
<1>1. \A f : Forwarded(f)' = Forwarded(f)
  BY DEF Forwarded
<1>2. \A f : /\ Deliverable(f)' = Deliverable(f)
             /\ UnusedTrade(f)' = UnusedTrade(f) /\ Threw(f)' = Threw(f)
  BY <1>1 DEF Deliverable, UnusedTrade, Threw
<1> QED
  BY <1>1, <1>2 DEF Delivered, LeftBehind, Unused, Thrown

\* All lines of a ledger are received ones, and the last one is in it by its
\* event alone.
LEMMA LedgersHold ==
  ASSUME HoldInv
  PROVE  LET n == Len(received)
             e == received[n]
         IN  /\ IsFiniteSet(Unused) /\ IsFiniteSet(Thrown)
             /\ /\ Delivered \subseteq 1 .. n /\ LeftBehind \subseteq 1 .. n
                /\ Unused \subseteq 1 .. n /\ Thrown \subseteq 1 .. n
             /\ n \in 1 .. n =>
                  /\ n \in Delivered <=> Deliverable(e)
                  /\ n \in LeftBehind <=> Forwarded(e) /\ ~ Routed(RouteId(e))
                  /\ n \in Unused <=> UnusedTrade(e)
                  /\ n \in Thrown <=> Threw(e)
<1> DEFINE n == Len(received)
           e == received[n]
<1>1. received \in Seq(Events) /\ DOMAIN received = 1 .. n
  BY DEF HoldInv, PathTypes
<1>2. /\ IsFiniteSet(Unused) /\ IsFiniteSet(Thrown)
      /\ Delivered \subseteq 1 .. n /\ LeftBehind \subseteq 1 .. n
      /\ Unused \subseteq 1 .. n /\ Thrown \subseteq 1 .. n
  BY <1>1, LinesFinite DEF Delivered, LeftBehind, Unused, Thrown
<1>3. ASSUME n \in 1 .. n
      PROVE  e \in Events
  BY <1>1, <1>3
<1> HIDE DEF n
<1>4. ASSUME n \in 1 .. n
      PROVE  /\ n \in Delivered <=> Deliverable(e)
             /\ n \in LeftBehind <=> Forwarded(e) /\ ~ Routed(RouteId(e))
             /\ n \in Unused <=> UnusedTrade(e)
             /\ n \in Thrown <=> Threw(e)
  BY <1>1, <1>3, <1>4 DEF Lines, Delivered, LeftBehind, Unused, Thrown
<1> QED
  BY <1>2, <1>4 DEF n

LEMMA MarketInit == Init => MarketInv
<1> SUFFICES ASSUME Init, MarketFeed PROVE LineInHand /\ CallsMade /\ BuffersLeft /\ ObjectsLeft
  BY DEF MarketInv
<1>1. pc["feed"] = "start"
  BY DEF Init, Threads, MarketFeed
<1>2. LineInHand
  BY <1>1 DEF LineInHand, Holds, HasMsg
<1>3. Delivered = {} /\ LeftBehind = {} /\ Unused = {} /\ Thrown = {}
  BY DEF Init, Lines, Delivered, LeftBehind, Unused, Thrown
<1>4. CallsMade
  BY <1>3 DEF Init, CallsMade
<1>5. BuffersLeft
  BY <1>1, <1>3 DEF Init, BuffersLeft, InUse, Holds
<1>6. ObjectsLeft
  <2>1. Cardinality(Unused \ Undecoded) = 0 /\ Cardinality(Thrown \ Undecoded) = 0
    <3>1. Unused \ Undecoded = {} /\ Thrown \ Undecoded = {}
      BY <1>3
    <3> QED
      BY <3>1, FS_EmptySet
  <2> QED
    BY <1>1, <2>1 DEF Init, ObjectsLeft, HasMsg
<1> QED
  BY <1>2, <1>4, <1>5, <1>6

LEMMA MarketThread ==
  ASSUME HoldInv, MarketFeed
  PROVE  /\ Threads = {"feed"} /\ feed_type # "mdl_csv" /\ "feed" \in DOMAIN pc
         /\ InHand("feed") /\ Len(received) \in Nat
         /\ Holds("feed") => Len(received) \in 1 .. Len(received)
<1>1. Threads = {"feed"} /\ feed_type # "mdl_csv"
  BY DEF MarketFeed, Threads
<1>2. InHand("feed") /\ "feed" \in DOMAIN pc /\ Len(received) \in Nat
  BY <1>1 DEF HoldInv, PathTypes
<1>3. Holds("feed") => data["feed"].line \in 1 .. Len(received)
  BY <1>2 DEF InHand, HoldInv, PathTypes
<1>4. Holds("feed") => Len(received) >= 1
  BY <1>2, <1>3
<1> QED
  BY <1>1, <1>2, <1>4

LEMMA CallsStay ==
  ASSUME HoldInv, CallsMade, UNCHANGED <<feed_type, calls>>,
         Delivered' \ Undispatched' = Delivered \ Undispatched,
         \A n \in 1 .. Len(received) : received'[n] = received[n]
  PROVE  CallsMade'
<1>1. \A i \in DOMAIN calls : calls[i].line \in 1 .. Len(received)
  BY LedgersHold DEF CallsMade
<1> QED
  BY <1>1 DEF CallsMade, CallOf

LEMMA MarketReceiveKeeps ==
  ASSUME HoldInv, MarketInv, MarketFeed, Feeder
  PROVE  MarketInv'
<1> DEFINE n == Len(received) + 1
<1>1. PICK e \in Events :
          /\ Receive("feed", e)
          /\ IF Forwarded(e)
             THEN \E text : Carries(text, e) /\ Alloc("feed", text, RouteId(e), "")
             ELSE Skip("feed")
  <2>1. ZmqReceive \/ RedisReceive
    BY DEF Feeder, MarketFeed, CsvReadOrder, CsvReadTrade, CsvRead
  <2> QED
    BY <2>1, MarketReceives
<1>2. /\ pc["feed"] = "poll" /\ "feed" \in DOMAIN pc /\ "feed" \in DOMAIN data
      /\ UNCHANGED <<feed_type, msg, objects, calls>>
  BY <1>1, MarketThread DEF Receive, HoldInv, PathTypes
<1>3. /\ Undispatched = {} /\ Undecoded = {} /\ InUse = {} /\ ~ HasMsg("feed")
  BY <1>2 DEF Undispatched, Undecoded, InUse, Holds, HasMsg
<1>4. /\ CallsMade /\ BuffersLeft /\ ObjectsLeft
  BY DEF MarketInv
<1>5. /\ Len(received') = n /\ received'[n] = e
      /\ \A i \in 1 .. Len(received) : received'[i] = received[i]
  BY <1>1, ReceivedGrows
<1>6. /\ n \notin Delivered /\ n \notin LeftBehind
      /\ n \notin Unused /\ n \notin Thrown
  BY LedgersHold, MarketThread
<1> HIDE DEF n
<1>7. CASE Forwarded(e)
  <2>1. PICK text : Carries(text, e) /\ Alloc("feed", text, RouteId(e), "")
    BY <1>1, <1>7
  <2>2. /\ pc'["feed"] = "route" /\ buffers' = buffers \cup {n}
        /\ data'["feed"].line = n /\ data'["feed"].symbolid = RouteId(e)
    BY <1>2, <2>1 DEF Alloc, lob_data_t, n
  <2>3. /\ Undispatched' = {n} /\ Undecoded' = {n} /\ InUse' = {n} /\ ~ HasMsg("feed")'
    BY <1>5, <2>2 DEF Undispatched, Undecoded, InUse, Holds, HasMsg
  <2>4. LineInHand'
    BY <1>2, <1>5, <1>7, <2>2, <2>3 DEF LineInHand, Holds, Forwarded
  <2>5. /\ Delivered' \ {n} = Delivered /\ LeftBehind' \cup {n} = LeftBehind \cup {n}
        /\ Unused' \ {n} = Unused /\ Thrown' \ {n} = Thrown
    BY <1>1, <1>6, LedgersGrow DEF n
  <2>6. CallsMade'
    BY <1>2, <1>3, <1>4, <1>5, <2>3, <2>5, CallsStay
  <2>7. BuffersLeft'
    BY <1>3, <1>4, <2>2, <2>3, <2>5 DEF BuffersLeft
  <2>8. ObjectsLeft'
    <3>1. Unused' \ Undecoded' = Unused \ Undecoded /\ Thrown' \ Undecoded' = Thrown \ Undecoded
      BY <1>3, <2>3, <2>5
    <3> QED
      BY <1>2, <1>3, <1>4, <2>3, <3>1 DEF ObjectsLeft
  <2> QED
    BY <2>4, <2>6, <2>7, <2>8 DEF MarketInv
<1>8. CASE ~ Forwarded(e)
  <2>1. UNCHANGED <<pc, data, buffers>>
    BY <1>1, <1>8 DEF Skip
  <2>2. /\ Undispatched' = {} /\ Undecoded' = {} /\ InUse' = {} /\ ~ HasMsg("feed")'
        /\ ~ Holds("feed")'
    BY <1>2, <2>1 DEF Undispatched, Undecoded, InUse, Holds, HasMsg
  <2>3. LineInHand'
    BY <2>2 DEF LineInHand
  <2>4. ~ Deliverable(e) /\ ~ UnusedTrade(e) /\ ~ Threw(e)
    BY <1>8 DEF Deliverable, UnusedTrade, Threw
  <2>5. /\ Delivered' = Delivered /\ LeftBehind' = LeftBehind
        /\ Unused' = Unused /\ Thrown' = Thrown
    BY <1>1, <1>8, <2>4, LedgersGrow
  <2>6. CallsMade'
    BY <1>2, <1>3, <1>4, <1>5, <2>2, <2>5, CallsStay
  <2>7. BuffersLeft'
    BY <1>3, <1>4, <2>1, <2>2, <2>5 DEF BuffersLeft
  <2>8. ObjectsLeft'
    <3>1. Unused' \ Undecoded' = Unused \ Undecoded /\ Thrown' \ Undecoded' = Thrown \ Undecoded
      BY <1>3, <2>2, <2>5
    <3> QED
      BY <1>2, <1>3, <1>4, <2>2, <3>1 DEF ObjectsLeft
  <2> QED
    BY <2>3, <2>6, <2>7, <2>8 DEF MarketInv
<1> QED
  BY <1>7, <1>8

\* A step of the thread that changes nobody's hands.
LEMMA MarketMove ==
  ASSUME HoldInv, MarketInv, MarketFeed,
         UNCHANGED <<feed_type, received, data, msg, buffers, objects, calls>>,
         UNCHANGED <<Undispatched, Undecoded>>,
         Holds("feed")' <=> Holds("feed"), HasMsg("feed")' <=> HasMsg("feed"),
         Holds("feed")' /\ pc'["feed"] # "route" =>
           Routed(RouteId(received[Len(received)]))
  PROVE  MarketInv'
<1>1. UNCHANGED <<Delivered, LeftBehind, Unused, Thrown, InUse>>
  BY LedgersStay DEF InUse
<1>2. LineInHand /\ CallsMade /\ BuffersLeft /\ ObjectsLeft
  BY DEF MarketInv
<1>3. LineInHand'
  BY <1>2 DEF LineInHand, Forwarded
<1>4. CallsMade'
  BY <1>1, <1>2, CallsStay
<1>5. BuffersLeft' /\ ObjectsLeft'
  BY <1>1, <1>2 DEF BuffersLeft, ObjectsLeft
<1> QED
  BY <1>3, <1>4, <1>5 DEF MarketInv

LEMMA MarketRouteKeeps ==
  ASSUME HoldInv, MarketInv, MarketFeed, onFeedRawData("feed")
  PROVE  MarketInv'
<1> DEFINE n == Len(received)
           e == received[n]
<1>1. /\ pc["feed"] = "route" /\ "feed" \in DOMAIN pc
      /\ UNCHANGED <<feed_type, received, data, msg, buffers, objects, calls>>
      /\ pc' = [pc EXCEPT !["feed"] =
                  IF Routed(data["feed"].symbolid) THEN "decode" ELSE "poll"]
  BY MarketThread DEF onFeedRawData
<1>2. /\ Holds("feed") /\ ~ HasMsg("feed") /\ Undispatched = {n} /\ Undecoded = {n}
      /\ InUse = {n}
  BY <1>1 DEF Holds, HasMsg, Undispatched, Undecoded, InUse
<1>3. LineInHand /\ CallsMade /\ BuffersLeft /\ ObjectsLeft
  BY DEF MarketInv
<1>4. data["feed"].symbolid = RouteId(e) /\ Forwarded(e) /\ n \in 1 .. n
  BY <1>2, <1>3, MarketThread DEF LineInHand
<1>5. CASE Routed(RouteId(e))
  <2>1. pc'["feed"] = "decode"
    BY <1>1, <1>4, <1>5
  <2>2. /\ UNCHANGED <<Undispatched, Undecoded>> /\ Holds("feed")' /\ ~ HasMsg("feed")'
    BY <1>1, <1>2, <2>1 DEF Undispatched, Undecoded, Holds, HasMsg
  <2> QED
    BY <1>1, <1>2, <1>5, <2>2, MarketMove
<1>6. CASE ~ Routed(RouteId(e))
  <2>1. pc'["feed"] = "poll"
    BY <1>1, <1>4, <1>6
  <2>2. /\ Undispatched' = {} /\ Undecoded' = {} /\ InUse' = {}
        /\ ~ Holds("feed")' /\ ~ HasMsg("feed")'
    BY <2>1 DEF Undispatched, Undecoded, InUse, Holds, HasMsg
  <2>3. ~ Deliverable(e) /\ ~ UnusedTrade(e) /\ ~ Threw(e)
    BY <1>6 DEF Deliverable, UnusedTrade, Threw
  <2>4. /\ n \notin Delivered /\ n \in LeftBehind /\ n \notin Unused /\ n \notin Thrown
    BY <1>4, <1>6, <2>3, LedgersHold
  <2>5. UNCHANGED <<Delivered, LeftBehind, Unused, Thrown>>
    BY <1>1, LedgersStay
  <2> HIDE DEF n
  <2>6. /\ Delivered' \ Undispatched' = Delivered \ Undispatched
        /\ LeftBehind' \cup InUse' = LeftBehind \cup InUse
        /\ Unused' \ Undecoded' = Unused \ Undecoded
        /\ Thrown' \ Undecoded' = Thrown \ Undecoded
    BY <1>2, <2>2, <2>4, <2>5
  <2>7. CallsMade'
    BY <1>1, <1>3, <2>6, CallsStay
  <2>8. BuffersLeft' /\ ObjectsLeft' /\ LineInHand'
    BY <1>1, <1>2, <1>3, <2>2, <2>6 DEF BuffersLeft, ObjectsLeft, LineInHand
  <2> QED
    BY <2>7, <2>8 DEF MarketInv
<1> QED
  BY <1>5, <1>6

\* How many elements a set has with one that was kept out of it.
LEMMA CountLast ==
  ASSUME NEW S, IsFiniteSet(S), NEW n
  PROVE  /\ Cardinality(S \ {n}) \in Nat
         /\ Cardinality(S) = Cardinality(S \ {n}) + (IF n \in S THEN 1 ELSE 0)
<1> DEFINE R == S \ {n}
<1>1. IsFiniteSet(R)
  <2>1. R \in SUBSET S
    OBVIOUS
  <2> QED
    BY <2>1, FS_Subset
<1>2. Cardinality(R) \in Nat
  BY <1>1, FS_CardinalityType
<1>3. Cardinality(R \cup {n}) = Cardinality(R) + 1
  BY <1>1, FS_AddElement
<1>4. n \in S => S = R \cup {n}
  OBVIOUS
<1>5. n \notin S => S = R
  OBVIOUS
<1> HIDE DEF R
<1>6. Cardinality(S) = Cardinality(R) + (IF n \in S THEN 1 ELSE 0)
  <2>1. CASE n \in S
    BY <1>3, <1>4, <2>1
  <2>2. CASE n \notin S
    BY <1>2, <1>5, <2>2
  <2> QED
    BY <2>1, <2>2
<1> QED
  BY <1>2, <1>6 DEF R

LEMMA MarketDecodeCounts ==
  ASSUME HoldInv, MarketInv, MarketFeed, ZmqDecode("feed") \/ RedisDecode("feed")
  PROVE  MarketInv'
<1> DEFINE n == Len(received)
           e == received[n]
           text == data["feed"].text
           whole == Reported(e) /\ e.bad = -1
<1>1. /\ pc["feed"] = "decode" /\ "feed" \in DOMAIN pc
      /\ UNCHANGED <<feed_type, received, data, buffers, calls>>
      /\ msg' = [msg EXCEPT !["feed"] = decode(text)]
      /\ pc' = [pc EXCEPT !["feed"] = IF decode(text) = {} THEN "free" ELSE "dispatch"]
      /\ objects' = objects + Created(text)
  BY MarketThread DEF ZmqDecode, RedisDecode, tonglianDecode, Decoded
<1>2. /\ Holds("feed") /\ ~ HasMsg("feed") /\ Undispatched = {n} /\ Undecoded = {n}
      /\ InUse = {n}
  BY <1>1 DEF Holds, HasMsg, Undispatched, Undecoded, InUse
<1>3. LineInHand /\ CallsMade /\ BuffersLeft /\ ObjectsLeft
  BY DEF MarketInv
<1>4. /\ Forwarded(e) /\ n \in 1 .. n /\ Routed(RouteId(e))
      /\ data["feed"].line = n /\ data["feed"].symbolid = RouteId(e)
  BY <1>1, <1>2, <1>3, MarketThread DEF LineInHand
<1>5. DecodedRight(text, e)
  BY <1>1, <1>4, MarketThread, MarketDecodes
<1>6. /\ n \in Delivered => whole
      /\ n \in Unused <=> e.mdl = "mdl_6_36"
      /\ n \in Thrown <=> Reported(e) /\ e.bad # -1
  BY <1>4, LedgersHold DEF Deliverable, UnusedTrade, Threw
<1>7. UNCHANGED <<Delivered, LeftBehind, Unused, Thrown>>
  BY <1>1, LedgersStay
<1>8. "feed" \in DOMAIN msg
  BY MarketThread DEF HoldInv, PathTypes
<1>9. /\ IF whole THEN pc'["feed"] = "dispatch" ELSE pc'["feed"] = "free"
      /\ msg'["feed"] = decode(text)
      /\ whole => \E m : decode(text) = {m} /\ MessageOf(m, e)
      /\ ~ whole => decode(text) = {}
  BY <1>1, <1>5, <1>8 DEF DecodedRight
<1>10. /\ Holds("feed")' /\ InUse' = {n} /\ Undecoded' = {}
       /\ HasMsg("feed")' <=> whole
       /\ Undispatched' = IF whole THEN {n} ELSE {}
  BY <1>1, <1>9 DEF Holds, HasMsg, InUse, Undecoded, Undispatched
<1>11. LineInHand'
  <2>1. \A m \in msg'["feed"] : MessageOf(m, e)
    BY <1>9
  <2>2. Forwarded(e)'
    BY <1>1, <1>4 DEF Forwarded
  <2> QED
    BY <1>1, <1>4, <1>10, <2>1, <2>2 DEF LineInHand
<1>12. CallsMade'
  <2>1. Delivered' \ Undispatched' = Delivered \ Undispatched
    BY <1>2, <1>6, <1>7, <1>10
  <2> QED
    BY <1>1, <1>3, <2>1, CallsStay
<1>13. BuffersLeft'
  BY <1>1, <1>2, <1>3, <1>7, <1>10 DEF BuffersLeft
<1>14. ObjectsLeft'
  <2> DEFINE U == Cardinality(Unused \ {n})
             T == Cardinality(Thrown \ {n})
  <2>1. /\ U \in Nat /\ T \in Nat
        /\ Cardinality(Unused) = U + (IF n \in Unused THEN 1 ELSE 0)
        /\ Cardinality(Thrown) = T + (IF n \in Thrown THEN 1 ELSE 0)
    BY LedgersHold, CountLast
  <2>2. objects = U + T
    BY <1>2, <1>3, <2>1 DEF ObjectsLeft
  <2>3. Unused' \ Undecoded' = Unused /\ Thrown' \ Undecoded' = Thrown
    BY <1>7, <1>10
  <2>4. Created(text) = (IF n \in Unused THEN 1 ELSE 0) + (IF n \in Thrown THEN 1 ELSE 0)
                          + (IF whole THEN 1 ELSE 0)
    <3>1. e.mdl = "mdl_6_36" => Reported(e)
      BY DEF Reported
    <3> QED
      BY <1>5, <1>6, <3>1 DEF DecodedRight
  <2> HIDE DEF U, T
  <2> QED
    BY <1>1, <1>10, <2>1, <2>2, <2>3, <2>4 DEF ObjectsLeft
<1> QED
  BY <1>11, <1>12, <1>13, <1>14 DEF MarketInv

\* The call of a handler for the last line: all calls before were for lines
\* before it.
LEMMA CallAdded ==
  ASSUME HoldInv, CallsMade, UNCHANGED <<feed_type, received>>,
         NEW call \in Call, calls' = Append(calls, call),
         call.line = Len(received), Len(received) \in Delivered,
         CallOf(call, received[Len(received)]),
         Undispatched = {Len(received)}, Undispatched' = {}
  PROVE  CallsMade'
<1> DEFINE n == Len(received)
           k == Len(calls) + 1
<1>1. calls \in Seq(Call)
  BY DEF HoldInv, PathTypes
<1>2. /\ DOMAIN calls = 1 .. Len(calls) /\ Len(calls) \in Nat
      /\ DOMAIN calls' = DOMAIN calls \cup {k} /\ calls'[k] = call
      /\ \A i \in DOMAIN calls : calls'[i] = calls[i]
  BY <1>1
<1>3. Delivered \subseteq 1 .. n /\ n \in Nat
  BY LedgersHold DEF HoldInv, PathTypes
<1>4. Delivered' = Delivered
  BY LedgersStay
<1>5. /\ {calls[i].line : i \in DOMAIN calls} = Delivered \ {n}
      /\ \A i, j \in DOMAIN calls : i < j => calls[i].line < calls[j].line
      /\ \A i \in DOMAIN calls : CallOf(calls[i], received[calls[i].line])
  BY DEF CallsMade
<1>6. \A i \in DOMAIN calls : calls[i].line \in Nat /\ calls[i].line < n
  <2>1. \A i \in DOMAIN calls : calls[i].line \in 1 .. n /\ calls[i].line # n
    BY <1>3, <1>5
  <2> QED
    BY <1>3, <2>1
<1>7. {calls'[i].line : i \in DOMAIN calls'} = Delivered
  <2>1. {calls'[i].line : i \in DOMAIN calls'} =
          {calls[i].line : i \in DOMAIN calls} \cup {n}
    <3> HIDE DEF n, k
    <3> QED
      BY <1>2 DEF n
  <2> QED
    BY <1>5, <2>1
<1>8. ASSUME NEW i \in DOMAIN calls', NEW j \in DOMAIN calls', i < j
      PROVE  calls'[i].line < calls'[j].line
  <2>1. CASE j \in DOMAIN calls
    BY <1>2, <1>5, <1>8, <2>1
  <2>2. CASE j = k
    <3>1. i \in DOMAIN calls
      BY <1>2, <1>8, <2>2
    <3> QED
      BY <1>2, <1>6, <2>2, <3>1
  <2> QED
    BY <1>2, <2>1, <2>2
<1>9. \A i \in DOMAIN calls' : CallOf(calls'[i], received[calls'[i].line])
  <2> HIDE DEF k
  <2> QED
    BY <1>2, <1>5 DEF n
<1>10. \A i \in DOMAIN calls' : CallOf(calls'[i], received'[calls'[i].line])
  BY <1>9
<1>11. {calls'[i].line : i \in DOMAIN calls'} = Delivered' \ Undispatched'
  BY <1>4, <1>7
<1>12. \A i, j \in DOMAIN calls' : i < j => calls'[i].line < calls'[j].line
  BY <1>8
<1> QED
  BY <1>10, <1>11, <1>12 DEF CallsMade

LEMMA MarketMessageKeeps ==
  ASSUME HoldInv, HoldInv', MarketInv, MarketFeed, onMessage("feed")
  PROVE  MarketInv'
<1> DEFINE n == Len(received)
           e == received[n]
<1>1. PICK m \in msg["feed"] : \E h \in HandlersOf(m) :
        /\ pc["feed"] = "dispatch"
        /\ IF h = "none"
           THEN pc' = [pc EXCEPT !["feed"] = "delete"] /\ UNCHANGED calls
           ELSE /\ pc' = [pc EXCEPT !["feed"] = "handler"]
                /\ calls' = Append(calls, [handler |-> h, symbolid |-> m.head.SecurityID,
                                           line |-> data["feed"].line, thread |-> "feed"])
        /\ UNCHANGED <<feed_type, received, data, msg, buffers, objects>>
  BY DEF onMessage
<1>2. PICK h \in HandlersOf(m) :
        /\ pc["feed"] = "dispatch"
        /\ IF h = "none"
           THEN pc' = [pc EXCEPT !["feed"] = "delete"] /\ UNCHANGED calls
           ELSE /\ pc' = [pc EXCEPT !["feed"] = "handler"]
                /\ calls' = Append(calls, [handler |-> h, symbolid |-> m.head.SecurityID,
                                           line |-> data["feed"].line, thread |-> "feed"])
        /\ UNCHANGED <<feed_type, received, data, msg, buffers, objects>>
  BY <1>1
<1> DEFINE call == [handler |-> h, symbolid |-> m.head.SecurityID,
                    line |-> data["feed"].line, thread |-> "feed"]
<1>3. /\ "feed" \in DOMAIN pc /\ Holds("feed") /\ HasMsg("feed")
      /\ Undispatched = {n} /\ Undecoded = {} /\ InUse = {n}
  BY <1>2, MarketThread DEF Holds, HasMsg, Undispatched, Undecoded, InUse
<1>4. LineInHand /\ CallsMade /\ BuffersLeft /\ ObjectsLeft
  BY DEF MarketInv
<1>5. /\ n \in 1 .. n /\ data["feed"].line = n
      /\ Forwarded(e) /\ Routed(RouteId(e)) /\ Reported(e) /\ e.bad = -1
      /\ MessageOf(m, e)
  BY <1>2, <1>3, <1>4, MarketThread DEF LineInHand
<1>6. n \in Delivered <=> e.SecurityID \in symbol_list
  BY <1>5, LedgersHold DEF Deliverable
<1>7. /\ h = (IF e.SecurityID \in symbol_list THEN HandlerOf(e) ELSE "none")
      /\ m.head.SecurityID = e.SecurityID
  BY <1>5 DEF MessageOf
<1>8. HandlerOf(e) # "none"
  BY DEF HandlerOf
<1>9. UNCHANGED <<Delivered, LeftBehind, Unused, Thrown>>
  BY <1>2, LedgersStay
<1>10. pc'["feed"] \in {"handler", "delete"}
  BY <1>2, <1>3
<1>11. /\ Undispatched' = {} /\ Undecoded' = {} /\ InUse' = {n}
       /\ Holds("feed")' /\ HasMsg("feed")'
  BY <1>2, <1>10 DEF Holds, HasMsg, Undispatched, Undecoded, InUse
<1>12. CallsMade'
  <2>1. CASE h = "none"
    <3>1. n \notin Delivered
      BY <1>6, <1>7, <1>8, <2>1
    <3>2. Delivered' \ Undispatched' = Delivered \ Undispatched
      <4> HIDE DEF n
      <4> QED
        BY <1>3, <1>9, <1>11, <3>1
    <3> QED
      BY <1>2, <1>4, <2>1, <3>2, CallsStay
  <2>2. CASE h # "none"
    <3>1. n \in Delivered /\ h = HandlerOf(e)
      BY <1>6, <1>7, <2>2
    <3>2. calls' = Append(calls, call)
      BY <1>2, <2>2
    <3>3. call.line = n /\ CallOf(call, e)
      BY <1>5, <1>7, <3>1 DEF CallOf
    <3>4. call \in Call
      <4>1. m.head.SecurityID \in Nat
        BY MarketThread DEF HoldInv, PathTypes, MessageOfFeed, OrderMessage,
           TradeMessage, Message, UnfilledOrder
      <4>2. h \in {"onOrderSH", "onOrderSZ", "onTradeSH", "onTradeSZ"}
        BY <3>1 DEF HandlerOf
      <4>3. "feed" \in Threads /\ n \in Nat
        BY MarketThread
      <4> QED
        BY <1>5, <4>1, <4>2, <4>3 DEF Call
    <3> HIDE DEF call, n
    <3> QED
      BY <1>2, <1>3, <1>4, <1>11, <3>1, <3>2, <3>3, <3>4, CallAdded DEF n
  <2> QED
    BY <2>1, <2>2
<1>13. LineInHand'
  BY <1>2, <1>3, <1>4, <1>5, <1>11 DEF LineInHand, Forwarded
<1>14. BuffersLeft' /\ ObjectsLeft'
  BY <1>2, <1>3, <1>4, <1>9, <1>11 DEF BuffersLeft, ObjectsLeft
<1> QED
  BY <1>12, <1>13, <1>14 DEF MarketInv

LEMMA MarketDeleteKeeps ==
  ASSUME HoldInv, MarketInv, MarketFeed, Delete("feed")
  PROVE  MarketInv'
<1>1. /\ pc["feed"] = "delete" /\ pc'["feed"] = "free" /\ objects' = objects - 1
      /\ UNCHANGED <<feed_type, received, data, buffers, calls>>
  BY MarketThread DEF Delete
<1>2. /\ Holds("feed") /\ HasMsg("feed") /\ Holds("feed")' /\ ~ HasMsg("feed")'
      /\ Undispatched = {} /\ Undecoded = {} /\ Undispatched' = {} /\ Undecoded' = {}
      /\ InUse' = InUse
  BY <1>1 DEF Holds, HasMsg, Undispatched, Undecoded, InUse
<1>3. LineInHand /\ CallsMade /\ BuffersLeft /\ ObjectsLeft
  BY DEF MarketInv
<1>4. UNCHANGED <<Delivered, LeftBehind, Unused, Thrown>>
  BY <1>1, LedgersStay
<1>5. LineInHand'
  BY <1>1, <1>2, <1>3 DEF LineInHand, Forwarded
<1>6. CallsMade'
  BY <1>1, <1>2, <1>3, <1>4, CallsStay
<1>7. BuffersLeft'
  BY <1>1, <1>2, <1>3, <1>4 DEF BuffersLeft
<1>8. ObjectsLeft'
  <2>1. /\ Cardinality(Unused \ Undecoded) \in Nat
        /\ Cardinality(Thrown \ Undecoded) \in Nat
    <3>1. Unused \ Undecoded = Unused /\ Thrown \ Undecoded = Thrown
      BY <1>2
    <3> QED
      BY <3>1, LedgersHold, FS_CardinalityType
  <2> QED
    BY <1>1, <1>2, <1>3, <1>4, <2>1 DEF ObjectsLeft
<1> QED
  BY <1>5, <1>6, <1>7, <1>8 DEF MarketInv

LEMMA MarketFreeKeeps ==
  ASSUME HoldInv, MarketInv, MarketFeed, Free("feed")
  PROVE  MarketInv'
<1> DEFINE n == Len(received)
<1>1. /\ pc["feed"] = "free" /\ pc'["feed"] = "poll"
      /\ buffers' = buffers \ {data["feed"].line}
      /\ UNCHANGED <<feed_type, received, data, msg, objects, calls>>
  BY MarketThread DEF Free
<1>2. /\ Holds("feed") /\ ~ HasMsg("feed") /\ ~ Holds("feed")' /\ ~ HasMsg("feed")'
      /\ Undispatched = {} /\ Undecoded = {} /\ Undispatched' = {} /\ Undecoded' = {}
      /\ InUse = {n} /\ InUse' = {}
  BY <1>1 DEF Holds, HasMsg, Undispatched, Undecoded, InUse
<1>3. LineInHand /\ CallsMade /\ BuffersLeft /\ ObjectsLeft
  BY DEF MarketInv
<1>4. UNCHANGED <<Delivered, LeftBehind, Unused, Thrown>>
  BY <1>1, LedgersStay
<1>5. LineInHand'
  BY <1>2 DEF LineInHand
<1>6. CallsMade'
  BY <1>1, <1>2, <1>3, <1>4, CallsStay
<1>7. BuffersLeft'
  <2>1. data["feed"].line = n /\ Routed(RouteId(received[n])) /\ n \in 1 .. n
    BY <1>1, <1>2, <1>3, MarketThread DEF LineInHand
  <2>2. n \notin LeftBehind
    BY <2>1, LedgersHold
  <2> HIDE DEF n
  <2> QED
    BY <1>1, <1>2, <1>3, <1>4, <2>1, <2>2 DEF BuffersLeft
<1>8. ObjectsLeft'
  BY <1>1, <1>2, <1>3, <1>4 DEF ObjectsLeft
<1> QED
  BY <1>5, <1>6, <1>7, <1>8 DEF MarketInv

LEMMA MarketStep ==
  ASSUME HoldInv, HoldInv', MarketInv, MarketFeed, [Next]_pathVars
  PROVE  MarketInv'
<1>1. CASE Feeder
  BY <1>1, MarketReceiveKeeps
<1>2. ASSUME NEW t \in Threads, t = "feed", FeedStarts(t)
      PROVE  MarketInv'
  <2>1. /\ pc["feed"] = "start" /\ pc'["feed"] = "poll"
        /\ UNCHANGED <<feed_type, received, data, msg, buffers, objects, calls>>
    BY <1>2, MarketThread DEF FeedStarts, Start
  <2>2. /\ ~ Holds("feed") /\ ~ Holds("feed")' /\ ~ HasMsg("feed") /\ ~ HasMsg("feed")'
        /\ UNCHANGED <<Undispatched, Undecoded>>
    BY <2>1 DEF Holds, HasMsg, Undispatched, Undecoded
  <2> QED
    BY <2>1, <2>2, MarketMove
<1>3. ASSUME NEW t \in Threads, t = "feed", HandlerReturns(t)
      PROVE  MarketInv'
  <2>1. /\ pc["feed"] = "handler" /\ pc'["feed"] = "delete"
        /\ UNCHANGED <<feed_type, received, data, msg, buffers, objects, calls>>
    BY <1>3, MarketThread DEF HandlerReturns
  <2>2. /\ Holds("feed") /\ Holds("feed")' /\ HasMsg("feed") /\ HasMsg("feed")'
        /\ UNCHANGED <<Undispatched, Undecoded>>
    BY <2>1 DEF Holds, HasMsg, Undispatched, Undecoded
  <2>3. Routed(RouteId(received[Len(received)]))
    BY <2>1, <2>2 DEF MarketInv, LineInHand
  <2> QED
    BY <2>1, <2>2, <2>3, MarketMove
<1>4. ASSUME NEW t \in Threads, t = "feed", Worker(t)
      PROVE  MarketInv'
  <2>1. ~ CsvDecode(t) /\ ~ CsvDecodeThrows(t)
    BY MarketThread DEF CsvDecode, CsvDecodeThrows
  <2> QED
    BY <1>3, <1>4, <2>1, MarketDecodeCounts, MarketMessageKeeps, MarketDeleteKeeps,
       MarketFreeKeeps DEF Worker
<1>5. CASE UNCHANGED pathVars
  <2>1. /\ UNCHANGED <<feed_type, received, data, msg, buffers, objects, calls>>
        /\ pc' = pc
    BY <1>5 DEF pathVars
  <2>2. /\ Holds("feed")' <=> Holds("feed")
        /\ HasMsg("feed")' <=> HasMsg("feed")
        /\ UNCHANGED <<Undispatched, Undecoded>>
    BY <2>1 DEF Holds, HasMsg, Undispatched, Undecoded
  <2>3. Holds("feed") /\ pc["feed"] # "route" => Routed(RouteId(received[Len(received)]))
    BY DEF MarketInv, LineInHand
  <2> QED
    BY <2>1, <2>2, <2>3, MarketMove
<1> QED
  <2>1. \A t \in Threads : t = "feed" /\ ~ CsvFileMissing(t)
    BY MarketThread DEF CsvFileMissing
  <2> QED
    BY <1>1, <1>2, <1>4, <1>5, <2>1, MarketRouteKeeps DEF Next

LEMMA MarketHeld == Spec => []MarketInv
<1>1. Init => MarketInv
  BY MarketInit
<1>2. HoldInv /\ HoldInv' /\ MarketInv /\ [Next]_pathVars => MarketInv'
  <2> SUFFICES ASSUME HoldInv, HoldInv', MarketInv, [Next]_pathVars PROVE MarketInv'
    OBVIOUS
  <2>1. feed_type' = feed_type
    BY FeedStays
  <2>2. CASE MarketFeed
    BY <2>2, MarketStep
  <2>3. CASE ~ MarketFeed
    BY <2>1, <2>3 DEF MarketInv, MarketFeed
  <2> QED
    BY <2>2, <2>3
<1> QED
  BY <1>1, <1>2, Held, PTL DEF Spec

LEMMA MarketAtRest ==
  ASSUME HoldInv, MarketInv, MarketFeed, Idle
  PROVE  CallsMade /\ BuffersLeft /\ ObjectsLeft
         /\ Undispatched = {} /\ Undecoded = {} /\ InUse = {} /\ ~ HasMsg("feed")
  BY MarketThread DEF MarketInv, Idle, Undispatched, Undecoded, InUse, Holds, HasMsg

\* Behind ZMQ or Redis, every line of a listed symbol reaches its market's
\* handler of its kind, once and in the feed's order (HandledExactly).
THEOREM HandledExactlyCorrect == Spec => []HandledExactly
<1>1. HoldInv /\ MarketInv => HandledExactly
  <2> SUFFICES ASSUME HoldInv, MarketInv, MarketFeed, Idle
               PROVE  /\ {calls[i].line : i \in DOMAIN calls} =
                           {n \in DOMAIN received : Deliverable(received[n])}
                      /\ \A i, j \in DOMAIN calls : i < j => calls[i].line < calls[j].line
                      /\ \A i \in DOMAIN calls :
                           /\ calls[i].handler = HandlerOf(received[calls[i].line])
                           /\ calls[i].symbolid = received[calls[i].line].SecurityID
    BY Zenon DEF HandledExactly
  <2>1. CallsMade /\ Undispatched = {}
    BY MarketAtRest
  <2>2. \A n \in DOMAIN received : received[n] \in Events
    BY DEF HoldInv, PathTypes
  <2>3. Delivered = {n \in DOMAIN received : Deliverable(received[n])}
    BY <2>2 DEF Delivered, Lines
  <2> QED
    BY <2>1, <2>3 DEF CallsMade, CallOf
<1> QED
  BY <1>1, Held, MarketHeld, PTL

\* What stays allocated behind ZMQ or Redis when no line is in hand, and that
\* nothing is freed twice (LeaksExactly).
THEOREM LeaksExactlyCorrect == Spec => []LeaksExactly
<1>1. HoldInv /\ MarketInv => LeaksExactly
  <2> SUFFICES ASSUME HoldInv, MarketInv, MarketFeed, Idle
               PROVE  /\ buffers = {n \in DOMAIN received :
                           Forwarded(received[n]) /\ ~ Routed(RouteId(received[n]))}
                      /\ objects =
                           Cardinality({n \in DOMAIN received : UnusedTrade(received[n])})
                             + Cardinality({n \in DOMAIN received : Threw(received[n])})
    BY Zenon DEF LeaksExactly
  <2>1. /\ BuffersLeft /\ ObjectsLeft /\ Undecoded = {} /\ InUse = {}
        /\ ~ HasMsg("feed")
    BY MarketAtRest
  <2>2. \A n \in DOMAIN received : received[n] \in Events
    BY DEF HoldInv, PathTypes
  <2>3. /\ LeftBehind = {n \in DOMAIN received :
              Forwarded(received[n]) /\ ~ Routed(RouteId(received[n]))}
        /\ Unused = {n \in DOMAIN received : UnusedTrade(received[n])}
        /\ Thrown = {n \in DOMAIN received : Threw(received[n])}
    BY <2>2 DEF LeftBehind, Unused, Thrown, Lines
  <2>4. Unused \ Undecoded = Unused /\ Thrown \ Undecoded = Thrown
    BY <2>1
  <2>5. Cardinality(Unused) \in Nat /\ Cardinality(Thrown) \in Nat
    BY LedgersHold, FS_CardinalityType
  <2>6. buffers = LeftBehind /\ objects = Cardinality(Unused) + Cardinality(Thrown)
    BY <2>1, <2>4, <2>5 DEF BuffersLeft, ObjectsLeft
  <2> QED
    BY <2>3, <2>6
<1> QED
  BY <1>1, Held, MarketHeld, PTL
=============================================================================
