----------------------------- MODULE MdlDecoder -----------------------------
(***************************************************************************)
(* From a line of text to a message (strutils.h, the decode functions).  A *)
(* text is what its commas separate, and whether blanks follow the last    *)
(* field; the last field of a ZMQ line names the kind of the line.  What   *)
(* the standard library reads from a field is given by two functions: a    *)
(* field outside the domain makes it throw.  The arithmetic of prices is   *)
(* in PriceCodec.                                                          *)
(***************************************************************************)
EXTENDS Messages, SequencesExt

CONSTANTS
  Number,  \* text |-> the integer std::stol and its like read from it
  Cents,   \* text |-> a hundred times what std::stof reads, truncated
  Char     \* code |-> the character with that code

\* Column i as the decoders count, from 0.
Col(ss, i) == ss[i + 1]

trim(text) == [text EXCEPT !.blank = FALSE]

WithBlanks(field) == field \o " "

\* std::getline finds no field after a comma that ends the text, and none at
\* all in an empty text.
splitString(text) ==
  LET last == IF text.blank THEN WithBlanks(Last(text.fields)) ELSE Last(text.fields)
  IN  IF last = "" THEN Front(text.fields) ELSE Append(Front(text.fields), last)

Converts(ss, numbers, prices) ==
  /\ \A i \in numbers : Col(ss, i) \in DOMAIN Number
  /\ \A i \in prices : Col(ss, i) \in DOMAIN Cents

-----------------------------------------------------------------------------
\* A decoder's result is the set of the one message it returns; it is empty for
\* a line of another kind and when a conversion throws.
HeadSH(ss, type) ==
  [MsgType |-> type, SecurityIDSource |-> "SH", SecurityID |-> Number[Col(ss, 2)],
   ChannelNo |-> uint16(Number[Col(ss, 1)]), ApplSeqNum |-> Number[Col(ss, 0)]]

\* NoColumns if the seller's orders were forgotten.
NoColumnsBuyer(ss) == IF Col(ss, 10) = "B" THEN {5} ELSE {}

\* The column of the order's number: the buyer's or the seller's, by the flag.
NoColumns(ss) ==
  IF Col(ss, 10) = "B" THEN {5} ELSE IF Col(ss, 10) = "S" THEN {6} ELSE {}

OrderSH(ss) ==
  LET cols == NoColumns(ss)
  IN  IF Converts(ss, {0, 1, 2, 8} \cup cols, {7})
      THEN {[head |-> HeadSH(ss, "Order"),
             body |-> [OrdType |-> Col(ss, 4),
                       Side    |-> IF cols = {} THEN Unset ELSE Col(ss, 10),
                       OrderNo |-> IF cols = {} THEN Unset
                                   ELSE Number[Col(ss, CHOOSE i \in cols : TRUE)],
                       Price   |-> Cents[Col(ss, 7)],
                       OrderQty |-> Number[Col(ss, 8)]]]}
      ELSE {}

TradeSH(ss) ==
  IF Converts(ss, {0, 1, 2, 5, 6, 8}, {7, 9})
  THEN {[head |-> HeadSH(ss, "Trade"),
         body |-> [TradeBuyNo  |-> Number[Col(ss, 5)],
                   TradeSellNo |-> Number[Col(ss, 6)],
                   LastPx |-> Cents[Col(ss, 7)], LastQty |-> Number[Col(ss, 8)],
                   TradeBSFlag |-> Col(ss, 10)]]}
  ELSE {}

\* A product's status, type 'S', is neither an order nor a trade.
decodeSH(ss) ==
  CASE Col(ss, 4) \in {"A", "D"} -> OrderSH(ss)
    [] Col(ss, 4) = "T"          -> TradeSH(ss)
    [] OTHER                     -> {}

HeadSZ(ss, type, id) ==
  [MsgType |-> type, SecurityIDSource |-> "SZ", SecurityID |-> id,
   ChannelNo |-> uint16(Number[Col(ss, 0)]), ApplSeqNum |-> Number[Col(ss, 1)]]

OrderSZ(ss) ==
  IF Converts(ss, {0, 1, 3, 6, 7, 8, 9}, {5})
  THEN {[head |-> HeadSZ(ss, "Order", Number[Col(ss, 3)]),
         body |-> [OrderNo |-> Number[Col(ss, 1)], Price |-> Cents[Col(ss, 5)],
                   OrderQty |-> Number[Col(ss, 6)],
                   Side |-> Char[Number[Col(ss, 7)]],
                   OrdType |-> Char[Number[Col(ss, 9)]]]]}
  ELSE {}

\* TradeSZ if it took the symbol from the column the feeders route by.
TradeSZRouted(ss) ==
  IF Converts(ss, {0, 1, 3, 4, 5, 8, 9, 10}, {7})
  THEN {[head |-> HeadSZ(ss, "Trade", Number[Col(ss, 3)]),
         body |-> [BidApplSeqNum   |-> Number[Col(ss, 3)],
                   OfferApplSeqNum |-> Number[Col(ss, 4)],
                   LastPx |-> Cents[Col(ss, 7)], LastQty |-> Number[Col(ss, 8)],
                   ExecType |-> Char[Number[Col(ss, 9)]]]]}
  ELSE {}

TradeSZ(ss) ==
  IF Converts(ss, {0, 1, 3, 4, 5, 8, 9, 10}, {7})
  THEN {[head |-> HeadSZ(ss, "Trade", Number[Col(ss, 5)]),
         body |-> [BidApplSeqNum   |-> Number[Col(ss, 3)],
                   OfferApplSeqNum |-> Number[Col(ss, 4)],
                   LastPx |-> Cents[Col(ss, 7)], LastQty |-> Number[Col(ss, 8)],
                   ExecType |-> Char[Number[Col(ss, 9)]]]]}
  ELSE {}

\* decode sets two fields of decodeSZ's message once more, and swaps them.
Swapped(ss, m) ==
  [m EXCEPT !.head = [@ EXCEPT !.ChannelNo = uint16(Number[Col(ss, 1)]),
                               !.ApplSeqNum = Number[Col(ss, 0)]]]

Kind(ss) == IF ss = <<>> THEN "" ELSE Last(ss)

decode(text) ==
  LET ss == splitString(text)
  IN  CASE Kind(ss) = "mdl_4_24" -> decodeSH(ss)
        [] Kind(ss) = "mdl_6_33" -> {Swapped(ss, m) : m \in OrderSZ(ss)}
        [] Kind(ss) = "mdl_6_36" -> {Swapped(ss, m) : m \in TradeSZ(ss)}
        [] OTHER                 -> {}

\* How many messages decode creates, the ones it does not return included: for
\* each mdl 6.36 one that is never used, and one that is lost when a conversion
\* throws.
Created(text) ==
  LET ss == splitString(text)
  IN  CASE Kind(ss) = "mdl_4_24" ->
             IF Col(ss, 4) \in {"A", "D", "T"} THEN 1 ELSE 0
        [] Kind(ss) = "mdl_6_33" -> 1
        [] Kind(ss) = "mdl_6_36" -> 2
        [] OTHER                 -> 0

\* The Redis feeder's decoder is the base class's; it differs in what it logs.
tonglianDecode(text) == decode(text)

\* csvDecode if it made a message of a trade's line as well.
csvDecodeTrades(data) ==
  LET ss == splitString(data.text)
  IN  IF Converts(ss, {3}, {})
      THEN {[head |-> [MsgType |-> "Order", SecurityIDSource |-> Unset,
                       SecurityID |-> Number[Col(ss, 3)],
                       ChannelNo |-> Unset, ApplSeqNum |-> Unset],
             body |-> Unset]}
      ELSE {}

\* csvDecode if it took the symbol the line was routed by.
csvDecodeRouted(data) ==
  IF data.user = "order"
  THEN {[head |-> [MsgType |-> "Order", SecurityIDSource |-> Unset,
                   SecurityID |-> data.symbolid,
                   ChannelNo |-> Unset, ApplSeqNum |-> Unset],
         body |-> Unset]}
  ELSE {}

\* The CSV decoder: of an order's line the symbol alone; nothing of a trade's.
csvDecode(data) ==
  IF data.user = "order"
  THEN LET ss == splitString(data.text)
       IN  {[head |-> [MsgType |-> "Order", SecurityIDSource |-> Unset,
                       SecurityID |-> Number[Col(ss, 3)],
                       ChannelNo |-> Unset, ApplSeqNum |-> Unset],
             body |-> Unset]}
  ELSE {}
=============================================================================
