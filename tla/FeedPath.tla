------------------------------ MODULE FeedPath ------------------------------
(***************************************************************************)
(* The way of a line from the market data to a handler, for all symbols    *)
(* of both markets.  A feeder's thread receives a line, copies it into a   *)
(* buffer, with the symbol id it is to be routed by, and calls             *)
(* onFeedRawData, which picks a worker.  In the same thread, and without a *)
(* lock, the worker decodes the line and calls onMessage, which calls a    *)
(* handler; message and buffer are then deleted.  The CSV feeder has two   *)
(* threads, which read two files.                                          *)
(*                                                                         *)
(* What the exchanges and the line's publisher do is an event: the kind of *)
(* the line, its symbol, the number of the order (for a trade: of the      *)
(* buyer's), SH's flag of the side, whether blanks follow, and a column    *)
(* that is garbled, if any.                                                *)
(***************************************************************************)
EXTENDS Routing, MdlDecoder, FiniteSets

CONSTANTS
  symbol_list,  \* the symbols that have a book
  Events,       \* what the feeds can carry
  MaxLines      \* how many lines are received (bounds the instance)

ASSUME ListAssumption  == symbol_list \subseteq 0 .. lobnum - 1
ASSUME LinesAssumption == MaxLines \in Nat

VARIABLES
  feed_type,  \* "mdl_zmq", "mdl_redis" or "mdl_csv"
  received,   \* the events whose lines were received, in order (auxiliary)
  pc,         \* where each thread is
  data,       \* the buffer each thread has in hand
  msg,        \* the message each thread has in hand: a set of one or none
  buffers,    \* the buffers that are allocated, each named by its line
  objects,    \* how many messages are allocated
  calls,      \* the calls of handlers, in order (auxiliary)
  alive       \* the process has not been ended by an exception

pathVars == <<feed_type, received, pc, data, msg, buffers, objects, calls, alive>>

Threads == IF feed_type = "mdl_csv" THEN {"order", "trade"} ELSE {"feed"}

\* lob_data_t, and the line it was made from.
lob_data_t(text, symbolid, user) ==
  [text |-> text, symbolid |-> symbolid, user |-> user, line |-> Len(received) + 1]

NoData == [text |-> [fields |-> <<"">>, blank |-> FALSE], symbolid |-> 0,
           user |-> "", line |-> 0]

Init ==
  /\ feed_type \in {"mdl_zmq", "mdl_redis", "mdl_csv"}
  /\ received = <<>>
  /\ pc = [t \in Threads |-> "start"]
  /\ data = [t \in Threads |-> NoData]
  /\ msg = [t \in Threads |-> {}]
  /\ buffers = {} /\ objects = 0
  /\ calls = <<>>
  /\ alive = TRUE

-----------------------------------------------------------------------------
\* The lines of an event: a field for each column that is read.
SymbolText(e) == ToString(e.SecurityID)
NumberText(e) == ToString(e.no)

\* An order has a number on its own side alone, a trade on both.
SideText(e, side) == IF e.type = "T" \/ e.flag = side THEN NumberText(e) ELSE "0"

\* BizIndex, Channel, SecurityID, TickTime, Type, BuyOrderNO, SellOrderNO,
\* Price, Qty, TradeMoney, TickBSFlag, LocalTime, SeqNo
LineSH(e) == <<"7", "3", SymbolText(e), "9", e.type, SideText(e, "B"), SideText(e, "S"),
               "0.02", "1", "0.02", e.flag, "9", "7">>

\* Channel, ApplSeqNum, .., SecurityID, .., Price, Qty, Side, Time, OrdType
LineOrderSZ(e) == <<"4", "7", "11", SymbolText(e), "102", "0.02", "1", "49",
                    "9", "50", "9", "7">>

\* Channel, ApplSeqNum, .., BidApplSeqNum, OfferApplSeqNum, SecurityID, ..,
\* Price, Qty, ExecType, Time
LineTradeSZ(e) == <<"4", "7", "11", NumberText(e), "0", SymbolText(e), "102",
                    "0.02", "1", "70", "9", "9", "7">>

Whole(e) == CASE e.mdl = "mdl_4_24" -> LineSH(e)
              [] e.mdl = "mdl_6_33" -> LineOrderSZ(e)
              [] e.mdl = "mdl_6_36" -> LineTradeSZ(e)
              [] OTHER              -> <<"">>

Line(e) ==
  IF e.bad + 1 \in DOMAIN Whole(e) THEN [Whole(e) EXCEPT ![e.bad + 1] = "x"]
                                   ELSE Whole(e)

\* The columns of a line that are converted to numbers: one by the feeder, and all
\* by the decoder, unless the line is a product's status.
Converted(e) ==
  CASE e.mdl = "mdl_4_24" -> {0, 1, 2, 7, 8} \cup (IF e.type = "T"   THEN {5, 6, 9}
                                             ELSE IF e.flag = "S" THEN {6} ELSE {5})
    [] e.mdl = "mdl_6_33" -> {0, 1, 3, 5, 6, 7, 8, 9}
    [] e.mdl = "mdl_6_36" -> {0, 1, 3, 4, 5, 7, 8, 9, 10}
    [] OTHER              -> {}

\* SH's flag tells the side of an order, and who took the offer of a trade, if
\* anyone did.  A garbled column is one that is converted.
ASSUME EventsAssumption == \A e \in Events :
  /\ e.mdl = "mdl_4_24" =>
       /\ e.type \in {"A", "D", "T", "S"}
       /\ e.type \in {"A", "D"} => e.flag \in {"B", "S"}
       /\ e.type = "T" => e.flag \in {"B", "S", "N"}
  /\ e.SecurityID \in Nat /\ e.no \in Nat
  /\ e.blank \in BOOLEAN
  /\ e.bad \in Converted(e) \cup {-1}

\* A kind with blanks behind it is none that a feeder knows.
ASSUME BlanksAssumption == \A e \in Events :
  WithBlanks(e.mdl) \notin {"", "mdl_4_24", "mdl_6_33", "mdl_6_36"}

\* What the standard library reads: a number's text is that number, the fixed
\* texts above are numbers or prices too, and a garbled one is neither.
ASSUME TextsAssumption ==
  /\ \A e \in Events : \A n \in {e.SecurityID, e.no} :
       ToString(n) \in DOMAIN Number /\ Number[ToString(n)] = n
  /\ \A s \in {"0", "1", "3", "4", "7", "9", "49", "50", "70"} :
       s \in DOMAIN Number /\ Number[s] \in Nat
  /\ Char[Number["49"]] = "1" /\ Char[Number["50"]] = "2" /\ Char[Number["70"]] = "F"
  /\ "0.02" \in DOMAIN Cents /\ Cents["0.02"] \in Nat
  /\ "x" \notin DOMAIN Number \cup DOMAIN Cents

\* A ZMQ message ends with the kind of the line, a Redis message comes on a
\* channel of that kind; a CSV file has lines of one kind.
ZmqText(e) ==
  [fields |-> IF e.mdl = "" THEN <<"">> ELSE Append(Line(e), e.mdl),
   blank  |-> e.blank]
RedisText(e) == [fields |-> Line(e), blank |-> e.blank]

-----------------------------------------------------------------------------
\* What the feeders' threads do with a line they received: the symbol id to
\* route it by, from column i, or nothing if that is not a number.
RoutingIds(ss, i) == IF Col(ss, i) \in DOMAIN Number THEN {Number[Col(ss, i)]} ELSE {}

ZmqIds(ss) ==
  CASE ss = <<>>                            -> {}
    [] Kind(ss) = "mdl_4_24"                -> RoutingIds(ss, 2)
    [] Kind(ss) \in {"mdl_6_33", "mdl_6_36"} -> RoutingIds(ss, 3)
    [] OTHER                                -> {}

RedisIds(channel, ss) ==
  CASE ss = <<>>                           -> {}
    [] channel = "mdl_4_24"                -> RoutingIds(ss, 2)
    [] channel \in {"mdl_6_33", "mdl_6_36"} -> RoutingIds(ss, 3)
    [] OTHER                               -> {}

\* lob_data_alloc2: the line goes into a buffer of its own.
Alloc(t, text, symbolid, user) ==
  /\ data' = [data EXCEPT ![t] = lob_data_t(text, symbolid, user)]
  /\ buffers' = buffers \cup {Len(received) + 1}
  /\ pc' = [pc EXCEPT ![t] = "route"]

\* Nothing to forward: the thread waits for the next line.
Skip(t) == UNCHANGED <<data, buffers, pc>>

Receive(t, e) ==
  /\ alive /\ pc[t] = "poll" /\ Len(received) < MaxLines
  /\ received' = Append(received, e)
  /\ UNCHANGED <<feed_type, msg, objects, calls, alive>>

ZmqReceive == \E e \in Events :
  LET text == ZmqText(e)
      ids  == ZmqIds(splitString(text))
  IN  /\ feed_type = "mdl_zmq"
      /\ Receive("feed", e)
      /\ IF ids = {} THEN Skip("feed")
                     ELSE \E id \in ids : Alloc("feed", text, id, "")

\* The Redis feeder trims the message and puts its channel's kind at its end.
RedisReceive == \E e \in Events :
  LET text == trim(RedisText(e))
      ids  == RedisIds(e.mdl, splitString(text))
  IN  /\ feed_type = "mdl_redis"
      /\ Receive("feed", e)
      /\ IF ids = {}
         THEN Skip("feed")
         ELSE \E id \in ids :
                Alloc("feed", [text EXCEPT !.fields = Append(@, e.mdl)], id, "")

\* The CSV feeder's two threads each read a file.  The symbol id they route by
\* is a local variable that nothing sets: any that has a worker, or one without.
CsvRead(t, e) == \E symbolid \in 0 .. workers * symnum_of_worker :
  /\ feed_type = "mdl_csv"
  /\ Receive(t, e)
  /\ Alloc(t, RedisText(e), symbolid, t)

CsvReadOrder == \E e \in {e \in Events : e.mdl = "mdl_6_33"} : CsvRead("order", e)
CsvReadTrade == \E e \in {e \in Events : e.mdl = "mdl_6_36"} : CsvRead("trade", e)

\* A thread starts: it opens its socket, or its file, which may not be there.
Start(t, next) ==
  /\ alive /\ pc[t] = "start" /\ pc' = [pc EXCEPT ![t] = next]
  /\ UNCHANGED <<feed_type, received, data, msg, buffers, objects, calls, alive>>

FeedStarts(t)    == Start(t, "poll")
CsvFileMissing(t) == feed_type = "mdl_csv" /\ Start(t, "done")

-----------------------------------------------------------------------------
\* onFeedRawData: without a worker for the id the buffer is left behind.
onFeedRawData(t) ==
  /\ alive /\ pc[t] = "route"
  /\ pc' = [pc EXCEPT ![t] = IF Routed(data[t].symbolid) THEN "decode" ELSE "poll"]
  /\ UNCHANGED <<feed_type, received, data, msg, buffers, objects, calls, alive>>

\* What decode returned: the line gave a message, or none.
Decoded(t, found) ==
  /\ msg' = [msg EXCEPT ![t] = found]
  /\ pc' = [pc EXCEPT ![t] = IF found = {} THEN "free" ELSE "dispatch"]
  /\ UNCHANGED <<feed_type, received, data, buffers, calls, alive>>

\* Worker::enqueue: it puts nothing into the worker's queue.
ZmqDecode(t) ==
  /\ alive /\ pc[t] = "decode" /\ feed_type = "mdl_zmq"
  /\ Decoded(t, decode(data[t].text))
  /\ objects' = objects + Created(data[t].text)

RedisDecode(t) ==
  /\ alive /\ pc[t] = "decode" /\ feed_type = "mdl_redis"
  /\ Decoded(t, tonglianDecode(data[t].text))
  /\ objects' = objects + Created(data[t].text)

\* boost::lexical_cast throws on a column that is not a number, and nothing
\* catches it: the process ends.
CsvConverts(t) ==
  data[t].user = "order" => Converts(splitString(data[t].text), {3}, {})

CsvDecode(t) ==
  /\ alive /\ pc[t] = "decode" /\ feed_type = "mdl_csv"
  /\ CsvConverts(t)
  /\ Decoded(t, csvDecode(data[t]))
  /\ objects' = objects + Cardinality(csvDecode(data[t]))

CsvDecodeThrows(t) ==
  /\ alive /\ pc[t] = "decode" /\ feed_type = "mdl_csv"
  /\ ~ CsvConverts(t)
  /\ alive' = FALSE
  /\ objects' = objects + 1
  /\ UNCHANGED <<feed_type, received, pc, data, msg, buffers, calls>>

\* onMessage, onOrder and onTrade: the handler of a message, if it has one; the
\* value of a source that is not set may be either market's.
InWorklist(m) == m.head.SecurityID < lobnum /\ m.head.SecurityID \in symbol_list

onOrder(source) == CASE source = "SH" -> {"onOrderSH"}
                     [] source = "SZ" -> {"onOrderSZ"}
                     [] OTHER         -> {"onOrderSH", "onOrderSZ", "none"}
onTrade(source) == CASE source = "SH" -> {"onTradeSH"}
                     [] source = "SZ" -> {"onTradeSZ"}
                     [] OTHER         -> {"onTradeSH", "onTradeSZ", "none"}

HandlersOf(m) ==
  IF ~ InWorklist(m) THEN {"none"}
  ELSE IF m.head.MsgType = "Order" THEN onOrder(m.head.SecurityIDSource)
                                   ELSE onTrade(m.head.SecurityIDSource)

onMessage(t) == \E m \in msg[t] : \E h \in HandlersOf(m) :
  /\ alive /\ pc[t] = "dispatch"
  /\ IF h = "none"
     THEN pc' = [pc EXCEPT ![t] = "delete"] /\ UNCHANGED calls
     ELSE /\ pc' = [pc EXCEPT ![t] = "handler"]
          /\ calls' = Append(calls, [handler |-> h, symbolid |-> m.head.SecurityID,
                                     line |-> data[t].line, thread |-> t])
  /\ UNCHANGED <<feed_type, received, data, msg, buffers, objects, alive>>

HandlerReturns(t) ==
  /\ alive /\ pc[t] = "handler" /\ pc' = [pc EXCEPT ![t] = "delete"]
  /\ UNCHANGED <<feed_type, received, data, msg, buffers, objects, calls, alive>>

\* delete msg
Delete(t) ==
  /\ alive /\ pc[t] = "delete" /\ pc' = [pc EXCEPT ![t] = "free"]
  /\ msg' = [msg EXCEPT ![t] = {}]
  /\ objects' = objects - 1
  /\ UNCHANGED <<feed_type, received, data, buffers, calls, alive>>

\* Free if it were left out.
FreeOmitted(t) ==
  /\ alive /\ pc[t] = "free" /\ pc' = [pc EXCEPT ![t] = "poll"]
  /\ UNCHANGED <<feed_type, received, data, msg, buffers, objects, calls, alive>>

\* lob_data_free
Free(t) ==
  /\ alive /\ pc[t] = "free" /\ pc' = [pc EXCEPT ![t] = "poll"]
  /\ buffers' = buffers \ {data[t].line}
  /\ UNCHANGED <<feed_type, received, data, msg, objects, calls, alive>>

\* The worker's part: decode, onMessage, delete and free.
Worker(t) ==
  \/ ZmqDecode(t) \/ RedisDecode(t) \/ CsvDecode(t) \/ CsvDecodeThrows(t)
  \/ onMessage(t) \/ HandlerReturns(t) \/ Delete(t) \/ Free(t)

Feeder == ZmqReceive \/ RedisReceive \/ CsvReadOrder \/ CsvReadTrade

Next ==
  \/ Feeder
  \/ \E t \in Threads :
       FeedStarts(t) \/ CsvFileMissing(t) \/ onFeedRawData(t) \/ Worker(t)

Spec == Init /\ [][Next]_pathVars

-----------------------------------------------------------------------------
\* The messages a feeder's decoder may hand on.
MessageOfFeed ==
  IF feed_type = "mdl_csv" THEN UnfilledOrder ELSE OrderMessage \cup TradeMessage

\* The types of the threads' variables.  Behind a market feed a message in hand
\* is filled in: its head, and the member of the union that the handlers of the
\* head's market read, for the buyers' and the sellers' side.  Behind the CSV
\* feeder it is an order with a type, a symbol and nothing else.  A thread with
\* a line in hand has a buffer that is allocated.
TypeOK ==
  /\ \A t \in Threads :
       /\ pc[t] \in {"start", "poll", "route", "decode", "dispatch", "handler",
                    "delete", "free", "done"}
       /\ msg[t] \subseteq MessageOfFeed
       /\ pc[t] \in {"route", "decode", "dispatch", "handler", "delete", "free"} =>
            data[t].line \in buffers
  /\ buffers \subseteq DOMAIN received
  /\ objects \in Nat

\* No thread has a line in hand.
Idle == alive /\ \A t \in Threads : pc[t] \in {"start", "poll", "done"}

MarketFeed == feed_type \in {"mdl_zmq", "mdl_redis"}

RouteColumn(e) == IF e.mdl = "mdl_4_24" THEN 2 ELSE 3
RouteId(e)     == IF e.mdl = "mdl_6_36" THEN e.no ELSE e.SecurityID

\* A line of a known kind, its last field unspoilt, with an id to route it by.
Forwarded(e) ==
  /\ e.mdl \in {"mdl_4_24", "mdl_6_33", "mdl_6_36"}
  /\ e.bad # RouteColumn(e)
  /\ feed_type = "mdl_zmq" => ~ e.blank

Reported(e) == e.mdl = "mdl_4_24" => e.type # "S"

Deliverable(e) ==
  Forwarded(e) /\ Routed(RouteId(e)) /\ Reported(e) /\ e.bad = -1
    /\ e.SecurityID \in symbol_list

HandlerOf(e) == CASE e.mdl = "mdl_6_33" -> "onOrderSZ"
                  [] e.mdl = "mdl_6_36" -> "onTradeSZ"
                  [] OTHER -> IF e.type = "T" THEN "onTradeSH" ELSE "onOrderSH"

\* Behind a market feed every line of a listed symbol has reached the handler
\* of its own market and kind, for its own symbol, once and in the feed's order,
\* whatever came between; the only whole lines that did not are trades of SZ
\* whose buyer's number passes for no worker's symbol (and, from ZMQ, lines
\* with blanks at their end).
HandledExactly ==
  MarketFeed /\ Idle =>
    /\ {calls[i].line : i \in DOMAIN calls} =
         {n \in DOMAIN received : Deliverable(received[n])}
    /\ \A i, j \in DOMAIN calls : i < j => calls[i].line < calls[j].line
    /\ \A i \in DOMAIN calls :
         LET e == received[calls[i].line]
         IN  calls[i].handler = HandlerOf(e) /\ calls[i].symbolid = e.SecurityID

\* What a market feed leaves allocated: the buffer of each line without a
\* worker, one message for each decoded trade of SZ, and the message of a line
\* whose conversion threw.  Everything else is freed, exactly once.
UnusedTrade(e) == e.mdl = "mdl_6_36" /\ Forwarded(e) /\ Routed(RouteId(e))
Threw(e) == Forwarded(e) /\ Routed(RouteId(e)) /\ Reported(e) /\ e.bad # -1

LeaksExactly ==
  MarketFeed /\ Idle =>
    /\ buffers = {n \in DOMAIN received : /\ Forwarded(received[n])
                                         /\ ~ Routed(RouteId(received[n]))}
    /\ objects = Cardinality({n \in DOMAIN received : UnusedTrade(received[n])})
                   + Cardinality({n \in DOMAIN received : Threw(received[n])})

\* Behind the CSV feeder, whatever id a line was routed by: a handler that is
\* called is one for orders, for a line of the order's file and for that line's
\* own listed symbol, and the lines come in the file's order, none twice.
CsvCallsOwn ==
  feed_type = "mdl_csv" =>
    /\ \A i \in DOMAIN calls :
         LET e == received[calls[i].line]
         IN  /\ e.mdl = "mdl_6_33"
             /\ calls[i].handler \in {"onOrderSH", "onOrderSZ"}
             /\ calls[i].symbolid = e.SecurityID /\ e.SecurityID \in symbol_list
    /\ \A i, j \in DOMAIN calls : i < j => calls[i].line < calls[j].line

\* The handlers take no lock, and the books of all symbols are changed by one
\* thread only, also with the CSV feeder, whose two threads both decode and
\* dispatch.
OneWriter == Cardinality({calls[i].thread : i \in DOMAIN calls}) <= 1
=============================================================================
