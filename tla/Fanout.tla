------------------------------- MODULE Fanout -------------------------------
(***************************************************************************)
(* From the order books to the subscribers.  The main thread starts the    *)
(* fanouts one after the other and then runs the timer, for good: every    *)
(* interval it takes a record of each symbol's book and puts it into the   *)
(* queue of each fanout.  Each fanout has a thread of its own that takes   *)
(* records out of its queue and publishes them: a ZMQ message under the    *)
(* symbol's topic, a Redis hash that is overwritten, or a file that is     *)
(* written anew.  An error of the Redis server is thrown in the fanout's   *)
(* thread, where nothing catches it: the process ends.                     *)
(*                                                                         *)
(* A record is the symbol and the round of the timer it was taken in: a    *)
(* higher round is a newer picture of the same book.                       *)
(***************************************************************************)
EXTENDS LockQueue, Integers

CONSTANTS
  symbol_list,  \* the symbols, in the order of the symbol list file
  Settings,     \* the settings that are tried: the enabled fanouts' kinds, in order
  MaxRounds     \* how many rounds the timer makes (bounds the instance)

ASSUME ListAssumption ==
  /\ symbol_list \in Seq(Range(symbol_list)) \ {<<>>}
  /\ IsInjective(symbol_list)
ASSUME SettingsAssumption ==
  Settings \subseteq Seq({"zmq", "redis", "file"}) \ {<<>>}
ASSUME RoundsAssumption  == MaxRounds \in Nat \ {0}

VARIABLES
  fanouts,    \* the kinds of the enabled fanouts
  alive,      \* the process has not been ended by an exception
  started,    \* how many fanouts have been started
  round,      \* the timer's round
  symIdx,     \* the loop over the symbols: the position in symbol_list
  sinkIdx,    \* the loop over the fanouts; 0 before the record is taken
  queue,      \* each fanout's queue_
  px_record,  \* the records each fanout's thread has taken and not yet handled
  published,  \* what each fanout has published, in order
  dropped,    \* the records each fanout gave up (its file could not be opened)
  behind      \* the fanouts that were given a record of a symbol while an older
              \* one was still in the queue (auxiliary)

timerVars  == <<started, round, symIdx, sinkIdx>>
sinkVars   == <<queue, px_record, published, dropped, behind>>
fanoutVars == <<fanouts, alive, timerVars, sinkVars>>

SinkIds == UNION {DOMAIN f : f \in Settings}
Sinks   == DOMAIN fanouts
Symbols == Range(symbol_list)
Record  == [symbolid: Symbols, round: 1 .. MaxRounds]

TypeOK ==
  /\ fanouts \in Settings /\ alive \in BOOLEAN
  /\ started \in 0 .. Len(fanouts)
  /\ round \in 1 .. MaxRounds + 1
  /\ symIdx \in DOMAIN symbol_list
  /\ sinkIdx \in 0 .. Len(fanouts)
  /\ queue \in [Sinks -> Seq(Record)]
  /\ px_record \in [Sinks -> SUBSET Record]
  /\ published \in [Sinks -> Seq(Record)]
  /\ dropped \in [Sinks -> SUBSET Record]
  /\ behind \subseteq Sinks

Init ==
  /\ fanouts \in Settings
  /\ alive = TRUE
  /\ started = 0
  /\ round = 1 /\ symIdx = 1 /\ sinkIdx = 0
  /\ queue = [k \in Sinks |-> <<>>]
  /\ px_record = [k \in Sinks |-> {}]
  /\ published = [k \in Sinks |-> <<>>]
  /\ dropped = [k \in Sinks |-> {}]
  /\ behind = {}

-----------------------------------------------------------------------------
\* LobService::start, of which the timer is the last call; it does not return.
StartFanout ==
  /\ started < Len(fanouts)
  /\ started' = started + 1
  /\ UNCHANGED <<round, symIdx, sinkIdx, sinkVars>>

\* onFanoutTimed, for one symbol after the other: getPxList, then fanout() of
\* each sink in turn.  The sinks' threads run between any two of these steps.
current == [symbolid |-> symbol_list[symIdx], round |-> round]

GetPxList ==
  /\ started = Len(fanouts)
  /\ round <= MaxRounds
  /\ sinkIdx = 0
  /\ sinkIdx' = 1
  /\ UNCHANGED <<started, round, symIdx, sinkVars>>

\* Advance if the loop over the sinks went one too far.
AdvancePastEnd ==
  IF sinkIdx <= Len(fanouts)
  THEN sinkIdx' = sinkIdx + 1 /\ UNCHANGED <<symIdx, round>>
  ELSE /\ sinkIdx' = 0
       /\ IF symIdx < Len(symbol_list)
          THEN symIdx' = symIdx + 1 /\ UNCHANGED round
          ELSE symIdx' = 1 /\ round' = round + 1

\* After the last sink comes the next symbol, after the last symbol the end of
\* the callback, and with the next interval the next round.
Advance ==
  IF sinkIdx < Len(fanouts)
  THEN sinkIdx' = sinkIdx + 1 /\ UNCHANGED <<symIdx, round>>
  ELSE /\ sinkIdx' = 0
       /\ IF symIdx < Len(symbol_list)
          THEN symIdx' = symIdx + 1 /\ UNCHANGED round
          ELSE symIdx' = 1 /\ round' = round + 1

fanout(k, record) ==
  /\ queue' = [queue EXCEPT ![k] = enqueue(@, record)]
  /\ behind' = IF \E q \in Range(queue[k]) : q.symbolid = record.symbolid
               THEN behind \cup {k} ELSE behind

FanoutRecord ==
  /\ sinkIdx > 0
  /\ fanout(sinkIdx, current)
  /\ Advance
  /\ UNCHANGED <<started, px_record, published, dropped>>

Timer == GetPxList \/ FanoutRecord

Main == alive /\ (StartFanout \/ Timer) /\ UNCHANGED <<fanouts, alive>>

-----------------------------------------------------------------------------
\* The thread of a sink; on an empty queue it only tries again.
Dequeue(k) ==
  /\ k <= started
  /\ px_record[k] = {}
  /\ CanDequeue(queue[k])
  /\ px_record' = [px_record EXCEPT ![k] = {Taken(queue[k])}]
  /\ queue' = [queue EXCEPT ![k] = Remaining(@)]
  /\ UNCHANGED <<alive, published, dropped>>

Publish(k) == \E r \in px_record[k] :
  /\ published' = [published EXCEPT ![k] = Append(@, r)]
  /\ px_record' = [px_record EXCEPT ![k] = {}]
  /\ UNCHANGED <<alive, queue, dropped>>

\* A message under the symbol's topic, or the symbol's hash or file anew.
Send(k)      == fanouts[k] = "zmq" /\ Publish(k)
Overwrite(k) == fanouts[k] \in {"redis", "file"} /\ Publish(k)

\* The file fanout opens the symbol's file for each record; if that fails the
\* record is gone.
OpenFails(k) == \E r \in px_record[k] :
  /\ fanouts[k] = "file"
  /\ dropped' = [dropped EXCEPT ![k] = @ \cup {r}]
  /\ px_record' = [px_record EXCEPT ![k] = {}]
  /\ UNCHANGED <<alive, queue, published>>

\* hmset throws; the record is still in hand when the process ends.
RedisError(k) ==
  /\ fanouts[k] = "redis" /\ px_record[k] # {}
  /\ alive' = FALSE
  /\ UNCHANGED <<queue, px_record, published, dropped>>

Sink(k) ==
  /\ alive /\ k \in Sinks
  /\ Dequeue(k) \/ Send(k) \/ Overwrite(k) \/ OpenFails(k) \/ RedisError(k)
  /\ UNCHANGED <<fanouts, timerVars, behind>>

Next == Main \/ \E k \in Sinks : Sink(k)

Spec == Init /\ [][Next]_fanoutVars

\* Every thread goes on running.
FairSpec ==
  Spec /\ WF_fanoutVars(Main) /\ \A k \in SinkIds : WF_fanoutVars(Sink(k))

-----------------------------------------------------------------------------
\* The records a sink's fanout() has been given so far.
Given(k) ==
  {r \in Record : \E i \in DOMAIN symbol_list :
      /\ r.symbolid = symbol_list[i]
      /\ \/ r.round < round
         \/ r.round = round /\ i < symIdx
         \/ r.round = round /\ i = symIdx /\ sinkIdx > k}

\* No thread loses or repeats a record: each one that was given to a sink is in
\* exactly one place, once, whatever the threads' interleaving.
EachOnce == \A k \in Sinks :
  LET places == <<Range(queue[k]), px_record[k], Range(published[k]), dropped[k]>>
  IN  /\ IsInjective(queue[k]) /\ IsInjective(published[k])
      /\ \A i, j \in DOMAIN places : i # j => places[i] \cap places[j] = {}
      /\ UNION Range(places) = Given(k)

\* What a sink takes to publish is the newest picture of its symbol's book that
\* it has: a sink that fell behind does not first work off what is out of date.
NewestFirst ==
  [][\A k \in Sinks : \A r \in px_record'[k] \ px_record[k] :
       \A q \in Range(queue[k]) :
         q.symbolid = r.symbolid => q.round <= r.round]_fanoutVars

\* A fanout publishes a symbol's records in the order they were taken as long
\* as no record of a symbol was put on top of an older one: the queue's order
\* does no harm to a sink that keeps up with its symbols, even if records of
\* other symbols are waiting.
InOrderUnlessBehind == \A k \in Sinks \ behind :
  \A i, j \in DOMAIN published[k] :
    i < j /\ published[k][i].symbolid = published[k][j].symbolid =>
      published[k][i].round < published[k][j].round

\* Once the timer has made its last round, every sink handles all it was given,
\* unless a Redis fanout has ended the process, for the other fanouts as well.
QueuesDrain ==
  <>[](\/ ~ alive /\ "redis" \in Range(fanouts)
       \/ /\ round > MaxRounds
          /\ \A k \in Sinks : queue[k] = <<>> /\ px_record[k] = {})
=============================================================================
