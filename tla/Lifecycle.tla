------------------------------ MODULE Lifecycle ------------------------------
(***************************************************************************)
(* The program from main to its end: LobService's init, start, stop and    *)
(* waitForShutdown, and the threads they start and join.  What the threads *)
(* do is in FeedPath and Fanout; here a thread is where it stands in its   *)
(* loop, and a fanout's queue is its length.                               *)
(*                                                                         *)
(* A thread is <<kind, i>>; each worker, the feeder and each fanout have a *)
(* flag stopped_, which the CSV feeder's two threads share.                *)
(*                                                                         *)
(* stop() has one caller, signalHandler, which is not registered; the      *)
(* model lets it be called once, at any time after init: by another thread *)
(* than the main one, which may still be in start().                       *)
(***************************************************************************)
EXTENDS Integers, SequencesExt

CONSTANTS
  Settings,   \* the settings files that are tried
  workers,    \* how many workers there are
  MaxQueue    \* up to where a queue's length is counted (bounds the instance)

\* The settings that the lifecycle depends on, and the files' presence.
lob_config_t ==
  [feed_type: {"mdl_csv", "mdl_zmq", "mdl_redis", "mdl_live"},
   fanouts: Seq({"zmq", "file", "redis"}),
   settings_file: BOOLEAN, symbol_list_file: BOOLEAN,
   symbol_price_limit_file: BOOLEAN]

ASSUME SettingsAssumption == Settings \subseteq lob_config_t
ASSUME WorkersAssumption  == workers \in Nat \ {0}
ASSUME MaxQueueAssumption == MaxQueue \in Nat \ {0}

VARIABLES
  config,    \* the settings file, and which other files are there
  main,      \* where the main thread is
  made,      \* what init has made so far
  startPos,  \* how many steps start() has made
  thread,    \* where each thread is in its loop
  stopped,   \* the flags stopped_ of feeder, workers and fanouts
  stopped_,  \* the service's own flag
  queue,     \* the length of each fanout's queue_
  after,     \* records a fanout handled after its flag was set (auxiliary)
  stopPos,   \* how many steps stop() has made, or -1 if it was not called
  early,     \* stop() was called before all threads were started (auxiliary)
  outcome    \* "running", "failed" (1 from main), "returned", "terminated"

serviceVars == <<config, made, stopped_>>
threadVars  == <<thread, stopped, queue, after>>
lifeVars == <<serviceVars, threadVars, main, startPos, stopPos, early, outcome>>

Sinks  == {<<"fanout", k>> : k \in DOMAIN config.fanouts}
Feeds  == {<<"feeder", i>> : i \in 1 .. (IF config.feed_type = "mdl_csv" THEN 2 ELSE 1)}
Workers == {<<"worker", i>> : i \in 1 .. workers}
Threads == Sinks \cup Feeds \cup Workers

\* The object that has the flag a thread tests.
Owner(t) == IF t[1] = "feeder" THEN <<"feeder", 1>> ELSE t

TypeOK ==
  /\ config \in Settings
  /\ main \in {"settings", "limits", "feeder", "users", "books", "fanouts", "start",
               "timer", "store", "test", "wait"}
  /\ made \subseteq {"feeder", "user", "decoders", "books", "fanouts"}
  /\ thread \in [Threads -> {"none", "open", "loop", "work", "publish", "ended"}]
  /\ stopped \in [Threads -> BOOLEAN] /\ stopped_ \in BOOLEAN
  /\ queue \in [Sinks -> 0 .. MaxQueue]
  /\ after \in [Sinks -> Nat]
  /\ outcome \in {"running", "failed", "returned", "terminated"}

Init ==
  /\ config \in Settings
  /\ main = "settings" /\ made = {} /\ startPos = 0
  /\ thread = [t \in Threads |-> "none"]
  /\ stopped = [t \in Threads |-> FALSE] /\ stopped_ = FALSE
  /\ queue = [s \in Sinks |-> 0]
  /\ after = [s \in Sinks |-> 0]
  /\ stopPos = -1 /\ early = FALSE
  /\ outcome = "running"

-----------------------------------------------------------------------------
\* init, one action for each of its parts; main returns 1 when it fails.
InitFails ==
  /\ outcome' = "failed"
  /\ UNCHANGED <<serviceVars, threadVars, main, startPos, stopPos, early>>

\* InitGoes if a failure went unnoticed by main.
InitGoesOn(ok, here, next, makes) ==
  /\ outcome = "running" /\ main = here
  /\ main' = IF ok THEN next ELSE "start"
  /\ made' = IF ok THEN made \cup makes ELSE made
  /\ UNCHANGED <<config, stopped_, threadVars, startPos, stopPos, early, outcome>>

InitGoes(ok, here, next, makes) ==
  /\ outcome = "running" /\ main = here
  /\ IF ok
     THEN /\ main' = next
          /\ made' = made \cup makes
          /\ UNCHANGED <<config, stopped_, threadVars, startPos, stopPos, early, outcome>>
     ELSE InitFails

OpenSettings == InitGoes(config.settings_file, "settings", "limits", {})

\* Without a symbol list init goes on, and without symbols no record is taken.
LoadLimits == InitGoes(config.symbol_price_limit_file, "limits", "feeder", {})

MakeFeeder ==
  InitGoes(config.feed_type \in {"mdl_csv", "mdl_zmq", "mdl_redis"},
           "feeder", "users", {"feeder"})

setFeedUser    == {"user"}
setDataDecoder == {"decoders"}

SetUsers    == InitGoes(TRUE, "users", "books", setFeedUser \cup setDataDecoder)
CreateBooks == InitGoes(TRUE, "books", "fanouts", {"books"})
InitFanouts == InitGoes(TRUE, "fanouts", "start", {"fanouts"})

ServiceInit == \/ OpenSettings \/ LoadLimits \/ MakeFeeder
               \/ SetUsers \/ CreateBooks \/ InitFanouts

-----------------------------------------------------------------------------
\* start() and stop() as what they do to flags and threads, in their order.
Clear(o)  == [op |-> "clear",  who |-> o]
Launch(t) == [op |-> "launch", who |-> t]
Set(o)    == [op |-> "set",    who |-> o]
Join(t)   == [op |-> "join",   who |-> t]

WorkerStart(i) == <<Clear(<<"worker", i>>), Launch(<<"worker", i>>)>>
FanoutStart(k) == <<Clear(<<"fanout", k>>), Launch(<<"fanout", k>>)>>

SocketFeedStart == <<Clear(<<"feeder", 1>>), Launch(<<"feeder", 1>>)>>
CsvFeedStart ==
  <<Clear(<<"feeder", 1>>), Launch(<<"feeder", 1>>), Launch(<<"feeder", 2>>)>>
FeedStart == IF config.feed_type = "mdl_csv" THEN CsvFeedStart ELSE SocketFeedStart

\* WorkerStop if it set the flag too late.
WorkerStopJoins(i) == <<Join(<<"worker", i>>), Set(<<"worker", i>>)>>

WorkerStop(i) == <<Set(<<"worker", i>>), Join(<<"worker", i>>)>>
FanoutStop(k) == <<Set(<<"fanout", k>>), Join(<<"fanout", k>>)>>

SocketFeedStop == <<Set(<<"feeder", 1>>), Join(<<"feeder", 1>>)>>
CsvFeedStop    == <<Set(<<"feeder", 1>>), Join(<<"feeder", 1>>), Join(<<"feeder", 2>>)>>
FeedStop == IF config.feed_type = "mdl_csv" THEN CsvFeedStop ELSE SocketFeedStop

\* The two steps of each of n objects, one object after the other.
Each(n, Steps(_)) ==
  [j \in 1 .. 2 * n |-> Steps((j + 1) \div 2)[IF j % 2 = 1 THEN 1 ELSE 2]]

startSteps ==
  Each(workers, WorkerStart) \o FeedStart \o Each(Len(config.fanouts), FanoutStart)

\* The last is the join of the service's own thread_, which nothing starts.
Service == <<"service", 0>>

\* stopSteps if the service's flag were set first.
stopStepsStore ==
  <<Set(Service)>> \o FeedStop \o Each(workers, WorkerStop)
    \o Each(Len(config.fanouts), FanoutStop) \o <<Join(Service)>>

stopSteps ==
  FeedStop \o Each(workers, WorkerStop) \o Each(Len(config.fanouts), FanoutStop)
    \o <<Set(Service), Join(Service)>>

Starting ==
  /\ outcome = "running" /\ main = "start" /\ startPos < Len(startSteps)
  /\ startPos' = startPos + 1
  /\ LET s == startSteps[startPos + 1]
     IN  IF s.op = "clear"
         THEN stopped' = [stopped EXCEPT ![s.who] = FALSE] /\ UNCHANGED thread
         ELSE thread' = [thread EXCEPT ![s.who] = "open"] /\ UNCHANGED stopped
  /\ UNCHANGED <<serviceVars, queue, after, main, stopPos, early, outcome>>

\* With a fanout the main thread runs the timer, and start() does not return.
Started ==
  /\ outcome = "running" /\ main = "start" /\ startPos = Len(startSteps)
  /\ main' = IF config.fanouts # <<>> THEN "timer" ELSE "store"
  /\ UNCHANGED <<serviceVars, threadVars, startPos, stopPos, early, outcome>>

\* LobTimer::start: nothing stops the timer.  A round gives each fanout a record
\* of each symbol.
TimerRound ==
  /\ outcome = "running" /\ main = "timer"
  /\ config.symbol_list_file
  /\ queue' = [s \in Sinks |-> IF queue[s] < MaxQueue THEN queue[s] + 1 ELSE MaxQueue]
  /\ UNCHANGED <<serviceVars, thread, stopped, after, main, startPos, stopPos, early,
                 outcome>>

StoreStopped ==
  /\ outcome = "running" /\ main = "store" /\ main' = "test"
  /\ stopped_' = FALSE
  /\ UNCHANGED <<config, made, threadVars, startPos, stopPos, early, outcome>>

\* waitForShutdown tests the flag, and again whenever it is woken up: by a
\* notify, which stop() does not come to, or for no reason.
waitForShutdown ==
  /\ outcome = "running" /\ main = "test"
  /\ IF stopped_ THEN outcome' = "returned" /\ UNCHANGED main
                 ELSE main' = "wait" /\ UNCHANGED outcome
  /\ UNCHANGED <<serviceVars, threadVars, startPos, stopPos, early>>

SpuriousWakeup ==
  /\ outcome = "running" /\ main = "wait" /\ main' = "test"
  /\ UNCHANGED <<serviceVars, threadVars, startPos, stopPos, early, outcome>>

Main == ServiceInit \/ Starting \/ Started \/ TimerRound \/ StoreStopped \/ waitForShutdown

-----------------------------------------------------------------------------
\* stop(), in the thread of its caller.
StopCalled ==
  /\ outcome = "running" /\ stopPos = -1
  /\ main \in {"start", "timer", "store", "test", "wait"}
  /\ stopPos' = 0
  /\ early' = (startPos < Len(startSteps))
  /\ UNCHANGED <<serviceVars, threadVars, main, startPos, outcome>>

\* A thread that runs is waited for; std::thread::join throws where there is no
\* thread, and nothing catches that.
Stopping ==
  /\ outcome = "running" /\ stopPos \in 0 .. Len(stopSteps) - 1
  /\ stopPos' = stopPos + 1
  /\ LET s == stopSteps[stopPos + 1]
     IN  \/ /\ s.op = "set" /\ s.who # Service
            /\ stopped' = [stopped EXCEPT ![s.who] = TRUE]
            /\ UNCHANGED <<stopped_, outcome>>
         \/ /\ s.op = "set" /\ s.who = Service
            /\ stopped_' = TRUE
            /\ UNCHANGED <<stopped, outcome>>
         \/ /\ s.op = "join"
            /\ IF s.who = Service \/ thread[s.who] = "none"
               THEN outcome' = "terminated"
               ELSE thread[s.who] = "ended" /\ UNCHANGED outcome
            /\ UNCHANGED <<stopped, stopped_>>
  /\ UNCHANGED <<config, made, thread, queue, after, main, startPos, early>>

-----------------------------------------------------------------------------
\* The threads.
Moves(t, here, next) ==
  /\ outcome = "running" /\ thread[t] = here
  /\ thread' = [thread EXCEPT ![t] = next]
  /\ UNCHANGED <<serviceVars, stopped, main, startPos, stopPos, early, outcome>>

Stays == UNCHANGED <<queue, after>>

KindOf(t) == IF t[1] = "fanout" THEN config.fanouts[t[2]]
             ELSE IF t[1] = "feeder" THEN config.feed_type ELSE "worker"

\* A socket, a subscription or a file is opened, or there is nothing to open.
Opens(t) == Moves(t, "open", "loop") /\ Stays

CsvFileMissing(t) == KindOf(t) = "mdl_csv" /\ Moves(t, "open", "ended") /\ Stays

\* bind, connect, subscriber or hmset throws, and nothing catches it.
Throws(t) ==
  /\ outcome = "running"
  /\ \/ thread[t] = "open" /\ KindOf(t) \in {"mdl_zmq", "mdl_redis", "zmq"}
     \/ thread[t] = "publish" /\ KindOf(t) = "redis"
  /\ outcome' = "terminated"
  /\ UNCHANGED <<serviceVars, threadVars, main, startPos, stopPos, early>>

\* while (stopped_.load() == false); the CSV feeder tests it after it read a line.
Leaves(t) == stopped[Owner(t)] /\ Moves(t, "loop", "ended") /\ Stays
Goes(t)   == ~ stopped[Owner(t)] /\ Moves(t, "loop", "work") /\ Stays

EndOfFile(t) == KindOf(t) = "mdl_csv" /\ Moves(t, "loop", "ended") /\ Stays

\* A worker finds its queue empty.  The ZMQ feeder polls for a millisecond; it
\* and the CSV feeder handle what they have.
Handles(t) ==
  KindOf(t) \in {"worker", "mdl_zmq", "mdl_csv"} /\ Moves(t, "work", "loop") /\ Stays

\* The Redis feeder waits in consume() until there is a message or an error,
\* which is caught.
Consume(t) == KindOf(t) = "mdl_redis" /\ Moves(t, "work", "loop") /\ Stays

\* Dequeue if it did not test whether there is a record.
DequeueUntested(t) ==
  /\ t \in Sinks
  /\ Moves(t, "work", "publish")
  /\ queue' = [queue EXCEPT ![t] = @ - 1]
  /\ UNCHANGED after

Dequeue(t) ==
  /\ t \in Sinks
  /\ Moves(t, "work", IF queue[t] = 0 THEN "loop" ELSE "publish")
  /\ queue' = [queue EXCEPT ![t] = IF @ = 0 THEN 0 ELSE @ - 1]
  /\ UNCHANGED after

\* Publishes if the loop tested the flag only when the queue is empty.
PublishesOn(t) ==
  /\ t \in Sinks
  /\ Moves(t, "publish", "work")
  /\ after' = [after EXCEPT ![t] = IF stopped[t] THEN @ + 1 ELSE @]
  /\ UNCHANGED queue

Publishes(t) ==
  /\ t \in Sinks
  /\ Moves(t, "publish", "loop")
  /\ after' = [after EXCEPT ![t] = IF stopped[t] THEN @ + 1 ELSE @]
  /\ UNCHANGED queue

Runs(t) == \/ Opens(t) \/ CsvFileMissing(t) \/ Leaves(t) \/ Goes(t) \/ EndOfFile(t)
           \/ Handles(t) \/ Dequeue(t) \/ Publishes(t)

Next ==
  \/ Main \/ SpuriousWakeup \/ StopCalled \/ Stopping
  \/ \E t \in Threads : Runs(t) \/ Throws(t) \/ Consume(t)

Spec == Init /\ [][Next]_lifeVars

\* Every thread goes on running; that a Redis message comes, that a waiting
\* thread is woken for no reason, or that stop() is called, is not assumed.
AllThreads ==
  ({"worker"} \X (1 .. workers)) \cup ({"feeder"} \X (1 .. 2))
    \cup {<<"fanout", k>> : k \in UNION {DOMAIN c.fanouts : c \in Settings}}

FairSpec ==
  /\ Spec
  /\ WF_lifeVars(Main) /\ WF_lifeVars(Stopping)
  /\ \A t \in AllThreads : WF_lifeVars(t \in Threads /\ Runs(t))

-----------------------------------------------------------------------------
\* No thread runs before init has made everything that the threads use: the
\* feeder has its user, the workers their decoder, the symbols their books.  A
\* settings file that init refuses starts nothing.
ThreadsStartReady ==
  (\E t \in Threads : thread[t] # "none") =>
     made = {"feeder", "user", "decoders", "books", "fanouts"}

\* A fanout whose flag is set handles at most one more record, the one it has in
\* hand or takes next, however many its queue holds; unless start() clears the
\* flag once more.
LastRecord == ~ early => \A s \in Sinks : after[s] <= 1

\* main returns from waitForShutdown only when stop() has joined every thread,
\* and only without a fanout: no thread is left behind in a process that is
\* being taken down in order.
CleanExit ==
  outcome = "returned" =>
    config.fanouts = <<>> /\ \A t \in Threads : thread[t] = "ended"

\* stop() ends the program, wherever the threads are and however full the queues
\* are, if all threads were started; only a Redis feeder that gets no message
\* makes it wait for ever.
Consuming == <<"feeder", 1>> \in Threads /\ config.feed_type = "mdl_redis"
               /\ thread[<<"feeder", 1>>] = "work"

StopEnds ==
  (stopPos >= 0 /\ ~ early ~> outcome # "running") \/ <>[]Consuming
=============================================================================
