--------------------------- MODULE LifecycleProofs ---------------------------
(***************************************************************************)
(* What start(), stop() and waitForShutdown() keep to, for every settings  *)
(* file, any number of workers and wherever the threads are when stop() is *)
(* called.                                                                 *)
(***************************************************************************)
EXTENDS Lifecycle, TLAPS

\* The places of the main thread in init.
InInit == {"settings", "limits", "feeder", "users", "books", "fanouts"}

\* Everything that the threads use.
Everything == {"feeder", "user", "decoders", "books", "fanouts"}

\* What has been made when the main thread is where it is.
MadeSoFar ==
  /\ main \in {"settings", "limits", "feeder"} => made = {}
  /\ main = "users"   => made = {"feeder"}
  /\ main = "books"   => made = {"feeder", "user", "decoders"}
  /\ main = "fanouts" => made = {"feeder", "user", "decoders", "books"}
  /\ main \notin InInit => made = Everything

\* start() and stop() are at one of their steps, and neither was called in init.
Positions ==
  /\ startPos \in 0 .. Len(startSteps)
  /\ stopPos \in -1 .. Len(stopSteps)
  /\ main \in InInit => startPos = 0 /\ stopPos = -1
  /\ main \in {"store", "test", "wait"} => config.fanouts = <<>>

\* The threads that start() has come to, and no others, have been started.
Launched ==
  \A p \in DOMAIN startSteps :
    startSteps[p].op = "launch" =>
      (thread[startSteps[p].who] # "none" <=> p <= startPos)

\* The threads that stop() has joined have ended, or the process has.
Joined ==
  outcome # "terminated" =>
    \A p \in DOMAIN stopSteps :
      stopSteps[p].op = "join" /\ p <= stopPos =>
        stopSteps[p].who \in Threads /\ thread[stopSteps[p].who] = "ended"

\* No flag is set before stop() is called, and none is cleared afterwards if
\* start() had come to its end.
Flags ==
  /\ stopPos = -1 => ~ early /\ \A t \in Threads : ~ stopped[t]
  /\ stopPos # -1 /\ ~ early => startPos = Len(startSteps)

\* A fanout that handled a record after its flag was set does not take another.
AtMostOneAfter ==
  ~ early => \A s \in Sinks :
    /\ after[s] <= 1
    /\ after[s] = 1 => stopped[s] /\ thread[s] \in {"loop", "ended"}

\* The service's own flag is set last, after all the joins but its own.
ServiceFlag ==
  /\ stopped_ => stopPos >= Len(stopSteps) - 1
  /\ outcome = "returned" => stopped_ /\ main = "test"

LifeInv ==
  /\ TypeOK
  /\ MadeSoFar
  /\ Positions
  /\ Launched
  /\ Joined
  /\ Flags
  /\ AtMostOneAfter
  /\ ServiceFlag

-----------------------------------------------------------------------------
\* The steps make one of two operations each; the second one is done to each
\* member of W, once.
Covers(steps, first, second, W) ==
  /\ steps \in Seq([op : {first, second}, who : W])
  /\ \A p, q \in DOMAIN steps :
       steps[p].op = second /\ steps[q].op = second /\ steps[p].who = steps[q].who => p = q
  /\ \A w \in W : \E p \in DOMAIN steps : steps[p] = [op |-> second, who |-> w]

LEMMA SeqElements ==
  ASSUME NEW S, NEW s \in Seq(S)
  PROVE  /\ Len(s) \in Nat /\ DOMAIN s = 1 .. Len(s)
         /\ \A p \in DOMAIN s : s[p] \in S
BY SMT

LEMMA SeqMade ==
  ASSUME NEW S, NEW n \in Nat, NEW s, s = [p \in 1 .. n |-> s[p]],
         \A p \in 1 .. n : s[p] \in S
  PROVE  s \in Seq(S)
BY SMT

LEMMA SeqWider ==
  ASSUME NEW S, NEW T, S \subseteq T, NEW s \in Seq(S)
  PROVE  s \in Seq(T)
BY SMT

LEMMA SeqThenTwo ==
  ASSUME NEW S, NEW s \in Seq(S), NEW a \in S, NEW b \in S, NEW u, u = s \o <<a, b>>
  PROVE  /\ Len(s) \in Nat /\ DOMAIN s = 1 .. Len(s)
         /\ Len(u) = Len(s) + 2
         /\ DOMAIN u = 1 .. Len(s) + 2
         /\ \A p \in 1 .. Len(s) : u[p] = s[p]
         /\ u[Len(s) + 1] = a
         /\ u[Len(s) + 2] = b
<1> DEFINE t == <<a, b>>
<1>1. t \in Seq(S) /\ Len(t) = 2 /\ t[1] = a /\ t[2] = b
  OBVIOUS
<1>2. u = s \o t
  OBVIOUS
<1> HIDE DEF t
<1>3. /\ Len(s) \in Nat /\ DOMAIN s = 1 .. Len(s)
      /\ Len(u) = Len(s) + 2 /\ DOMAIN u = 1 .. Len(s) + 2
  BY <1>1, <1>2, SMT
<1>4. \A p \in 1 .. Len(s) : u[p] = s[p]
  BY <1>1, <1>2, SMT
<1>5. u[Len(s) + 1] = t[1] /\ u[Len(s) + 2] = t[2]
  BY <1>1, <1>2, SMT
<1> QED
  BY <1>1, <1>3, <1>4, <1>5

LEMMA CoversConcat ==
  ASSUME NEW s, NEW t, NEW first, NEW second, NEW W, NEW V,
         Covers(s, first, second, W), Covers(t, first, second, V), W \cap V = {}
  PROVE  Covers(s \o t, first, second, W \cup V)
<1> DEFINE u == s \o t
           Step(Z) == [op : {first, second}, who : Z]
<1>1. s \in Seq(Step(W)) /\ t \in Seq(Step(V))
  BY DEF Covers
<1>2. s \in Seq(Step(W \cup V)) /\ t \in Seq(Step(W \cup V))
  <2>1. Step(W) \subseteq Step(W \cup V) /\ Step(V) \subseteq Step(W \cup V)
    OBVIOUS
  <2> HIDE DEF Step
  <2> QED
    BY <1>1, <2>1, SeqWider
<1>3. u \in Seq(Step(W \cup V))
  BY <1>2
<1>4. /\ Len(s) \in Nat /\ Len(t) \in Nat
      /\ DOMAIN s = 1 .. Len(s) /\ DOMAIN t = 1 .. Len(t)
      /\ DOMAIN u = 1 .. Len(s) + Len(t)
      /\ \A p \in DOMAIN u : u[p] = IF p <= Len(s) THEN s[p] ELSE t[p - Len(s)]
  BY <1>2
<1>5. /\ \A p \in DOMAIN s : s[p].who \in W
      /\ \A p \in DOMAIN t : t[p].who \in V
  <2>1. /\ \A p \in DOMAIN s : s[p] \in Step(W)
        /\ \A p \in DOMAIN t : t[p] \in Step(V)
    <3> HIDE DEF Step
    <3> QED
      BY <1>1, SeqElements
  <2> QED
    BY <2>1
<1>6. \A p, q \in DOMAIN u :
        u[p].op = second /\ u[q].op = second /\ u[p].who = u[q].who => p = q
  <2> SUFFICES ASSUME NEW p \in DOMAIN u, NEW q \in DOMAIN u,
                      u[p].op = second, u[q].op = second, u[p].who = u[q].who
               PROVE  p = q
    OBVIOUS
  <2> HIDE DEF u
  <2>1. CASE p <= Len(s) /\ q <= Len(s)
    BY <1>4, <2>1, SMT DEF Covers
  <2>2. CASE p > Len(s) /\ q > Len(s)
    <3>1. p - Len(s) \in DOMAIN t /\ q - Len(s) \in DOMAIN t
          /\ u[p] = t[p - Len(s)] /\ u[q] = t[q - Len(s)]
      BY <1>4, <2>2, SMT
    <3>2. p - Len(s) = q - Len(s)
      BY <3>1 DEF Covers
    <3> QED
      BY <1>4, <3>2, SMT
  <2>3. CASE p <= Len(s) /\ q > Len(s)
    BY <1>4, <1>5, <2>3, SMT
  <2>4. CASE p > Len(s) /\ q <= Len(s)
    BY <1>4, <1>5, <2>4, SMT
  <2> QED
    BY <1>4, <2>1, <2>2, <2>3, <2>4, SMT
<1>7. \A w \in W \cup V : \E p \in DOMAIN u : u[p] = [op |-> second, who |-> w]
  <2> HIDE DEF u
  <2>1. ASSUME NEW w \in W
        PROVE  \E p \in DOMAIN u : u[p] = [op |-> second, who |-> w]
    <3>1. PICK p \in DOMAIN s : s[p] = [op |-> second, who |-> w]
      BY DEF Covers
    <3>2. p \in DOMAIN u /\ u[p] = s[p]
      BY <1>4, SMT
    <3> QED
      BY <3>1, <3>2
  <2>2. ASSUME NEW w \in V
        PROVE  \E p \in DOMAIN u : u[p] = [op |-> second, who |-> w]
    <3>1. PICK p \in DOMAIN t : t[p] = [op |-> second, who |-> w]
      BY DEF Covers
    <3>2. p + Len(s) \in DOMAIN u /\ u[p + Len(s)] = t[(p + Len(s)) - Len(s)]
      BY <1>4, SMT
    <3>3. (p + Len(s)) - Len(s) = p
      BY <1>4, SMT
    <3> QED
      BY <3>1, <3>2, <3>3
  <2> QED
    BY <2>1, <2>2
<1> QED
  BY <1>3, <1>6, <1>7 DEF Covers

\* The pairs of steps that Each makes for the objects of one kind.
Pairs(n, kind, first, second) ==
  [j \in 1 .. 2 * n |->
     [op |-> IF j % 2 = 1 THEN first ELSE second, who |-> <<kind, (j + 1) \div 2>>]]

LEMMA PairsCover ==
  ASSUME NEW n \in Nat, NEW kind, NEW first, NEW second, first # second
  PROVE  Covers(Pairs(n, kind, first, second), first, second, {<<kind, i>> : i \in 1 .. n})
<1> DEFINE P == Pairs(n, kind, first, second)
           W == {<<kind, i>> : i \in 1 .. n}
<1>1. \A j \in 1 .. 2 * n : (j + 1) \div 2 \in 1 .. n
  BY SMT
<1>2. P \in Seq([op : {first, second}, who : W])
  <2>1. \A j \in 1 .. 2 * n : P[j] \in [op : {first, second}, who : W]
    BY <1>1 DEF Pairs
  <2>2. 2 * n \in Nat /\ P = [j \in 1 .. 2 * n |-> P[j]]
    BY SMT DEF Pairs
  <2> DEFINE S == [op : {first, second}, who : W]
  <2> HIDE DEF P, W, S
  <2>3. P \in Seq(S)
    BY <2>1, <2>2, SeqMade DEF S
  <2> QED
    BY <2>3 DEF S
<1>3. ASSUME NEW p \in DOMAIN P, NEW q \in DOMAIN P,
             P[p].op = second, P[q].op = second, P[p].who = P[q].who
      PROVE  p = q
  <2>1. /\ p \in 1 .. 2 * n /\ q \in 1 .. 2 * n
        /\ p % 2 # 1 /\ q % 2 # 1 /\ (p + 1) \div 2 = (q + 1) \div 2
    BY <1>3 DEF Pairs
  <2> QED
    BY <2>1, SMT
<1>4. ASSUME NEW i \in 1 .. n
      PROVE  \E p \in DOMAIN P : P[p] = [op |-> second, who |-> <<kind, i>>]
  <2>1. /\ 2 * i \in 1 .. 2 * n /\ (2 * i) % 2 # 1 /\ ((2 * i) + 1) \div 2 = i
    BY SMT
  <2>2. 2 * i \in DOMAIN P /\ P[2 * i] = [op |-> second, who |-> <<kind, i>>]
    BY <2>1 DEF Pairs
  <2> QED
    BY <2>2
<1> QED
  BY <1>2, <1>3, <1>4 DEF Covers

\* The feeder's steps: two for its first thread, one for its second.
LEMMA ThreeCover ==
  ASSUME NEW first, NEW second, first # second, NEW f, NEW g, f # g
  PROVE  Covers(<<[op |-> first, who |-> f], [op |-> second, who |-> f],
                  [op |-> second, who |-> g]>>, first, second, {f, g})
<1> DEFINE s == <<[op |-> first, who |-> f], [op |-> second, who |-> f],
                  [op |-> second, who |-> g]>>
           S == [op : {first, second}, who : {f, g}]
<1>1. /\ DOMAIN s = {1, 2, 3} /\ s[1] = [op |-> first, who |-> f]
      /\ s[2] = [op |-> second, who |-> f] /\ s[3] = [op |-> second, who |-> g]
  BY SMT
<1>2. s \in Seq(S)
  <2>1. /\ [op |-> first, who |-> f] \in S /\ [op |-> second, who |-> f] \in S
        /\ [op |-> second, who |-> g] \in S
    OBVIOUS
  <2> HIDE DEF S
  <2> QED
    BY <2>1
<1> HIDE DEF s
<1>3. \A p, q \in DOMAIN s :
        s[p].op = second /\ s[q].op = second /\ s[p].who = s[q].who => p = q
  BY <1>1
<1>4. \A w \in {f, g} : \E p \in DOMAIN s : s[p] = [op |-> second, who |-> w]
  BY <1>1
<1> QED
  BY <1>2, <1>3, <1>4 DEF Covers, s

LEMMA TwoCover ==
  ASSUME NEW first, NEW second, first # second, NEW f
  PROVE  Covers(<<[op |-> first, who |-> f], [op |-> second, who |-> f]>>,
                first, second, {f})
<1> DEFINE s == <<[op |-> first, who |-> f], [op |-> second, who |-> f]>>
           S == [op : {first, second}, who : {f}]
<1>1. /\ DOMAIN s = {1, 2} /\ s[1] = [op |-> first, who |-> f]
      /\ s[2] = [op |-> second, who |-> f]
  BY SMT
<1>2. s \in Seq(S)
  <2>1. [op |-> first, who |-> f] \in S /\ [op |-> second, who |-> f] \in S
    OBVIOUS
  <2> HIDE DEF S
  <2> QED
    BY <2>1
<1> HIDE DEF s
<1>3. \A p, q \in DOMAIN s :
        s[p].op = second /\ s[q].op = second /\ s[p].who = s[q].who => p = q
  BY <1>1
<1>4. \A w \in {f} : \E p \in DOMAIN s : s[p] = [op |-> second, who |-> w]
  BY <1>1
<1> QED
  BY <1>2, <1>3, <1>4 DEF Covers, s

LEMMA ConfigFacts ==
  ASSUME config \in Settings
  PROVE  /\ Len(config.fanouts) \in Nat
         /\ DOMAIN config.fanouts = 1 .. Len(config.fanouts)
         /\ config.fanouts # <<>> \/ Len(config.fanouts) = 0
<1>1. config.fanouts \in Seq({"zmq", "file", "redis"})
  BY SettingsAssumption DEF lob_config_t
<1> QED
  BY <1>1, SMT

LEMMA KindsApart ==
  /\ Workers \cap Feeds = {} /\ (Workers \cup Feeds) \cap Sinks = {}
  /\ Feeds \cap Workers = {} /\ (Feeds \cup Workers) \cap Sinks = {}
  /\ \A t \in Sinks : Owner(t) = t
  /\ Service \notin Threads
<1>1. /\ \A t \in Workers : t[1] = "worker" 
      /\ \A t \in Feeds : t[1] = "feeder"
      /\ \A t \in Sinks : t[1] = "fanout"
      /\ Service[1] = "service"
  BY DEF Workers, Feeds, Sinks, Service
<1> QED
  BY <1>1 DEF Threads, Owner

\* start() launches each thread, and once.
LEMMA StartSteps ==
  ASSUME config \in Settings
  PROVE  Covers(startSteps, "clear", "launch", Threads)
<1>1. Covers(Each(workers, WorkerStart), "clear", "launch", Workers)
  <2>1. Each(workers, WorkerStart) = Pairs(workers, "worker", "clear", "launch")
    BY DEF Each, WorkerStart, Clear, Launch, Pairs
  <2> QED
    BY <2>1, PairsCover, WorkersAssumption DEF Workers
<1>2. Covers(FeedStart, "clear", "launch", Feeds)
  <2>1. CASE config.feed_type = "mdl_csv"
    <3>1. FeedStart = <<[op |-> "clear", who |-> <<"feeder", 1>>],
                        [op |-> "launch", who |-> <<"feeder", 1>>],
                        [op |-> "launch", who |-> <<"feeder", 2>>]>>
      BY <2>1 DEF FeedStart, CsvFeedStart, Clear, Launch
    <3>2. Feeds = {<<"feeder", 1>>, <<"feeder", 2>>}
      BY <2>1, SMT DEF Feeds
    <3>3. <<"feeder", 1>> # <<"feeder", 2>>
      OBVIOUS
    <3> QED
      BY <3>1, <3>2, <3>3, ThreeCover
  <2>2. CASE config.feed_type # "mdl_csv"
    <3>1. FeedStart = <<[op |-> "clear", who |-> <<"feeder", 1>>],
                        [op |-> "launch", who |-> <<"feeder", 1>>]>>
      BY <2>2 DEF FeedStart, SocketFeedStart, Clear, Launch
    <3>2. Feeds = {<<"feeder", 1>>}
      BY <2>2, SMT DEF Feeds
    <3> QED
      BY <3>1, <3>2, TwoCover
  <2> QED
    BY <2>1, <2>2
<1>3. Covers(Each(Len(config.fanouts), FanoutStart), "clear", "launch", Sinks)
  <2>1. Each(Len(config.fanouts), FanoutStart)
          = Pairs(Len(config.fanouts), "fanout", "clear", "launch")
    BY DEF Each, FanoutStart, Clear, Launch, Pairs
  <2>2. Sinks = {<<"fanout", k>> : k \in 1 .. Len(config.fanouts)}
    BY ConfigFacts DEF Sinks
  <2> QED
    BY <2>1, <2>2, PairsCover, ConfigFacts
<1>4. Covers(Each(workers, WorkerStart) \o FeedStart, "clear", "launch", Workers \cup Feeds)
  BY <1>1, <1>2, CoversConcat, KindsApart
<1>5. Covers(startSteps, "clear", "launch", (Workers \cup Feeds) \cup Sinks)
  BY <1>3, <1>4, CoversConcat, KindsApart DEF startSteps
<1>6. (Workers \cup Feeds) \cup Sinks = Threads
  BY DEF Threads
<1> QED
  BY <1>5, <1>6

\* stop() joins each thread, sets the service's flag, and joins its thread.
LEMMA StopSteps ==
  ASSUME config \in Settings
  PROVE  /\ Len(stopSteps) \in Nat /\ Len(stopSteps) >= 2
         /\ DOMAIN stopSteps = 1 .. Len(stopSteps)
         /\ \A p \in 1 .. Len(stopSteps) - 2 :
              stopSteps[p].op \in {"set", "join"} /\ stopSteps[p].who \in Threads
         /\ stopSteps[Len(stopSteps) - 1] = Set(Service)
         /\ stopSteps[Len(stopSteps)] = Join(Service)
         /\ \A t \in Threads : \E p \in 1 .. Len(stopSteps) - 2 : stopSteps[p] = Join(t)
<1> DEFINE joins == FeedStop \o Each(workers, WorkerStop) \o Each(Len(config.fanouts), FanoutStop)
<1>1. Covers(Each(workers, WorkerStop), "set", "join", Workers)
  <2>1. Each(workers, WorkerStop) = Pairs(workers, "worker", "set", "join")
    BY DEF Each, WorkerStop, Set, Join, Pairs
  <2> QED
    BY <2>1, PairsCover, WorkersAssumption DEF Workers
<1>2. Covers(FeedStop, "set", "join", Feeds)
  <2>1. CASE config.feed_type = "mdl_csv"
    <3>1. FeedStop = <<[op |-> "set", who |-> <<"feeder", 1>>],
                        [op |-> "join", who |-> <<"feeder", 1>>],
                        [op |-> "join", who |-> <<"feeder", 2>>]>>
      BY <2>1 DEF FeedStop, CsvFeedStop, Set, Join
    <3>2. Feeds = {<<"feeder", 1>>, <<"feeder", 2>>}
      BY <2>1, SMT DEF Feeds
    <3>3. <<"feeder", 1>> # <<"feeder", 2>>
      OBVIOUS
    <3> QED
      BY <3>1, <3>2, <3>3, ThreeCover
  <2>2. CASE config.feed_type # "mdl_csv"
    <3>1. FeedStop = <<[op |-> "set", who |-> <<"feeder", 1>>],
                        [op |-> "join", who |-> <<"feeder", 1>>]>>
      BY <2>2 DEF FeedStop, SocketFeedStop, Set, Join
    <3>2. Feeds = {<<"feeder", 1>>}
      BY <2>2, SMT DEF Feeds
    <3> QED
      BY <3>1, <3>2, TwoCover
  <2> QED
    BY <2>1, <2>2
<1>3. Covers(Each(Len(config.fanouts), FanoutStop), "set", "join", Sinks)
  <2>1. Each(Len(config.fanouts), FanoutStop)
          = Pairs(Len(config.fanouts), "fanout", "set", "join")
    BY DEF Each, FanoutStop, Set, Join, Pairs
  <2>2. Sinks = {<<"fanout", k>> : k \in 1 .. Len(config.fanouts)}
    BY ConfigFacts DEF Sinks
  <2> QED
    BY <2>1, <2>2, PairsCover, ConfigFacts
<1>4. Covers(FeedStop \o Each(workers, WorkerStop), "set", "join", Feeds \cup Workers)
  BY <1>1, <1>2, CoversConcat, KindsApart
<1>5. Covers(joins, "set", "join", (Feeds \cup Workers) \cup Sinks)
  BY <1>3, <1>4, CoversConcat, KindsApart
<1>6. (Feeds \cup Workers) \cup Sinks = Threads
  BY DEF Threads
<1>7. stopSteps = joins \o <<Set(Service), Join(Service)>>
  BY DEF stopSteps
<1> DEFINE S == [op : {"set", "join"}, who : Threads \cup {Service}]
<1>8. joins \in Seq(S) /\ Set(Service) \in S /\ Join(Service) \in S
  <2>1. joins \in Seq([op : {"set", "join"}, who : Threads])
    BY <1>5, <1>6 DEF Covers
  <2>2. [op : {"set", "join"}, who : Threads] \subseteq S
    OBVIOUS
  <2>3. Set(Service) \in S /\ Join(Service) \in S
    BY DEF Set, Join
  <2> HIDE DEF joins, S
  <2> QED
    BY <2>1, <2>2, <2>3, SeqWider
<1>9. \A p \in DOMAIN joins : joins[p].op \in {"set", "join"} /\ joins[p].who \in Threads
  <2>1. \A p \in DOMAIN joins : joins[p] \in [op : {"set", "join"}, who : Threads]
    <3> HIDE DEF joins
    <3> QED
      BY <1>5, <1>6, SeqElements DEF Covers
  <2> QED
    BY <2>1
<1>10. \A t \in Threads : \E p \in DOMAIN joins : joins[p] = Join(t)
  BY <1>5, <1>6 DEF Covers, Join
<1> HIDE DEF joins, S
<1>12. /\ Len(joins) \in Nat /\ DOMAIN joins = 1 .. Len(joins)
       /\ Len(stopSteps) = Len(joins) + 2
       /\ DOMAIN stopSteps = 1 .. Len(joins) + 2
       /\ \A p \in 1 .. Len(joins) : stopSteps[p] = joins[p]
       /\ stopSteps[Len(joins) + 1] = Set(Service)
       /\ stopSteps[Len(joins) + 2] = Join(Service)
  BY <1>7, <1>8, SeqThenTwo
<1>13. Len(stopSteps) - 2 = Len(joins) /\ Len(stopSteps) - 1 = Len(joins) + 1
       /\ Len(stopSteps) \in Nat /\ Len(stopSteps) >= 2
  BY <1>12, SMT
<1> QED
  BY <1>9, <1>10, <1>12, <1>13

-----------------------------------------------------------------------------
\* What depends on the settings file alone does not change.
LEMMA ConfigSame ==
  ASSUME config' = config
  PROVE  /\ Threads' = Threads /\ Sinks' = Sinks
         /\ startSteps' = startSteps /\ stopSteps' = stopSteps
<1>1. Threads' = Threads /\ Sinks' = Sinks
  BY DEF Threads, Sinks, Feeds, Workers
<1>2. startSteps' = startSteps
  BY DEF startSteps, FeedStart, Each
<1>3. stopSteps' = stopSteps
  BY DEF stopSteps, FeedStop, Each
<1> QED
  BY <1>1, <1>2, <1>3

LEMMA SinksAreThreads == Sinks \subseteq Threads
  BY DEF Threads

LEMMA InitEstablishes == Init => LifeInv
<1> SUFFICES ASSUME Init PROVE LifeInv
  OBVIOUS
<1>1. config \in Settings
  BY DEF Init
<1>2. startPos = 0 /\ 0 \in 0 .. Len(startSteps)
  <2>1. startSteps \in Seq([op : {"clear", "launch"}, who : Threads])
    BY <1>1, StartSteps DEF Covers
  <2>2. Len(startSteps) \in Nat
    BY <2>1, SeqElements
  <2> QED
    BY <2>2, SMT DEF Init
<1>3. stopPos = -1 /\ -1 \in -1 .. Len(stopSteps)
  BY <1>1, StopSteps, SMT DEF Init
<1>4. TypeOK
  <2>1. 0 \in 0 .. MaxQueue
    BY MaxQueueAssumption, SMT
  <2> QED
    BY <2>1 DEF Init, TypeOK
<1>5. MadeSoFar /\ Positions
  BY <1>2, <1>3 DEF Init, MadeSoFar, Positions, InInit
<1>6. Launched
  <2>1. startSteps \in Seq([op : {"clear", "launch"}, who : Threads])
    BY <1>1, StartSteps DEF Covers
  <2>2. ASSUME NEW p \in DOMAIN startSteps
        PROVE  startSteps[p].who \in Threads /\ ~ (p <= 0)
    <3>1. /\ DOMAIN startSteps = 1 .. Len(startSteps)
          /\ startSteps[p] \in [op : {"clear", "launch"}, who : Threads]
      BY <2>1, SeqElements
    <3> QED
      BY <3>1, SMT
  <2> QED
    BY <1>2, <2>2 DEF Launched, Init
<1>7. Joined
  <2>1. \A p \in DOMAIN stopSteps : ~ (p <= -1)
    BY <1>1, StopSteps, SMT
  <2> QED
    BY <1>3, <2>1 DEF Joined
<1>8. Flags /\ ServiceFlag
  BY <1>3 DEF Flags, ServiceFlag, Init
<1>9. AtMostOneAfter
  <2>1. 0 <= 1 /\ 0 # 1
    BY SMT
  <2> QED
    BY <2>1 DEF AtMostOneAfter, Init
<1> QED
  BY <1>4, <1>5, <1>6, <1>7, <1>8, <1>9 DEF LifeInv

\* A step of the main thread or of the caller of stop() that leaves flags, threads
\* and records alone.
LEMMA PlaceStep ==
  ASSUME LifeInv, UNCHANGED <<config, thread, stopped, after, startPos, stopPos, early>>,
         MadeSoFar', Positions', ServiceFlag',
         main' \in {"settings", "limits", "feeder", "users", "books", "fanouts", "start",
                    "timer", "store", "test", "wait"},
         made' \subseteq {"feeder", "user", "decoders", "books", "fanouts"},
         stopped_' \in BOOLEAN, queue' \in [Sinks -> 0 .. MaxQueue],
         outcome' \in {"running", "failed", "returned", "terminated"},
         outcome = "running"
  PROVE  LifeInv'
<1>1. /\ Threads' = Threads /\ Sinks' = Sinks
      /\ startSteps' = startSteps /\ stopSteps' = stopSteps
  BY ConfigSame
<1>2. TypeOK'
  BY <1>1 DEF LifeInv, TypeOK
<1>3. Launched' /\ Joined' /\ Flags' /\ AtMostOneAfter'
  BY <1>1 DEF LifeInv, Launched, Joined, Flags, AtMostOneAfter
<1> QED
  BY <1>2, <1>3 DEF LifeInv

LEMMA ServiceInitStep ==
  ASSUME LifeInv, ServiceInit
  PROVE  LifeInv'
<1>1. /\ UNCHANGED <<config, thread, stopped, after, startPos, stopPos, early, stopped_, queue>>
      /\ outcome = "running" /\ main \in InInit
      /\ outcome' \in {"running", "failed"}
  BY DEF ServiceInit, OpenSettings, LoadLimits, MakeFeeder, SetUsers, CreateBooks,
         InitFanouts, InitGoes, InitFails, serviceVars, threadVars, InInit
<1>2. MadeSoFar' /\ main' \in InInit \cup {"start"}
  <2> USE DEF LifeInv, MadeSoFar, InInit, Everything, InitGoes, InitFails, serviceVars
  <2>1. CASE OpenSettings
    BY <2>1 DEF OpenSettings
  <2>2. CASE LoadLimits
    BY <2>2 DEF LoadLimits
  <2>3. CASE MakeFeeder
    BY <2>3 DEF MakeFeeder
  <2>4. CASE SetUsers
    BY <2>4 DEF SetUsers, setFeedUser, setDataDecoder
  <2>5. CASE CreateBooks
    BY <2>5 DEF CreateBooks
  <2>6. CASE InitFanouts
    BY <2>6 DEF InitFanouts
  <2> QED
    BY <2>1, <2>2, <2>3, <2>4, <2>5, <2>6 DEF ServiceInit
<1>3. made' \subseteq Everything
  BY <1>2 DEF MadeSoFar, Everything, InInit
<1>4. Positions' /\ ServiceFlag'
  BY <1>1, <1>2, ConfigSame DEF LifeInv, Positions, ServiceFlag, InInit
<1> QED
  BY <1>1, <1>2, <1>3, <1>4, PlaceStep DEF LifeInv, TypeOK, InInit, Everything

LEMMA MainStep ==
  ASSUME LifeInv, Started \/ TimerRound \/ StoreStopped \/ waitForShutdown \/ SpuriousWakeup
  PROVE  LifeInv'
<1>1. /\ UNCHANGED <<config, made, thread, stopped, after, startPos, stopPos, early>>
      /\ outcome = "running" /\ main \notin InInit /\ main' \notin InInit
      /\ main' \in {"start", "timer", "store", "test", "wait"}
      /\ main' \in {"store", "test", "wait"} =>
           main \in {"store", "test", "wait"} \/ config.fanouts = <<>>
      /\ outcome' \in {"running", "returned"}
      /\ outcome' = "returned" => stopped_' /\ main' = "test"
      /\ stopped_' \in BOOLEAN /\ (stopped_' => stopped_)
  <2> USE DEF InInit, serviceVars, threadVars
  <2>0. stopped_ \in BOOLEAN
    BY DEF LifeInv, TypeOK
  <2>1. CASE Started
    BY <2>0, <2>1 DEF Started
  <2>2. CASE TimerRound
    BY <2>0, <2>2 DEF TimerRound
  <2>3. CASE StoreStopped
    BY <2>0, <2>3 DEF StoreStopped
  <2>4. CASE waitForShutdown
    BY <2>0, <2>4 DEF waitForShutdown
  <2>5. CASE SpuriousWakeup
    BY <2>0, <2>5 DEF SpuriousWakeup
  <2> QED
    BY <2>1, <2>2, <2>3, <2>4, <2>5
<1>2. queue' \in [Sinks -> 0 .. MaxQueue]
  <2>1. CASE TimerRound
    <3>1. \A s \in Sinks : queue[s] \in 0 .. MaxQueue
      BY DEF LifeInv, TypeOK
    <3>2. \A s \in Sinks : (IF queue[s] < MaxQueue THEN queue[s] + 1 ELSE MaxQueue)
                              \in 0 .. MaxQueue
      BY <3>1, MaxQueueAssumption, SMT
    <3> QED
      BY <2>1, <3>2 DEF TimerRound
  <2>2. CASE ~ TimerRound
    BY <2>2 DEF Started, StoreStopped, waitForShutdown, SpuriousWakeup, threadVars,
                LifeInv, TypeOK
  <2> QED
    BY <2>1, <2>2
<1>3. MadeSoFar' /\ Positions' /\ ServiceFlag'
  BY <1>1, ConfigSame DEF LifeInv, MadeSoFar, Positions, ServiceFlag, InInit
<1> QED
  BY <1>1, <1>2, <1>3, PlaceStep DEF LifeInv, TypeOK

LEMMA StopCalledStep ==
  ASSUME LifeInv, StopCalled
  PROVE  LifeInv'
<1>1. /\ UNCHANGED <<config, made, stopped_, thread, stopped, queue, after, main,
                     startPos, outcome>>
      /\ stopPos = -1 /\ stopPos' = 0 /\ main \notin InInit
      /\ early' = (startPos < Len(startSteps))
      /\ outcome = "running"
  BY DEF StopCalled, serviceVars, threadVars, InInit
<1>2. /\ Threads' = Threads /\ Sinks' = Sinks
      /\ startSteps' = startSteps /\ stopSteps' = stopSteps
  BY <1>1, ConfigSame
<1>3. /\ Len(stopSteps) \in Nat /\ Len(stopSteps) >= 2 /\ Len(startSteps) \in Nat
      /\ DOMAIN stopSteps = 1 .. Len(stopSteps)
  <2>1. config \in Settings
    BY DEF LifeInv, TypeOK
  <2> QED
    BY <2>1, StartSteps, StopSteps, SeqElements DEF Covers
<1>4. TypeOK' /\ MadeSoFar' /\ Launched'
  BY <1>1, <1>2 DEF LifeInv, TypeOK, MadeSoFar, Launched
<1>5. Positions'
  BY <1>1, <1>2, <1>3, SMT DEF LifeInv, Positions, InInit
<1>6. Joined'
  <2>1. \A p \in DOMAIN stopSteps : ~ (p <= 0)
    BY <1>3, SMT
  <2> QED
    BY <1>1, <1>2, <2>1 DEF Joined
<1>7. Flags'
  <2>1. ~ (startPos < Len(startSteps)) => startPos = Len(startSteps)
    BY <1>3, SMT DEF LifeInv, Positions
  <2>2. 0 # -1
    BY SMT
  <2> QED
    BY <1>1, <1>2, <2>1, <2>2 DEF Flags
<1>8. AtMostOneAfter'
  BY <1>1, <1>2 DEF LifeInv, AtMostOneAfter, Flags
<1>9. ServiceFlag'
  <2>1. ~ stopped_
    BY <1>1, <1>3, SMT DEF LifeInv, ServiceFlag
  <2> QED
    BY <1>1, <2>1 DEF ServiceFlag
<1> QED
  BY <1>4, <1>5, <1>6, <1>7, <1>8, <1>9 DEF LifeInv

\* The next of m steps, after k of them.
LEMMA NextStep ==
  ASSUME NEW m \in Nat, NEW k \in 0 .. m, k < m
  PROVE  /\ k + 1 \in 1 .. m /\ k + 1 \in 0 .. m /\ k + 1 \in -1 .. m
         /\ ~ (k + 1 <= k) /\ k + 1 <= k + 1 /\ k # m /\ k # -1 /\ k + 1 # -1
         /\ \A p \in 1 .. m : p <= k + 1 <=> p <= k \/ p = k + 1
         /\ k + 1 \in 1 .. m - 2 \/ k + 1 = m - 1 \/ k + 1 = m
         /\ k >= m - 1 => k + 1 >= m - 1
         /\ m - 1 >= m - 1
BY SMT

LEMMA StartingStep ==
  ASSUME LifeInv, Starting
  PROVE  LifeInv'
<1> DEFINE n == startPos + 1
           who == startSteps[n].who
<1>1. /\ UNCHANGED <<config, made, stopped_, queue, after, main, stopPos, early, outcome>>
      /\ startPos' = n /\ startPos < Len(startSteps)
      /\ main = "start" /\ outcome = "running"
      /\ IF startSteps[n].op = "clear"
         THEN stopped' = [stopped EXCEPT ![who] = FALSE] /\ UNCHANGED thread
         ELSE thread' = [thread EXCEPT ![who] = "open"] /\ UNCHANGED stopped
  BY DEF Starting, serviceVars
<1>2. /\ Threads' = Threads /\ Sinks' = Sinks
      /\ startSteps' = startSteps /\ stopSteps' = stopSteps
  BY <1>1, ConfigSame
<1>3. Covers(startSteps, "clear", "launch", Threads)
  BY StartSteps DEF LifeInv, TypeOK
<1>4. /\ Len(startSteps) \in Nat /\ DOMAIN startSteps = 1 .. Len(startSteps)
      /\ \A p \in DOMAIN startSteps : startSteps[p] \in [op : {"clear", "launch"}, who : Threads]
  BY <1>3, SeqElements DEF Covers
<1>5. n \in DOMAIN startSteps /\ n \in 0 .. Len(startSteps) /\ ~ (n <= startPos)
      /\ n <= n /\ startPos # Len(startSteps)
  BY <1>1, <1>4, NextStep DEF LifeInv, Positions
<1>6. startSteps[n].op \in {"clear", "launch"} /\ who \in Threads
  BY <1>4, <1>5
<1>7. \A p \in DOMAIN startSteps : p <= n <=> p <= startPos \/ p = n
  BY <1>1, <1>4, NextStep DEF LifeInv, Positions
<1>8. ~ early => /\ stopPos = -1 /\ \A t \in Threads : ~ stopped[t]
                 /\ \A t \in Sinks : after[t] <= 1 /\ after[t] # 1
  <2>1. ~ early => stopPos = -1 /\ \A t \in Threads : ~ stopped[t]
    BY <1>5 DEF LifeInv, Flags
  <2> QED
    BY <2>1, SinksAreThreads DEF LifeInv, AtMostOneAfter
<1> HIDE DEF n
<1>9. TypeOK'
  <2>1. /\ thread' \in [Threads -> {"none", "open", "loop", "work", "publish", "ended"}]
        /\ stopped' \in [Threads -> BOOLEAN]
    BY <1>1, <1>6 DEF LifeInv, TypeOK
  <2> QED
    BY <1>1, <1>2, <2>1 DEF LifeInv, TypeOK
<1>10. MadeSoFar' /\ Positions' /\ ServiceFlag'
  BY <1>1, <1>2, <1>5 DEF LifeInv, MadeSoFar, Positions, ServiceFlag, InInit
<1>11. Launched'
  <2>1. CASE startSteps[n].op = "clear"
    <3>1. \A p \in DOMAIN startSteps : startSteps[p].op = "launch" =>
             (p <= n <=> p <= startPos)
      BY <1>7, <2>1
    <3> QED
      BY <1>1, <1>2, <2>1, <3>1 DEF LifeInv, Launched
  <2>2. CASE startSteps[n].op # "clear"
    <3>1. startSteps[n].op = "launch" /\ thread' = [thread EXCEPT ![who] = "open"]
      BY <1>1, <1>6, <2>2
    <3>2. \A p \in DOMAIN startSteps : startSteps[p].op = "launch" =>
             startSteps[p].who \in Threads /\ (startSteps[p].who = who => p = n)
      BY <1>3, <1>4, <1>5, <3>1 DEF Covers
    <3>3. ASSUME NEW p \in DOMAIN startSteps, startSteps[p].op = "launch"
          PROVE  thread'[startSteps[p].who] # "none" <=> p <= n
      <4>1. CASE p = n
        BY <1>5, <1>6, <3>1, <4>1 DEF LifeInv, TypeOK
      <4>2. CASE p # n
        BY <1>6, <1>7, <3>1, <3>2, <3>3, <4>2 DEF LifeInv, TypeOK, Launched
      <4> QED
        BY <4>1, <4>2
    <3> QED
      BY <1>1, <1>2, <3>3 DEF Launched
  <2> QED
    BY <2>1, <2>2
<1>12. Joined'
  <2>1. CASE startSteps[n].op = "clear"
    BY <1>1, <1>2, <2>1 DEF LifeInv, Joined
  <2>2. CASE startSteps[n].op # "clear"
    <3>1. thread[who] = "none" /\ thread' = [thread EXCEPT ![who] = "open"]
      BY <1>1, <1>5, <1>6, <2>2 DEF LifeInv, Launched
    <3>2. \A t \in Threads : thread[t] = "ended" => thread'[t] = "ended"
      BY <3>1 DEF LifeInv, TypeOK
    <3> QED
      BY <1>1, <1>2, <3>2 DEF LifeInv, Joined
  <2> QED
    BY <2>1, <2>2
<1>13. Flags'
  <2>1. stopPos = -1 => ~ early /\ \A t \in Threads : ~ stopped'[t]
    BY <1>1, <1>6 DEF LifeInv, Flags, TypeOK
  <2> QED
    BY <1>1, <1>2, <1>8, <2>1 DEF Flags
<1>14. AtMostOneAfter'
  BY <1>1, <1>2, <1>8 DEF AtMostOneAfter
<1> QED
  BY <1>9, <1>10, <1>11, <1>12, <1>13, <1>14 DEF LifeInv

LEMMA StoppingStep ==
  ASSUME LifeInv, Stopping
  PROVE  LifeInv'
<1> DEFINE n == stopPos + 1
           s == stopSteps[n]
           L == Len(stopSteps)
<1>1. /\ UNCHANGED <<config, made, thread, queue, after, main, startPos, early>>
      /\ stopPos' = n /\ stopPos \in 0 .. L - 1 /\ outcome = "running"
  BY DEF Stopping
<1>2. \/ /\ s.op = "set" /\ s.who # Service
         /\ stopped' = [stopped EXCEPT ![s.who] = TRUE]
         /\ UNCHANGED <<stopped_, outcome>>
      \/ /\ s.op = "set" /\ s.who = Service
         /\ stopped_' = TRUE
         /\ UNCHANGED <<stopped, outcome>>
      \/ /\ s.op = "join"
         /\ \/ outcome' = "terminated"
            \/ s.who # Service /\ thread[s.who] = "ended" /\ UNCHANGED outcome
         /\ UNCHANGED <<stopped, stopped_>>
  BY DEF Stopping
<1>3. /\ Threads' = Threads /\ Sinks' = Sinks
      /\ startSteps' = startSteps /\ stopSteps' = stopSteps
  BY <1>1, ConfigSame
<1>4. /\ L \in Nat /\ L >= 2 /\ DOMAIN stopSteps = 1 .. L
      /\ \A p \in 1 .. L - 2 : stopSteps[p].op \in {"set", "join"} /\ stopSteps[p].who \in Threads
      /\ stopSteps[L - 1] = [op |-> "set", who |-> Service]
      /\ stopSteps[L] = [op |-> "join", who |-> Service]
  BY StopSteps DEF LifeInv, TypeOK, Set, Join
<1>5. /\ n \in 1 .. L - 2 \/ n = L - 1 \/ n = L
      /\ n \in -1 .. L /\ n # -1 /\ stopPos # -1
      /\ (stopPos >= L - 1 => n >= L - 1)
      /\ (n = L - 1 => n >= L - 1)
      /\ \A p \in 1 .. L : p <= n <=> p <= stopPos \/ p = n
      /\ L - 1 # L
  <2>1. stopPos \in 0 .. L /\ stopPos < L /\ L - 1 # L
    <3>1. L \in Nat /\ stopPos \in 0 .. L - 1
      BY <1>1, <1>4
    <3> HIDE DEF L
    <3> QED
      BY <3>1, SMT
  <2> HIDE DEF L
  <2> QED
    BY <1>4, <2>1, NextStep
<1> HIDE DEF n
<1>6. /\ s.who # Service => s.who \in Threads
      /\ s.op = "set" /\ s.who = Service => n = L - 1
  <2>1. CASE n \in 1 .. L - 2
    BY <1>4, <2>1, KindsApart
  <2>2. CASE n = L - 1
    BY <1>4, <2>2
  <2>3. CASE n = L
    <3>1. s = [op |-> "join", who |-> Service]
      BY <1>4, <2>3
    <3> HIDE DEF s, L
    <3> QED
      BY <3>1
  <2> QED
    BY <1>5, <2>1, <2>2, <2>3
<1> HIDE DEF L, s
<1>7. TypeOK'
  BY <1>1, <1>2, <1>3, <1>6, Zenon DEF LifeInv, TypeOK
<1>8. MadeSoFar' /\ Launched'
  BY <1>1, <1>3 DEF LifeInv, MadeSoFar, Launched, InInit
<1>9. Positions'
  <2>1. main \notin InInit
    BY <1>5 DEF LifeInv, Positions
  <2> QED
    BY <1>1, <1>3, <1>5, <2>1 DEF LifeInv, Positions, L
<1>10. Joined'
  <2> SUFFICES ASSUME outcome' # "terminated", NEW p \in DOMAIN stopSteps,
                      stopSteps[p].op = "join", p <= n
               PROVE  stopSteps[p].who \in Threads /\ thread[stopSteps[p].who] = "ended"
    BY <1>1, <1>3 DEF Joined
  <2>1. CASE p = n
    BY <1>2, <1>6, <2>1 DEF s
  <2>2. CASE p # n
    BY <1>1, <1>4, <1>5, <2>2 DEF LifeInv, Joined
  <2> QED
    BY <2>1, <2>2
<1>11. Flags'
  BY <1>1, <1>3, <1>5 DEF LifeInv, Flags
<1>12. AtMostOneAfter'
  <2>1. \A t \in Sinks : stopped[t] => stopped'[t]
    BY <1>2, SinksAreThreads DEF LifeInv, TypeOK
  <2> QED
    BY <1>1, <1>3, <2>1 DEF LifeInv, AtMostOneAfter
<1>13. ServiceFlag'
  <2>1. outcome' # "returned"
    BY <1>1, <1>2
  <2>2. stopped_' => n >= L - 1
    BY <1>2, <1>5, <1>6 DEF LifeInv, ServiceFlag, L
  <2> QED
    BY <1>1, <1>3, <2>1, <2>2 DEF ServiceFlag, L
<1> QED
  BY <1>7, <1>8, <1>9, <1>10, <1>11, <1>12, <1>13 DEF LifeInv

-----------------------------------------------------------------------------
\* The threads.  A thread that moves has been started and has not ended.
LEMMA MovesKeep ==
  ASSUME LifeInv, NEW t \in Threads, NEW here, NEW next, Moves(t, here, next),
         here \in {"open", "loop", "work", "publish"},
         next \in {"loop", "work", "publish", "ended"},
         queue' \in [Sinks -> 0 .. MaxQueue], after' \in [Sinks -> Nat],
         AtMostOneAfter'
  PROVE  LifeInv'
<1>1. /\ UNCHANGED <<config, made, stopped_, stopped, main, startPos, stopPos, early,
                     outcome>>
      /\ thread[t] = here /\ thread' = [thread EXCEPT ![t] = next]
  BY DEF Moves, serviceVars
<1>2. /\ Threads' = Threads /\ Sinks' = Sinks
      /\ startSteps' = startSteps /\ stopSteps' = stopSteps
  BY <1>1, ConfigSame
<1>3. /\ \A u \in Threads : thread[u] = "none" <=> thread'[u] = "none"
      /\ \A u \in Threads : thread[u] = "ended" => thread'[u] = "ended"
  BY <1>1 DEF LifeInv, TypeOK
<1>4. TypeOK'
  BY <1>1, <1>2 DEF LifeInv, TypeOK
<1>5. MadeSoFar' /\ Positions' /\ Flags' /\ ServiceFlag'
  BY <1>1, <1>2 DEF LifeInv, MadeSoFar, Positions, Flags, ServiceFlag, InInit
<1>6. Launched'
  <2>1. \A p \in DOMAIN startSteps : startSteps[p].who \in Threads
    <3>1. startSteps \in Seq([op : {"clear", "launch"}, who : Threads])
      BY StartSteps DEF Covers, LifeInv, TypeOK
    <3>2. \A p \in DOMAIN startSteps :
             startSteps[p] \in [op : {"clear", "launch"}, who : Threads]
      BY <3>1, SeqElements
    <3> QED
      BY <3>2
  <2> QED
    BY <1>1, <1>2, <1>3, <2>1 DEF LifeInv, Launched
<1>7. Joined'
  BY <1>1, <1>2, <1>3 DEF LifeInv, Joined
<1> QED
  BY <1>4, <1>5, <1>6, <1>7 DEF LifeInv

LEMMA RunsStep ==
  ASSUME LifeInv, NEW t \in Threads, Runs(t) \/ Consume(t)
  PROVE  LifeInv'
<1> USE SinksAreThreads
<1>1. CASE \/ Opens(t) \/ CsvFileMissing(t) \/ Leaves(t) \/ Goes(t) \/ EndOfFile(t)
           \/ Handles(t) \/ Consume(t)
  <2>1. PICK here, next :
          /\ Moves(t, here, next) /\ UNCHANGED <<queue, after>>
          /\ here \in {"open", "loop", "work"} /\ next \in {"loop", "work", "ended"}
          /\ here = "loop" => next = "ended" \/ ~ stopped[Owner(t)]
    <3>1. UNCHANGED <<queue, after>>
      BY <1>1 DEF Opens, CsvFileMissing, Leaves, Goes, EndOfFile, Handles, Consume, Stays
    <3>2. \/ Moves(t, "open", "loop") \/ Moves(t, "open", "ended")
          \/ Moves(t, "loop", "ended") \/ Moves(t, "work", "loop")
          \/ Moves(t, "loop", "work") /\ ~ stopped[Owner(t)]
      BY <1>1 DEF Opens, CsvFileMissing, Leaves, Goes, EndOfFile, Handles, Consume
    <3> DEFINE Is(here, next) ==
          /\ Moves(t, here, next)
          /\ here \in {"open", "loop", "work"} /\ next \in {"loop", "work", "ended"}
          /\ here = "loop" => next = "ended" \/ ~ stopped[Owner(t)]
    <3>3. \/ Is("open", "loop") \/ Is("open", "ended") \/ Is("loop", "ended")
          \/ Is("work", "loop") \/ Is("loop", "work")
      BY <3>2
    <3> HIDE DEF Is
    <3>4. \E here, next : Is(here, next)
      BY <3>3
    <3> QED
      BY <3>1, <3>4 DEF Is
  <2>2. /\ UNCHANGED <<config, stopped, early>>
        /\ thread[t] = here /\ thread' = [thread EXCEPT ![t] = next]
        /\ Sinks' = Sinks
    BY <2>1, ConfigSame DEF Moves, serviceVars
  <2>3. AtMostOneAfter'
    <3> SUFFICES ASSUME ~ early, NEW s \in Sinks, after[s] = 1
                 PROVE  thread'[s] \in {"loop", "ended"}
      BY <2>1, <2>2 DEF LifeInv, AtMostOneAfter
    <3>1. stopped[s] /\ thread[s] \in {"loop", "ended"} /\ Owner(s) = s
      BY KindsApart DEF LifeInv, AtMostOneAfter
    <3>2. CASE s = t
      BY <2>1, <2>2, <3>1, <3>2 DEF LifeInv, TypeOK
    <3>3. CASE s # t
      BY <2>2, <3>1, <3>3 DEF LifeInv, TypeOK
    <3> QED
      BY <3>2, <3>3
  <2> QED
    BY <2>1, <2>3, MovesKeep DEF LifeInv, TypeOK
<1>2. CASE Dequeue(t)
  <2>1. PICK next \in {"loop", "publish"} : Moves(t, "work", next)
    BY <1>2 DEF Dequeue
  <2>2. /\ UNCHANGED <<config, stopped, early, after>> /\ t \in Sinks
        /\ thread[t] = "work" /\ thread' = [thread EXCEPT ![t] = next]
        /\ queue' = [queue EXCEPT ![t] = IF @ = 0 THEN 0 ELSE @ - 1]
        /\ Sinks' = Sinks
    BY <1>2, <2>1, ConfigSame DEF Dequeue, Moves, serviceVars
  <2>3. AtMostOneAfter'
    BY <2>2 DEF LifeInv, AtMostOneAfter, TypeOK
  <2>4. queue' \in [Sinks -> 0 .. MaxQueue]
    <3>1. queue[t] \in 0 .. MaxQueue
      BY <2>2 DEF LifeInv, TypeOK
    <3>2. (IF queue[t] = 0 THEN 0 ELSE queue[t] - 1) \in 0 .. MaxQueue
      BY <3>1, MaxQueueAssumption, SMT
    <3> QED
      BY <2>2, <3>2 DEF LifeInv, TypeOK
  <2> QED
    BY <2>1, <2>2, <2>3, <2>4, MovesKeep DEF LifeInv, TypeOK
<1>3. CASE Publishes(t)
  <2>1. /\ UNCHANGED <<config, stopped, early, queue>> /\ t \in Sinks
        /\ Moves(t, "publish", "loop")
        /\ thread[t] = "publish" /\ thread' = [thread EXCEPT ![t] = "loop"]
        /\ after' = [after EXCEPT ![t] = IF stopped[t] THEN @ + 1 ELSE @]
        /\ Sinks' = Sinks
    BY <1>3, ConfigSame DEF Publishes, Moves, serviceVars
  <2>2. after' \in [Sinks -> Nat]
    BY <2>1, SMT DEF LifeInv, TypeOK
  <2>3. AtMostOneAfter'
    <3> SUFFICES ASSUME ~ early, NEW s \in Sinks
                 PROVE  /\ after'[s] <= 1
                        /\ after'[s] = 1 => stopped[s] /\ thread'[s] \in {"loop", "ended"}
      BY <2>1 DEF AtMostOneAfter
    <3>1. CASE s = t
      <4>1. after[t] = 0
        <5>1. after[t] \in Nat /\ after[t] <= 1 /\ after[t] # 1
          BY <2>1 DEF LifeInv, TypeOK, AtMostOneAfter
        <5> QED
          BY <5>1, SMT
      <4>2. thread'[t] = "loop" /\ after'[t] = IF stopped[t] THEN 0 + 1 ELSE 0
        BY <2>1, <4>1 DEF LifeInv, TypeOK
      <4>3. 0 + 1 = 1 /\ 1 <= 1 /\ 0 <= 1 /\ 0 # 1
        BY SMT
      <4> QED
        BY <3>1, <4>2, <4>3
    <3>2. CASE s # t
      BY <2>1, <3>2 DEF LifeInv, TypeOK, AtMostOneAfter
    <3> QED
      BY <3>1, <3>2
  <2> QED
    BY <2>1, <2>2, <2>3, MovesKeep DEF LifeInv, TypeOK
<1> QED
  BY <1>1, <1>2, <1>3 DEF Runs

LEMMA ThrowsStep ==
  ASSUME LifeInv, NEW t \in Threads, Throws(t)
  PROVE  LifeInv'
<1>1. /\ UNCHANGED <<config, made, stopped_, thread, stopped, queue, after, main,
                     startPos, stopPos, early>>
      /\ outcome = "running" /\ outcome' = "terminated"
  BY DEF Throws, serviceVars, threadVars
<1>2. MadeSoFar' /\ Positions' /\ ServiceFlag'
  BY <1>1, ConfigSame DEF LifeInv, MadeSoFar, Positions, ServiceFlag, InInit
<1> QED
  BY <1>1, <1>2, PlaceStep DEF LifeInv, TypeOK

LEMMA LifeStutter ==
  ASSUME LifeInv, UNCHANGED lifeVars
  PROVE  LifeInv'
<1>1. /\ UNCHANGED <<config, made, stopped_, thread, stopped, queue, after, main,
                     startPos, stopPos, early, outcome>>
  BY DEF lifeVars, serviceVars, threadVars
<1>2. /\ Threads' = Threads /\ Sinks' = Sinks
      /\ startSteps' = startSteps /\ stopSteps' = stopSteps
  BY <1>1, ConfigSame
<1> QED
  BY <1>1, <1>2 DEF LifeInv, TypeOK, MadeSoFar, InInit, Positions, Launched, Joined, Flags,
                    AtMostOneAfter, ServiceFlag

LEMMA LifeInvariant == Spec => []LifeInv
<1>1. LifeInv /\ [Next]_lifeVars => LifeInv'
  <2> SUFFICES ASSUME LifeInv, [Next]_lifeVars PROVE LifeInv'
    OBVIOUS
  <2>1. CASE Main
    BY <2>1, ServiceInitStep, StartingStep, MainStep DEF Main
  <2>2. CASE SpuriousWakeup
    BY <2>2, MainStep
  <2>3. ASSUME NEW t \in Threads, Runs(t) \/ Throws(t) \/ Consume(t) PROVE LifeInv'
    BY <2>3, RunsStep, ThrowsStep
  <2> QED
    BY <2>1, <2>2, <2>3, StopCalledStep, StoppingStep, LifeStutter DEF Next
<1> QED
  BY <1>1, InitEstablishes, PTL DEF Spec

-----------------------------------------------------------------------------
\* The model's types, for every settings file and number of workers.
THEOREM LifecycleTypeTheorem == Spec => []TypeOK
<1>1. LifeInv => TypeOK
  BY DEF LifeInv
<1> QED
  BY <1>1, LifeInvariant, PTL

\* ThreadsStartReady: whatever the settings file says and whichever files are
\* missing, a thread runs only when init has made all that it uses.
THEOREM ThreadsStartReadyTheorem == Spec => []ThreadsStartReady
<1>1. ASSUME LifeInv, NEW t \in Threads, thread[t] # "none"
      PROVE  made = {"feeder", "user", "decoders", "books", "fanouts"}
  <2>1. Covers(startSteps, "clear", "launch", Threads)
    BY <1>1, StartSteps DEF LifeInv, TypeOK
  <2>2. PICK p \in DOMAIN startSteps : startSteps[p] = [op |-> "launch", who |-> t]
    BY <2>1 DEF Covers
  <2>3. p <= startPos
    BY <1>1, <2>2 DEF LifeInv, Launched
  <2>4. startPos # 0
    <3>1. startSteps \in Seq([op : {"clear", "launch"}, who : Threads])
      BY <2>1 DEF Covers
    <3>2. p \in 1 .. Len(startSteps) /\ Len(startSteps) \in Nat
      BY <3>1, SeqElements
    <3> QED
      BY <2>3, <3>2, SMT
  <2>5. main \notin InInit
    BY <1>1, <2>4 DEF LifeInv, Positions
  <2> QED
    BY <1>1, <2>5 DEF LifeInv, MadeSoFar, Everything
<1>2. LifeInv => ThreadsStartReady
  BY <1>1 DEF ThreadsStartReady
<1> QED
  BY <1>2, LifeInvariant, PTL

\* LastRecord: a fanout that is stopped when all threads were started handles at
\* most one more record, however full its queue is.
THEOREM LastRecordTheorem == Spec => []LastRecord
<1>1. LifeInv => LastRecord
  BY DEF LifeInv, AtMostOneAfter, LastRecord
<1> QED
  BY <1>1, LifeInvariant, PTL

\* CleanExit: when main returns from waitForShutdown every thread has been joined,
\* and there is no fanout.
THEOREM CleanExitTheorem == Spec => []CleanExit
<1>1. ASSUME LifeInv, outcome = "returned"
      PROVE  config.fanouts = <<>> /\ \A t \in Threads : thread[t] = "ended"
  <2>1. stopped_ /\ main = "test"
    BY <1>1 DEF LifeInv, ServiceFlag
  <2>2. config.fanouts = <<>>
    BY <1>1, <2>1 DEF LifeInv, Positions
  <2>3. /\ stopPos >= Len(stopSteps) - 1 /\ stopPos \in -1 .. Len(stopSteps)
    BY <1>1, <2>1 DEF LifeInv, ServiceFlag, Positions
  <2>4. /\ Len(stopSteps) \in Nat /\ DOMAIN stopSteps = 1 .. Len(stopSteps)
        /\ \A t \in Threads : \E p \in 1 .. Len(stopSteps) - 2 : stopSteps[p] = Join(t)
    BY <1>1, StopSteps DEF LifeInv, TypeOK
  <2>5. \A p \in 1 .. Len(stopSteps) - 2 : p \in DOMAIN stopSteps /\ p <= stopPos
    BY <2>3, <2>4, SMT
  <2>6. ASSUME NEW t \in Threads PROVE thread[t] = "ended"
    <3>1. PICK p \in 1 .. Len(stopSteps) - 2 : stopSteps[p] = Join(t)
      BY <2>4
    <3>2. stopSteps[p].op = "join" /\ stopSteps[p].who = t
      BY <3>1 DEF Join
    <3> QED
      BY <1>1, <2>5, <3>1, <3>2 DEF LifeInv, Joined
  <2> QED
    BY <2>2, <2>6
<1>2. LifeInv => CleanExit
  BY <1>1 DEF CleanExit
<1> QED
  BY <1>2, LifeInvariant, PTL

=============================================================================
