---------------------------- MODULE FanoutProofs ----------------------------
(***************************************************************************)
(* What the fanouts promise, for every list of symbols, every choice of    *)
(* enabled fanouts and any number of rounds.  Everything follows from what *)
(* one sink holds: its records are those the timer has given it, each in   *)
(* one place, and the records of a symbol lie in its queue in the order of *)
(* their rounds.                                                           *)
(***************************************************************************)
EXTENDS Fanout, TLAPS

\* The record is an older picture of the same book.
Older(r, q) == r.symbolid = q.symbolid /\ r.round < q.round
SameBook(r, q) == r.symbolid = q.symbolid

\* Each record of given is in one of the places of a sink, once.
Once(q, px, pub, drop, given) ==
  /\ IsInjective(q) /\ IsInjective(pub)
  /\ Range(q) \cap px = {} /\ Range(q) \cap Range(pub) = {} /\ Range(q) \cap drop = {}
  /\ px \cap Range(pub) = {} /\ px \cap drop = {} /\ Range(pub) \cap drop = {}
  /\ Range(q) \cup px \cup Range(pub) \cup drop = given

\* The thread has one record in hand, at most.
OneInHand(px) == \A r, q \in px : r = q

\* A later record of the queue is never an older picture of the same book.
Ordered(q) == \A i, j \in DOMAIN q : i < j /\ SameBook(q[i], q[j]) => Older(q[i], q[j])

OnePerBook(q) == \A i, j \in DOMAIN q : SameBook(q[i], q[j]) => i = j

\* A sink that never had two records of a book to choose from: those it has
\* published are older than the one in hand, and that is older than the one that
\* waits.
InTurn(q, px, pub) ==
  /\ Ordered(pub)
  /\ OnePerBook(q)
  /\ \A p \in Range(pub), r \in px : SameBook(p, r) => Older(p, r)
  /\ \A p \in Range(pub) \cup px, r \in Range(q) : SameBook(p, r) => Older(p, r)

SinkInv(k) ==
  /\ Once(queue[k], px_record[k], published[k], dropped[k], Given(k))
  /\ OneInHand(px_record[k])
  /\ Ordered(queue[k])
  /\ k \notin behind => InTurn(queue[k], px_record[k], published[k])

FanoutInv ==
  /\ TypeOK
  /\ sinkIdx > 0 => round <= MaxRounds
  /\ \A k \in Sinks : SinkInv(k)

-----------------------------------------------------------------------------
\* The list a is the list q and then r: what enqueue makes of q, and what
\* dequeue takes apart.
Extends(a, q, r) ==
  \E n \in DOMAIN a :
    /\ a[n] = r
    /\ DOMAIN a = DOMAIN q \cup {n}
    /\ \A i \in DOMAIN q : a[i] = q[i] /\ i # n /\ i < n /\ ~ (n < i)
    /\ ~ (n < n)

LEMMA EnqueueExtends ==
  ASSUME NEW S, NEW q \in Seq(S), NEW r \in S
  PROVE  Append(q, r) \in Seq(S) /\ Extends(Append(q, r), q, r)
<1> DEFINE a == Append(q, r)
           n == Len(q) + 1
<1>1. /\ a \in Seq(S) /\ n \in DOMAIN a /\ a[n] = r
      /\ DOMAIN a = DOMAIN q \cup {n}
      /\ \A i \in DOMAIN q : a[i] = q[i] /\ i # n /\ i < n /\ ~ (n < i)
      /\ ~ (n < n)
  BY SMT
<1> QED
  BY <1>1 DEF Extends

LEMMA DequeueExtends ==
  ASSUME NEW S, NEW q \in Seq(S), q # <<>>
  PROVE  Front(q) \in Seq(S) /\ Last(q) \in S /\ Extends(q, Front(q), Last(q))
<1> DEFINE f == Front(q)
           n == Len(q)
<1>1. /\ DOMAIN q = 1 .. n /\ n \in Nat \ {0}
      /\ f \in Seq(S) /\ DOMAIN f = 1 .. n - 1
      /\ \A i \in 1 .. n - 1 : f[i] = q[i]
      /\ \A i \in DOMAIN q : q[i] \in S
  BY SMT DEF Front
<1> HIDE DEF f, n
<1>3. /\ f \in Seq(S) /\ n \in DOMAIN q /\ q[n] \in S
      /\ DOMAIN q = DOMAIN f \cup {n}
      /\ \A i \in DOMAIN f : q[i] = f[i] /\ i # n /\ i < n /\ ~ (n < i)
      /\ ~ (n < n)
  BY <1>1, SMT
<1>2. Last(q) = q[n]
  BY DEF Last, n
<1> QED
  BY <1>2, <1>3 DEF Extends, f

LEMMA ExtendsRange ==
  ASSUME NEW a, NEW q, NEW r, Extends(a, q, r)
  PROVE  /\ Range(a) = Range(q) \cup {r}
         /\ IsInjective(a) <=> IsInjective(q) /\ r \notin Range(q)
<1>1. PICK n \in DOMAIN a :
        /\ a[n] = r
        /\ DOMAIN a = DOMAIN q \cup {n}
        /\ \A i \in DOMAIN q : a[i] = q[i] /\ i # n /\ i < n /\ ~ (n < i)
        /\ ~ (n < n)
  BY DEF Extends
<1>2. Range(a) = Range(q) \cup {r}
  BY <1>1, Zenon DEF Range
<1>3. IsInjective(a) => IsInjective(q) /\ r \notin Range(q)
  BY <1>1, Zenon DEF Range, IsInjective
<1>4. IsInjective(q) /\ r \notin Range(q) => IsInjective(a)
  BY <1>1, Zenon DEF Range, IsInjective
<1> QED
  BY <1>2, <1>3, <1>4

LEMMA ExtendsOrder ==
  ASSUME NEW a, NEW q, NEW r, Extends(a, q, r)
  PROVE  /\ Ordered(a) <=>
              Ordered(q) /\ \A t \in Range(q) : SameBook(t, r) => Older(t, r)
         /\ OnePerBook(a) <=>
              OnePerBook(q) /\ \A t \in Range(q) : ~ SameBook(t, r)
<1>1. PICK n \in DOMAIN a :
        /\ a[n] = r
        /\ DOMAIN a = DOMAIN q \cup {n}
        /\ \A i \in DOMAIN q : a[i] = q[i] /\ i # n /\ i < n /\ ~ (n < i)
        /\ ~ (n < n)
  BY DEF Extends
<1>2. Ordered(a) => Ordered(q) /\ \A t \in Range(q) : SameBook(t, r) => Older(t, r)
  BY <1>1, Zenon DEF Range, Ordered
<1>3. ASSUME Ordered(q), \A t \in Range(q) : SameBook(t, r) => Older(t, r)
      PROVE  Ordered(a)
  <2>1. \A i \in DOMAIN q : SameBook(q[i], r) => Older(q[i], r)
    BY <1>3, Zenon DEF Range
  <2> QED
    BY <1>1, <1>3, <2>1, Zenon DEF Ordered
<1>4. OnePerBook(a) => OnePerBook(q) /\ \A t \in Range(q) : ~ SameBook(t, r)
  BY <1>1, Zenon DEF Range, OnePerBook
<1>5. ASSUME OnePerBook(q), \A t \in Range(q) : ~ SameBook(t, r)
      PROVE  OnePerBook(a)
  <2>1. \A i \in DOMAIN q : ~ SameBook(q[i], r) /\ ~ SameBook(r, q[i])
    BY <1>5, Zenon DEF Range, SameBook
  <2> QED
    BY <1>1, <1>5, <2>1, Zenon DEF OnePerBook
<1> QED
  BY <1>2, <1>3, <1>4, <1>5

-----------------------------------------------------------------------------
\* What the four steps on a sink's records keep.
LEMMA EnqueueKeeps ==
  ASSUME NEW a, NEW q, NEW r, Extends(a, q, r),
         NEW px, NEW pub, NEW drop, NEW given,
         Once(q, px, pub, drop, given), r \notin given,
         \A p \in given : SameBook(p, r) => Older(p, r)
  PROVE  /\ Once(a, px, pub, drop, given \cup {r})
         /\ Ordered(q) => Ordered(a)
         /\ InTurn(q, px, pub) /\ (\A p \in Range(q) : ~ SameBook(p, r))
               => InTurn(a, px, pub)
<1>1. /\ Range(a) = Range(q) \cup {r}
      /\ IsInjective(a) <=> IsInjective(q) /\ r \notin Range(q)
  BY ExtendsRange
<1>2. /\ Range(q) \subseteq given /\ px \subseteq given
      /\ Range(pub) \subseteq given /\ drop \subseteq given
  BY Zenon DEF Once
<1>3. Once(a, px, pub, drop, given \cup {r})
  BY <1>1, <1>2, SMT DEF Once
<1>4. Ordered(q) => Ordered(a)
  BY <1>2, ExtendsOrder
<1>5. ASSUME InTurn(q, px, pub), \A p \in Range(q) : ~ SameBook(p, r)
      PROVE  InTurn(a, px, pub)
  <2>1. OnePerBook(a)
    BY <1>5, ExtendsOrder DEF InTurn
  <2>2. \A p \in Range(pub) \cup px, t \in Range(a) : SameBook(p, t) => Older(p, t)
    BY <1>1, <1>2, <1>5, Zenon DEF InTurn
  <2> QED
    BY <1>5, <2>1, <2>2, Zenon DEF InTurn
<1> QED
  BY <1>3, <1>4, <1>5

LEMMA DequeueKeeps ==
  ASSUME NEW f, NEW q, NEW r, Extends(q, f, r),
         NEW pub, NEW drop, NEW given,
         Once(q, {}, pub, drop, given), Ordered(q)
  PROVE  /\ Once(f, {r}, pub, drop, given)
         /\ Ordered(f)
         /\ \A t \in Range(f) : SameBook(t, r) => Older(t, r)
         /\ InTurn(q, {}, pub) => InTurn(f, {r}, pub)
<1>1. /\ Range(q) = Range(f) \cup {r}
      /\ IsInjective(q) <=> IsInjective(f) /\ r \notin Range(f)
  BY ExtendsRange
<1>2. Once(f, {r}, pub, drop, given)
  BY <1>1, SMT DEF Once
<1>3. Ordered(f) /\ \A t \in Range(f) : SameBook(t, r) => Older(t, r)
  BY ExtendsOrder
<1>4. ASSUME InTurn(q, {}, pub) PROVE InTurn(f, {r}, pub)
  <2>1. OnePerBook(f) /\ \A t \in Range(f) : ~ SameBook(t, r)
    BY <1>4, ExtendsOrder DEF InTurn
  <2>2. \A t \in Range(f) : ~ SameBook(r, t)
    BY <2>1 DEF SameBook
  <2> QED
    BY <1>1, <1>4, <2>1, <2>2, Zenon DEF InTurn
<1> QED
  BY <1>2, <1>3, <1>4

LEMMA PublishKeeps ==
  ASSUME NEW a, NEW pub, NEW r, Extends(a, pub, r),
         NEW q, NEW px, NEW drop, NEW given,
         Once(q, px, pub, drop, given), r \in px, OneInHand(px)
  PROVE  /\ Once(q, {}, a, drop, given)
         /\ InTurn(q, px, pub) => InTurn(q, {}, a)
<1>1. px = {r}
  BY Zenon DEF OneInHand
<1>2. /\ Range(a) = Range(pub) \cup {r}
      /\ IsInjective(a) <=> IsInjective(pub) /\ r \notin Range(pub)
  BY ExtendsRange
<1>3. Once(q, {}, a, drop, given)
  BY <1>1, <1>2, SMT DEF Once
<1>4. ASSUME InTurn(q, px, pub) PROVE InTurn(q, {}, a)
  <2>1. Ordered(a)
    BY <1>1, <1>4, ExtendsOrder DEF InTurn
  <2> QED
    BY <1>1, <1>2, <1>4, <2>1, Zenon DEF InTurn
<1> QED
  BY <1>3, <1>4

LEMMA DropKeeps ==
  ASSUME NEW q, NEW pub, NEW r, NEW px, NEW drop, NEW given,
         Once(q, px, pub, drop, given), r \in px, OneInHand(px)
  PROVE  /\ Once(q, {}, pub, drop \cup {r}, given)
         /\ InTurn(q, px, pub) => InTurn(q, {}, pub)
<1>1. px = {r}
  BY Zenon DEF OneInHand
<1>2. Once(q, {}, pub, drop \cup {r}, given)
  BY <1>1, SMT DEF Once
<1>3. InTurn(q, px, pub) => InTurn(q, {}, pub)
  BY Zenon DEF InTurn
<1> QED
  BY <1>2, <1>3

-----------------------------------------------------------------------------
\* The timer's position.
LEMMA ListFacts ==
  /\ Len(symbol_list) \in Nat /\ 1 \in DOMAIN symbol_list
  /\ DOMAIN symbol_list = 1 .. Len(symbol_list)
  /\ \A i \in DOMAIN symbol_list : symbol_list[i] \in Symbols
  /\ \A i, j \in DOMAIN symbol_list : symbol_list[i] = symbol_list[j] => i = j
<1>1. symbol_list \in Seq(Range(symbol_list)) /\ symbol_list # <<>>
  BY ListAssumption
<1>2. /\ Len(symbol_list) \in Nat /\ 1 \in DOMAIN symbol_list
      /\ DOMAIN symbol_list = 1 .. Len(symbol_list)
  BY <1>1, SMT
<1> QED
  BY <1>2, ListAssumption, Zenon DEF Symbols, Range, IsInjective

LEMMA TypeFacts ==
  ASSUME TypeOK
  PROVE  /\ Len(fanouts) \in Nat /\ Sinks = 1 .. Len(fanouts)
         /\ sinkIdx \in Nat /\ sinkIdx <= Len(fanouts)
         /\ round \in Nat /\ 1 <= round
         /\ symIdx \in Nat /\ 1 <= symIdx /\ symIdx <= Len(symbol_list)
         /\ \A k \in Sinks : /\ queue[k] \in Seq(Record)
                            /\ published[k] \in Seq(Record)
                            /\ px_record[k] \subseteq Record
                            /\ dropped[k] \subseteq Record
<1>1. fanouts \in Seq({"zmq", "redis", "file"})
  BY SettingsAssumption DEF TypeOK
<1>2. Len(fanouts) \in Nat /\ Sinks = 1 .. Len(fanouts)
  BY <1>1, SMT DEF Sinks
<1>3. /\ sinkIdx \in Nat /\ sinkIdx <= Len(fanouts)
      /\ round \in Nat /\ 1 <= round
      /\ symIdx \in Nat /\ 1 <= symIdx /\ symIdx <= Len(symbol_list)
  BY <1>2, ListFacts, RoundsAssumption, SMT DEF TypeOK
<1> QED
  BY <1>2, <1>3 DEF TypeOK

\* The record the timer has just taken is new to the sink, and newer than what
\* the sink has of the same book.
LEMMA CurrentIsNew ==
  ASSUME TypeOK, sinkIdx > 0, round <= MaxRounds
  PROVE  /\ sinkIdx \in Sinks
         /\ current \in Record
         /\ current \notin Given(sinkIdx)
         /\ \A p \in Given(sinkIdx) : SameBook(p, current) => Older(p, current)
<1>1. sinkIdx \in Sinks
  BY TypeFacts, SMT
<1>2. symIdx \in DOMAIN symbol_list
  BY DEF TypeOK
<1>3. current \in Record
  BY <1>2, TypeFacts, ListFacts, RoundsAssumption, SMT DEF Record, current
<1>4. ASSUME NEW p \in Given(sinkIdx), SameBook(p, current)
      PROVE  Older(p, current)
  <2>1. PICK i \in DOMAIN symbol_list :
           /\ p.symbolid = symbol_list[i]
           /\ \/ p.round < round
              \/ p.round = round /\ i < symIdx
              \/ p.round = round /\ i = symIdx /\ sinkIdx > sinkIdx
    BY <1>4, Zenon DEF Given
  <2>2. p.symbolid = symbol_list[symIdx] /\ current.round = round
    BY <1>4 DEF SameBook, current
  <2>3. i = symIdx
    BY <1>2, <2>1, <2>2, ListFacts
  <2>4. p.round < round
    BY <2>1, <2>3, TypeFacts, SMT
  <2> QED
    BY <1>4, <2>2, <2>4 DEF Older, SameBook
<1>5. current \notin Given(sinkIdx)
  <2>1. ~ Older(current, current) /\ SameBook(current, current)
    BY TypeFacts, SMT DEF Older, SameBook, current
  <2> QED
    BY <1>4, <2>1
<1> QED
  BY <1>1, <1>3, <1>4, <1>5

\* The step of the loop gives the record to its sink and to no other.
LEMMA AdvanceGives ==
  ASSUME TypeOK, sinkIdx > 0, round <= MaxRounds, Advance, UNCHANGED fanouts,
         NEW k \in Sinks
  PROVE  Given(k)' = IF k = sinkIdx THEN Given(k) \cup {current} ELSE Given(k)
<1> DEFINE Before(r, i) == \/ r.round < round
                           \/ r.round = round /\ i < symIdx
                           \/ r.round = round /\ i = symIdx /\ sinkIdx > k
           After(r, i) == \/ r.round < round'
                          \/ r.round = round' /\ i < symIdx'
                          \/ r.round = round' /\ i = symIdx' /\ sinkIdx' > k
<1>1. ASSUME NEW r \in Record, NEW i \in DOMAIN symbol_list
      PROVE  After(r, i) <=>
               \/ Before(r, i)
               \/ k = sinkIdx /\ r.round = round /\ i = symIdx
  <2>1. r.round \in Nat /\ i \in Nat /\ 1 <= i /\ i <= Len(symbol_list)
        /\ k \in Nat /\ 1 <= k /\ k <= Len(fanouts)
    BY TypeFacts, ListFacts, RoundsAssumption, SMT DEF Record
  <2> QED
    BY <2>1, TypeFacts, ListFacts, SMT DEF Advance
<1>2. symIdx \in DOMAIN symbol_list /\ current \in Record
  BY CurrentIsNew DEF TypeOK
<1>3. ASSUME NEW r \in Record
      PROVE  r = current <=> r.symbolid = symbol_list[symIdx] /\ r.round = round
  BY SMT DEF Record, current
<1>4. Given(k) = {r \in Record : \E i \in DOMAIN symbol_list :
                     r.symbolid = symbol_list[i] /\ Before(r, i)}
  BY DEF Given
<1>5. Given(k)' = {r \in Record : \E i \in DOMAIN symbol_list :
                      r.symbolid = symbol_list[i] /\ After(r, i)}
  BY DEF Given
<1> HIDE DEF Before, After
<1> QED
  BY <1>1, <1>2, <1>3, <1>4, <1>5, Zenon

-----------------------------------------------------------------------------
LEMMA InitEstablishes == Init => FanoutInv
<1> SUFFICES ASSUME Init PROVE FanoutInv
  OBVIOUS
<1>1. fanouts \in Seq({"zmq", "redis", "file"})
  BY SettingsAssumption DEF Init
<1>2. 0 \in 0 .. Len(fanouts) /\ 1 \in 1 .. MaxRounds + 1 /\ 1 \in DOMAIN symbol_list
  BY <1>1, ListFacts, RoundsAssumption, SMT
<1>3. <<>> \in Seq(Record)
  OBVIOUS
<1>4. TypeOK
  BY <1>2, <1>3 DEF TypeOK, Init
<1>5. ASSUME NEW k \in Sinks PROVE SinkInv(k)
  <2>1. Given(k) = {}
    <3>1. ASSUME NEW r \in Record, NEW i \in DOMAIN symbol_list
          PROVE  ~ (r.round < 1) /\ ~ (i < 1) /\ ~ (0 > k)
      BY <1>1, ListFacts, SMT DEF Record, Sinks
    <3> QED
      BY <3>1 DEF Given, Init
  <2>2. queue[k] = <<>> /\ px_record[k] = {} /\ published[k] = <<>> /\ dropped[k] = {}
    BY DEF Init
  <2>3. DOMAIN <<>> = {}
    OBVIOUS
  <2>4. Range(<<>>) = {} /\ IsInjective(<<>>) /\ Ordered(<<>>) /\ OnePerBook(<<>>)
    BY <2>3 DEF Range, IsInjective, Ordered, OnePerBook
  <2> QED
    BY <2>1, <2>2, <2>4 DEF SinkInv, Once, OneInHand, InTurn
<1>6. sinkIdx > 0 => round <= MaxRounds
  BY RoundsAssumption, SMT DEF Init
<1> QED
  BY <1>4, <1>5, <1>6 DEF FanoutInv

\* What a sink holds stays true when the step leaves it alone.
LEMMA SinkUntouched ==
  ASSUME NEW k, SinkInv(k),
         queue'[k] = queue[k], px_record'[k] = px_record[k],
         published'[k] = published[k], dropped'[k] = dropped[k],
         Given(k)' = Given(k), k \in behind <=> k \in behind'
  PROVE  SinkInv(k)'
BY DEF SinkInv

LEMMA MainKeeps ==
  ASSUME FanoutInv, Main
  PROVE  FanoutInv'
<1> USE DEF FanoutInv
<1>1. UNCHANGED fanouts /\ Sinks' = Sinks
  BY DEF Main, Sinks
<1>2. CASE StartFanout
  <2>1. UNCHANGED <<round, symIdx, sinkIdx, queue, px_record, published, dropped, behind>>
    BY <1>2 DEF StartFanout, sinkVars
  <2>2. \A k : Given(k)' = Given(k)
    BY <2>1 DEF Given
  <2>3. \A k \in Sinks : SinkInv(k)'
    BY <2>1, <2>2, SinkUntouched
  <2>4. started' \in 0 .. Len(fanouts)
    BY <1>2, TypeFacts, SMT DEF StartFanout, TypeOK
  <2>5. TypeOK'
    BY <1>1, <2>1, <2>4 DEF TypeOK, Main
  <2> QED
    BY <1>1, <2>1, <2>3, <2>5
<1>3. CASE GetPxList
  <2>1. /\ UNCHANGED <<round, symIdx, started, queue, px_record, published, dropped, behind>>
        /\ sinkIdx = 0 /\ sinkIdx' = 1 /\ round <= MaxRounds
    BY <1>3 DEF GetPxList, sinkVars
  <2>2. \A k \in Sinks : Given(k)' = Given(k)
    <3>1. \A k \in Sinks : ~ (1 > k) /\ ~ (0 > k)
      BY TypeFacts, SMT
    <3> QED
      BY <2>1, <3>1 DEF Given
  <2>3. \A k \in Sinks : SinkInv(k)'
    BY <2>1, <2>2, SinkUntouched
  <2>4. sinkIdx' \in 0 .. Len(fanouts)
    <3>1. fanouts # <<>> /\ fanouts \in Seq({"zmq", "redis", "file"})
      BY SettingsAssumption DEF TypeOK
    <3> QED
      BY <2>1, <3>1, SMT
  <2>5. TypeOK'
    BY <1>1, <2>1, <2>4 DEF TypeOK, Main
  <2> QED
    BY <1>1, <2>1, <2>3, <2>5
<1>4. CASE FanoutRecord
  <2>0. PICK s \in Sinks : s = sinkIdx
    BY <1>4, CurrentIsNew DEF FanoutRecord
  <2> DEFINE a == Append(queue[s], current)
  <2>1. /\ sinkIdx > 0 /\ Advance /\ round <= MaxRounds
        /\ queue' = [queue EXCEPT ![s] = a]
        /\ behind' = IF \E q \in Range(queue[s]) : q.symbolid = current.symbolid
                     THEN behind \cup {s} ELSE behind
        /\ UNCHANGED <<started, px_record, published, dropped>>
    BY <1>4, <2>0 DEF FanoutRecord, fanout, enqueue
  <2>2. /\ s \in Sinks /\ current \in Record /\ current \notin Given(s)
        /\ \A p \in Given(s) : SameBook(p, current) => Older(p, current)
    BY <2>0, <2>1, CurrentIsNew
  <2>3. a \in Seq(Record) /\ Extends(a, queue[s], current)
    BY <2>2, TypeFacts, EnqueueExtends
  <2>4. \A k \in Sinks : Given(k)' = IF k = s THEN Given(k) \cup {current} ELSE Given(k)
    BY <1>1, <2>0, <2>1, AdvanceGives
  <2>5. queue'[s] = a /\ \A k \in Sinks : k # s => queue'[k] = queue[k]
    BY <2>1, <2>2 DEF TypeOK
  <2>6. SinkInv(s)'
    <3>1. /\ Once(queue[s], px_record[s], published[s], dropped[s], Given(s))
          /\ OneInHand(px_record[s])
          /\ Ordered(queue[s])
          /\ s \notin behind => InTurn(queue[s], px_record[s], published[s])
      BY <2>2 DEF SinkInv
    <3>2. /\ Once(a, px_record[s], published[s], dropped[s], Given(s) \cup {current})
          /\ Ordered(queue[s]) => Ordered(a)
          /\ InTurn(queue[s], px_record[s], published[s])
             /\ (\A p \in Range(queue[s]) : ~ SameBook(p, current))
                => InTurn(a, px_record[s], published[s])
      BY <2>2, <2>3, <3>1, EnqueueKeeps
    <3>3. s \notin behind' =>
             s \notin behind /\ \A p \in Range(queue[s]) : ~ SameBook(p, current)
      BY <2>1 DEF SameBook
    <3>4. Given(s)' = Given(s) \cup {current} /\ queue'[s] = a
      BY <2>2, <2>4, <2>5
    <3>5. UNCHANGED <<px_record, published, dropped>>
      BY <2>1
    <3>6. SinkInv(s)' <=>
            /\ Once(queue'[s], px_record'[s], published'[s], dropped'[s], Given(s)')
            /\ OneInHand(px_record'[s])
            /\ Ordered(queue'[s])
            /\ s \notin behind' => InTurn(queue'[s], px_record'[s], published'[s])
      BY DEF SinkInv
    <3> HIDE DEF a
    <3> QED
      BY <3>1, <3>2, <3>3, <3>4, <3>5, <3>6
  <2>7. ASSUME NEW k \in Sinks, k # s PROVE SinkInv(k)'
    <3>1. k \in behind <=> k \in behind'
      BY <2>1, <2>7
    <3>2. SinkInv(k)
      OBVIOUS
    <3> QED
      BY <2>1, <2>4, <2>5, <2>7, <3>1, <3>2, SinkUntouched
  <2>8. TypeOK'
    <3>1. queue' \in [Sinks -> Seq(Record)]
      BY <2>1, <2>2, <2>3 DEF TypeOK
    <3>2. behind' \subseteq Sinks
      BY <2>1, <2>2 DEF TypeOK
    <3>3. /\ sinkIdx' \in 0 .. Len(fanouts)
          /\ symIdx' \in DOMAIN symbol_list
          /\ round' \in 1 .. MaxRounds + 1
      BY <2>1, TypeFacts, ListFacts, RoundsAssumption, SMT DEF Advance
    <3> QED
      BY <1>1, <2>1, <3>1, <3>2, <3>3 DEF TypeOK, Main
  <2>9. sinkIdx' > 0 => round' <= MaxRounds
    BY <2>1, TypeFacts, SMT DEF Advance
  <2> QED
    BY <1>1, <2>6, <2>7, <2>8, <2>9
<1> QED
  BY <1>2, <1>3, <1>4 DEF Main, Timer

\* A step of one sink's thread: the others hold what they held.
LEMMA SinkAlone ==
  ASSUME FanoutInv, NEW k \in Sinks, Sink(k), SinkInv(k)',
         queue' = [queue EXCEPT ![k] = queue'[k]],
         px_record' = [px_record EXCEPT ![k] = px_record'[k]],
         published' = [published EXCEPT ![k] = published'[k]],
         dropped' = [dropped EXCEPT ![k] = dropped'[k]],
         queue'[k] \in Seq(Record), px_record'[k] \subseteq Record,
         published'[k] \in Seq(Record), dropped'[k] \subseteq Record
  PROVE  FanoutInv'
<1>1. /\ UNCHANGED <<fanouts, started, round, symIdx, sinkIdx, behind>>
      /\ alive' \in BOOLEAN
  BY Zenon DEF Sink, Dequeue, Send, Overwrite, Publish, OpenFails, RedisError, timerVars,
               FanoutInv, TypeOK
<1>2. \A i : Given(i)' = Given(i)
  BY <1>1 DEF Given
<1>3. TypeOK'
  BY <1>1 DEF FanoutInv, TypeOK, Sinks
<1>4. ASSUME NEW i \in Sinks PROVE SinkInv(i)'
  <2>1. CASE i = k
    BY <2>1
  <2>2. CASE i # k
    BY <1>1, <1>2, <2>2, SinkUntouched DEF FanoutInv, TypeOK
  <2> QED
    BY <2>1, <2>2
<1> QED
  BY <1>1, <1>3, <1>4 DEF FanoutInv, Sinks

LEMMA DequeueStep ==
  ASSUME FanoutInv, NEW k \in Sinks, Sink(k), Dequeue(k)
  PROVE  /\ FanoutInv'
         /\ \A r \in px_record'[k] : \A q \in Range(queue[k]) :
              SameBook(q, r) => q.round <= r.round
<1> DEFINE f == Front(queue[k])
           r == Last(queue[k])
<1>1. /\ px_record[k] = {} /\ queue[k] # <<>>
      /\ px_record' = [px_record EXCEPT ![k] = {r}]
      /\ queue' = [queue EXCEPT ![k] = f]
      /\ UNCHANGED <<alive, published, dropped>>
  BY DEF Dequeue, CanDequeue, Taken, Remaining
<1>2. /\ f \in Seq(Record) /\ r \in Record /\ Extends(queue[k], f, r)
  BY <1>1, TypeFacts, DequeueExtends DEF FanoutInv
<1>3. SinkInv(k)
  BY DEF FanoutInv
<1>4. /\ Once(f, {r}, published[k], dropped[k], Given(k))
      /\ Ordered(f)
      /\ \A t \in Range(f) : SameBook(t, r) => Older(t, r)
      /\ InTurn(queue[k], {}, published[k]) => InTurn(f, {r}, published[k])
  BY <1>1, <1>2, <1>3, DequeueKeeps DEF SinkInv
<1>5. /\ queue'[k] = f /\ px_record'[k] = {r}
      /\ published'[k] = published[k] /\ dropped'[k] = dropped[k]
  BY <1>1 DEF FanoutInv, TypeOK
<1>6. UNCHANGED behind /\ Given(k)' = Given(k)
  BY DEF Sink, timerVars, Given
<1>7. SinkInv(k)'
  <2> HIDE DEF f, r
  <2> QED
    BY <1>1, <1>3, <1>4, <1>5, <1>6 DEF SinkInv, OneInHand
<1>8. FanoutInv'
  <2>1. /\ published' = [published EXCEPT ![k] = published[k]]
        /\ dropped' = [dropped EXCEPT ![k] = dropped[k]]
        /\ published[k] \in Seq(Record) /\ dropped[k] \subseteq Record
    BY <1>1, TypeFacts DEF FanoutInv, TypeOK
  <2> HIDE DEF f, r
  <2> QED
    BY <1>1, <1>2, <1>5, <1>7, <2>1, SinkAlone
<1>9. ASSUME NEW q \in Range(queue[k]), SameBook(q, r) PROVE q.round <= r.round
  <2>1. q \in Range(f) \/ q = r
    BY <1>2, ExtendsRange
  <2>2. r.round \in Int
    BY <1>2, SMT DEF Record
  <2>3. CASE q = r
    BY <2>2, <2>3, SMT
  <2>4. CASE q \in Range(f)
    <3>1. q.round < r.round
      BY <1>4, <1>9, <2>4 DEF Older
    <3>2. q \in Record
      <4>1. Range(queue[k]) \subseteq Record
        BY TypeFacts, SMT DEF FanoutInv, Range
      <4> QED
        BY <4>1
    <3> QED
      BY <2>2, <3>1, <3>2, SMT DEF Record
  <2> QED
    BY <2>1, <2>3, <2>4
<1> HIDE DEF f, r
<1> QED
  BY <1>5, <1>8, <1>9

LEMMA PublishStep ==
  ASSUME FanoutInv, NEW k \in Sinks, Sink(k), Publish(k)
  PROVE  FanoutInv' /\ px_record'[k] = {}
<1>1. PICK r \in px_record[k] :
        /\ published' = [published EXCEPT ![k] = Append(@, r)]
        /\ px_record' = [px_record EXCEPT ![k] = {}]
        /\ UNCHANGED <<alive, queue, dropped>>
  BY DEF Publish
<1> DEFINE a == Append(published[k], r)
<1>2. r \in Record
  BY TypeFacts DEF FanoutInv
<1>3. a \in Seq(Record) /\ Extends(a, published[k], r)
  BY <1>2, TypeFacts, EnqueueExtends DEF FanoutInv
<1>4. SinkInv(k)
  BY DEF FanoutInv
<1>5. /\ Once(queue[k], {}, a, dropped[k], Given(k))
      /\ InTurn(queue[k], px_record[k], published[k]) => InTurn(queue[k], {}, a)
  BY <1>3, <1>4, PublishKeeps DEF SinkInv
<1>6. /\ queue'[k] = queue[k] /\ px_record'[k] = {}
      /\ published'[k] = a /\ dropped'[k] = dropped[k]
  BY <1>1 DEF FanoutInv, TypeOK
<1>7. UNCHANGED behind /\ Given(k)' = Given(k)
  BY DEF Sink, timerVars, Given
<1>8. SinkInv(k)'
  <2> HIDE DEF a
  <2> QED
    BY <1>4, <1>5, <1>6, <1>7 DEF SinkInv, OneInHand
<1>9. FanoutInv'
  <2>1. /\ queue' = [queue EXCEPT ![k] = queue[k]]
        /\ dropped' = [dropped EXCEPT ![k] = dropped[k]]
        /\ published' = [published EXCEPT ![k] = a]
        /\ queue[k] \in Seq(Record) /\ dropped[k] \subseteq Record
        /\ {} \subseteq Record
    BY <1>1, TypeFacts DEF FanoutInv, TypeOK
  <2> HIDE DEF a
  <2> QED
    BY <1>1, <1>3, <1>6, <1>8, <2>1, SinkAlone
<1> QED
  BY <1>6, <1>9

LEMMA OpenFailsStep ==
  ASSUME FanoutInv, NEW k \in Sinks, Sink(k), OpenFails(k)
  PROVE  FanoutInv' /\ px_record'[k] = {}
<1>1. PICK r \in px_record[k] :
        /\ dropped' = [dropped EXCEPT ![k] = @ \cup {r}]
        /\ px_record' = [px_record EXCEPT ![k] = {}]
        /\ UNCHANGED <<alive, queue, published>>
  BY DEF OpenFails
<1> DEFINE d == dropped[k] \cup {r}
<1>2. d \subseteq Record
  BY TypeFacts DEF FanoutInv
<1>3. SinkInv(k)
  BY DEF FanoutInv
<1>4. /\ Once(queue[k], {}, published[k], d, Given(k))
      /\ InTurn(queue[k], px_record[k], published[k])
            => InTurn(queue[k], {}, published[k])
  BY <1>3, DropKeeps DEF SinkInv
<1>5. /\ queue'[k] = queue[k] /\ px_record'[k] = {}
      /\ published'[k] = published[k] /\ dropped'[k] = d
  BY <1>1 DEF FanoutInv, TypeOK
<1>6. UNCHANGED behind /\ Given(k)' = Given(k)
  BY DEF Sink, timerVars, Given
<1>7. SinkInv(k)'
  <2> HIDE DEF d
  <2> QED
    BY <1>3, <1>4, <1>5, <1>6 DEF SinkInv, OneInHand
<1>8. FanoutInv'
  <2>1. /\ queue' = [queue EXCEPT ![k] = queue[k]]
        /\ dropped' = [dropped EXCEPT ![k] = d]
        /\ published' = [published EXCEPT ![k] = published[k]]
        /\ queue[k] \in Seq(Record) /\ published[k] \in Seq(Record)
        /\ {} \subseteq Record
    BY <1>1, TypeFacts DEF FanoutInv, TypeOK
  <2> HIDE DEF d
  <2> QED
    BY <1>1, <1>2, <1>5, <1>7, <2>1, SinkAlone
<1> QED
  BY <1>5, <1>8

LEMMA RedisErrorStep ==
  ASSUME FanoutInv, NEW k \in Sinks, Sink(k), RedisError(k)
  PROVE  FanoutInv' /\ px_record' = px_record
<1>1. UNCHANGED <<queue, px_record, published, dropped, behind>>
  BY DEF Sink, RedisError
<1>2. Given(k)' = Given(k)
  BY DEF Sink, timerVars, Given
<1>3. SinkInv(k)'
  BY <1>1, <1>2, SinkUntouched DEF FanoutInv
<1>4. FanoutInv'
  <2>1. /\ queue' = [queue EXCEPT ![k] = queue[k]]
        /\ px_record' = [px_record EXCEPT ![k] = px_record[k]]
        /\ dropped' = [dropped EXCEPT ![k] = dropped[k]]
        /\ published' = [published EXCEPT ![k] = published[k]]
    BY <1>1 DEF FanoutInv, TypeOK
  <2>2. /\ queue[k] \in Seq(Record) /\ px_record[k] \subseteq Record
        /\ published[k] \in Seq(Record) /\ dropped[k] \subseteq Record
    BY TypeFacts DEF FanoutInv
  <2> QED
    BY <1>1, <1>3, <2>1, <2>2, SinkAlone
<1> QED
  BY <1>1, <1>4

LEMMA StutterKeeps ==
  ASSUME FanoutInv, UNCHANGED fanoutVars
  PROVE  FanoutInv'
BY DEF FanoutInv, SinkInv, TypeOK, Given, Sinks, fanoutVars, timerVars, sinkVars

LEMMA FanoutInvariant == Spec => []FanoutInv
<1>1. FanoutInv /\ [Next]_fanoutVars => FanoutInv'
  <2> SUFFICES ASSUME FanoutInv, [Next]_fanoutVars PROVE FanoutInv'
    OBVIOUS
  <2>1. ASSUME NEW k \in Sinks, Sink(k) PROVE FanoutInv'
    BY <2>1, DequeueStep, PublishStep, OpenFailsStep, RedisErrorStep
    DEF Sink, Send, Overwrite
  <2> QED
    BY <2>1, MainKeeps, StutterKeeps DEF Next
<1> QED
  BY <1>1, InitEstablishes, PTL DEF Spec

-----------------------------------------------------------------------------
\* The model's types, for every list of symbols and every choice of fanouts.
THEOREM FanoutTypeTheorem == Spec => []TypeOK
<1>1. FanoutInv => TypeOK
  BY DEF FanoutInv
<1> QED
  BY <1>1, FanoutInvariant, PTL

\* EachOnce: however the timer and the sinks' threads interleave, and whatever
\* files fail to open, a record that was given to a sink is in its queue, in its
\* thread's hand, published or dropped, in one of these and once.
THEOREM EachOnceTheorem == Spec => []EachOnce
<1>1. ASSUME FanoutInv, NEW k \in Sinks
      PROVE  LET places == <<Range(queue[k]), px_record[k],
                             Range(published[k]), dropped[k]>>
             IN  /\ IsInjective(queue[k]) /\ IsInjective(published[k])
                 /\ \A i, j \in DOMAIN places : i # j => places[i] \cap places[j] = {}
                 /\ UNION Range(places) = Given(k)
  <2> DEFINE places == <<Range(queue[k]), px_record[k],
                         Range(published[k]), dropped[k]>>
  <2>1. Once(queue[k], px_record[k], published[k], dropped[k], Given(k))
    BY <1>1 DEF FanoutInv, SinkInv
  <2>2. /\ DOMAIN places = {1, 2, 3, 4}
        /\ places[1] = Range(queue[k]) /\ places[2] = px_record[k]
        /\ places[3] = Range(published[k]) /\ places[4] = dropped[k]
    BY SMT
  <2> HIDE DEF places
  <2>3. UNION Range(places) = places[1] \cup places[2] \cup places[3] \cup places[4]
    BY <2>2, Zenon DEF Range
  <2>4. \A i, j \in DOMAIN places : i # j => places[i] \cap places[j] = {}
    <3> SUFFICES ASSUME NEW i \in DOMAIN places, NEW j \in DOMAIN places, i # j
                 PROVE  places[i] \cap places[j] = {}
      OBVIOUS
    <3>1. (i = 1 \/ i = 2 \/ i = 3 \/ i = 4) /\ (j = 1 \/ j = 2 \/ j = 3 \/ j = 4)
      BY <2>2
    <3> QED
      BY <2>1, <2>2, <3>1, Zenon DEF Once
  <2> QED
    BY <2>1, <2>2, <2>3, <2>4 DEF Once, places
<1>2. FanoutInv => EachOnce
  BY <1>1 DEF EachOnce
<1> QED
  BY <1>2, FanoutInvariant, PTL

\* InOrderUnlessBehind: taking the newest record first changes the order in which
\* a book's pictures are published only for a sink that let two of them wait.
THEOREM InOrderTheorem == Spec => []InOrderUnlessBehind
<1>1. FanoutInv => InOrderUnlessBehind
  BY DEF FanoutInv, SinkInv, InTurn, Ordered, SameBook, Older, InOrderUnlessBehind
<1> QED
  BY <1>1, FanoutInvariant, PTL

\* NewestFirst: the record a thread takes is the newest its queue holds of that
\* book, because a queue holds each book's records in the order of their rounds.
THEOREM NewestFirstTheorem == Spec => NewestFirst
<1> DEFINE A == \A k \in Sinks : \A r \in px_record'[k] \ px_record[k] :
                  \A q \in Range(queue[k]) :
                     q.symbolid = r.symbolid => q.round <= r.round
<1>1. ASSUME FanoutInv, [Next]_fanoutVars PROVE [A]_fanoutVars
  <2>1. CASE UNCHANGED fanoutVars
    BY <2>1
  <2>2. CASE Main
    <3>1. px_record' = px_record
      BY <2>2 DEF Main, StartFanout, Timer, GetPxList, FanoutRecord, sinkVars
    <3> QED
      BY <3>1
  <2>3. ASSUME NEW s \in Sinks, Sink(s) PROVE A
    <3> SUFFICES ASSUME NEW k \in Sinks, NEW r \in px_record'[k] \ px_record[k],
                        NEW q \in Range(queue[k]), q.symbolid = r.symbolid
                 PROVE  q.round <= r.round
      OBVIOUS
    <3>1. CASE Dequeue(s)
      <4>1. \A t \in Sinks : t # s => px_record'[t] = px_record[t]
        BY <1>1, <3>1 DEF Dequeue, FanoutInv, TypeOK
      <4>2. k = s
        BY <4>1
      <4> QED
        BY <1>1, <2>3, <3>1, <4>2, DequeueStep DEF SameBook
    <3>2. CASE ~ Dequeue(s)
      <4>1. \A t \in Sinks : px_record'[t] \subseteq px_record[t]
        BY <1>1, <2>3, <3>2
        DEF Sink, Send, Overwrite, Publish, OpenFails, RedisError, FanoutInv, TypeOK
      <4> QED
        BY <4>1
    <3> QED
      BY <3>1, <3>2
  <2> HIDE DEF A
  <2> QED
    BY <1>1, <2>1, <2>2, <2>3 DEF Next
<1>2. Spec => [][Next]_fanoutVars
  BY DEF Spec
<1> QED
  BY <1>1, <1>2, FanoutInvariant, PTL DEF NewestFirst

=============================================================================
