# Lobster: a TLA+ model of the order books it rebuilds

Lobster listens to the order-by-order market data of the Shanghai (SH) and the
Shenzhen (SZ) exchange, rebuilds a limit order book per symbol from it, samples
every book at an interval and hands the samples to subscribers (ZMQ, Redis,
files). This directory holds TLA+ modules of that program, the TLC runs that
check them on small instances, and proofs, checked by TLAPS, of what the two
markets' books, the way of a line to its handler, the sampler, the fanouts, the
lifecycle and the price decoding promise for any number of price levels, orders,
lines, sinks, rounds and workers.

The question the models ask is the one a user of the program asks: *is the book
I am shown the book the exchange has?* So the exchange itself is part of every
book model (`Exchange`), and the properties compare the two after each message.
Around the books are the ways in and out: from a line of market data to a
handler (`FeedPath`), from a book to a subscriber (`SamplerSH`, `Fanout`), and
the start and the end of the program (`Lifecycle`).

## 1. The program

### Components

| Component | State | Operations | What makes it correct |
|---|---|---|---|
| Order book, `lob_px_list_t` (`lob.h`) | two arrays of quantities per price level, a cursor to the best level of each, an index from order numbers to levels | `createPxList`; changed only by the handlers | depths equal the exchange's; cursors on the best levels; every resting order indexed |
| SH handlers (`ordtrd_sh.cpp`) | the book | `onOrderSH` (add, delete), `onTradeSH` | the same, after any sequence of messages of one merged feed (mdl 4.24), heard from the start or not |
| SZ handlers (`ordtrd_sz.cpp`) | the book | `onOrderSZ` (mdl 6.33), `onTradeSZ` (fill, withdrawal; mdl 6.36) | the same, through crossed books, market and own-best orders, and over two topics |
| Sampling (`ordtrd_pxlist.cpp`) | a record under construction | `getPxList` | a record is the top of the book; it ends; it does not crash |
| Feeders (`feed_zmq.cpp`, `feed_tonglian_mdl_redis.cpp`, `feed_csv.cpp`) | a socket or a file, one thread (CSV: two), a buffer per line | receive, find the symbol, forward | every whole line of a listed symbol reaches its handler once, in order |
| Decoding (`feed_tonglian_mdl.cpp`, `message.h`, `strutils.h`) | messages allocated | `splitString`, `decode` | each field from its own column; what is allocated is freed |
| Price decoding (the same file, `createPxList`) | none | text -> float -> integer -> index | the index is in the arrays and is the price's own |
| Service (`service.cpp`, `worker.cpp`) | tables of books and workers | `init`, `onFeedRawData`, `Worker::enqueue`, `onMessage`, `onFanoutTimed` | every symbol has a worker; each message goes to its own symbol's handler |
| Timer (`utils/timer.h`) | `running_` | `start` | calls back once per interval |
| Fanouts (`fanout_*.cpp`) | a queue and a thread each | `fanout`, the thread's loop | every record is handled once; subscribers end with the newest |
| `LockQueue` (`lockqueue.h`) | a list under a lock | `enqueue`, `dequeue` (and an unused lock-free pair) | nothing lost or repeated |
| Lifecycle (`main.cpp`, `service.cpp`) | `stopped_` flags, threads | `init`, `start`, `stop`, `waitForShutdown` | nothing runs before it is ready; `stop` ends every thread |

### Interaction

The **feeder's thread** receives a line, finds the symbol id in it, and calls
`onFeedRawData`, which picks a worker. `Worker::enqueue` does not enqueue: it
decodes the line and calls the handler at once, so the handlers of all symbols
run in the feeder's thread, one message at a time. The workers' own threads only
ever see empty queues. The CSV feeder has two threads, which both do this.

The **main thread** never leaves `LobTimer::start` once a fanout is enabled: it
calls `onFanoutTimed`, which reads each listed symbol's book and puts one record
into each fanout's queue. It reads under a shared lock; the handlers' locks are
commented out, so it reads while a handler writes.

Each **fanout's thread** takes records out of its queue and publishes them.

### What is hard here

* Long sequences of legal messages: cursors and index are moved step by step,
  never recomputed; an order leaves the index when its *level* runs empty.
* What the feeds leave unsaid: an aggressive SH order is not reported until it
  rests, an SZ market or own-best order has price 0, a withdrawal has no price,
  a call auction's trades carry a flag of their own, and a program that starts
  late hears of orders it never saw.
* Two topics that overtake each other, and a routing column that means
  different things on them.
* The unlocked reader: quantities and cursors change between its loads.
* Threads around a queue that gives back the newest element first, one of which
  can end the process.
* `stop()` against threads that are being started, that wait, or that are busy.
* Conversions: decimal prices in single precision, truncated; workers' shares,
  rounded.

`PROJECT.json` lists these one by one under `hazards`, each at its line, with the
properties that catch it or the reason why none does.

## 2. The modules

```
LobTypes -- Sums -- Exchange --+
     +----- PxList ------------+- BookVsExchange -+- BookSH (+ OrdTrdSH) -+- BookSHAuction - BookSHLateJoin
                                                  |      |                +- SamplerSH
                                                  |  MarketDepth
                                                  +- BookSZ (+ OrdTrdSZ) -- BookSZRouted (+ Routing)
Messages - MdlDecoder --+
Routing ----------------+- FeedPath - MCFeedPath
LockQueue - Fanout - MCFanout      Lifecycle - MCLifecycle      PriceCodec - MCPriceCodec

BookLemmas -+- BookSHProofs (of BookSH and SamplerSH)
            +- BookSHDayProofs (of BookSHLateJoin)
            +- BookSZProofs (of BookSZ and BookSZRouted)
FeedPathProofs   PriceCodecProofs   FanoutProofs   LifecycleProofs
```

| Module | Models |
|---|---|
| `LobTypes`, `PxList` | `lob_px_list_t`. A price is the index of its level, `Price - low` in the handlers; a null pointer is `Nil`; the map `seq_pxs` is a total function with `NoSlot` for "not in the map". `ScanDown`/`ScanUp` are the `while` loops that look for the next filled level. |
| `Exchange`, `Sums` | The exchange's own book: which orders rest, where, with what quantity left; the depth of a level is a sum over orders. External: it produces the messages. |
| `OrdTrdSH`, `OrdTrdSZ` | The handlers, branch by branch, each as one action on the book. |
| `BookVsExchange` | The properties that compare a book with the exchange. |
| `BookSH` | SH continuous trading: an order is quoted, cancelled, or matched by an incoming one; the exchange's step and the whole handler are one step. |
| `BookSHAuction` | The day around it: call auctions, in which the book crosses, and their trades with flag `N`. `untaken` records what these trades took of each order; `Account` is `BookVsExchange` with that put back. |
| `BookSHLateJoin` | The same days for a program that is connected before the first message (`connected = "first"`) or at any later moment (`"no"`, then `"late"`), mid-auction included. |
| `BookSZ` | SZ: crossed books, fills, withdrawals, market orders, own-best orders, prices outside the limits. `refused` remembers the orders whose messages the handler dropped; `Known` is `BookVsExchange` without them. |
| `BookSZRouted`, `Routing` | SZ on its two topics (`orders`, `trades`, which overtake each other) behind `onFeedRawData`, `Worker::enqueue` and `onMessage`, with the column the feeders really route trades by. `missed` records what each order's trades failed to take. |
| `MarketDepth` | The abstract specification: depths and best levels, no orders, numbers or moved cursors. |
| `Messages`, `MdlDecoder` | The messages of `message.h` (head and union, tied together by market and type as the handlers take them, and the order the CSV decoder leaves unfilled), and the decoder: splitting, trimming, columns, conversions that throw, messages created on the way. |
| `FeedPath` | The three feeders, all symbols and both markets: from a line to a handler, through buffers and messages that are allocated and freed. |
| `SamplerSH` | `getPxList` taken apart into its loads, and `BookSH`'s handlers into their stores. |
| `LockQueue`, `Fanout` | The main thread, which starts the fanouts and then runs the timer; the queues; the fanouts' threads, with a file that fails to open and a Redis error that ends the process. |
| `Lifecycle` | `init` part by part with its failures, `start` and `stop` as sequences of clearing or setting flags and launching or joining threads, the threads' loops, and how the process ends. |
| `PriceCodec` | The single-precision arithmetic from decimal price to level, bit for bit. |

The state is the code's: `bids`, `asks`, `bid1`, `ask1`, `seq_pxs`, `queue`,
`px_record`, `stopped`, and the loops' positions. Added are the exchange's
variables and the ones marked *auxiliary* where they are declared, which only
remember what happened and guard nothing. Operators named after another one
with a suffix (`AddBuySHSets`, `TakenFront`, `FreeOmitted`, ...) are wrong
variants of the code, kept to show that the properties notice them; no
specification uses them.

## 3. The runs

| Run | Result | Shows |
|---|---|---|
| `BookSH` | holds | In continuous trading depths, cursors and index are exact after every message (`DepthExact`, `BestExact`, `RestingIndexed`), and the handlers implement `MarketDepth`. |
| `BookSHLateJoin` | holds | Over auctions and continuous trading: a level is wrong by the auctions' trades and by nothing else (`AuctionAccount`), no resting order leaves the index (`DayIndexed`); after a late start nothing is shown that no order stands for (`LateNeverOverstates`), and until an auction's trade is heard no cursor hides a level (`NothingHiddenYet`). |
| `BookSHAuctionDepth` | violated | ... but the auctions' trades do make a level show more than rests there. |
| `BookSZ` | holds | Depths and bid cursor are exact for the orders not refused, although the book crosses; the ask cursor never stands on an empty level, it leaves the best level by one kind of message only, and the next fill of a known sell order puts it back (`AskCursorSteps`). |
| `BookSZAsk` | violated | That kind of message: a withdrawal of one of several sell orders at the best ask. |
| `BookSZRouted` | holds | With limits of another day, trades routed by the buyer's number, and trades that overtake their orders: when everything has arrived, each level is wrong by exactly the quantities of the trades that were lost, refused or early (`MissedLedger`), and no order there is forgotten, even of the last symbol of the last worker (`ArrivedIndexed`). |
| `FeedPath` | holds | Behind the market feeds exactly the lines that should reach a handler do, once, in order, each its own (`HandledExactly`), in a message of one market and type that is filled in for buyers and sellers alike (`TypeOK`); what stays allocated is accounted for line by line (`LeaksExactly`). Behind the CSV feeder, whose routing id nothing sets, no handler is called for anything but an order's own symbol, in the file's order (`CsvCallsOwn`). One thread alone changes the books (`OneWriter`). |
| `PriceCodec` | holds | The index is in the arrays, the price is exact or one tick low, and the order of prices survives. |
| `Fanout` | holds | Each record is in one place, once; a sink takes the newest picture of a symbol first, and publishes in order while no record lands on an older one of its symbol; in the end all queues are empty unless Redis ended the process. |
| `Lifecycle` | holds | No thread runs before `init` has made what it uses; a fanout handles at most one record after its flag is set; `main` returns only with all threads ended; `stop()` ends the program unless a Redis feeder gets no message. |
| `SamplerSH` | holds | The handlers taken apart make the same book; a record that no message ran into is exactly the top of the exchange's book, any other is still a list of real levels, best first; `getPxList` ends. |
| `SamplerSHCrash` | violated | `getPxList` loads a cursor again after testing it and can find it null. |

### Bounds, and why they are enough

* `Span = 3` levels: below, at and above a cursor, so that a search can skip an
  empty level, find one, or fall off the end. `MaxOrders = 4`: two orders on a
  level and one on another with one more to come, on one side or spread over
  two; a fifth number belongs to the aggressive order. `MaxQty = 2` separates a
  partial from a complete fill.
* `BookSZRouted`: two levels and `PriceSlack = 1` price outside at either end;
  three symbols do not divide by the two workers, and the book is that of the
  symbol a share rounded down would lose. `Before = 1` makes some buyers' numbers
  pass for a routed id and others not. Three orders and `InFlight = 3` messages
  under way: an order, a fill and a withdrawal that all overtake each other.
* `SamplerSH`: the interleaving multiplies the states; three orders of one unit
  there, and a record of two levels of three. The crash needs two levels only.
* `FeedPath`: three lines from a set of events with each kind of line whole (SH orders of
  both sides, trades flagged `B` and `N`) and
  lost in each way (garbled column, blanks, unknown kind, unlisted symbol, no worker),
  so that each loss happens before, between and after lines that arrive.
* `Fanout`: two symbols, two sinks (one publishes everything while the other may
  fail to open its file; one may end the process), two rounds: the least in which
  an older record of a symbol is overtaken by a newer one and by another's.
* `Lifecycle`: two workers, queues counted up to 2 (a record in hand, one
  waiting), every feeder with no fanout and with each kind, and two
  fanouts with each combination of missing files.
* `PriceCodec`: all limits from 0.01 to 3.00, the recorded feeds' region around
  16, and the prices around 128 and 1024, where the float's precision halves,
  with up to 24 ticks above each.
* The exchange stops after `MaxOrders` orders, and everything may be gone then:
  the model stops, not the program. This is the reason for `CHECK_DEADLOCK
  FALSE` in the book runs. `PriceCodec` ends at the upper limit, `FeedPath`
  after its lines, `Fanout` when all rounds are published or the process is
  gone, `Lifecycle` with the program.

### Fairness

`Fanout` assumes weak fairness of the main thread and of each sink: their
threads are loops without a wait for anyone (a sink that finds its queue empty
tries again), so the operating system's scheduling is all they need. The timer
makes finitely many rounds in the model, which matters: with a timer that never
stops, the record at the bottom of the queue may wait for ever (`dequeue` takes
the newest). `SamplerSH` assumes weak fairness of `getPxList` alone, none of the
feeder. `Lifecycle` assumes it of the main thread, of `stop()` once it is called, and of each
thread's own loop. Not assumed: that a message arrives (the Redis feeder waits for one without a
limit, which is why `StopEnds` excepts it), that a condition variable wakes up
for no reason, that `stop()` is called.

## 4. The proofs

The theorems hold for every value of the constants that satisfies the modules'
assumptions, and of the program these say little:

* `LobTypes`, `Exchange`: `Span`, `MaxOrders`, `MaxQty` are positive. The theorems on
  SH have `InLimits`, those on `BookSZ` are for `PriceSlack = 0` (the program's price
  limits are the exchange's), those on `BookSZRouted` are for any limits.
* `BookSZRouted`: the listed symbols are below `lobnum`, and this book's is one of them.
* `PriceCodec`: no price is above 16777 yuan, which is where a price in cents no
  longer fits the 24 bits of a float's significand (and the model's exact integers
  TLC's 32 bits). What SH and SZ list is far below, with few exceptions.
* `Fanout`: the list of symbols is not empty and repeats none (they become the
  keys of `pxlive_`), and a fanout is enabled (otherwise nothing starts the timer).
* `Lifecycle`: the settings are ones `init` can read; there is a worker.
* `Routing`: `lobnum` and `workers` are positive.
* `FeedPath`: the listed symbols are below `lobnum`. Of what is received, `Events`, the
  lines of the three kinds are laid out as the publisher does, with a column that is
  converted garbled or none, and an SH order is flagged `B` or `S`; everything else may come in any number and order, and lines of other kinds,
  empty ones and ones with blanks behind them too. Of the standard library: it
  reads a number from that number's text, and none from a garbled one.

| Theorem | Of | States |
|---|---|---|
| `TypesCorrect`, `DepthCorrect`, `BestCorrect`, `IndexCorrect` (`BookSHProofs`) | `BookSH!Spec` | `TypeOK`, `DepthExact`, `BestExact`, `RestingIndexed` |
| `Refinement` (`BookSHProofs`) | `BookSH!Spec` | `ImplementsMarketDepth` |
| `AuctionsAccounted`, `DayIndexCorrect`, `LateBounded`, `HiddenNothingYet` (`BookSHDayProofs`) | `JoinSpec` | `AuctionAccount`, `DayIndexed`, `LateNeverOverstates`, `NothingHiddenYet` |
| `SZTypesCorrect`, `KnownDepthCorrect`, `KnownBidCorrect`, `AskOnQuantityCorrect` (`BookSZProofs`) | `BookSZ!Spec` | `SZTypeOK`, `KnownDepthExact`, `KnownBidExact`, `AskOnQuantity` |
| `AskStepsCorrect` (`BookSZProofs`) | `BookSZ!Spec` | `AskCursorSteps` |
| `RoutedInvariant`, `MissedLedgerCorrect`, `ArrivedIndexedCorrect` (`BookSZProofs`) | `BookSZRouted!RoutedSpec` | `RoutedInv`, `MissedLedger`, `ArrivedIndexed` |
| `SamplerTypeTheorem`, `BetweenMessagesTheorem`, `RecordOrderTheorem`, `QuietRecordTheorem` (`BookSHProofs`) | `SamplerSH!SamplerSpec` | `SamplerTypeOK`, `ExactBetweenMessages`, `AnyRecordOrdered`, `QuietRecordExact` |
| `FanoutTypeTheorem`, `EachOnceTheorem`, `InOrderTheorem`, `NewestFirstTheorem` (`FanoutProofs`) | `Fanout!Spec` | `TypeOK`, `EachOnce`, `InOrderUnlessBehind`, `NewestFirst` |
| `LifecycleTypeTheorem`, `ThreadsStartReadyTheorem`, `LastRecordTheorem`, `CleanExitTheorem` (`LifecycleProofs`) | `Lifecycle!Spec` | `TypeOK`, `ThreadsStartReady`, `LastRecord`, `CleanExit` |
| `PathTypeCorrect`, `HandledExactlyCorrect`, `LeaksExactlyCorrect`, `CsvCallsOwnCorrect`, `OneWriterCorrect` (`FeedPathProofs`) | `FeedPath!Spec` | `TypeOK`, `HandledExactly`, `LeaksExactly`, `CsvCallsOwn`, `OneWriter` |
| `IndexInArraysTheorem`, `OffByAtMostOneTheorem`, `TicksInOrderTheorem` (`PriceCodecProofs`) | `PriceCodec!Spec` | `IndexInArrays`, `OffByAtMostOne`, `TicksInOrder` |
| `EverySymbolRoutedTheorem` (`BookSZProofs`) | any `lobnum`, `workers` | every symbol has a worker |

`BookLemmas` has the laws of the sum a level's depth is defined by (changing one
term, greater terms, terms that are not negative), by induction over the
recursive function; what the searches return; what a depth is, and what one
message does to both.

None of the invariants is inductive alone.

* **Continuous trading** (`IInv`): `TypeOK`; `FreshUnused`, that a number not yet
  given out is in no order and not in the index, so that a trade's aggressive order,
  which the book has never seen, changes nothing; `RestingIndexed`, needed for a
  trade to reach its order's level; `DepthExact`, needed for the index (an
  order leaves it when its level shows zero, and only an exact level that shows
  zero has no order left on it); `CursorsRight`, that each cursor is the extreme of the
  filled levels of its *array*, which is the form the handlers maintain; with
  `DepthExact` it gives `BestExact`. For the refinement, a step of `BookSH` is
  shown to be an `Add` or a `Take` of `MarketDepth`.
* **Days with auctions** (`DayInv`): the same depth lemmas, instantiated with the
  orders as they would be without the auctions' trades (`Kept`). An auction's
  trade changes nothing of these, nor of the book. The index has to be right for
  every order something is kept *or* left of: a level runs empty only when both
  are gone. Of the cursors nothing is said: they are not right there.
* **Late start** (`LateInv`): the lemmas once more, instantiated with the orders
  that are in the index (`Heard`). Each level shows no more than these: a
  deletion of an unheard order, or one whose level is clamped at zero, only takes
  away; a trade that empties a level takes its order out of the index and leaves the level at
  zero or below. `Heard` is at most `Kept`, order by order, hence level by level.
* **Shenzhen** (`SZInv`): depths and index for the orders not refused (`Seen`); the
  bid cursor is the highest filled level; of the ask cursor only that it stands on
  a quantity, or is null. The two sides of a fill are treated one at a time,
  since the book may be crossed.
* **The SZ ask cursor** (`AskStepsCorrect`): where `SZInv` holds, the cursor is on the
  best known order's level exactly when it is the lowest filled level (`AskBest`), so the
  step property is one about searches. A withdrawal that empties its level, or
  is made elsewhere, moves a right cursor to a right level; the others are the
  exception the property names. A fill's order is the exchange's best, so the search
  upwards from its level misses nothing, wherever the cursor stood.
* **Shenzhen behind the feeders** (`RoutedInv`): nothing the exchange does changes what the
  book was told (`Told`: what an order has left, what the trades under way take of it
  and what was missed of it), and each level shows what is told of the orders whose
  messages have arrived and were not refused (`ShowsTold`). A trade that is applied takes the
  same of a told order and of its level; one that is missed takes nothing of either.
  What makes this inductive is what the messages under way say (`OrderRight`: the
  quantity an order's message carries is still what is told of the order, however many
  of its trades were sent meanwhile, or came too early and were missed; `TradeRight`: the
  two orders a trade names are of the two sides, or never enter the book, so that one cannot be
  taken for the other in the index) and that an arrived order is in the index while
  anything is told of it (`IndexSays`). No order's message is lost, since every symbol has a
  worker (`EverySymbolRoutedTheorem`).
* **What the cursors hide** (`ViewInv`, with `LateInv`): after a late start a cursor
  may stand on an empty level, or be null while the other arrays show something
  below zero, so it is not the extreme of anything. But as long as no auction's trade was
  heard, no level beyond it is filled. A message about an order at a better
  level moves it; a deletion that starts a search skips empty levels only; and a trade,
  which puts the cursor wherever the trade was, is at the exchange's best level:
  a filled level beyond would have a heard order on it (`FilledRests`, from
  `NoMoreThanHeard`), which the exchange would have matched first. With an
  auction's trade the last step fails: the book shows what is no longer there.
* **Sampling** (`FeederInv`, `ReaderInv`, `QuietInv`). `FeederInv` is `IInv` taken
  apart: depths and index are right at every store of a handler, and for each place in the
  handler it says how far its own cursor may be off (`Handling`: it is still on a level that
  was just emptied; no filled level is nearer than the one the search has
  reached), while the other cursor is right. `ReaderInv` holds of the reader
  whatever the feeder does: each level it lists had an order entered on it once, none is
  negative, each is beyond the one before, and the loop's position is beyond them
  all. `QuietInv` holds until a message arrives: what is listed is what the book shows,
  and every filled level nearer than the loop's position is listed.
* **From a line to a handler** (`HoldInv`, `CsvInv`, `MarketInv`). First, column by column, what splitting and
  converting make of a line (`ReadsSH`, `ReadsOrderSZ`, `ReadsTradeSZ`), so what a feeder
  routes it by (`ZmqForwards`, `RedisForwards`) and what the decoder makes of it
  (`Decoding`: no message, or one whose only handler is that of the line's market and kind).
  `HoldInv`: each line in hand has a buffer of its own that still holds that line's text
  (`InHand`, `OwnLines`), which is why a decoder finds what the feeder forwarded and a free frees
  nobody else's; and only one thread ever has a message (`Writer`), which gives
  `OneWriter`, and `MessageOfFeed` types its message by the feeder. `CsvInv`: the calls
  made are for lines before the one the orders' thread has not yet dispatched, and its
  message has that line's symbol, which is `CsvCallsOwn`. `MarketInv` is the ledger behind a market feed: the calls made are for the
  deliverable lines, without the last one while it is before its handler; the
  buffers are those left behind and the one in use; the messages are the
  unused, the lost and the one in hand. When no line is in hand these are
  `HandledExactly` and `LeaksExactly`.
* **Fanouts** (`FanoutInv`, one conjunct per sink): a record is in one of four places, and
  these together are what the timer has put out so far (`Once`); in a queue the records
  of a symbol lie in the order of their rounds, which makes the newest one the last,
  and the last is what `dequeue` takes; a sink that never had two records of a
  symbol to choose from has them published, in hand and waiting in this order (`InTurn`).
* **Lifecycle** (`LifeInv`): what `init` has made by the place of the main thread
  (`MadeSoFar`); the threads that run are those whose `launch` step `start()` has
  passed (`Launched`), those that have ended include all whose `join` step
  `stop()` has passed (`Joined`), and the two lists of steps have every thread once
  (`Covers`). The flags: none is set before `stop()` is called and none cleared later
  unless `start()` was still running (`Flags`), so a fanout that finds its flag set
  is done after one record (`AtMostOneAfter`); the service's own flag is set when all
  joins have returned (`ServiceFlag`), and `main` waits for that one.
* **Prices** (`PriceCodecProofs`): for each exponent the two roundings are bounded by
  inequalities on the significand and the product, linear in the price; from them the
  integer is the price's own or the one below. Neighbouring prices cannot change
  places, nor can an index leave the arrays, since the limits go the same way.

The strengthened invariants were checked with TLC on the runs' instances before they
were proved.

Model-checked only:

* `SampleEnds`, `QueuesDrain`, `StopEnds`: liveness under fairness is beyond this
  proof system.

## 5. Where the code and its words disagree

Kept as runs, with their counterexamples (`findings`):

1. **Call-auction trades stay in the SH book** (`ordtrd_sh.cpp:95`).
2. **An SZ withdrawal moves the ask cursor off a level that is not empty**
   (`ordtrd_sz.cpp:131`; the bid side tests the level itself).
3. **`getPxList` can use a null pointer** (`ordtrd_pxlist.cpp:11`).

Seen while modelling; the models have these behaviours, and the properties are
stated around them:

4. Prices are truncated after a multiplication in single precision
   (`feed_tonglian_mdl.cpp:62`): 16.05 is booked as 16.04 (`OffByAtMostOne`).
5. SZ trades are routed by the wrong column (`feed_zmq.cpp:75`,
   `feed_tonglian_mdl_redis.cpp:56`): the column of the `SecurityID` in mdl 6.33
   is the `BidApplSeqNum` in mdl 6.36. With the default `lobnum` of a million and
   one worker, every trade whose buyer's number is at least a million is dropped
   (`BookSZRouted`, `FeedPath`).
6. Own-best orders (`OrdType` `U`) carry price 0 and are refused by the range
   test (`ordtrd_sz.cpp:15`), so the SZ book shows less than rests (`BookSZ`).
7. A ZMQ line with blanks or a carriage return at its end is dropped: its kind is
   compared untrimmed (`feed_zmq.cpp:72`; the Redis feeder trims).
8. The CSV feeder's symbol id is never set, and a column that is not a number
   throws in a thread where nothing catches it (`feed_csv.cpp:52`). Its decoder sets
   nothing of an order but type and symbol (`feed_csv.cpp:106`): market, price, quantity and
   side are what the memory held, and so is the choice of the handler (`UnfilledOrder`).
9. Each decoded SZ trade leaves a message behind, as does a conversion that
   throws; a line without a worker leaves its buffer (`LeaksExactly`).
10. A record's two sides are read at different moments and can cross; a
    quantity in it can be 0 (`AnyRecordOrdered`).
11. A sink that fell behind publishes older records after newer ones, and leaves
    the older book in the Redis hash or the file (`lockqueue.h:61`).
12. `LobTimer::start` does not return: `waitForShutdown` is not reached when a
    fanout is enabled; the signal handler is never registered; `stop()` joins a
    thread that was never started (`service.cpp:223`), which throws. A `stop()`
    that runs into `start()` has its flags cleared again (`early`), and one of a
    Redis feeder without messages waits for ever.

Noted beside the models: the SZ decoder swaps `ChannelNo` and `ApplSeqNum`, which no
handler reads; `init` does not initialise the CSV feeder; `onTradeSZ` reads the SH
part of the message into a variable it does not use; the build file leaves out the
`feed_tonglian_mdl*.cpp` and `fanout_redis.cpp`; the unused lock-free queue loses
elements when its last one is taken while another is put in (`TODO.txt` knows that
it has bugs).

## 6. Not modelled, and why

* The live feeder is only declared. `savePxList` and the histories have no
  caller. The protocol buffers are generated and unused. Logging has no state.
  The lock-free `_enqueue`/`_dequeue` have no caller.
* The text and msgpack formats of records, reading of settings and list files, sockets
  and reconnection: layout and I/O. What they make the rest of the program do
  (fail, throw, wait, end) is in `Lifecycle`, `FeedPath` and `Fanout`.
* What the handlers do with the CSV decoder's unfilled order.
* SH prices outside the limits, a listed symbol without limits, a symbol id of
  `lobnum` or more in the list: the code indexes outside arrays there, and what that does
  is undefined.
* Overflow of the 32-bit quantities: the properties would hold modulo 2^32.
  Torn loads of the packed (misaligned) atomics: below the model's granularity.
* The SZ handlers as the writer under `getPxList`: they make the same kinds of
  stores as the SH ones, and the sampler's properties say nothing of which cursor is
  left where.
* `sample_px_depth = 0` (one level is recorded all the same) and the growth of `seq_pxs`
  with the day's orders.

## 7. What is left

1. The lock-free queue over its loads and stores, should it get a caller.
2. Quantities modulo 2^w.
