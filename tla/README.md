# A TLA+ model of the HFT system

This directory specifies the trading system under `hft/` in TLA+: its lock-free
containers, its order book, the consumer of the depth stream, and the path of an
order from a quote intent to the venue and back. TLC checks every specification on small instances; TLAPS proves
the central facts about the containers for all sizes. `PROJECT.json` maps every
definition to the lines of code it models and lists the runs, the mutants, the
findings, the hazards and the theorems.

## 1. The system

| Part | State | Operations | Talks to |
|---|---|---|---|
| `SPSCQueue` (`common/spsc_queue.h`) | ring, `head`, `tail` | `enqueue`, `enqueue_spin`, `dequeue` | one producer thread, one consumer thread |
| `MemoryPool` (`common/memory_pool.hpp`) | bins, free links, packed head with counter, `alive` flags | `allocate`, `deallocate` | any thread |
| `MarketOrderBook` (`src/order_book.hpp`) | buckets, bitmaps, summary, cached best index, BBO | `on_market_data_updated`, `peek_*` | TradeEngine thread |
| Depth converters | none | snapshot and depth update to entries | MarketConsumer, OrderBook |
| `MarketConsumer` (`src/market_consumer*.hpp`) | stream state, buffered events, update index, retry count | login, snapshot, depth update, gap recovery | market-data sockets, TradeEngine queue |
| `OrderManager` (`src/order_manager.hpp` and the classes it owns) | layer book, reserved position, expiry queue | `apply`, `on_order_updated` | strategy, RiskManager, TradeEngine |
| `RiskManager`, `PositionKeeper` | limits; position and PnL | `checkPreTradeRisk`, `add_fill` | OrderManager, TradeEngine |
| `OrderGateway`, `WsOrderManager`, dispatchers | pending requests | `order_request`, one handler per response kind | sockets, response queue |
| `TradeEngine` (`src/trade_engine.hpp`) | two SPSC queues | `run`, `on_order_updated`, `send_request` | everything above |
| Order-entry session | session ready, listen key | logon, subscription, keepalive | sockets |
| WebSocket transport | write queue, connection flag | `write`, service callback | library threads |
| Logger | MPSC queue | `log`, flush thread | all threads |
| FeatureEngine, strategies, InventoryManager | signals, phases | market-data and order callbacks | OrderManager |
| FIX apps and cores | session sequence numbers | the same roles over FIX | generated message classes |

Threads: one service thread for each socket (market-data stream and API;
order-entry API and, on futures, the user stream), the TradeEngine thread, a
keepalive thread, a detached thread that fetches instrument information, and
the logger thread. The OrderManager and the order book live on the TradeEngine
thread; they meet the socket threads through the queues, the pools and the map
of pending requests.

What makes the system hard to test:

* the containers depend on the interleaving of single atomic accesses;
* the single-producer market-data queue is filled by two threads;
* the order book keeps five representations of one fact (quantities, bitmaps,
  summary, cached index, BBO) and resets them at different places;
* an order's slot is advanced by reports that race the manager's own cancels,
  replaces and timeouts, and that are matched by id or, failing that, by price;
* a lost write or a refusal yields no report unless some code makes one.

The `hazards` list of `PROJECT.json` has each of these at its line.

## 2. Modules

| Module | Models |
|---|---|
| `BoundedFifo` | what a queue promises: the abstract specification |
| `SpscQueue` | `SPSCQueue`, one step per atomic access or slot access |
| `MemoryPool` | `MemoryPool`, one step per atomic access or link access |
| `OrderBook` | the bucketed `MarketOrderBook`, one action per entry or peek |
| `SnapshotFeed` | `OrderBook` driven by the entries of a depth stream with snapshots |
| `MarketConsumer` | the consumer's depth stream, snapshots and gap recovery, on two threads |
| `LayerBook` | the slots of a side book, as pure operators |
| `OrderGateway` | requests out, reports in, and the pending-request map |
| `OrderManager` | `apply` and `on_order_updated` with all they call |
| `OrderLifecycle` | manager, gateway and the venue (external) composed |
| `ModLemmas`, `SpscQueueProofs`, `MemoryPoolProofs` | theorems and their lemmas |
| `MC*` | instances for TLC |

`LayerBook`, `OrderGateway`, `OrderManager` and `OrderLifecycle` extend each
other in that order; together they are one specification.

### Correspondence with the code

*SpscQueue.* `head`, `tail` and `buffer` are the members of the same name; the
per-thread variables are the locals of a call. The indices are kept modulo
`Laps * Capacity` where the code has 2^64: both are multiples of the capacity,
which is all that `head & kMask` and `head - tail == Capacity` depend on.
Acquire and release order the slot accesses around the index accesses, so
program order is kept and no weaker behaviour exists.

*MemoryPool.* `owner` is a history variable that says who may touch a bin; the
code has no such field. `lag` counts the updates of the head since a thread
loaded it. The guard on `lag` in `SwapHead` is the assumption every counted
pointer makes: no thread sleeps through a whole turn of the counter (2^32
updates). Weak compare-exchange may fail spuriously (`Retry`). Callers return
only pointers they own.

*OrderBook.* A 64-bit word is the set of its bits. Bids and asks run the same
code mirrored, so `Better` and `First` select the direction. `crashed` records
that `allocate()` returned null and the result was dereferenced. `Qtys` are
positive because every converter turns a quantity `<= 0` into a cancel.

*MarketConsumer.* Variables are the members of the same name. `reader` is the
stream thread inside `handle_subscribe`, with its copy of `state_`; `writer` is
the API thread inside `on_snapshot`. `held` is the update objects that
have been handed out: the updates by their last id, the snapshots by their
number. `NotApplied` is an object that reaches the engine's book in no way,
because the queue was full or because `run` had taken it when it hit its batch
limit. A snapshot request may fail to be sent (`Request`); the code ignores the
result, and `venue.unsent` records that the last one failed. `engine` is what the updates given to the TradeEngine add
up to, and `overlap` is a history variable: handlers of the two threads have
been active together since the last snapshot was accepted. The exchange
(external) numbers the changes of its book, sends them in updates, may lose
some, and answers a snapshot request with an id up to `MaxLag` behind. Accesses
to the members and operations on the deque are taken as atomic, which the code,
having no lock, does not ensure: the model shows what the order of the steps
alone can do.

*OrderManager.* `book[key]` is the side book of a (side, position side) pair.
Time is the number of calls of `apply`, and an order id is twice that time: the
code's ids are timestamps, and spot gives the cancel half of a replace the id
minus one. A TTL that would end past the bound on time ends at the bound, so
that bounding time loses no timeout. Prices are integers with `ScaleInt` raw
units per tick. `position` is changed by fills only.

*OrderGateway.* `pending` is `pending_requests_`. `LatePosts` separates the
write of a request from its registration, which is the window in which a socket
thread can run. `exchange` selects the build, spot or futures, and never changes.
`LossyWrites` lets a write fail. A refused cancel-and-reorder may come with or
without the details that the dispatcher needs to make a report of it. The response queue is a plain
sequence here: what can go wrong inside it is the subject of `SpscQueue`.

*OrderLifecycle.* The venue is external. It answers requests in order, reports
each change of an order on the report socket and each refusal on the API
socket, and orders trade at any moment. `MayReject`, `MayFill` and
`SendsPending` widen or narrow what it does.

## 3. Runs

### Passing

| Run | Properties | Instance |
|---|---|---|
| `spsc_queue` | `NoSlotRace`, `IsBoundedFifo`, `SpinReturns`, types | capacity 4, two laps, two items: the indices wrap |
| `memory_pool` | `NoDoubleHandOut`, `FreeStackExact`, `AliveWhileHandedOut`, types | two threads, three bins, counter modulo 4: the counter wraps and a thread can fall behind |
| `order_book` | `IndexCoherent`, `BestIsBest`, `PeekIsSorted`, `BboNeverStale`, `CrashOnlyWhenFull`, types | both sides, 6 levels, two quantities, words of 2 bits, one word a bucket: 3 buckets, 2 summary words, pool of 2 a side |
| `snapshot_feed` | `IndexCoherent`, `BestIsBest`, `PeekIsSorted`, `BboNeverStale`, `BboLostOnlyWhenEmpty`, `BookFollowsFeed` | both sides, 4 levels, two quantities, words of 1 bit, 2 words a bucket: 2 buckets, 2 summary words; range that includes price 0, so that a `kClear` takes effect |
| `orders_new` | `ReservedExact`, `PositionWithinLimits`, `OrdersTracked`, `LeakedOnlyByOvertaking`, types | spot, one side, two layers, three calls of `apply`, fills, refusals and answers that overtake registrations |
| `orders_ttl` | `NoLeakedSlot`, `RequestsNameOrders`, `NoEarlyCancel`, `EverySlotFreed` | spot and futures, fair, TTL 2, fills, pending announcements, answers that overtake registrations |
| `orders_replace` | `ReservedExact`, `TicksDistinct`, `OrdersTracked` | cancel-and-reorder on spot and modify on futures, lost writes, quantities 1 and 3 with increment 2, minimum time gap |
| `market_consumer` | `CompleteUnlessDisturbed`, `BufferingAwaitsSnapshot`, `Resyncs`, types | spot and futures, 4 changes of the book, buffer of 2, pool of 3, one lost update, one object not applied, one failed snapshot request, snapshots up to 1 behind |

Small numbers are enough because of what the code distinguishes: the ring and
the pool only compare indices for equality and difference; the book's searches
distinguish the same word, another word of the bucket, another bucket and
another summary word, and the two book runs have all four between them; the
manager distinguishes a free, a same-tick and a victim layer, and two layers and
two prices give all three; the consumer compares ids for order and adjacency,
and three updates overflow a buffer of two.
`order_book` turns deadlock checking off because a crashed book stops, and
`market_consumer` because the process may end and the exchange may fall silent.

### Violations: where the code differs from what it says

| Run | What happens |
|---|---|
| `snapshot_feed_below_range` | the `kClear` of a snapshot has price 0 and is dropped by the range check |
| `market_consumer_overlap` | an update handed over by the stream thread around a snapshot of the API thread is undone by it, and nothing notices |
| `orders_futures_reject` | a refused futures order keeps its slot: its request id has no `_` |
| `orders_modify_filled` | after a modify of a partly filled order the slot holds an id the venue never saw |

The default ranges of the order book exclude price 0, so `snapshot_feed`
describes a book whose `min_price_int` is 0; `snapshot_feed_below_range` is the
book with the defaults.

The same specifications under other constants show further differences that no
run is kept for:

* `IsBoundedFifo` in `spsc_queue` with a second producer: the stream thread
  (`market_data_protocol_policy.h:162`) and the API thread
  (`market_consumer.hpp:214` and `241`) of the market-data app both enqueue into
  the single-producer market-data queue (`trade_engine.hpp:122`), and an item is
  lost or repeated;
* in `snapshot_feed`, that a side with a level has a BBO price: a `kClear` keeps
  the cached best indices, so the next add at the old best index stores only its
  quantity, an add at a worse one stores nothing, and the price stays invalid;
* `NoLeakedSlot` in `orders_new`: a refusal that is handled before the request
  is registered becomes a report without a side and frees no slot;
* `NoLeakedSlot` on spot with a short TTL and refusals: a TTL cancel overwrites
  the registered request that a late refusal of the order needs;
* `PositionWithinLimits` with `Keys <- BothSides`: the net reserve lets one side
  take the position past its limit;
* `NoLeakedSlot` with replaces and fills: a replace that loses to a fill
  restores a slot for an order that has ended;
* `EverySlotFreed` with `LossyWrites`: the slot of an order whose write failed
  is cancelled once, in vain, and never freed;
* `TicksDistinct` in `orders_replace` with `MayReject`: a refused replace
  restores a tick that another layer has taken meanwhile;
* `BufferingAwaitsSnapshot` without its exception: a snapshot request that
  fails to be sent leaves the consumer in `kBuffering`, where a later gap asks
  for nothing;
* the limit on gap retries (`market_consumer.hpp:252`) is not reached in
  `market_consumer`: a snapshot accepted while buffering resets the counter at
  line 206 before the gap is counted. The counter is carried over only when a
  snapshot is accepted in another state after the pool was exhausted, and the
  instance then gets to a count of 2 of 3.

The passing runs of the orders leave out the conditions of these differences, so
that what holds otherwise is visible: `orders_new` has one side, spot and no
timeouts; `orders_ttl` has no refusals and no lost writes; `orders_replace` has
no fills and refuses no new order. What a refusal does is therefore shown by
`orders_new` alone, and there `LeakedOnlyByOvertaking` says that a
refusal leaks a slot only when it overtakes the registration. In the same way
`CompleteUnlessDisturbed` names its exceptions (overlapping handlers, an object
not applied), and `BufferingAwaitsSnapshot` and `Resyncs` except a failed request.

### Fairness

`SpscQueue`: the consumer and a producer inside a call keep running; nobody has
to call `enqueue`. `TradeEngine::run` polls in a loop on a core of its own.
`MarketConsumer`: weak fairness of the two service threads, which loop until they
are stopped, and of the exchange's answers; how often the book changes is free,
but the instance has finitely many changes, so an endless series of gaps is
outside it. `OrderLifecycle`: weak fairness of the empty `apply` (both strategies call it on
market data), of `on_order_updated` (the same loop drains the response queue),
of the socket threads and of the venue's answers. Fills and new intents are
never forced.

## 4. Proofs

`SpscQueueProofs` proves, for a single producer and every capacity >= 2, number
of laps and set of items:

* `RingSafety`: `TypeOK` and `NoSlotRace` always hold;
* `RingIsFifo`: the ring implements `BoundedFifo` with the published slots, from
  tail to head, as the abstract queue.

Neither is inductive alone. `RingInv` adds that the local copies of a running
call are current (`CopiesCurrent`), that what a side checked still holds because
the other side only makes more room or more items (`ChecksStillHold`), and that
the slots between tail and head hold items (`SlotsFilled`). `ModLemmas` has the
arithmetic: distinct indices less than a capacity apart fall into distinct
slots, and adding one commutes with the wrap.

`MemoryPoolProofs` proves, for any set of threads, number of bins and counter
modulus:

* `PoolTypes`: types are kept;
* `PoolExclusive`: `allocate` only takes free bins (`NoDoubleHandOut`).

`PoolInv` says that the links of free bins lead to free bins, no two to the same
one and none back to the head (`LinksSound`), and that a thread whose `lag` is
zero still has the current head and the current link (`WindowSound`). A
compare-exchange that succeeds has `lag` zero, because the counter has advanced
by `lag`, which is less than its modulus.

Assumed: the named `ASSUME`s on the constants, which TLC evaluates in every run.

Only model-checked: liveness (`SpinReturns`, `EverySlotFreed`, `Resyncs`), which needs
fairness; `FreeStackExact`, which speaks of a recursively defined chain of
links and would need induction over data; the order book, the market
consumer and the order lifecycle.

## 5. Not modelled

The flat build of the order book, and what `peek_qty` and `peek_levels_with_qty`
of the bucketed build collect (only their refresh of the cached index is); trades and book tickers of
the market-data consumer, and its sockets; the
loop of `TradeEngine::run`, of which only the loss of the update that hits the
batch limit is kept (no instance has a batch of reports waiting); session logon and keepalive;
the transport; the logger; PnL and fixed-point arithmetic; feature and strategy
arithmetic; the FIX build and its generated classes; decoding. `trade_order` and
mass cancel have no caller. The loss limit of the risk check needs PnL. The
`components` list gives the reason for each.

## 6. Plan

1. Market data: `MarketConsumer` composed with `SnapshotFeed`, the FIX policy,
   and an abstract specification of a book whose updates are contiguous.
2. `TradeEngine::run`: the two queues, batch limits and pools.
3. Order-entry session, listen key and transport queue, with disconnects.
4. Logger: the MPSC queue and its flush thread.
5. `PositionKeeper` with fixed-point PnL, and the loss limit.
6. The flat order book, shown to agree with the bucketed one.
7. Strategy phases as a source of intents.
8. Proofs: `IndexCoherent` for the order book and the reserved-position and
   tick invariants of the order manager.
