# LightningLOB verification

TLA+ models of LightningLOB, a C++20 limit order book and matching engine, with
TLC configurations and TLAPS proofs. Everything is translated from the sources
under `src/`; `PROJECT.json` maps each definition to the lines it models.

## The system

| Part | State | Operations | Used by |
|---|---|---|---|
| `types.hpp`, `order.hpp` | – | enumerations, `Order`, `ExecutionReport`, `rests_in_book` | everything |
| `OrderPool`, `PriceLevel` (`order_pool.hpp`) | node vector, free-list stack; per level head, tail, count, total quantity | `acquire`, `release`, `reset`, `level_push_back`, `level_unlink`, `level_reduce_quantity` | the books |
| `IdIndexMap` | slot table, size, shift | `insert`, `find`, `erase`, `clear`, growth | the books |
| `Bitset` | words | `set`, `clear`, `test`, `find_next_set`, `find_prev_set` | `OrderBookArray` |
| `OrderBookMap`, `OrderBookVector`, `OrderBookArray` | price levels of two sides, pool, id index, self-trade policy | `add_order` (with matching), `cancel_order`, `amend_order`, `reset`; read-only views | `MatchingEngine` |
| `SpscRingBuffer` | two atomic indices, slots | `try_push`, `try_pop` | `OrderGateway`, `Logger` |
| `OrderGateway` | one ring per producer, next lane | `submit`, `poll_once`, `all_lanes_empty` | multi-threaded demo |
| `MatchingEngine`, `RiskManager` | books per symbol, id counter; limits, positions, rate windows | `submit_order`, `cancel`, `amend`, `reset_symbol`; `check_new_order`, `on_fill` | demos, replay |
| `Logger` | ring, three counters, worker thread | `log`, `flush`, worker loop, shutdown | demos |
| `OrderReplay`, `main.cpp`, `thread_affinity.hpp` | – | drivers | – |

A book belongs to one thread. Concurrency is confined to the rings: producers
push orders into their lane of the gateway, one matching thread sweeps the
lanes and calls the engine, which asks the risk manager and then a book; the
book calls back for each trade. The three books are alternatives: the tests run
one behavioural contract over all of them.

What is hard here: matching loops in which levels and nodes disappear under the
loop; self-trade prevention interfering with the fill-or-kill dry run; redundant
state that must agree (list links, level totals, id index, free list, bitmap,
cached best); backward-shift deletion in the hash table; word-boundary masks;
acquire/release publication in the ring; shutdown conditions. `PROJECT.json`
lists each hazard at its line.

## Modules

- **LobTypes** – enumerations, sentinels, order and report records, and the
  comparisons that all books share (`PriceOk`, `Better`, `SelfTrade`).
- **OrderBook** – the contract: per side and price a FIFO queue. One action per
  call (`AddOrder`, `CancelOrder`, `AmendReject`/`AmendInPlace`/`AmendReplace`,
  `Reset`) and, inside a call, one step per maker met (`Fill`,
  `PreventSelfTrade`), then `Finish` and `Returned`. `pc` says where in the call
  the thread is; `trades` and `report` are what the client is told.
- **OrderPool** – `order_pool.hpp` as operators on a pool record and a level
  record, with the helpers that read a list off its links.
- **BookMatching** – what the three book sources have in common, line for line:
  the members, the frame of `add_order`, `cancel_order` and `amend_order`, the
  inner loop split at the trade callback (`TradeAt`, `AfterCallbackAt`,
  `PreventSelfTradeAt`, `LevelDone`), and the shared invariants. These actions
  take the operators of a book's level structure as parameters; `PROJECT.json`
  gives their lines under the actions of the three books that instantiate them.
- **OrderBookMap / OrderBookVector / OrderBookArray** – the price-level
  structure of each book (a function on prices; a sorted sequence; levels by
  index with bitmap and cached best) and the refinement mapping to OrderBook.
- **IdIndex**, **IdIndexMap** – the partial function the books rely on, and the
  open-addressing table that implements it. `Insert`, `Erase` and `Clear` are the
  calls; the loop of `grow` (`Rehash`, then `Grown`) and the shifting loop of
  `erase` (`Shift`) take one step per turn, so that the invariants are checked
  inside them too. The probing loops read only; `probe` is where they end.
- **IndexSet**, **Bitset** – the set of indices `OrderBookArray` relies on, and
  the words and masks that implement it.
- **Channel**, **SpscRingBuffer** – a bounded FIFO, and the ring that implements
  it, one step per access to shared memory.
- **RingEnds** – a ring reduced to what its two ends know: counts of pushes and
  pops, and how much of the other end's count each has seen. `try_push`,
  `try_pop` and `empty` become operators that take the value their load returns.
  `SpscRingBuffer` is proved to do no more than `RingStep`.
- **OrderGateway** – lanes of `RingEnds`, and the threads of `mt-demo`: `Submit`
  (one attempt; a full lane is retried) and `Leave` per producer; for the matching
  thread the two reads of its exit test (`LoadRemaining`, then `CheckLane` per
  lane), `PollLane` per lane of a sweep, and `Join`.
- **Logger** – a `RingEnds` queue between the thread that logs, flushes and
  destroys (`Log`, `CountPushed`, `Flush`, `FlushLoad`, `RequestStop`, `Join`) and
  the worker (`TestStop`, `Pop`, `Write`, `CountProcessed`); one step per access
  to the counters, the queue and the output.
- **MatchingEngine** – extends `OrderBook`. `submit_order` assigns an id, runs
  `check_new_order` (`Verdict`, `Checked`) and enters `add_order` of the book;
  each `Fill` of the book is `OnTrade`, which moves both positions; limits, amends,
  cancels, reset and the clock are actions of their own. `given` and `taken` only
  record what happened, for the properties.
- **OrderBookProofs**, **MatchingEngineProofs**, **SpscRingBufferProofs**,
  **OrderGatewayProofs**, **LoggerProofs**, **IdIndexMapProofs** – theorems.
  **RiskProofs** – the arithmetic of the risk state, for `MatchingEngineProofs`.
  **SharedLemmas** – lemmas on rings, on least elements and on sums over finite sets.
- **MC…** – small instances for TLC. `MCRequestSets` builds the order sets the
  three book instances share.

So the books are checked against `OrderBook` while using the *abstract* index
and bitmap, and the table and the words are checked against those abstractions
separately. In the same way the engine runs on `OrderBook`, which the three books
implement, and the gateway and the logger on `RingEnds`, which the ring
implements.

### Abstractions

- Quantities, prices and counters are unbounded integers. The code bounds no
  level total, so there is no limit to check its 64-bit sums against.
- Printing, timing and the text of log records are left out. Time exists only for
  the rate limit, in ticks, read once a call. The engine has one symbol: books and
  risk state are kept apart by symbol, and only `next_order_id_` is shared.
- The trade callback is a state (`pc = "callback"`) in which the book may
  be inspected; it does not call back into the book, as none in the repository
  does.
- The books are never given id 0: `MatchingEngine` replaces a missing id before
  it calls a book.
- A released pool slot and a vacated array level are scrubbed. The code leaves
  old contents and overwrites them before use; scrubbing makes a premature read
  visible instead of harmless.
- In `IdIndexMap` the hash is an arbitrary function: multiplication by an odd
  constant permutes the 64-bit keys, so distinct keys can have any high bits.
- In `SpscRingBuffer` an atomic index is the list of all values ever stored in
  it. An acquire load may return any value not older than the last one that
  thread saw. `wrote` and `took` record the last access to each slot, so an
  access without synchronisation is a reachable state, not an assumption.
- In the gateway and the logger every load of another thread's atomic may return
  any value not older than the last one seen. A load that synchronises (the zero
  of `producers_remaining`, the stop request) carries the views of the releasing
  thread with it; the `LoadRemainingRelaxed` mutant shows that the demo depends on
  it. A push or pop is one step here; `EndsContract` proves every finer step of
  the ring to be a step of `RingEnds` or none.

## Runs

| Run | Instance | What it shows |
|---|---|---|
| `order_book` | 3 ids, 2 prices, quantities 0–2, 2 participants, all policies | never crossed, only GTC limits rest, unique ids, no self-trade, price priority, reports agree with the book, FOK is all-or-nothing when self-trade prevention cannot interfere |
| `map_book` | 3 ids, 2 prices, own and foreign orders, the three policies that act | lists, pool and index agree at every step and inside the callback; no empty level between calls; implements `OrderBook` |
| `vector_book` | 3 ids, 3 prices, `CancelBoth` | the same, and both sides stay sorted |
| `array_book` | 3 ids, band of 3 prices and one below it, `CancelBoth` | the same, and bitmap and cached best are exact; a refused call changes nothing |
| `id_index_map` | 4 keys, every hash placement, 4 slots growing to 8, or 8 | load at most half and `grow` never grows again, every entry reachable and `find` exact, implements `IdIndex` |
| `bitset` | words of 4 bits; 1, 4, 5, 8 and 10 bits; every content | both scans exact, one bit changes at a time |
| `spsc_ring` | 4 slots, 9 pushes, 2 items | race-free, failures genuine, implements `Channel`, every item arrives |
| `gateway` | 3 producers, 3 orders each, lanes of 2 slots, fair | the matching thread ends, with every order handled exactly once; no lane waits for more than 2(n − 1) foreign orders |
| `logger` | queue of 4 slots, 6 calls, fair | flush covers what was pushed; after destruction all is written, filtered or counted as dropped; flush and destructor return |
| `engine` | 3 ids (one of them a client's), 2 prices, 2 participants, limits 1/1/1, window of 2 ticks, 3 submits | takers stay within the position limit; positions add up to zero; at most twice the rate limit, where there is one, in any window; the engine's ids are fresh; every call returns |
| `fok_with_stp` | as `order_book` | **violation**, see Findings |
| `map_amend_refused` | as `map_book` | **violation**, see Findings |

**Bounds.** Three orders are enough for a taker to meet two makers at one price
or at two, for a list with two nodes to lose either one, and for a slot to be
reused; three prices let a level be inserted or vacated in the middle; the array
band starts above 1 so that a price can be positive and out of range. The amend
set includes a non-positive price and quantity; amends to quantity 2 supply the
larger resting orders of the book instances. Orders without a participant never
meet self-trade prevention, so each book run contains plain matching too. The
policy code is shared (`BookMatching`) and runs under the three policies that act
in `map_book`;
the vector and array runs keep the one that can both empty a level and kill the
taker. Four keys in eight slots form
clusters that wrap around with entries both to move and to leave; a table of
four slots grows when it receives its third entry. Words of four bits with 5 and
10 bits give partly used last words, 4 and 8 give full ones. Nine pushes take a
ring of four slots round twice. `kMinCapacity` is 4 instead of 16, `kBitsPerWord`
4 instead of 64; neither value is used except as a power of two. A lane of two
slots holds one order, so three orders per producer fill it again and again; with
three lanes a sweep can start at, before and after a given lane. Six log calls
overflow a queue of three records in every position of the wrap-around. In the
engine run one client id lies between the ids the counter hands out; a window of
two ticks has a boundary inside the run; one participant can be without limits,
the size limit is below one request, and position and rate limits of 1 are
reached by one order. That instance uses `CancelResting`, the policy whose loop
goes on after a self-trade, hence also the one for `EveryCallReturns`. Ids and keys are
symmetric because they are only compared for equality (a key's hash is permuted
with it).

**Fairness.** In `MatchingEngine!EngineFairSpec` a call that has begun continues:
it is a loop on one thread that waits for nobody. New calls are not fair. In
`SpscRingBuffer!FairSpec` only the consumer is fair: both consumers in the
repository poll in a loop, and a store becomes visible after finite time. The
producer owes nothing. In `OrderGateway!FairSpec` all threads run (`mt-demo` takes
real-time priority only where the producers have other cores), and loads that are
repeated return the latest value again and again; they may be stale in between,
hence strong fairness on the fresh load. In `Logger!FairSpec` the same holds of
both threads inside `flush`, the destructor and the worker loop; to log, flush or
destroy is the owner's choice.

### Findings

1. **Fill-or-kill with self-trade prevention.** `has_liquidity_for` counts
   resting orders of the taker's own participant; matching then cancels them, or
   the taker. The order ends partly filled, though `types.hpp:46-48` says it
   "either fills completely or touches the book not at all". `FokWithoutStp`
   states what does hold. (`fok_with_stp`)
2. **Refused amend.** `OrderBookMap` and `OrderBookVector` cancel the order and
   resubmit it; a new price that is not positive is rejected only then, and the
   order is gone. `OrderBookArray` tests the price first and keeps it, so
   `RefusalKeepsBook` passes there. The tests describe one contract for all
   books. (`map_amend_refused`)

Two remarks without a run. `matching_engine.hpp:55-56` recommends `set_limits` "for
a fully clean slate" after `reset_symbol`; `set_limits` assigns the limits only, so
position and rate window stay, and the model does the same (`SetLimits`). And
`check_new_order` bounds what an order does on arrival (`TakerWithinLimit`):
orders that rest are not counted, amends are not checked, and an order that the
book refuses has used its share of the rate limit.

## Proofs

Every theorem holds for every value of the constants; the assumptions are the
named `ASSUME`s of the modules that declare them.

**OrderBookProofs.** From: ids are not 0, requests and amends are typed, book
prices are positive and have a largest one (`int64_t`), policies are of the
enumeration. Proved: `TypeCorrect`, `NeverCrossed`, `RestingOrders`,
`IdsAreUnique`, `SelfTradeFree`, `PricePriority`, `ReportsAreTrue`, `FokStaysGood`,
`FokFillsCompletely`. The properties are not inductive alone. `IInv` adds `TakerOk` (the order being matched passed validation) and
`TradesAhead` (no level still on the far side is better than one already traded
at; without it the next trade could step back). All steps but the end of
`add_order` only shrink queues, so `Remainder`/`Shrinks` say once what removing or
reducing an order preserves, and one lemma per action applies it. The one step
that adds an order, `RestKeeps`, needs that the loop ended because nothing within
the limit was left; `BestExists` supplies the best level from the bound on prices.

`ReportsAreTrue` needs `ReportInv`: while an order is matched, its quantity is what
is left of it plus the sum of its trades, so what `Finish` reports as filled is that
sum. `FokStaysGood` needs `FokInv`: what the dry run counted within the limit
(`Offered`) and what the order still needs fall by the same amount with every trade
(`TradeCover`), because without self-trade prevention nothing but trades touches
the book. The order therefore never runs dry, and at the end of the loop nothing of
it is left (`FokFillsCompletely`).

**MatchingEngineProofs.** Also from: ids, limits and participants are natural
numbers, the window is not empty. `EngineDrivesBook` shows that the engine
implements `OrderBook!Spec`, so all of the above holds behind it
(`EngineBookSound`). `TakersWithinLimit` needs `EngineInv`: the engine refuses by
itself only while the book is at rest, and each trade takes from the order what it
adds to the position. `OwnIdsAreFresh` needs `IdInv`: every id in the book, or on
its way there, came from a client or lies below the counter. `PositionsBalance`
needs only that a trade adds to one position what it takes from another, also when
both are the same participant's (`OnTradeTotal`). `RateStaysBounded` needs `RateInv`:
the orders let through in the current window are at most what `orders_in_window`
counts and at most the limit, those before it are at most the limit too, and none
was let through after the window ended and before an order opened the next one
(`Paced`; that each operation keeps it is shown in `RiskProofs`). Orders are counted
from the moment the limits were last set.

**SpscRingBufferProofs.** From: `Capacity >= 2` (no power of two is needed), the
empty value is not an item. Proved: `RingTypes`, `RaceFreedom`, `GenuineFailures`,
`Refinement` (the ring implements `Channel`) and `EndsContract` (it implements
`RingEnds`). `IInv` relates the two indices by their cyclic distance: every value a
thread may still load, however stale, is as far from the other index as its
position in the modification order says (`Distances`); views bound the number of
items in transit (`Counts`); items in transit lie in their slots (`Contents`);
access records name real accesses (`Touched`).

**OrderGatewayProofs.** From: at least one producer, lanes of at least two slots.
`EveryOrderHandled`: `DrainInv` says that producers leave once, with everything
pushed, that the matching thread looks at the lanes only when it has seen all they
will ever hold, and that it goes on to the next lane only past one it has emptied.
It has seen all because as many have left as there are producers, so everyone has
(`EveryoneGone`, a pigeonhole argument over `left`). The counter of handled orders is
the sum of what was taken from the lanes, hence in the end of what was submitted.
`NoStarvation`:
`WaitInv` bounds what a lane has waited by how many turns ago its own was, as the
starting lane moves on.

**LoggerProofs.** From: a queue of at least two slots. `FlushIsComplete` and
`ShutdownIsComplete` rest on `Counts` (the counters differ from the true numbers
of pushes and writes by the step in progress, and flush's view never exceeds
either) and `Prefix` (the output is the beginning of the records).
The lemmas on rings that this module and the previous one cite are in `SharedLemmas`.

**IdIndexMapProofs.** From: no key is the mark of an empty slot, tables have at
least two slots, capacities divide the largest one and are closed under doubling.
Proved: `TableStaysHalfEmpty`, `EntriesStayReachable`, `TableImplementsIndex` (the
table implements `IdIndex`, and the turns of its loops change no entry), for every
placement of the hashes. `MapInv` says that the probe path from the home of an entry
to the entry has no empty slot (`Linked`); in the loop of `erase` the hole is the
one exception, and the entries between the hole and the slot looked at last have
their homes there too (`Skipped`). At the end of the loop a path through the hole
would have to pass the empty slot that ended it (`StopKeeps`); an entry that moves
keeps a path because the hole lies on its old one (`MoveKeeps`). The five facts on
cyclic intervals this takes are `CyclicFacts`. In the loop of `grow` the new table
holds the old entries before `next` and no others (`Growing`), so that each is
inserted for the first time and there is room.

**SharedLemmas.** Sums are the community modules' `SumFunction`, a fold defined by a
recursive function on finite sets. The library's induction theorems take an operator
as parameter, which the provers cannot instantiate; here the property is a set
instead (`NatInductionOnSet`, `FiniteInductionOnSet`), and the recursive function is
shown to exist and to be unique (`AddsExists`, `AddsUnique`). What the other modules
cite is how a sum changes with one summand (`SumChange`), without one (`SumRemove`),
under renaming (`SumReindex`), and the like.

**Model-checked only.** Liveness (`EveryCallReturns`, `EveryItemArrives`,
`DemoTerminates`, `LoggerReturns`) needs fairness, which is out of the prover's
reach. `Bitset` uses bit arithmetic and recursive operators, which the provers do not
support. The storage invariants of the three books (`MapStorageSound`,
`MapNoEmptyLevel`, `VectorStorageSound`, `VectorSorted`, `ArrayStorageSound`,
`ArrayBestExact`, `RefusalKeepsBook`) and their refinements to `OrderBook` are
checked, not proved: they read lists off their links with a recursive operator
(`OrderPool`), and `OrderBookArray` stands on the bitmap. So the theorems above
are about the contract `OrderBook`; that the books keep to it is shown on the bounded
instances.

## Not modelled

- **Several symbols and the user's trade callback.** Symbols share one counter and
  nothing else. Callbacks in this repository observe; one that calls back into the
  book from inside the matching loop is outside what the books support.
- **64-bit overflow** of level totals and positions: the code sets no bound from
  which a limit could be derived.
- **OrderReplay.** `replay()` submits orders one after the other and tallies the
  reports; the tally is local to the call. CSV parsing is text handling.
- **`main.cpp` apart from `mt-demo`**: scripts that print. **`thread_affinity.hpp`**:
  operating-system calls without state. The books' **read-only views**,
  `size_approx()`, `Bitset::count()`, benchmarks and tests.
