# A TLA+ model of the order book simulator

The repository is a small exchange written in Rust: clients send fixed-size
binary orders over TCP, one thread checks margin, matches and settles, another
task sends answers back, and a logger thread writes accepted orders to a
write-ahead log that is replayed at start-up. This directory models the part
that decides who trades with whom at what price and who owns what afterwards,
the log and the recovery from it, and the pipeline that brings orders in and
answers out. It checks them with TLC and proves their central safety properties
with TLAPS.

## 1. The system

### Components

| component | source | state | operations |
|---|---|---|---|
| wire types | `types.rs` | none | orders, trades, answers, their byte layout |
| order and level arenas | `book.rs` 14-246 | slots, free lists, queue and ladder pointers | allocate, deallocate, push, pop, unlink |
| hash indexes | `book.rs` 248-651 | three open-addressing tables | insert, lookup, remove with backward shift |
| order book | `book.rs` 661-1097 | best bid and ask, the arenas and indexes, counters | `process`, `cancel_order`, `get_bbo`, `get_depth` |
| multi-asset engine | `book.rs` 1099-1236 | a book per symbol, the global id counter | `process`, `cancel_order`, `replay_order` |
| risk engine | `risk.rs` | per user: dollars and assets, available and locked | deposit, lock, unlock, refund, settle |
| engine thread | `bin/exchange.rs` 43-286 | the engine, the risk engine, scratch trades | one turn per inbound message |
| WAL | `wal.rs` | file, write buffer, sequence number | open (scan), append, sync, read all |
| WAL logger thread | `bin/exchange.rs` 27-38 | the writer, a count | write each order, sync now and then |
| recovery | `bin/exchange.rs` 61-79, `replay_order` | none of its own | replay the records into fresh engines |
| gateway | `gateway.rs` | per connection: reader, writer task, channel | accept, frame, quarantine ids, forward |
| egress dispatcher | `bin/exchange.rs` 291-374 | senders by connection | register, route, evict, broadcast |
| latency histogram | `metrics.rs` | 544 buckets | record, percentile |
| market maker, benchmark | `bin/market_maker.rs`, `bin/bench.rs` | - | load generators |

### How they interact

Gateway readers put orders on a bounded channel; the engine thread, the only
one to touch the books and the accounts, takes one message at a time. A
cancellation goes to the engine and, when it succeeds, unlocks margin. An order
is first charged its margin, stamped with an exchange id, handed to the logger's
channel and acknowledged; it is then matched, each trade is settled in order,
and what remains is left resting, unlocked (self-trade stop, refusal for lack of
room) or refunded (market order). Answers go over another channel to the
dispatcher and from there to the connection's own bounded channel. At start-up
the same engine code is driven from the log.

### What is hard here

* **Long legal sequences.** Slots are freed by fills, cancellations and
  emptied levels in any order and reused at once; the free list reuses the link
  of the queue; levels are inserted by a walk and removed from the middle; one
  price index serves both sides. No test explores these orders of events.
* **Failure in the middle.** `process` may fail after its matching loop, and
  between two allocations; the caller assumes things about what was done.
* **Numeric edges.** Price boundaries, price improvement, unlocks that saturate,
  a hash table's cyclic comparisons, total quantities maintained three ways.
* **Loops that must end** on the one thread that does everything.
* **Two number spaces in one argument**: exchange ids and client ids.
* **A side byte that nobody checks**, read in two ways by the engine and the
  accounts.
* **Crashes.** The logger writes behind the engine's back, through a buffer; the
  file may end in a torn record, more than once; replay runs other code than the
  live loop and must come to the same state, with ids that go on from it.
* **Concurrency and slow consumers.** Registrations and answers reach the
  dispatcher over two channels in any order; every stage waits on a bounded
  channel for the next; a client may stop reading at any point.

Each of these is a list of hazards in `PROJECT.json`, at their lines, with the
properties that are about them.

### What makes each component correct

* indexes: a lookup finds what was last inserted and not removed, under every
  hash function; loops end; the count is exact.
* order book: the structures stay well formed (free lists, queues, ladders,
  indexes, depth) and the whole implements price-time priority.
* engine: never crossed, nothing traded through, no self-trade, ids unique, no
  ghost client ids; an order stops trading only where its boundary, its own
  user's order or an empty book stops it (part of the abstract specification,
  and so of the refinement).
* accounts: locked funds are exactly the margin of what rests; funds move only
  by trades; nothing is created or lost. Where an order's type or side makes this
  false of the code, the assets are still covered and conserved.
* WAL: what was synced before the file was first torn survives anything,
  numbering goes on without a gap as far as a reader gets, what is not yet synced
  is bounded and does get synced, and a restarted engine works on a prefix of
  what it had processed.
* recovery: replay gives the books and accounts the live engine had after the
  same messages, stamps no id again, and ends.
* pipeline: a client's stream of answers has no gap, no id is acknowledged twice,
  nobody waits for ever among the bounded channels, ended connections are
  forgotten.

## 2. The modules

```
Types ---- PriceTime ----------- Exchange ---- RiskEngine ---- Types
             ^    \                  |    \
   refines   |     PriceTimeProofs   |      Recovery . . relies on . . Journal
             |              \        |         \                        ^
          OrderBook          ExchangeProofs --- RecoveryProofs          | refines
             |                                                          |
          OrderBookProofs                                 WalProofs -- Wal

IndexMap <-- refines -- HashIndex -- HashIndexProofs

Pipeline -- PipelineProofs
```

| module | models | remarks |
|---|---|---|
| `Types` | orders, trades, results, the side byte, `Crosses`, `Better` | vocabulary; no state |
| `PriceTime` | what `MultiAssetEngine` promises | a set of resting orders, a client index, one call in progress |
| `OrderBook` | `OrderBook` as it is written | arenas, ladders, queues, indexes; refines `PriceTime` |
| `IndexMap` | what an index promises | a bounded map |
| `HashIndex` | the open-addressing tables as written | refines `IndexMap` |
| `RiskEngine` | `RiskEngine`'s accounts | variables and one operator per operation; no specification of its own |
| `Exchange` | the engine thread's loop | extends `PriceTime` and `RiskEngine` and joins their actions |
| `Journal` | what the log promises to the engine | a list of messages that loses some of its end at a restart |
| `Wal` | channel, logger thread, writer, file, reader, failures | refines `Journal` |
| `Recovery` | the engine thread over crashes | extends `Exchange` with a journal, crashes and `replay_order` |
| `Pipeline` | gateway, the engine's channels, dispatcher | the engine's decisions are left open |
| `*Proofs` | - | theorems and proofs |
| `SetLemmas` | - | induction over sets, sums over finite sets; for the proofs |
| `MC*` | - | symmetry sets for TLC |

**Types, and the side byte.** An order's `side` is a byte, and nothing on the way
in looks at it: the gateway checks the magic number only (gateway.rs:118). The
code converts it wherever it needs it, and values from 2 up are converted
differently from place to place:

| question | asked as | a byte from 2 up is |
|---|---|---|
| which margin is locked? (risk.rs:82) | is it Buy? | a seller's, in assets, whatever the price |
| who is the buyer of a trade? (book.rs:966) | is the taker's Buy? | a seller's, even of a taker that met asks |
| which orders does it meet, where does it rest? (book.rs:807, 851, 1035) | is it Sell? | a buyer's |
| what is unlocked or refunded? (risk.rs:145, exchange.rs:225, book.rs:1186) | `get_side().unwrap_or(Side::Buy)` | a buyer's, in dollars |

In the model these bytes are one value, "Invalid", and `Sides` says which values a
run's orders carry. `SideOf` is the reading of the last two rows; the first two
are `o.side = "Buy"` in `LockFunds`, `LockError` and `TradeBetween`. Nothing else
reads the byte; the `maker_side` it is copied to in a trade is left out. `order_type` is not validated either, but every place reads it as
`get_order_type().unwrap_or(OrderType::Limit)`, so an unreadable type is a limit
order everywhere and needs no value of its own.

**PriceTime.** `resting` holds the orders on all books, `client_index` the map
from user, symbol and client id to exchange id, `next_id` the engine's
`global_order_id_counter`. `phase`, `order`, `original_qty`, `trades` and
`result` are the call in progress: `order` is `process`'s `mut order`, reduced as
it trades. `Submit` is the stamping at the entry of `process`; `FillPartial`,
`FillWhole` and `SelfTrade` are one turn of `match_level`; `Finish`, `Rest` and
`RejectFull` are the three ways `process` ends; `CancelOk`,
`CancelUnauthorized` and `CancelNotFound` are the outcomes of `cancel_order`.
An order's priority is its price and then its id, since ids are stamped on
arrival. `RejectFull` may happen at any time but only before the first trade:
that it cannot happen later is a property of the arenas (`RefusedBeforeTrading`
of `OrderBook`), and `OrderBook`'s refinement would fail if it did.

**OrderBook.** Slot numbers, `prev`/`next`/`head_order`/`tail_order`,
`prev_level`/`next_level`, `free_head` and `next_free`, `total_qty` and
`order_count` are those of the code, and so are the two allocation failures of
the resting branch (`RestNoOrderSlot`, `RestNoLevelSlot`). The matching loop
takes an action per turn (with the cleanup of an emptied level in the same
action, as in the code), the ladder walk of `link_price_level` an action per
step. Both sides share one definition, written with `BetterPrice`, where the code
has two mirrored branches. What differs in level of detail from the code:

* the hash tables are maps (`HashIndex` is their model; their capacities at 80%
  load, 209,715 and 6,553, exceed the arenas' 131,072 and 4,096);
* the left-over contents of freed slots, which no code reads, are blank;
* `match_id`, connection numbers and `active_count` are left out;
* a cancelled order's answer carries the order in `order`.

**HashIndex.** One table; `hash` is an arbitrary function fixed at the start, so
a run covers every collision pattern. A probe, and each turn of the deletion's
shifting loop, is an action. `RefinesIndexMap` maps the table to the map a
reader of `entries` would see, except that an entry being removed counts as
present until the last gap is closed.

**RiskEngine.** Dollars per user, assets per user and symbol, each available and
locked; `LockError`/`LockFunds` are `lock_order_funds`, `UnlockFunds` is
`unlock_cancelled_order_margin`, `RefundRemainder` is
`refund_market_order_remainder`, `SettleTrade` is `settle_trade`. `Minus` is
`saturating_sub`. `LockFunds` and `UnlockFunds` are about the same money only for
orders whose side says Buy or Sell; for the others, assets are locked and dollars
unlocked, as in the code. The quantity and symbol guards at the head of these functions
are left out, because the messages submitted satisfy them.

**Exchange.** One turn of the loop of `bin/exchange.rs`: `RejectOrder` or
`AcceptOrder`, then `MatchStep`s, then `SettleNext` for each trade, then one of
`ReturnLimit`, `ReturnSelfTrade`, `ReturnMarket`, `ReturnFull`; or `CancelStep`
and `ReturnCancelOk` or `ReturnCancelRejected`. `Submitted` is the exchange's
own copy of the order, with its original quantity. `BookFull` closes what
`PriceTime` leaves open, when a book has no room: it counts the orders and
prices that rest, and so does not show the leaked slots of `OrderBook`.

An order of type `Deposit` passes the gateway like any other. The live loop
charges it margin and matches it with no price boundary (`HasBoundary`), and
never lets it rest; `ReturnLimit` ends it.

**Wal.** `channel` is `wal_tx`/`wal_rx`, `writer` the `BufWriter`, `file` the
file as other processes see it, of which the first `durable` entries survive a
failure of power. An entry is a record or `Torn`, any stretch that does not read
as a record: the reader stops there. `processed` is what the engine's state is
made of, the messages it has replayed and handed over since. `Start` is
`WalWriter::new` with its scan and the engine's `read_all`; the two threads do
this side by side, but a record is only written when the engine has started to
serve, and the writer's header makes no difference to what is read, so it is one
step. `WriteOrder`, then `Sync` or `GoOn`, is a turn of the logger. `Kill` keeps
what was written, and cuts a flush in progress anywhere; `PowerFailure` cuts the
file anywhere behind `durable`; `TornHeader` does so for the header of a new
file. `synced` is a history variable: how many messages a sync has covered while
the file had no tear.

A torn record is not cut off when the file is opened again. Records are appended
behind it, with numbers that go on from the last readable one, and no later start
reads them: from then on nothing is recovered of what is written, synced or not.
No document of the repository promises otherwise, so this is stated here and not
as a violated property; it is why `SyncedBeforeTearSurvives` and `Covered`
speak of files with no tear. Nothing is claimed of records synced behind one.

**Recovery.** `mode` is "replay" or "live". The live actions are `Exchange`'s, with
what they hand to the logger: an order after its margin is locked and its id
stamped, a cancellation after it has succeeded. The replay's actions are those of
`replay_order`, built from the same operators where it makes the same calls.
`journal` holds the messages; of the log, only what `Journal` promises is
assumed: `Crash`, possible between any two steps of a live call or of a replay,
leaves any prefix. `states` is a history variable, the state after each message,
which the replay is compared with. `inexact` collects the messages whose replay
makes other calls than the live loop:

* an order the engine had no room for: the live loop unlocks its margin,
  `replay_order` does not (`ReplayFull`);
* a message of type `Deposit`: the live loop charges and matches it,
  `replay_order` credits the account with its price and quantity
  (`ReplayDeposit`).

Behind the first of these the recovered accounts differ, and further orders may
be passed over for want of margin (`ReplaySkip`). Ids may then be stamped again
as well, since neither a replayed deposit nor an order passed over moves the id
counter; the call of `next_order_id` in the message at exchange.rs:72
(`StartLive`) makes up for one. `ReplayAgrees` and `IdsStayFresh` are exact up to
there. Fills of restored orders go to connection number 0, that is to nobody.

A journal in which an id occurs twice is not replayed here: it takes two crashes,
the first behind an inexact replay. `Submit` asks for an id the counter has not
reached, so such a record would be stuck; one crash per behaviour in the run keeps
it out, and the theorems about `Recovery` say what happens up to there.

**Pipeline.** `task` and `writer_task` are the two tasks of a connection,
`order_rx`, `conn_rx` and `output` the channels, whose capacities are constants;
the channel to the dispatcher is `events` behind `dispatched`. `Take` is the
engine thread taking a message up and deciding on the events it will send
(`pending`), any that its loop may send, in its order; `Send` is one
`blocking_send`. `Register` and `Dispatch` are the two branches of the
dispatcher's `select!`; `Handed` is `try_send` with the eviction of a slow or
closed client. `Close` is a connection that ends or sends something that is no
order, `EndWriter` a failed write or the end of the writer when its sender was
dropped by an eviction. `output` keeps all a client was sent, as places in
`events`, and `written` how many of them have left the channel.

The answer to a first order may reach the dispatcher before the registration of
its connection, and is then dropped; an evicted client's socket stays open and
its orders stay in the book, and it gets no answer any more. Both are behaviours
of the code that no document rules out; `StreamsHaveNoGaps` speaks of what lies
between registration and eviction.

## 3. What TLC checks

Bounds are named in the configurations: `MaxId` orders per behaviour, `MaxQty`
units per order, `MaxIdGap` ids that went elsewhere, `MaxMessages`, `MaxFailures`,
`MaxCrashes`, `MaxClients`, and the sizes of the sets, channels and arenas.

| run | question | what the bounds make happen |
|---|---|---|
| `hashindex` | is a table a bounded map, and do its loops end? | 4 slots, 4 keys, load limit 3, all 256 hash functions: chains of three across the end, overwrites, removals from every position, refusals at the limit, a single vacant slot |
| `orderbook` | the pointer structures, the refinement, and do calls return? | 3 slots of each arena, 3 prices, 4 limit orders of one unit: queues and ladders of three, removal at both ends and in the middle, ladder walks in both directions, slots reused in all orders, skipped ids |
| `orderbook_full` | depth, and the refinement when room runs out | 3 order slots, 2 levels for 3 prices, market orders, up to 2 units: partial fills, takers that trade and then rest or are dropped, both allocation failures; the bids are orders with an unreadable side |
| `orderbook_leak` | is an order refused only when full? | **violated**, see below |
| `orderbook_cancel` | does a client id reach its order? | **violated**, see below |
| `exchange` | margin accounting of limit orders that say Buy or Sell; ids, client index | 4 orders of 2 users with 4 dollars and 2 assets, so that funds run out; prices 0-2, 2 units; 3 slots but 2 levels, so that books fill up for either reason; one client id for all orders, reused while it rests and equal to an exchange id |
| `exchange_market` | the matching rules, coverage, assets, and is every message finished? | limit and market orders of all three sides: 3 orders, 2 units, prices 0-2, so that a taker meets two makers or two levels, market orders with and without a slippage bound, self-trade stops after a fill; 2 slots, 2 levels |
| `exchange_side` | does a cancellation unlock what was locked? | **violated**, see below |
| `exchange_refund` | are dollars conserved? | **violated**, see below |
| `wal` | what survives which failure, and does everything get to the disk? | 4 messages, channel and buffer of 2, a sync every 3 records: syncs for either reason, flushes for a full buffer; 3 failures: a record torn, written behind and torn again, a torn header, a failure of power after a kill |
| `recovery` | does replay rebuild the live state, and end? | 3 orders of all types, one order slot and one unit of funds, so that orders are refused for room and for margin, in the live loop and in the replay; a crash between any two steps, any prefix kept, a full live run behind the recovery |
| `pipeline` | streams, ids, progress, forgetting | 2 connections, 2 messages, all channels of capacity 1, so that each is full in turn: evictions, registrations that come late or behind the end of the connection, a trade of two clients and of one with itself |

The structures treat slots, prices and orders uniformly: a removal touches an
element and its two neighbours, an insertion the same, so lists of three contain
every local situation; a fourth order makes a slot be reused. A shift of the
hash table compares three slots cyclically; four slots contain each order of them
and one that stays vacant. Symmetry is used over users and symbols, which the
modules only compare for equality, and never in a run with a liveness property.
One symbol is enough for TLC since books share nothing but the id counter, whose
gaps `MaxIdGap` models; the theorems cover any number.

`exchange` has neither market orders nor unreadable sides because `LockedIsMargin`
and `FundsMoveOnlyByTrades` fail with them, for the reasons that
`exchange_refund` and `exchange_side` show; `exchange_market` checks what still
holds with both. In a book without accounts an order with an unreadable side is a
bid that makes its owner the seller of what it takes; `orderbook_full` has "Sell"
and "Invalid", which gives the two books of `orderbook` and puts the raw byte
through the refinement; all three values at once would only add states in which
two bids differ in that byte. `recovery` has the two readable sides, to keep its
state space, which multiplies every live state with every prefix of its past,
within reach; its theorems hold for any `Sides`, since live loop and replay read
the byte through the same functions. `NoSlotLost`, a part of
`SlotsExact`, is checked where there is a level for every price (`orderbook`),
because of `orderbook_leak`.

In `wal`, `recovery` and `pipeline` the elements are as few as the interactions
need. A tear splits the file in what is before and behind it: with three
failures, records are written, torn, written behind and torn a second time. A
crash of a replay differs from a crash of the live loop only in where it comes,
and both start the same replay. Capacities of one make every wait and every
eviction happen that a larger one can cause, since each stage tests its channel
for full or not full only; two clients are a taker and a maker, and one that is
evicted beside one that is not.

`wal` and `pipeline` do not check for deadlock: their messages, failures and
connections are bounded, so behaviours end. That no stage waits for ever while
there is something to do is what `EverythingIsSynced` and `PipelineDrains` say.

### Disagreements between the code and its documents

* **Leaked order slots** (`orderbook_leak`). `process` takes an order slot
  before it knows that there is a level for it and does not give it back.
* **Client ids hidden by exchange ids** (`orderbook_cancel`). A cancellation's id
  is an exchange id if anybody's resting order has it. The cancellation of one's
  own order by client id then answers `Unauthorized`.
* **Market buys refunded twice** (`exchange_refund`). The price improvement of a
  market buy is refunded per trade and again with the remainder.
* **An unreadable side locks assets and unlocks dollars** (`exchange_side`). Such
  a limit order rests as a bid; its cancellation credits price times quantity in
  dollars that were never locked, and the assets it did lock stay locked with
  nothing of the user's resting ("Authorized cancels unlock funds immediately",
  README.md:63 of the repository).

A fifth suspicion turned out to be unfounded: that `process` might fail for lack
of room *after* trading, in which case the exchange would unlock margin that has
been spent. A taker with quantity left has emptied every level it traded at, so
there is a free slot of each kind: `RefusedBeforeTrading`.

### Fairness

`FairSpec` and `XFairSpec` assume weak fairness of the work of a call once it
has begun (`Work`, `EngineStep`): it runs on a thread of its own that never waits
in the middle of a call for anything modelled here. Nothing is assumed about
clients: that messages arrive is not part of the fairness.

In `Wal`, the logger thread is scheduled (`WF(Logger)`); it waits only for its
channel. In `Recovery`, the engine thread is scheduled while it replays. In
`Pipeline`, the engine thread runs (`WF(Take \/ Send)`), the dispatcher serves
both branches, since `select!` polls them in random order (`WF(Register)`,
`WF(Dispatch)`), and a connection's task that has something to tell the
dispatcher does so once there is room (`WF(Disconnect(c))`). Nothing is assumed
of clients, of the writer tasks, which wait for clients to read, or of what
comes in.

## 4. What is proved

Every safety property that a passing run checks, invariants, action properties and the
three refinements, is also a theorem, for all values of the constants, save for
the hypotheses of the four theorems explained under the table. They are proved from the assumptions on the constants that the modules declare:

* sizes, capacities and bounds are natural numbers, and at least one where the
  code allocates at least one; `Sides` and `OrderTypes` are any of the values
  named in `Types` (`TypesAssumption`, `PriceTimeAssumption`,
  `RiskAssumption`, `ExchangeAssumption`, `OrderBookAssumption`,
  `HashIndexAssumption`, `WalAssumption`, `RecoveryAssumption`,
  `PipelineAssumption`);
* `UsersAreFinite`: `user_id` is a machine word. The sums over users need it;
* `OneSymbol`: the engine keeps an `OrderBook` per symbol, and the module is one
  of them. Ids that went to the others are the gaps of `MaxIdGap`;
* `NoneIsNoEntry`: the mark of an absent index entry is no entry.

| theorem | module | statement |
|---|---|---|
| `TypeCorrect` | `PriceTimeProofs` | `Spec => []TypeOK` |
| `IdsStayUnique` | | `Spec => []IdsUnique` |
| `BookStaysUncrossed` | | `Spec => []Uncrossed` |
| `NothingTradedThrough` | | `Spec => []NoTradeThrough` |
| `TradesStayFair` | | `Spec => []TradesAreFair` |
| `NoGhostEntries` | | `Spec => []NoGhostClientIds` |
| `BookInvariant` | `OrderBookProofs` | `Spec => []BookInv` |
| `BookTypeCorrect` | | `Spec => []TypeOK` |
| `ChainsAreExact` | | `Spec => []ChainsExact` |
| `IndexesAreExact` | | `Spec => []IndexesExact` |
| `FreeListsAreExact` | | `Spec => []FreeListsExact` |
| `DepthIsExact` | | `Spec => []DepthExact` |
| `SlotsAreExact` | | `LevelForEveryPrice => (Spec => []SlotsExact)` |
| `OnlyRefusalLosesSlots` | | `Spec => [][~RestNoLevelSlot => Lost' = Lost]_vars` |
| `NoTradeIsRefused` | | `Spec => []RefusedBeforeTrading` |
| `BookImplementsPriceTime` | | `Spec => RefinesPriceTime` |
| `TableStaysExact` | `HashIndexProofs` | `Spec => []TableExact` |
| `HashIndexImplementsMap` | | `Spec => RefinesIndexMap` |
| `ExchangeRunsPriceTime` | `ExchangeProofs` | `XSpec => Spec` |
| `ExchangeStaysUncrossed` | | `XSpec => []Uncrossed` |
| `AccountsStayTyped` | | `XSpec => []XTypeOK` |
| `AsksStayCovered` | | `XSpec => []AsksAreCovered` |
| `AssetsStayConserved` | | `XSpec => []AssetsConserved` |
| `LockedStaysMargin` | | `OnlyLimitOrders /\ SidesAreReadable => (XSpec => []LockedIsMargin)` |
| `FundsOnlyMoveByTrades` | | `OnlyLimitOrders /\ SidesAreReadable => (XSpec => FundsMoveOnlyByTrades)` |
| `LimitOrdersConserveUsd` | | `OnlyLimitOrders /\ SidesAreReadable => (XSpec => []UsdConserved)` |
| `WalInvariant` | `WalProofs` | `Spec => []WalInv` |
| `WalStaysTyped` | | `Spec => []TypeOK` |
| `SequenceContinuity` | | `Spec => []SeqContiguous` |
| `SyncedBeforeTearSurvive` | | `Spec => []SyncedBeforeTearSurvives` |
| `LossStaysBounded` | | `Spec => []LossIsBounded` |
| `WalImplementsJournal` | | `Spec => RefinesJournal` |
| `RecoveryStaysTyped` | `RecoveryProofs` | `RSpec => []RTypeOK` |
| `RecoveredBooksStayUncrossed` | | `RSpec => []Uncrossed` |
| `ReplayStaysExact` | | `RSpec => []ReplayAgrees` |
| `JournaledIdsStayFresh` | | `RSpec => []IdsStayFresh` |
| `AcknowledgedIdsDiffer` | `PipelineProofs` | `Spec => []AckedIdsDiffer` |
| `PipelineTypeCorrect` | | `Spec => []TypeOK` |
| `StreamsStayGapless` | | `Spec => []StreamsHaveNoGaps` |

Three of them have hypotheses on what clients send and one on the size of an
arena. Each is there because the statement is false without it:

* `OnlyLimitOrders`, that clients send limit orders and cancellations. The
  remainder of a market buy that traded below its bound is refunded the price
  improvement a second time (`exchange_refund` has the behaviour), so dollars are
  neither conserved nor locked exactly. An order of type `Deposit` trades at any
  price and may pay more than it locked, which the saturating subtraction hides.
  What is said of assets holds with all types, since an ask locks its quantity
  whatever its price.
* `SidesAreReadable`, that the side byte of every order is Buy or Sell. The
  margin of an order with any other byte is locked in assets and unlocked in
  dollars (`exchange_side` has the behaviour), and a fill of it as a maker is
  paid out of dollars it never locked. `AsksStayCovered` and `AssetsStayConserved` need
  no such hypothesis: they are proved for every side byte, and so is everything
  about matching, the log and the recovery.
* `LevelForEveryPrice`, that there are as many levels as prices. Otherwise the
  refusal for want of a level loses a slot (`orderbook_leak`).
  `OnlyRefusalLosesSlots` says without it that nothing else does.

**The argument for PriceTime.** The base invariant `TypeInv` is `TypeOK`,
`IdsUnique` and `InHand` (during a call the order in hand is a stamped order no
larger than submitted). `IdsUnique` is needed for types already: only because
ids are unique and the taker's is the newest do `resting` and the index stay
what they are. `Uncrossed` is inductive on top of it: the only step that adds an
order is `Rest`, whose guard says that nothing opposite crosses. For
`NoTradeThrough` the inductive invariant relates the trades of the call to what
still rests: each maker was the best of its side when it traded, and the side
only loses orders, or has one of them reduced, during the call. It also needs
that `trades` is empty outside a call. `TradesAreFair` and `NoTradeThrough`
share that addition (`Fresh`). `TradesAreFair` states the boundary in its own
words (`WithinLimit`: the price of a limit order, the slippage bound of a market
order that has one), which the proof derives from the guard of the matching loop
(`CrossesMeans`). `NoGhostClientIds` is inductive with `TypeInv`.

**The argument for OrderBook.** `BookInv` says nothing of paths. It says of the
orders that rest, ordered by price and id, what their neighbours are: the next
pointer of an order names the next in time at its price and that one points
back (`QueueLinks`), an order without predecessor is the head that the price
index leads to (`QueueEnds`), a level's neighbour is the next best price of its
side (`LadderLinks`, `LadderTops`), a price has orders of one side only
(`OneSideAPrice`, which is why one price index is enough), and each index entry
tells the truth about a resting order. A removal or an insertion then touches an
element and its neighbours, and each pointer it writes can be checked against the
order. That walks along pointers end and reach all there is follows at the end
from one lemma about chains (`ChainWalk`), by induction over the steps of the
walk. The free lists have no order of their own, so there the invariant says that
some strict order exists in which they are chains. The totals of a level (`Totals`)
are sums over its queue, on top of `BookInv`; only with them are the levels'
unsigned counters typed.

`NoTradeIsRefused` needs `Room`: a taker that has traded and has quantity left
has emptied an order slot, and, when nothing more crosses, a level too. For
`BookImplementsPriceTime` the abstract book is the set of the orders in the
resting slots. A turn of the matching loop takes the head of the best level,
which by the ladder's and the queue's order is the order `PriceTime` must trade
with; a step of the ladder walk is a stutter; and the two allocation failures are
`RejectFull`, whose guard, that nothing was traded, is `NoTradeIsRefused`.

**The argument for HashIndex.** Everything is said with `Ahead(a, b)`, how many
turns of a probing loop lead from slot a to slot b, so that the end of the table
needs no case of its own. `HInv`: every filled slot can be reached from its home
slot without meeting a vacant one (`Reachable`), no key is there twice, a probe
has passed over entries of other keys only (`Probed`), the count is exact and
below the load limit (`Counted`), which leaves a vacant slot (`SlotIsVacant`).
During a removal the gap counts as a slot to pass over, and the entries between
the gap and the cursor do not have it on their way (`Scanned`). `CanShiftMeans`
turns the code's two-armed comparison into one: the gap is on the entry's way. A
shift then moves an entry to a slot on its own way; an entry left in place joins
the scanned ones; and when a vacant slot ends the loop, no entry beyond it can
have had the gap on its way, since it would have had the vacant slot there too.
For the refinement, what the gap still holds is what was removed or a copy
(`Stale`), so the map does not change until the last gap is closed
(`RemovalKeepsContents`), which is `IndexMap`'s `Delete`.

**The argument for Exchange.** Every step of the engine thread is a step of
`PriceTime` or leaves it alone, so `PriceTime`'s theorems carry over.
`AccountsStayTyped` adds that no balance goes negative: `LockFunds` is guarded by
`LockError`, and every other subtraction saturates. That the saturation never
hides anything is what the invariants about money say. At every step, of what a
user has locked, a part is for the orders that rest (`Booked`), a part for the
order in hand (`InTheHand`), and a part for the trades of the call that are not
settled yet (`Due`). What is left over (`AssetSlack`, `UsdSlack`) never becomes
negative for assets, which gives `AsksAreCovered`: an order with an unreadable side locks assets
that it never offers, so it can only add to what is left over. With limit orders
of readable sides it is always zero, for assets and dollars, and between calls nothing is in the hand or due,
which gives `LockedIsMargin`. A fill moves its quantity from `Booked` and
`InTheHand` to `Due`; a settlement takes it out of `Due` and out of what is
locked, the price improvement of a buyer included; a return takes `InTheHand` to
the book or gives it back. `CallInv` adds the quantities of a call up, from which
the remainder that the exchange gives back is the one that was not traded.
Conservation then needs only that a settlement moves between two users, one user
possibly, what it takes (`SumTransfer`).

**The argument for Wal.** `WalInv` says what the file, the buffer and the channel
hold between them. `Matches(Flushed)`: the readable part of what a flush would
leave is, record by record, the messages processed, numbered from one. `InFlight`:
while the exchange runs and the file has no tear, file, buffer and channel
together are exactly `processed`, and the next number is one past the records
written. `Clean` is a condition there because behind a tear the numbers go on
from the last readable record and the places do not.
`DownIsEmpty`: a dead process holds nothing. With `SyncedBeforeTearSurvives` and
`synced <= durable` this is inductive: every failure leaves a prefix of what a
flush would leave, possibly with a torn entry behind it (`CutAt`), and a prefix
keeps `Matches`. The properties follow: what is readable is numbered by its
place, `Start` takes up a prefix of `processed`, and no failure reaches below
`durable`. `LossIsBounded` is not inductive; `Pace` is, which ties the records
that are not on disk to the logger's count modulo `SYNC_EVERY`.
`WalImplementsJournal` maps `Start` to `Restart`, `Send` to `Process` and every
other step to a stutter.

**The argument for Recovery.** `RInv` adds to `Exchange`'s invariant where the
recovery is: which of the journaled messages have their state noted, and that a
call of a replay is about a record there is (`Places`). A step is one of the
live loop, one of the abstract engine on an order out of the journal, a move of
the id counter, or a new start (`StepOnBooks`); `Submit` keeps its invariants for
any order with a fresh id, not only for those that clients submit.

`ReplayAgrees` compares two runs, of which a state holds only one. The proof turns
the engine into a value and its next step into a function of it (`After`): once a
message has been taken up, the engine thread has no choice, because the best
maker is unique, `BookFull` decides about room, and the live loop and
`replay_order` differ only in the messages that `inexact` collects. `Follows(a,
b)` says that engine b comes after engine a, as the least set closed under
`After`, and `OneEnd` that at most one idle engine does. The invariant `Agrees`
then speaks of the current state alone: each state noted is what the one before
leads to (`NotesHold`), each journaled order could be reserved on the state before
it (`OrdersWereLockable`), the message in hand is the next of the journal
(`HandIsNext`), and the engine is on the way from the note before to the note
after it (`OnTheWay`). When a replayed call is over, it has come to an idle engine
that follows from the same start as the noted one, and so to the same.
For `IdsStayFresh`, ids rise along the journal and the counter is past the ids of
all messages taken up since the last start, replayed or not.

**The argument for Pipeline.** `AckInv` is about the engine thread and the channel
before it and says nothing of dispatcher, connections and clients, which is the
point: an order waits there with id 0, whatever the client wrote
(`QuarantineHolds`), so the id is the engine's counter; an acknowledgement is
the first event the engine sends for a message and its id is below the counter
and on no event sent before (`AckIsNext`, `AcksAreBelow`). `TypeInv` adds the
types and that an event names as many clients as its kind has (`EventsFormed`).

The streams need to know how connections come about (`Unseen`): a client is
announced to the dispatcher at most once, and before it is registered it has no
sender and was sent nothing. `Gives` is what handing out one event does to one
client: it gets some of the copies meant for it, all of them if it has a sender
afterwards, none if it had none before. It composes (`GivesMore`), so the two
halves of a fill need no case for a trade of a client with itself. What a client
is addressed grows by the copies of the next event (`AddressedMore`), and a stream
that is equal to it before is a beginning of it after, and equal if the client is
kept.

**SetLemmas** holds what these proofs share: induction over the natural numbers
stated with sets (`SetInduction`), and from it the laws of sums over finite sets
(`SumRemove`, `SumChange`, `SumFiltered`, `SumTransfer`), which turn the folds of
the model into sums that a single step changes in one place.

**Only model-checked:** liveness under fairness (`CallReturns`,
`MessagesAreFinished`, `EverythingIsSynced`, `RecoveryEnds`, `PipelineDrains`,
`ClosedAreForgotten`), which is out of the provers' reach as installed; and the
four properties that runs refute (of which `UsdConserved` is proved under the
hypotheses above). The library's induction theorems take an
operator as a parameter, which no installed prover can instantiate; where a
recursive function had to be unfolded for every input, the induction goes over
sets instead (`SetInduction`, or the least counterexample).

## 5. Not modelled

* **Latency histogram, market maker, benchmark.** The histogram is integer
  arithmetic on measurements that only the terminal output shows; the other two
  are load generators. Nothing in the system depends on them.
* **Byte layout** of orders, answers and WAL records, endianness, the magic
  numbers, the arithmetic of the CRC: a message is a record, an unreadable
  stretch of the log is `Torn`, and a message with the wrong magic is a
  connection that ends.
* **I/O errors returned to the program.** `write_order` and `sync` are called
  with their results ignored; in `Wal` a write either succeeds or ends with the
  process.
* **The end of the program.** The engine thread does not end while a sender of
  its channel exists, so the logger's last sync and the dispatcher's `else`
  branch are not reached before the process is killed.
* **64-bit bounds.** Ids, quantities and sums of money are integers. The products
  the code computes saturate. Where a product is locked it is compared with the
  funds first, and a saturated one exceeds any funds; where the product of an
  order with an unreadable side is unlocked, it was compared with nothing before,
  so that a saturated product, or a sum past 2^64, is possible in the code and left
  out here. Other sums past 2^64 take deposits of that size.
* **Quotes.** Which prices a BBO update carries, and that none is sent after a
  cancellation; `Pipeline` models to whom it goes.
* **Connection numbers in the book**, and with them the fills of restored orders.

What could be added: a composition of `Recovery` with `Pipeline`, for the order in
which an acknowledgement leaves and a record reaches the disk, and what an account
may lose by a market order at most.
