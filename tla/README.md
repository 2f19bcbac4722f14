# A TLA+ verification of market-maker-backtester

The repository is a limit order book with a matching engine (`engine/`), two drivers for
it, a backtest simulator (`sim/`) and a live engine that reads orders from a TCP
connection or, built with `ENABLE_WS`, from an exchange's WebSocket, and the JSON library
that the latter parses its messages with. These modules model the book, the drivers, the
readers, the contracts between them and what of the JSON library turns bytes into values
and back; they check them with TLC on small instances, and prove the invariants that
matter most with TLAPS for every value of the constants.

Source references are `file:line` relative to `src/`.

## 1. The system

| Component | State | Operations | Hard part |
|---|---|---|---|
| Value types, `engine/types.h` | none | orders, trades, events | quantities are doubles, an absent best price is -1 |
| Level queue, `std::deque<Order>` | slots and a table of nodes (the *map*) | push_back, erase, access through kept iterators | which iterators survive which operation |
| Matching engine, `engine/orderbook.*` | `bids`, `asks`: price -> level; `orderMap`: id -> price, side, iterator; `lastTrades_` | addOrder (match, traversePriceLevel, pruneEmptyFront), cancelOrder, modifyOrder, getBBO, queries | three views of the same orders (queue, running total, index) kept in step by every operation; iterators kept across calls |
| Simulation loop, `sim/sim.cpp` | ids, the events and trades of the tick, who owns which id, ledger, mark | flow, apply, market maker, apply, score | trades of two apply phases, attributed later with a set that moved on in between |
| Flow generator, `sim/flow/zi_flow.cpp` | `resting_`: ids believed to be on the book | onTick: forget what traded, then add or cancel | a view of the book kept from last tick's trades only |
| Accounting, `sim/accounting.h` | position, cash, fill count | owns, apply, record | both legs of a trade, fees by role |
| Market maker contract, `sim/market_maker.h` | the strategy's own (not in the repository; only NullMM is) | onTick | what it is told, and when |
| TCP reader, `engine/tcp_reader.*` | the pending asynchronous operation | resolve, connect, back off, read header, read body, parse a frame, fail | frames that do not parse, values nobody checks, a full ring, end of stream |
| Live engine, `engine/main.cpp` | ring of 4096 events, `quit` | book thread; runTcpWire: network and main thread, signals; runBtcWire | threads stopping for different reasons, or started too late |
| Sample session, `engine/sample_tcp.py` | none | a scripted list of frames | its comments say what must trade |
| WebSocket reader, `engine/websocket_reader.*` | the pending asynchronous operation | resolve, connect, two handshakes, subscribe, read and convert messages | an exception between two events of a message; what becomes of a failed operation |
| JSON library, `engine/json.hpp` | a heap of values; the scanner's, parser's and serializer's | parse, dump, destroy; five binary formats; pointers, patches, flatten | bytes that come one at a time and end anywhere; pointers into vectors that grow; widths; edits of which half is done |

How they interact. Every driver owns one `OrderBook` and calls it from one thread: an
event is a tagged order that a switch turns into addOrder, modifyOrder or cancelOrder, and
the driver reads `lastTrades` and `getBBO` after the call. In the simulator everything else
is a function call within the tick too, so what is hard is *order*: which phase sees which
trades, and which set of ids is current. In the live engine a reader pushes events into a
single-producer single-consumer ring and the book thread polls a flag and pops. For TCP the
reader has a thread of its own and the main thread joins both; for the WebSocket the main
thread runs the reader until the feed is gone and only then starts the book thread. The
WebSocket reader calls json::parse on every message, reads the values through `at`, and
dumps the subscription it sends.

What makes each part correct:

* book: bids below asks; the index leads to the right order; the running totals are
  sums of the queues; trades follow price-time priority at the resting price;
  every call returns;
* flow: the ids it cancels are the ones on the book;
* accounting and the contract: every execution of the market maker is booked once and
  reported once;
* TCP engine: every frame is applied once and in order, or dropped for a reason the code
  has; once asked to stop, it stops; what no one checks does no more harm than it must;
* WebSocket engine: which events of a session reach the book, and what ends it;
* JSON: it accepts the JSON texts and no others, and builds the value each denotes; what it
  writes it reads back; a message cut short gives nothing; no value is lost, destroyed
  twice or reached through a dead pointer; an edit does what it says and nothing else.

## 2. Modules

```
MarketTypes --+-- OrderDeque -- OrderBook --+-- ClientBook --> (refines) PriceTimeBook
              |                             +-- Feed --+-- Sim (with Accounting)
              +-- Accounting                |          +-- BookThread --+-- Engine (with Wire)
              +-- PriceTimeBook             |                           +-- BtcWire
                                            +-- (proofs, below)
JsonNumber -- JsonLexer --+-- JsonParser --+-- JsonSession -- JsonRoundTrip (JsonGrammar) --+
              JsonDom ----+-- JsonDump ----+                                                |
JsonBytes --+-- JsonBinary -- Cbor, MsgPack, Bson, Ubjson -- JsonTransfer ------------------+-- JsonLibrary
            +-- JsonPointer -- JsonPatch ---------------------------------------------------+

FoldProofs --+-- OrderBookProofs --+-- ClientBookProofs                   (of ClientBook)
             |                     +-- SimProofs                          (of Sim)
             |                     +-- EngineProofs                       (of Engine)
             +-- JsonHeapProofs (of JsonSession) -- JsonTextProofs        (of JsonParser, JsonDump)
                                       BtcWireProofs                      (of BtcWire)
```

The book and its drivers:

* **MarketTypes** -- sides, orders, trades, the order of prices on a side, and the sentinel
  of an absent price, which TypesAssumption keeps out of the prices proved about.
* **OrderDeque** -- the level queue as libstdc++ implements it. Elements live in
  numbered slots and an iterator is a slot number plus the map it was taken under.
  `Erase` moves the shorter side by one slot, `PushBack` replaces the map when the
  slots in the set `Regrow` come into use (80 and more for the 32-byte `Order`;
  scaled down to 4 where a run is about it), `ReadThrough` and `EraseAt` say what a kept
  iterator may reach. Undefined behaviour is a choice: an iterator into a
  destroyed level reads any slot, an erase through an old map removes any slot. The choice is bounded
  to the slots of the level now at that price; memory that another level, or nothing, has taken over is
  left out, which also makes the side that modifyOrder reads through the iterator (`orderbook.cpp:94`)
  the side of its entry.
* **OrderBook** -- the engine. `cancelOrder` and `modifyOrder` are an action each.
  `addOrder` loops: `addOrder` enters the call, `fillResting` and `fillIncoming` are the
  branches of one iteration of `traversePriceLevel`, `restRemainder` leaves the loop,
  prunes and rests. The intermediate states are what the loop's own invariants are
  about; no other call interleaves, as each book has one calling thread.
  `Next` lets a client do anything: reuse ids, cancel or amend any id.
* **PriceTimeBook** -- what the engine promises: a set of resting orders, no levels, no
  queues, no index.
* **ClientBook** -- the book under clients that mint ids from a counter, as all of the
  repository's do. `CarefulSpec` adds what a client must also respect for stored
  iterators to stay valid; nothing in the repository says so (findings 1 and 2).
* **Feed** -- the event switch all drivers share.
* **Accounting** -- ownership and the ledger, as operators.
* **Sim** -- one tick as phases: `flow` (flowIdles, flowAdds, flowCancels), `applyFlow`
  (apply, matching, drain, then quote), `applyQuotes` (apply, matching, drain, then
  score). The market maker is any strategy: it emits sequences of cancels and of amends of its
  orders and of quotes under fresh ids, each no longer than `MaxCancels`, `MaxAmends` and
  `MaxQuotes`. `MaxQuotes = 0` is NullMM, the one that ships.
* **BookThread** -- `book_thread_fn`, its ring and its flag; an action is what the thread does
  between two accesses of shared state.
* **Wire** -- the frames of the TCP feed, field by field, and `parseBodyToEvent`. `WireOrder` is what
  it makes of a frame: the struct laid over the bytes, of any quantity and any type byte. Prices are
  counted in the wire's ten-thousandths: the division by 1e4 (`tcp_reader.cpp:101`) gives a double that
  is another for every price below 2^53 units and keeps their order, and the book only compares them.
* **Engine** -- runTcpWire: BookThread, the handlers of TcpReader (one action each) and the main
  thread.
* **BtcWire** -- runBtcWire: BookThread, the handlers of WebSocketReader, and the main thread that
  runs them first. A message is what the JSON library made of its text; a conversion of it that
  throws is the entry `Bad`. The ids, and the order types of a snapshot, are read from uninitialized
  memory: any id, and any byte for the type. The only call of runBtcWire is commented out (`main.cpp:96`):
  the module is about the function, which the program as shipped does not enter.

The JSON library. Bytes are numbers, and every byte read or written is a step where the code
loops over bytes; `json.hpp` is vendored, but every message of the live feed goes through it:

* **JsonNumber, JsonLexer** -- `lexer`: one get() per step, with unget, the position counters, the
  byte order mark, literals, escapes and surrogates, UTF-8 ranges, the machine of scan_number.
* **JsonDom** -- the heap of values: `json_sax_dom_parser` builds into it, through pointers into
  vectors whose elements move when they grow; `json_value::destroy` takes it apart.
* **JsonParser** -- `sax_parse_internal` over both.
* **JsonDump** -- `serializer`: byte by byte through the decoder of UTF-8, its buffer and the three
  error handlers.
* **JsonSession** -- a value's life: parsed or made, dumped, destroyed, and what was dumped parsed
  again.
* **JsonGrammar, JsonRoundTrip** -- its reference: RFC 8259 as a recursive descent that shares with
  the parser the arithmetic of numbers only, and what a value is when it is written and read back.
  They recurse over data, so they are kept out of the modules the proofs are about.
* **JsonBytes, JsonBinary** -- numbers as the formats see them (a sign and bytes, as 64 bits are too
  many for the checker's integers; a double as its eight bytes) and what the readers and writers
  share. **JsonCbor, JsonMsgPack, JsonBson, JsonUbjson** (UBJSON and BJData with its
  n-dimensional arrays) -- reader and writer of each.
* **JsonTransfer** -- a value is written, the message maybe cut or continued, and read; or bytes
  from anywhere are read, and what they were taken for is sent in its turn.
* **JsonPointer** -- `json_pointer`: its text, and the functions that follow it.
* **JsonPatch** -- patch_inplace one operation at a time, diff, merge_patch, assignment through a
  pointer, flatten and unflatten. Its last part is the reference: a value as the set of its leaves,
  each with its path, and every edit as what it does to that set.
* **JsonLibrary** -- the three uses side by side.

Operators whose comment says "a fault to seed" are alternative bodies of the
definition after them: each is a plausible bug, and replacing the definition by it
makes the property it was written for fail. They show that the properties can fail
and are used nowhere else.

LedgerExact compares the ledger, which Ledger::record books from the trades, with a balance that is told by
the orders: `executions` looks at the two orders that meet, the one at the front of its level and the one in
hand, takes the quantity from what the latter loses, the price from the former, and each side from the side
of the book the order is on or trades against. It shares neither the trade nor applyTrades with the
accounting, so a wrong side, sign, price or fee in `accounting.h` shows.

History variables (`minted`, `executed`, `told`, `intact` in Sim; `applied`, `printed` in
BookThread; `discarded`, `sawEof` in Engine; `produced`, `cut` in BtcWire; `text`, `tree`,
`sent`, `whole`, `original` in the JSON modules) record what happened, appear in no guard that
stands for the code's and exist to state properties.

## 3. What is checked

Passing runs:

| Run | Configuration | Properties | What it shows |
|---|---|---|---|
| book_any | two prices, four reusable ids, quantities 0..2, 3 slots, the map never replaced | TypeOK, Uncrossed, HusksAtFront, TradesInPriceOrder | whatever the client does, even with stored iterators that denote the wrong order, the book is never crossed, no emptied level survives, and a call's trades walk away from the best price |
| book_client | two prices, four minted ids, quantities 0..2, map replaced at slot 4 | IndexExact, TopOfBookExact, PriceTime, AddReturns | for a careful client the engine implements the price-time book, best prices and totals are exact, and every call returns, orders amended to 0 included |
| sim_null | five ids, two prices | IndexExact, FlowTracksBook, TickEnds | the loop as shipped: the flow's view is the book, so its cancels are always at the front of a level, and the index stays exact until a map is replaced |
| sim_maker | four ids, two prices, one quote per tick, partial fills, distinct fees | SimTypeOK, LedgerExact, FillsTold | a market maker that quotes passively and does not cancel what just traded is scored and informed exactly |
| engine | the sample session, one with every kind of frame and frames of the wrong type and length, and 45 of values nobody checks; ring of 3 | EngineTypeOK, NothingLostOrReordered, SampleOutcome, CrossedOnlyByNegative, Conserved, QuitEnds, FramesProcessed | over every interleaving of the three threads, with resets, a signal and a full ring, no frame is lost unnoticed; and a negative quantity crosses the book but nothing else does, nor are quantities created |
| btc_session | two messages of six kinds (snapshots and updates, below one coin, above the range of int, with an entry that throws, unparsable), ring of 3 | FirstEventsOnly, BookWaitsForFeed, BadMessageIsFatal, FeedLossIsFatal | the book sees the first events up to the ring's capacity, not before the feed is gone, and the loss of the feed or one bad message ends the process |
| json | see below | AcceptsGrammar, BuildsValue, ReferencesLive, StacksAgree, PositionExact, RoundTrip, RoomForCodePoint, FlatDestruction, NothingLeaks, TransferExact, WholeOrNothing, SizesAnnounced, FlattenRestored, JsonEnds, EditsExact | texts against the grammar and back; every format's round trip; every edit against the leaves, but for the two exemptions below |

Runs that show a disagreement between the code and what is said of it:

| Run | Property violated | Finding |
|---|---|---|
| book_index | IndexExact | 1. Cancelling an order that is neither first nor last in its level shifts its neighbours (`orderbook.cpp:53`), and their entries of orderMap then denote other orders; the next cancel of a neighbour removes the wrong order. |
| sim_index | IndexExact | 2. The push that exhausts a level's map (`orderbook.cpp:13`; the 80th of a level) invalidates all iterators of the level. The shipped simulator reaches this: it erases through freed memory within 20000 ticks at the default seed. |
| sim_ledger | LedgerExact | 3. Ids cancelled by the market maker are dropped from the attribution set before the tick's trades are attributed (`sim.cpp:119`), so a quote hit in the tick in which it is cancelled is not booked. |
| sim_fills | FillsTold | 4. Trades of a quote that crosses the book happen after myFills was computed (`sim.cpp:108`) and are cleared before the next (`sim.cpp:97`): the strategy never hears of them. |
| engine_drain | Drained | 5. When the sender closes, `quit` is tested before the ring (`main.cpp:18`): events already received may never be applied. |

What EditsExact exempts. A path that leads below a number, string or boolean names no place; `json.hpp:24852`
says that no parent is primitive and `:24861` asserts it, but nothing keeps a patch from naming such a path
(document 1, path /a). Of these operations EditsExact says that they leave the document as it was, and that
only an add (or a copy or a move, which add) there may fail the assertion. And where values are compared,
`operator==` casts an unsigned integer to the signed type (`json.hpp:23680`), so diff and the test operation
take -1 and 2^64 - 1 for the same; `alike` says so without the code's operator, and every other pair of
numbers has to agree exactly.

Why LedgerExact and FillsTold are conditioned on `intact`: once an interior cancel has
corrupted the index (finding 1), a cancelled quote can stay on the book and trade on,
unattributed. That is the same defect again; `intact` separates it from the
accounting's own.

### Bounds, and why they are enough

* Two prices tell crossing from resting, and better from worse. Three orders in one
  level are the fewest for which an interior erase exists; four ids add the order that
  notices. Quantities 0..2 give every outcome of the comparison in the loop, the
  amend to 0, and partial fills.
* `MaxSlots` bounds the slots in use for clients that never run out of ids. When it is
  reached they still submit market orders, which never rest, so a level of three whose
  middle order was cancelled is traded through and cancelled from in every order. In the
  other runs the ids bound the adds.
* `Regrow` is 80 in the code; nothing else depends on the number, only on how many pushes
  come before it. book_client and sim_index scale it to 4 (there the careful client has to
  avoid it, and the simulator reaches it); the theorems about any client hold for every
  `Regrow`.
* `Capacity` 3 of a ring of 4096: with sessions of nine frames, or messages of two events, it is
  full, empty and in between. `MaxMessages` 2: one that leaves events behind and one that meets
  them. `Unit` 2, `IntMax` 3: sizes 1, 2, 3 and 8 are below a coin, a coin, above one and too large.
* Texts (MCSources): six alphabets, each of the pieces one part of the parser tells apart, so that
  the product stays small: containers and keys up to eight pieces; escapes around the surrogates
  and at the lengths of UTF-8; other escapes and the lead and continuation bytes at the edges of
  every range; numbers up to six bytes; literals, white space, NUL and the byte order mark. A text
  is chosen as it is read, and any may end anywhere. `MaxUnsigned` 90 and `MaxInteger` 89 put the
  edges of the integer types, and `MaxExponent` 7 that of double, among numbers of two digits.
* Strings to dump (MCStrings): up to four bytes from the edges of the ranges, with every setting of
  the serializer. `BufferSize` 16 of 512: what is left when a code point is reached is the
  smallest the test of 13 free bytes allows; NeverOverrun is proved for every size from 16.
* Values to send: integers at the edges of 8, 16, 32 and 64 bits on both sides of 0 (and of the
  sizes the formats keep in a marker), doubles at the edges of float and its denormals, infinities
  and NaNs, strings and byte strings of lengths at the same edges up to 256, containers of up to 24
  elements and of every pair of small values, annotated objects for BJData, every codec option.
  Messages from elsewhere: every first byte, with seven continuations, and up to four pieces of
  markers and counts. `MaxSize` 40 stands for the max_size() of a vector. Byte strings of 23 bytes
  and more are sent in CBOR, MessagePack and BSON only: UBJSON reads them element by element.
* Edits: 97 documents (`Editable`), pairwise for diff and merge, with keys that need escaping, look
  like an index, are "-" or empty, or come before another in the map's order ("0!" between "0" and
  "0/"), and arrays of 9, 11 and 12 elements, where indices get a second digit. Patches of one
  operation on every pair of paths of up to two tokens, valid or not, to five of them (`Edited`);
  longer patches are those diff makes.
* Deadlock is checked in every run: a client out of ids can still cancel, the simulator
  can idle, and what has ended stutters explicitly (`finished`, `ended`).

### Fairness

* ClientBook: weak fairness of `Match`. The loop in `match` has no wait in it.
* Sim: weak fairness of the whole loop, for the same reason. Nothing is assumed of
  choices.
* Engine: weak fairness of each of the three threads, which the scheduler owes them.
  `netThread` includes the arrival of frames and the outcome of resolve and connect
  (either outcome: a connection that always fails is allowed); it does not include
  `readFailed`, nor is a signal owed: nobody has to close the connection.
* BtcWire: weak fairness of the main thread outside io.run() and of the book thread. Nothing is
  owed by the exchange (`ioThread`, `opFailed`).
* JsonLibrary: weak fairness of the session, one thread without a wait. JsonEnds is then that no
  text and no string keeps the scanner, the parser, the serializer or the destructor in a loop.

## 4. What is proved

`OrderBookProofs` proves, for every set of prices, ids, quantities and submissions, any
`Regrow` and any `MaxSlots`, of the specification in which clients do anything:

* `TypeCorrect` == Spec => []TypeOK,
* `NeverCrossed` == Spec => []Uncrossed,
* `HusksStayInFront` == Spec => []HusksAtFront.

They rest on the assumptions the constants are declared with (TypesAssumption,
RegrowAssumption, SubmissionsAssumption) and on one inductive invariant,
`IInv == TypeOK /\ HusksAtFront /\ Uncrossed`. The argument:

* *TypeOK* carries, beyond types, that the live range of every queue lies in its used
  slots, and that every stored iterator is a used slot of its level or dangles. So the
  read and the erase of cancelOrder always land in a slot, and the erase removes one
  order, though maybe not the right one. Quantities stay natural as the two branches
  of the loop split on the comparison of the quantities.
* *HusksAtFront* is what makes pruneEmptyFront complete: the loop only ever empties
  the first level with an order in it, so the empty levels are a prefix of the side;
  cancelOrder drops the level it empties itself. Hence no empty level between calls.
* *Uncrossed* needs both: restRemainder adds a level for a price only when no level with an
  order on the other side is marketable at it; by HusksAtFront the levels left after
  pruning all have one.

and, of the same specification,

* `PricesWalkAway` == Spec => []TradesInPriceOrder,

from `PInv == IInv /\ AllKeyed /\ Ordered(lastTrades) /\ AllBehind`: *AllKeyed*, every order in a
level has the level's price, whatever slot an erase through a wrong iterator removes; *AllBehind*,
every level with an order is at no better a price than the last trade of the call that is being
matched. Both are needed as a trade's price is the resting order's own, not its level's. Its last
part are the lemmas of the index: level by level (`QueueExact`), the erase of the front by the loop,
or of either end by a cancel, moves no other order (`EraseAtAnEnd`), a push within the map keeps
every iterator (`PushBackInMap`), an amend moves nothing, and a level that is dropped is empty, so
nothing refers to it (`NothingInEmpty`).

Two more theorems of it say that a call of addOrder comes to an end:

* `MatchGoesOn` == Spec => []NeverStuck: while the order in hand is not done with, the best level
  that holds an order is marketable and its first order trades;
* `CallsEnd` == Spec => MatchingShrinks: an iteration of the loop returns from the call or makes
  `ToDo` a smaller natural number: how many orders wait on the other side, and one for the order
  in hand while it has quantity.

Together they are the argument behind AddReturns, for any client and without fairness: the runs check
the liveness, the theorems the ranking. `EInv` adds to IInv that a side has finitely many prices, so that a
best one exists and what waits can be counted. The measure counts orders and not quantity, as an order
amended to 0 trades for nothing. The lemmas ask of a book only its queues and of an order only that its
quantity is an integer (`Queues`, `HandTyped`), so that the engine's book can use them.

`FoldProofs` has what the others need of the folds and of finite sets: what a step adds to the total of a set
(`TotalProperties`) or of a sequence (`TradedAppend`), that a finite set can be counted off without leaving
an element out (`AllCounted`), that a union of finitely many finite sets is finite. The library's induction theorems take the predicate
as an operator; here it is a set of numbers, and what a fold chooses next is a function
(`BothFold`: two folds that may choose in different orders agree where the steps commute).

### The careful client

`ClientBookProofs` proves, also assuming MintingAssumption (ids are natural
numbers),

* `IndexStaysExact` == CarefulSpec => []IndexExact,
* `BookImplementsPriceTime` == CarefulSpec => PriceTime, the refinement of PriceTimeBook,
* `TopOfBookStaysExact` == CarefulSpec => []TopOfBookExact.

The first by `CInv == IInv /\ IndexExact /\ Minted /\ CanRest`: *Minted*, every indexed id is below the
counter; *CanRest*, while an order is matched its id is not in the index and its own level
has room in its map. The two conditions on the client are exactly where the lemmas of the index need
them; findings 1 and 2 are what happens without.

The refinement needs `RInv == CInv /\ Arrivals`: an entry of the index says of its order what the
order says of itself, every queue is in the order of the ids, and the incoming order is the newest. The
index then is a bijection between the two books, so each action's effect is described once, by the one
entry it removes, adds or amends (`Keeps`, `Joins`, `Amends`), and each is shown to be the step
of the promise, with the same trade: the front of the best level is the oldest of the orders at the
best price.

TopOfBookExact adds `FiniteBook` and `LevelTotals` (each level's running total is the sum over the
orders at its price) in `TInv`. The total moves in five places of the code, in each by what the set of
orders at that price gains or loses.

### The backtest

`SimProofs` proves, for all prices, fees, ids, bounds on what a strategy emits, and lengths of a run,

* `SimTypeCorrect` == SimSpec => []SimTypeOK,
* `LedgerIsExact` == SimSpec => []LedgerExact, for a careful market maker (`Careful`),
* `EveryFillIsTold` == SimSpec => []FillsTold, also if no order is priced at `Absent`,
* `FlowKeepsTrack` == SimSpec => []FlowTracksBook, without quotes (`MaxQuotes = 0`),
* `FlowKeepsIndex` == SimSpec /\ []InFirstMap => []IndexExact, without quotes,
* `TicksAreFinite` == SimSpec => TickShrinks.

The last needs no hypothesis on the strategy or on the index: every step within a tick lowers,
lexicographically, the phases left, the calls of the batch not yet made, and `ToDo` of the call in
hand (MatchShrinks), all natural numbers. It is the argument behind TickEnds.

The theorems also assume SimAssumption (the flow's size is a positive quantity, ids are numbers). The
hypotheses are those of the runs that pass, and findings 2 to 4 show what happens without: `Careful`
is what a strategy must observe and no sentence of the repository asks of it; `MaxQuotes = 0` is the
NullMM that ships; `InFirstMap` says that no level uses as many slots as make the library replace its map.
`Absent \notin Price` is needed as the quote of an empty side is the price -1
(`flow_generator.h:23`): a resting order at -1 would not be seen by a strategy that avoids crossing.
The flow quotes around 50.

All rest on `LoopInv`: the book's invariant, finitely many levels (so that a side has a best price), and
the shape of a tick (`LoopShape`): while an order is in hand the event at the head of the queue is its
add, and no cancel follows an add in a batch. On top of it, and each only as long as no call found the
index wrong (`intact`):

* `LedgerInv`: an id not minted yet is nowhere (`Minted`); an id of the market maker that rests is
  attributed, or its cancel is still in the queue, and one that traded in this tick is attributed
  (`Attributed`). The balance of the executions so far is then the ledger with the tick's trades applied
  (`Booked`): the lemma FillExecuted is where the account by orders meets the one by trades. An add is
  what could break it, as the order in hand may meet one whose cancel comes later; in a batch none does.
* `FillsInv`: the market maker never takes (`NeverTakes`); its quotes not yet added lie apart from the
  other side of the book and from each other (`Apart`), which an add of one of them preserves, and
  amends and cancels cannot break; so nothing trades after myFills was computed (`ToldSoFar`).
* `FlowInv`: every order has the flow's size (`Whole`), so each execution is of two whole orders and no
  partial fill arises, which `resting_` could not represent; an id is at one place of the
  book (`Distinct`); what the flow believes is, within a tick, what rests but the order about to be
  cancelled, with the one about to be added (`Believed`).
* `OrderInv`: queues are in the order of the ids and the flow cancels its smallest
  (`zi_flow.cpp` takes `*resting_.begin()` of an ordered set). By FlowInv that is the smallest on the book,
  so the front of its level, so the erase moves no other order. This also discharges `intact`.

### The engines

`EngineProofs` proves, for every set of sessions, ring size and interleaving,

* `NothingLost` == EngineSpec => []NothingLostOrReordered,
* `EngineTypeCorrect` == EngineSpec => []EngineTypeOK,
* `CrossedOnlyBelowZero` == EngineSpec => []CrossedOnlyByNegative,
* `QuantitiesConserved` == EngineSpec => []Conserved,
* `ThreadGoesOn` == EngineSpec => []NeverStuck,
* `ThreadCallsEnd` == EngineSpec => ThreadShrinks.

For the first, `WayInv` says that the frames read so far are partitioned: one path, what was applied,
what the book thread has in hand and what is in the ring, in increasing order, and beside it the
discarded ones. A push extends the path at its end, a pop and an application move its boundaries,
and a drop or a rejected frame adds to the discarded ones only.

The next three are about a book nobody checks the input of, so IInv does not hold of it (a quantity may be
negative, a type no type), and `EngineInv` rebuilds what survives: `WireTyped`, the book's shape
with orders from the wire; `HusksAtFront`, which no quantity can break; `SignKept`, that until an order below zero was
added the book is not crossed and no limit order in hand is below zero; `TradesAddUp`,
that what traded and what is left of the order in hand is what its frame said; and for a session of
sound frames only (`AllSound`) all of TypeOK. WireAssumption asks that no frame makes the value that
stands for no order, SessionsAssumption that a session is a finite sequence of frames.

The last two are MatchGoesOn and CallsEnd for the engine's book: a fill against an order below 0 makes the
order in hand grow, but takes the other off the book, so the measure falls all the same. The
book thread then always comes back to poll the flag, which QuitEnds is about.

`BtcWireProofs` proves, for every set of messages, ring size and length of a session,

* `FirstEventsReachTheBook` == BtcSpec => []FirstEventsOnly,
* `BookIdleWhileConnected` == BtcSpec => []BookWaitsForFeed.

The path is that of EngineProofs. While messages arrive the book thread is not born, so the path is the
ring, and a push to it leaves what the ring has room for of all that was ever pushed (`RoomOnce`); from
then on nothing is pushed, and a pop and an application move the boundaries. `PhaseInv` is the other
half: an operation is pending only while io.run() runs, and until it has returned the book is untouched.
BtcAssumption only asks that a message has finitely many entries.

### The JSON library

`JsonTextProofs` proves, for every set of texts and limits of the number types,

* `ErrorsAreWhereTheyAre` == the parser's specification => []PositionExact,
* `StacksStayTogether` == the same => []StacksAgree,
* `NeverOverrun` == the serializer's specification => []RoomForCodePoint, for any buffer of at least 16 bytes
  (DumpAssumption).

The first goes by `ScanInv`: the three counters are a function of the bytes consumed, that is those
returned by get() less one that was put back; unget is exact as the byte it takes back is the last one
counted, which holds because a scan never puts back twice. The second goes by `StacksInv`: `ref_stack`
is deeper than `states` by the one container that is being opened (`Ahead`), and each state the
parser is in knows the kind of the top. The third goes by `BufferInv`: what was written up to the last
accepted code point leaves 13 bytes free, and what was written since is bounded by the state of the
decoder (`Most`).

`JsonHeapProofs` proves, of the life of a value (`SessionSpec`), for every text, string and setting,

* `PointersStayValid` == SessionSpec => []ReferencesLive,
* `DestructionIsFlat` == SessionSpec => []FlatDestruction,
* `NoCellIsLost` == SessionSpec => []NothingLeaks.

The heap is a forest (`Forest`): every cell but the root is in exactly one container (`SingleParent`), no
vector holds a cell twice, and all is below the root (`Reached`). What is below a cell is the least set that
holds it and the children of its members (`BelowIs`), hence nothing is below itself (`Acyclic`), and each
way the parser writes keeps the forest: at the back of a vector, whose elements may all move, under a new
key, or over what is there, which goes with all below it (a key that comes twice). The containers being
filled are a path from the root; what moves, and what goes, is below the innermost, so never on the path:
the pointers of `ref_stack` outlive every growth and every repeated key.

While a value is destroyed (`Destroying`) the forest has more roots: the cells that the values on the
destructor's stack and in its hand hold. These are disjoint (`Apart`) and in no container of the heap
(`Detached`), and all else is reached from them (`Reached`); a value that leaves the stack has given its
children to it (`Emptied`). So no destructor finds children left to recurse into, and when the
stack is empty the heap is the root alone. `SessionInv` joins both halves over the phases of a session.

### Model-checked only

* SampleOutcome, which is about one session.
* What compares the JSON library with a recursive definition, which the proof system cannot
  reason about: AcceptsGrammar, BuildsValue, RoundTrip, TransferExact, WholeOrNothing, SizesAnnounced,
  FlattenRestored, EditsExact.
* All liveness: AddReturns, TickEnds, QuitEnds, FramesProcessed, BadMessageIsFatal, FeedLossIsFatal,
  JsonEnds. The proof system has no rule for fairness; of AddReturns and TickEnds it proves
  the ranking.

## 5. Hazards and divergences

`PROJECT.json` lists the hazards of the code by line, with the properties that cover them. Three have none:

* the WebSocket reader writes its subscription from a local string (`websocket_reader.cpp:145`), so what
  the exchange receives is unknown; the model lets it answer with anything or nothing;
* an order under an id in use takes over the other's entry of orderMap (`orderbook.cpp:19`): the survivor can
  no longer be cancelled, and nothing promises that it can. No client of the repository does this; book_any
  does, and shows that the book stays uncrossed all the same;
* a failed resolve or connect is retried for ever, a failed read ends the engine (`tcp_reader.cpp:147`): both are
  in the model, and it is what the code means to do.

What modelling the code showed beside the findings. No run has a property for these; the model states
each as the code has it, or leaves it out as section 7 says:

* Orders: the quantity of a trade is called "shares filled" (`types.h:71`) and may be negative. A price of
  -1 from the wire cannot be told from an absent best price (`flow_generator.h:23`). The mark is 0 until
  the book was two-sided once (`sim.cpp:77`) and stale while it is not (`sim.cpp:131`). A level's running
  total of doubles would drift for fractional quantities (`orderbook.cpp:237`); all callers use whole ones.
* WebSocket reader: order ids are read from uninitialized memory (`websocket_reader.cpp:171`, `:194`); a
  change to a size below one coin is a cancel (`:195`); dump() throws for a key from the environment
  that is not UTF-8 (`:143`).
* json.hpp, parser: text behind a NUL is accepted although `json.hpp:12986` says that "in strict mode,
  input must be completely read"; a message about a token that ends before a newline gives column 0 (`:8407`).
* json.hpp, binary formats: a CBOR negative integer with an argument of 2^63 or more comes back positive
  (`:10312`); a BSON string cut before its NUL gives a discarded value without an exception (`:10010`); a
  product of dimensions that overflows to another number than 0 is not noticed (`:11971`); a UBJSON
  string of negative length is empty; a BJData count of 2^64 - 1 is taken for none; a one-dimensional
  annotated array comes back as an array; one of doubles with integer data is written from the
  integers' bits (`:17462`), one whose size is null unreadably.
* json.hpp, edits: -1 equals 2^64 - 1 (`:23680`), so their diff is empty although `:25056` would replace values
  of different types; an add below null makes an object (`:24822`), one below a number or string fails the
  assertion that "if there exists a parent it cannot be primitive" (`:24852`, `:24861`), or with NDEBUG is
  reported done and does nothing; a remove below a number or string does nothing (`:24887`); a move in place whose add is refused has already
  removed (`:24976`); an object whose first key is "0" is unflattened to an array, or refused (`:14790`).

## 6. Plan

Done: all modules above, their runs, and the proofs of section 4.

Next:

1. the ring as an abstract FIFO that the threads implement (NothingLost says what it would promise);
2. the documents of JsonPatch as cells of JsonDom's heap, so that ReferencesLive and NothingLeaks cover
   the edits as well;
3. a ranking of a session, as ToDo is one of a call and TickShrinks of a tick.

## 7. Not modelled

* Of `json.hpp`: the output and the conversion of floats (`to_chars`, `strtod`; a float that is parsed keeps
  its text, and a session with one is not dumped), floats in comparison and patches, the callback parser, the
  iterators, the conversions (`get`, `at`; what they throw on is BtcWire's `Bad`), constructors and the
  preprocessor's portability layer. Most of these are templates this program never instantiates.
* The build files and the notes; Boost, OpenSSL and the exchange, but for what the handlers can be told.
* Output: print, printBBO, printTrade, the command line, the summary.
* Floating point in the book. Prices are integers, in the smallest unit they come in. Quantities are whole numbers in every caller,
  and double arithmetic is exact on them.
* The distribution of the flow generator: every draw is a choice.
* A signal before the handler is installed (`main.cpp:56`): it ends the process.
* The content of the subscription and its signature (`websocket_reader.cpp:112-150`).
* `getOrder` (no caller; reads through the same iterator as modifyOrder) and NullFlow
  (no behaviour).
