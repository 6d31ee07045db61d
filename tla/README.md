# A verification project for ctp_trade

`src/ctp_trade` is an automatic futures trader: it takes market data from an
exchange through the CTP interface, makes bars of one minute and of longer
periods, looks for crossings of moving averages and places orders. This
directory holds TLA+ models of its core, the TLC configurations that check them
on small instances, and theorems about them proved with TLAPS. The rest of
the repository is third-party code (redis, hiredis, glog, lua, jemalloc, the
exchange's headers) and a script for a Python backtesting library.

## 1. Inventory

The data goes one way; every arrow is a call or a shared buffer, and every
class with a * runs threads of its own.

    exchange / replayed file
        -> CMdBroadCast*   sub_ticks_ -> tick_base_[ins] -> one minute bars
        -> CMdManager*     basic_minute_kdata_: bars of 1, 5, 15, 30, 60 minutes
        -> CTradeManager   notify_decision_data
        -> CStrategy       decision_data_ (own copy), archive file
        -> CMAStrategy*    CMovingAverage per period and instrument: signals
        -> CTdManager, CTdTradeSpi -> exchange: orders

| component | state | operations | what is hard | what makes it correct |
|---|---|---|---|---|
| `CMdBroadCast` | `sub_ticks_`, `tick_base_`, `mtk_open_`, their mutexes | tick callback or replay thread, `distribute_mtk_tick`, `calculate_min_bar`, session callbacks | three threads, two buffers, two kinds of locks; a bar leaves before its ticks are erased; "open" is what the last tick said | no tick lost, used twice or out of order; one complete bar per minute; `abort()` only on corrupt data |
| `CMdManager` | a dataset of bars per period, a read position per thread | `push_min_one_data`, `calculate_md_base_function` x 4, startup | threads read what another one appends; one position for all instruments; threads start before the list they copy is set | every minute in exactly one bar of each period, and after the minutes |
| `CStrategy`, `CSaveData` | `decision_data_`, the archive | `update` | run by any notifying thread, the archive without a lock | the archive holds what is acted on, whole and in order |
| `CMAStrategy`, `CMovingAverage` | `candle_bar_read_pos`, `initial_read_pos_flag` | indicator thread: `is_basic_data_ready`, `get_signal`, `get_limit_price`, `trigger_signal_action` | the bars grow between two looks at them | each fork traded once, at its own bar's price |
| `CCandleBar` | a vector of bars, a mutex | append, size, price, average, compose | arithmetic under a lock, written out twice for the two ways of composing | no minute lost or used twice; both ways agree |
| `CTdManager`, `CTdTradeSpi`, `trade_handle` | connection flag, ready flag, order and request numbers | log in, confirm settlement, insert orders, callbacks | a flag that is never reset; answers that never come; numbers shared by threads | the settlement is confirmed within a login; an order number is used once, in increasing order |
| `CTradeManager`, `main` | strategies attached | initialise, attach, detach, notify, release | order of startup; a list walked by threads and changed by main | nothing is used before it is initialised |
| `CppThread` | stop and exit flags | create, close | close before the thread has started | closing returns, whatever lock the thread waits for |
| `CRWLock` (no part of the program uses it yet) | a counter, a condition variable | lock and unlock, read and write | who is woken, spurious wake-ups | exclusion, no lost wake-up |
| `ObjectPool`, `CRedisWrapper`, `CGLog`, `efficient_map_operation` | a free list; a connection; a log; none | | | not used by the core, or without behaviour of their own |

`PROJECT.json` lists the same components with their status, the hazards of the
code each at its line, and the lines every definition stands for.

## 2. Modules

| module | what it is |
|---|---|
| `MinuteBars` | abstract specification of `CMdBroadCast`: a stream of ticks per instrument is cut, front to back, into one bar per finished minute; a stretch may be dropped only while the market is closed |
| `MdBroadcast` | `CMdBroadCast` with its threads, locks, buffers, both builds and both `abort()` calls |
| `MdManager` | `CMdManager`'s startup and period threads, `CStrategy::update`, the archive |
| `MaStrategy` | `CMAStrategy`'s indicator thread and `CMovingAverage`'s reading position, a bar being the fork there is at it |
| `MovingAverage` | the forks and trends themselves, from prices, and the same thread on them; implements `MaStrategy` |
| `CandleBar` | bars from ticks and longer bars from bars: prices and turnover |
| `TradePipeline` | `MdBroadcast`, `MdManager` and `MaStrategy` put together by `INSTANCE`, as `main` does |
| `TradeSession` | `initial_trader`, the callbacks of both exchange interfaces, `trade_handle`, orders |
| `ReadersWriter` | abstract specification of a readers/writer lock |
| `RWLock` | `CRWLock`; implements `ReadersWriter` |
| `CppThread` | start, stop and join of threads that use an `RWLock` |
| `MC*` | the small instances for TLC, one per module it runs |
| `MdBroadcastProofs`, `MdManagerProofs`, `MaStrategyProofs`, `MovingAverageProofs`, `CandleBarProofs`, `TradePipelineProofs`, `TradeSessionProofs`, `CppThreadProofs` (with `RWLock`'s) | theorems |

Definitions named `X_something` and marked "slip" are likely mistakes in the
definition `X` that follows them (an off-by-one, a missing reset, a lock not
taken). Nothing uses them; replacing `X` by one shows that a property notices
the mistake. `PROJECT.json` pairs one with every property of every passing run.

### MdBroadcast

A step is what a thread does under a lock, split where another thread can see or
do something in between:

| source | actions |
|---|---|
| `OnRtnDepthMarketData` (build with `_TRADE_TIME_`) | `OnRtnDepthMarketData`, with the exchange's promise `Quote` (a day's ticks come in order of time and turnover); `NewSession` is the next day |
| `distribute_fake_tick_function`, `transfer_fake_to_tick_data` (build without) | `distribute_fake_tick_function` reads, locks, appends and goes to sleep with the lock; `FakeWake` releases it |
| `distribute_mtk_tick`, `tick_base_pushback` | `DistLock`, `DistPush` tick by tick (each needs the instrument's lock), `DistAbort`, `DistDone` |
| `calculate_min_bar`, `calculate_process`, `is_minute_tail`, `convert_tick2min` | `CalcSkip`, `CalcPublish`, `CalcErase`, `CalcNoTail`, `CalcAbort` |

`calculate_process` hands the bar to the manager, and erases its ticks, under
one lock of the instrument; since the manager's side sees the bar in between
these are two steps, and `TickLocked(i)` holds between them. The distributor
can take that lock for another instrument. Times are `<<h, m, s>>`;
`convert_time_str2int` is what taking the colons out and `atoi` give, so minutes
are compared as decimal numbers. A bar carries its day, its time and the ticks
it was made of; prices are `CandleBar`'s. `accepted` and `taken` are history
variables that no guard but the bound reads; `restarted` records that the feed
began again (a new day, or a file read again) over ticks still undigested.

### MdManager

`Main` opens the period threads in order and only then sets the instruments, as
`initial_md_manager` does; a thread copies the list in `get_instruments` at any
time after it was opened and keeps the copy. A thread's `phase` is its place in
the loop: `Compose` reads the one minute bars and appends a longer one;
`write_save_data` and `push_bar` are the two halves of `CStrategy::update`, in
the notifying thread; `Position` moves the thread's one reading position on.
The calculator of `CMdBroadCast` appears as `push_min_one_data`, one
instrument and minute at a time, which is what `MdBroadcast` shows of it. A bar is
the interval of minutes it is made of. `raced` says whether a thread has ever come to
`write_save_data` while another was in it: until then a write appends a whole
record, from then on `Written` has the outcomes, described below.

### MaStrategy and MovingAverage

In `MaStrategy` a node is a period and an instrument. A bar is reduced to the fork
`get_fork_signal` would find at it. The averages of a bar that is not there
cannot be calculated, which counts as no signal. The thread looks at the bars at four moments, each with
the bars' lock taken anew: readiness, fork (`get_fork_signal`), position
(`get_signal`), price (in `trigger_signal_action`); `push_bar` can come between
any two. The trend that is looked for when there is no fork leads to no order
and changes nothing. `late` is a history variable: the bars that arrived between
the look for the fork and the one for the position.

`MovingAverage` has the prices, and one node. An average is the sum of the prices
times `Scale` (24, which 2, 3 and 4 divide) over their number, so that comparing
integers is comparing averages. Its parameters are the defaults: `calculate`
calls `access_calculate_parameters`, which restores them whenever `is_valid_parameters`
is false, and that is always so because `TECH_SIGNAL_MAX` is -15. A look for a fork is several calls of
`calculate`, each with its own lock, but one step here; `NoLookAhead`
is why: bars that come later do not change what is found at a bar.
`ImplementsMaStrategy` justifies the abstraction of `MaStrategy`, the trend
included.

### CandleBar

`convert_tick2min` makes a minute's bar of its ticks; `Compose` is the loop
both ways of composing have, and `Add` its body as the code has it: the
high is assigned only where it is the same already and stays the first bar's,
the low is assigned where it differs and becomes the last bar's. A minute's turnover is counted from its
first tick, so what the first ticks of the later minutes brought is in no bar.
`ComposedFromTicks` says exactly that, `WaysAgree` that
`calculate_specified_period` and `convert_kdata_and_clear` give the same bars.

### TradePipeline

The components meet in two calls, and these are joint actions. `CalcPublish` is
`MdBroadcast`'s and `MdManager`'s `push_min_one_data` at once, and `CalcErase` has
to wait until the manager is through (`OneBack`), because `calculate_process`
calls it under `tick_mutex_`: between the two, the strategy is updated by the
calculator's own thread. `push_bar` is `MdManager`'s and `MaStrategy`'s at once, for
both work on the same `CCandleBar`. All other steps are one component's alone,
and none happens after `abort()`.

### TradeSession

`main` is the next step of `initial_trader`, in the build with `_TRADE_TIME_`. What
a failing step returns is collected while main goes on to the next, so a null
`md_api_` or `td_api_` is a choice. `MdExchange` and `TdExchange` are what happens to a connection
on the exchange's side (up, lost, a login or confirmation granted or refused), in the order of which the
interfaces' threads call back: `MdOnFrontConnected` to `OnRspError`. A
request on a connection that is down returns an error. `trade_handle` is
`FallAsleep`, `SpuriousWake`, `wait_handle` and `notify_handle`; the flag is set and never
reset. `limit_order_insert` reads `order_ref`, increments it and calls `ReqOrderInsert` in three
steps, without a lock, from the first bars on, wherever main is; through a null
`td_api_` the process is gone. Request ids are left out: no callback reads them.

### RWLock and CppThread

A method of `CRWLock` holds the mutex all the time but for its wait, so it is one
step, or one that goes to wait and starts over once it is woken. `notify_one`
wakes any one, and a wait may end for no reason. In `CppThread` an owner
creates and closes threads in any order; a thread clears the stop flag, then the exit
flag, and runs `while (!is_stop())` with a lock taken to read or to write in the
body. The loops of the program have that form, with mutexes; `CRWLock` is
the lock of the library that is hardest to get right, and mutexes are its special case of
writers only.

### Threads and undefined behaviour

A step under a lock is atomic. `subscribe_inst_` is assigned while threads
may copy it, without a lock: the copy is the old or the new list (a crash would end the
behaviour, and shows no property false). The archive's `fstream` has one
buffer and no lock. Once two threads have been in `write` at once, every write may keep its
record whole, leave it torn or lose it, and lose any number of the records before it, which
were in the same buffer; the file promises nothing any more (`Written`). `order_ref` is an `int`
that threads read and write without a lock: a read gives the last value written, as an
aligned word does on the program's platform.

## 3. Runs

All properties are stated with their meaning in the modules.

| run | instance | shows | distinct states |
|---|---|---|---|
| `md_trade` | one instrument, the last minutes of a day, 4 ticks | `TypeOK`, `Accounted`, `OneBarPerMinute`; refinement of `MinuteBars`; liveness `TicksDistributed`, `MinutePublished` | 53,612 |
| `md_days` | two days with opening, lunch break, close | `NothingOvertakes`, `CompleteBars`; `AbortsOnlyAfterRestart` | 536,593 |
| `md_replay` | the replaying build, two instruments, three files, several passes | `NothingOvertakes`; `NoAppendWhileIterating` with a thread that sleeps holding the lock | 3,322 |
| `mgr_two` | two instruments, two periods, a strategy of two | `TypeOK`, `NoMinuteTwice`, `MinutesBeforePeriods`; `SavedBeforeUsed` up to the first race of two writers, and the race itself | 3,176,972 |
| `mgr_gap` | two instruments, one period | *violated* `Gapless` | |
| `ma_trade` | two nodes, three bars each | `PricedAtTheFork`, `OneOrderPerFork`, `ForksTraded`, `CatchesUp` | 140,660 |
| `signals` | every course of six closing prices from 1 to 4 | `MirrorImage`, `OrderedAtClose`, `NoLookAhead`, `ImplementsMaStrategy` | 97,137 |
| `candle` | every four minutes of up to three ticks, two prices | `ComposedFromTicks`, `WaysAgree` | 121,143 |
| `pipeline` | the replaying build, one instrument, a file of five rows | `Delivered`, `OrdersOnFinishedMinutes`, `ArchiveWhole`; liveness `BarsPassed`, `PeriodsComposed` | 70,491 |
| `session` | null interfaces, refusals, a lost connection on each interface, one ordering thread | `TypeOK`, `ConfirmsWithinLogin`, `RefsIncrease`, `LoginsNoticed` | 180,229 |
| `session_confirm` | the same, one order fewer | *violated* `ConfirmedBeforeTrading` | |
| `tools` | three threads, four starts | `TypeOK`, `Exclusion`, `NoLostWakeUp`, `StopHeeded`, `ImplementsReadersWriter`, `ShutdownEnds` | 34,367 |

Two properties are violated. Each states what a comment of the source says, and
the code does otherwise:

- **`Gapless`** (MdManager.h:22-23, "Management For All Interested Instruments",
  "Maintaining All Data A Day"). `retrieve_start_pos` is one for all instruments of
  a thread: what one has used up, the others skip. With a single instrument
  the property holds, and is proved (`NoGapsForOne`).
- **`ConfirmedBeforeTrading`** (TdManager.h:16, "login and confirmation"). `ready_flag`
  is still set from the login, so the wait for the settlement's confirmation
  returns at once, and `execute_login_confirm` reports success without it. What does hold:
  main gets past no null interface, and asks for the confirmation within an accepted login (`ConfirmsWithinLogin`).

What the models show of the code's limits without a comment that says otherwise is
in the premises of properties that hold:

- The minute in which the market closes may be incomplete, and one that is complete may be
  dropped: a tick after the close whose turnover has not grown is not kept
  but closes the market. `CompleteBars` is about minutes the market is open in
  from beginning to end.
- Without a tick after 15:00:00 the market counts as open and the last ticks stay, to be followed by
  the next day's, whose turnover is smaller, and a file that is
  replayed a second time runs backwards: `abort()`. `AbortsOnlyAfterRestart`
  says that this is the only way to it.
- A fork at a bar that arrives between the two looks of `get_signal` is missed
  (`late` in `ForksTraded`).
- A period thread that copies the instruments before they are set works for none
  (the premise of `PeriodsComposed`).
- A high of a composed bar is the first minute's and a low the last one's
  (`ComposedFromTicks`).
- A thread that is closed before it has begun may clear the stop flag
  afterwards and never end (`early` in `StopHeeded`, `ShutdownEnds`).
- An order begun before the login's answer is taken has a number of its own, and the answer may set the
  numbers back, so that some are given out twice. `RefsIncrease` says that this happens once at most, and not at all if orders wait for
  the answer. Two threads that order may read the same `order_ref` at any time (its premise `OneOrderer`).
- With bars of several periods asked for, the archive's records may be torn or lost: `SavedBeforeUsed`
  ends with the first race, which `mgr_two` reaches. `ArchiveWhole` says that a strategy of one period, as main's
  is, never gets there.
- The minutes of 11:30 and 15:00 have ticks on both sides of the limit; nothing is claimed of their bars
  but that no tick is used twice.
- A flag that says "logged in" outlives the connection: `subscribe_market` acts on it all the same. `LoginsNoticed` says
  that an accepted login is noticed, `ConfirmsWithinLogin` what main may rely on while the connection holds.
- A refused login wakes nobody: main waits for ever, as the comment in TdManager.cpp:30 announces.

### Bounds

Every model is finite because its environment is. `MaxTicks`, `MaxVolume`,
`MaxPending`, `MaxSessions` (MdBroadcast), `MaxBars`, `MaxDrops`
and `MaxOrders` (TradeSession) and `MaxStarts` (CppThread) bound what is
fed, lost or asked for, never a thread of the program.

- `max_minute_ticks` is 120 in the code and 2 here, so that a half-full minute
  is two ticks and four ticks are two minutes with a remainder. It only occurs as
  the threshold `max_minute_ticks / 2`; the theorems hold for any value.
- Times are the seconds around 9:30, 11:30 and 15:00 on both sides of each limit.
- Turnover up to 3 gives ticks that are kept and ticks that are not.
- Periods are of 2 and 3 minutes, not 5 to 60: only whether there are enough
  minutes matters. With five minutes each thread composes
  several bars and the two interleave.
- In `ma_trade` the longest average is of 1 bar; three bars per node
  are one before the thread is ready and two rounds after. `signals` has the real averages of 2, 3 and 4
  bars, and four prices, enough for every relation between two averages at two bars.
- `candle` composes two minutes each; four minutes are two longer bars, three ticks
  a first, a middle and a last one.
- `pipeline`'s file has four minutes, one with two ticks; three become bars, one longer bar is
  composed, and the indicator thread orders on the second and third.
- One lost connection per interface, and four orders, give a login before, between and
  after the orders, and numbers set back among them. Four starts of three threads give one that is started again.
- `CHECK_DEADLOCK FALSE` is given where the system can come to rest for good:
  after `abort()` or a failed request, on a thread with an empty list, when
  all threads are closed, or when the bounded feed is used up.
- The bound on waiting ticks hides one thing: the replay thread takes the
  lock again as soon as it has released it, and might starve the distributor. That depends on
  the mutex and on real time. `md_trade` checks the distributor's liveness in the other build; `pipeline`
  checks it in this one with the feed ending.

### Fairness

The program's threads are loops, scheduled by the operating system: weak
fairness for `Distributor`, `Calculator`, `FakeWake`, for `Main` and each
period thread, and for the indicator thread; for main and the
callback threads of `TradeSession`; for each thread of `CppThread` and the return of its
join. Nothing obliges the feed to produce ticks or bars, the exchange to
connect or to answer, the owner to close a thread, or a strategy to order. Weak fairness of the
distributor is enough although it competes for locks: the feed's callback holds `sub_mutex_`
for one step only, the replay thread's feed ends,
and every time the calculator is seen with an instrument's lock it is about to erase
ticks, so it cannot be again and again while the distributor brings no new ones.

## 4. Proofs

`tlapm` checks all theorems for any number of instruments, periods, nodes, ticks and threads
and any bounds, from the assumptions on constants (`ConstantsAssumption`, `FilesAssumption`,
`ManagerAssumption`, `StrategyAssumption`, `SessionAssumption`, `UsersAssumption`,
`ThreadAssumption`, `PipelineAssumption`, `AverageAssumption`, `CandleAssumption`), all of which TLC evaluates in the runs.
`FilesAssumption` says that a recorded day is in order of time; the exchange's
own order is `Quote`'s guard.

- **`MdBroadcastProofs`**: `TypeCorrect` (`TypeOK` is inductive). `AlwaysAccounted`:
  `Accounted` is inductive relative to `TypeOK`; its last conjunct
  is what makes it so: between publishing and erasing, the number of ticks to
  erase is at least one and leaves at least one, whatever was pushed on
  meanwhile. `Refinement`: `Spec => ImplementsMinuteBars`. The mapping lets a bar be
  cut when it is published, by adding `calc.n` to `taken` while the lock is
  held; then `DistPush` is `Accept`, `CalcPublish` is `Publish`, `CalcNoTail` on a
  closed market is `Discard`, and everything else stutters, `CalcErase` because the sum
  stays the same. `NoAppendUnderTheIterator` follows from who holds `sub_mutex_` while
  the distributor is under way, in both builds.
- **The order of ticks and bars** (second half of `MdBroadcastProofs`): up to a restart nothing overtakes. A bar in order of
  time is not inductive by itself: the next bar's time comes from ticks
  in two buffers and from the feed. `OrderInv` adds for each instrument that
  `tick_base_`, the undistributed part of `sub_ticks_` and the feed's position are one
  line in order of time and turnover (`BaseInOrder`, `PendingInOrder`) and that
  all bars are of earlier minutes than all of it (`BarsBehind`). Pushing moves a tick from one
  part of the line to the next, publishing needs that a tail is strictly
  earlier. `NeverOvertakes`, `BarsInOrder` and `NoSpuriousAbort` follow.
  `WholeMinutesComplete` says more: a whole minute's bar has all its ticks. Ticks
  leave `tick_base_` in two ways, published or dropped on a closed market, so `CompleteInv` keeps
  two facts: the ticks of whole minutes that are cut are behind everything that is not cut yet
  (`Settled`), and while the market counts as closed those not yet cut are also behind
  whatever still comes (`Closing`), since only a tick out of hours closes it and that tick
  is after every whole minute before it. So a whole minute is cut in one piece: its ticks are
  published together or, without a tick after them, dropped together.
- **`MdManagerProofs`**: `ManagerInv` adds to `NoMinuteTwice` that the position a thread
  will have after its current bar is not before the end of any of its bars, whatever the
  instrument (`BarsBehind`), that the strategy lacks at most the minute it
  is being told of (`Told`), and that a composed bar leaves at least one minute after it
  (`MinuteAfter`, from the strict `>` of `calculate_specified_period`). The last
  two give `MinutesToldFirst`: `MinutesBeforePeriods` depends on that strictness. `Numbered`
  (the strategy's k-th minute is the k-th one published) serves the pipeline. `SavedFirst`: a record's
  place among those of its period and instrument is the number of such records up to it, which a later
  record never changes (`PlaceOfRecord`, `HoldsMore`); so `SavedBeforeUsed` is inductive relative to
  `ManagerInv`, because the bar a thread has written and not yet pushed counts as given (`Given`), and no
  other thread has a bar of that period under way. It speaks of the file only until two threads write at
  once. `OneWriter` shows that with one period asked for (`OnePeriodAsked`, which is what main does) `raced` is never
  set, since only that period's thread ever comes to `write`; so in `ArchiveStaysWhole` the file holds
  what the strategy is given without that reserve. `NoGapsForOne` has the premise of one
  instrument, where the position is the end of the last bar (`Packed`).
- **`MaStrategyProofs`**: `LookInv` says what the indicator thread knows between its looks: a
  fork found is at the position before the second look, one before it
  afterwards; a fork that is there and was not found is late; orders are behind the position.
  `LookTypes`, `PriceIsTheForks`, `NoForkTwice` and `OnlyLateForksMissed` follow.
- **`MovingAverageProofs`**, for any prices and any number of bars. `get_ma` is a recursive sum, but the
  periods are 2, 3 and 4: `Averages` unfolds it into a sum of that many prices, and from there on signals
  are comparisons of linear terms (`PairCases`, `ForkCases`, `TrendCases` are the two loops, pass by pass).
  `NothingLooksAhead`: a signal at a bar depends on the averages up to it, and those on the prices up to
  it (`SameAverages`, `OneMore`). `EitherHalfMirrors`: turned upside down, every average becomes a constant
  less itself (`OppositeAverages`), so each comparison of one half of a loop becomes the other half's;
  one that was strict on one side only would not. `SignalInv` (`ForksAreThePrices`) says that the
  fork noted for a bar when it came is what `get_fork_signal` finds at it ever after. Under it every step
  is `MaStrategy`'s of the same name, looking for a trend a stutter (`LooksRefined`, `PricesImplementForks`),
  and `MaStrategy`'s theorems hold of the forks of real prices (`PricesForksTraded`). `OrdersAtTheClose` takes from them that
  an order's bar is behind the position and there.
- **`CandleBarProofs`**, for any minutes, ticks and length of the longer bars. The loop over the bars is a recursive
  function. `Recursion` shows that such a function exists and what its passes give, `Induct` is induction
  over them, both from the fact that a set of numbers has a least element, since an induction
  theorem that takes a predicate cannot be used. `Composed` and `ComposedVolume` say what `Compose` returns,
  `BarOfMinute` what `convert_tick2min` does, and `LongerBarsOfTicks` puts them together. For `WaysAlwaysAgree`,
  `CandleInv` adds to `WaysAgree` that the bars converted so far end at a minute there is; then a bar pushed changes no
  run before it (`RunGrows`), and a run of what was left is the next run of all minutes (`RunOfRest`), whatever the
  number of minutes left over.
- **`TradePipelineProofs`**: `Components` shows that the pipeline is a behaviour of
  each of its three components, so their theorems hold in it, taken over by
  `INSTANCE` of their proof modules. `StrategyHasTheMinutes`: `Handing` ties the
  calculator's phase to the manager's, so the calculator never runs ahead of the strategy.
  `OrdersAreFounded` joins all of it: `Kept` says that the indicator thread's bars are as many as the
  strategy's and each is archived, unless two threads have raced for the file; then an order's bar is a published one (`LookInv`,
  `Delivered`), complete (`WholeMinutesComplete`) and in order (`BarsInOrder`, `NoForkTwice`).
  `ArchiveWholeHere` and `SavedBeforeUsedHere` are `ArchiveStaysWhole` and `SavedFirst` in the whole system.
- **`CppThreadProofs`**: first the lock alone. `LockInv`, for any finite set of threads: the counter is the number of
  readers less the number of writers, of which there is at most one and then no reader; a reader
  waits only on a writer; and with the lock free somebody who asks for it is awake. `LockRefinement`: `CRWLock`
  used in any order implements `ReadersWriter`. The threads' use of it is such an
  order, so exclusion and wake-ups carry over (`LockExcludes`, `WakeUpsArrive`, `LockImplements`);
  `StopIsHeeded` needs that only a thread just born clears the flag.
- **`TradeSessionProofs`**: `ConfirmsInLogin`: the connection is not lost as long as nothing is
  dropped, at most one login is asked for (`LoginOnce`), and whoever has left the wait has had its
  answer (`WithinLogin`); that a refusal wakes nobody is part of it. `InterfacesInv` says the same of the interfaces:
  nothing is called back by one that is null, so main does not get past its wait. `RefsAlwaysIncrease` has two parts. `RefsInv`
  says what the one orderer holds compared with `order_ref` and with what was taken, if the login's answer came
  first. `SetBackInv` is for the other case: an order goes out with a higher number than the last one
  taken, and leaves a higher one (`InLine`), except from the login's answer, which comes once, to the first order taken after it.

Every invariant, action property and refinement that a passing run checks is also a theorem. Only model-checked is
liveness (`TicksDistributed`, `MinutePublished`, `CatchesUp`, `LoginsNoticed`, `ShutdownEnds`, `BarsPassed`,
`PeriodsComposed`), which needs fairness and `ENABLED` and is out of the prover's reach. Induction over data is done where
it is needed, in `CandleBarProofs`, with sets of numbers in the place of predicates; what is not proved is that the
averages would behave for periods other than the program's 2, 3 and 4.

## 5. Not modelled

By far most of the repository is third-party code that the program links
or ships: redis with its Windows port, hiredis, lua and jemalloc, glog, and the
exchange's headers. The program's own code is about 3,200 of some 106,700 lines, and
the models cover its core; the rest is left out for these reasons:

- redis, hiredis, lua, jemalloc, glog: the program opens one connection to redis and sends nothing, and
  logs through glog. The exchange's library is closed; what is seen of it is the
  environment of `MdBroadcast` and `TradeSession`.
- `CRedisWrapper`, `CGLog`, `efficient_map_operation`, the reading of configuration and of recorded
  files: no behaviour beyond one call.
- `ObjectPool`: no part of the program uses it, so there is no caller to check it with.
- Releasing and detaching (`release_*`, `detach_trade_strategy`), a second strategy: main attaches one
  strategy and then loops for ever. How a thread ends is `CppThread`.
- The exponential average, attached parameters and larger sets of flags: no call reaches them.
- `get_bars_and_clear` and `operator+` of `CCandleBar`, which are not called, and `change_percent`, which
  nothing reads.
- Request ids, which no callback reads; wording of logs; real time (the sleeps are steps).
- The Zipline script, an example for another library.

`PROJECT.json` gives the status and the reason for each component, and for each
hazard without a property why it has none.
