# binance_scalper: specifications and proofs

TLA+ models of the tick scalper in `src/` (Rust, tokio and PyO3) and `python/`
(the strategy and the trading loops), the TLC instances that check them, and TLAPS
proofs of their main safety properties. Paths below are relative to the repository;
`rate_limiter.rs`, `websocket.rs`, `lib.rs`, `execution.rs`, `types.rs` are in
`src/`, `main.py` and `strategy.py` in `python/`.

    tlc -workers 2 -config MCTrader.cfg MCTrader.tla      # one run
    tlapm TraderProofs.tla                                # one proof module

## The system

| Part | State | Operations | Hard part |
|---|---|---|---|
| Rate limiter (`rate_limiter.rs`) | three token buckets, each with a stamp of its last refill | `check_weight`, `check_order` | lazy full refills, rollback when a later bucket refuses, clock read again for each bucket |
| Stream task (`websocket.rs`) | connection, back-off, sender of a bounded channel | `run_stream_loop`, `connect_and_consume` | reconnects, ticks dropped at a full channel, an end of stream that is final |
| Engine (`lib.rs`) | tokio runtime, REST client, receiver of the channel | `start`, `poll_tick`, the REST methods | one receiver shared by all threads; blocking methods keep the GIL |
| REST client (`execution.rs`) | precision rules, wallet | limit and market order, cancel, status, position size, balance | every call can be refused (after its tokens are spent, too), arrive late, fail, or be served and lose its reply; quantities rounded in doubles |
| Symbol thread (`main.py`) | `SymbolState`: pending order, position, tick counter, last balance | `_process_tick` and the handlers it calls, `_wait_for_first_tick`, `_run_tick_loop` | orders fill or die between any two calls; partial fills; retries and giving up |
| Risk gate (`strategy.py`) | `RiskState`: loss counter, opening balance of the day | `reset_day`, `is_approved`, `on_trade_close` | fed with a stale balance; a halt with no way out |
| Signals (`strategy.py`) | EMAs, velocity, last bid | `evaluate` | gates in order; state that moves only when gates pass |
| Backtest (`backtest/engine.py`, `feed.py` in `python/`) | simulated slot and balance | `candle_to_ticks`, `_process`, `run_backtest` | shares `RiskState`, whose day is the wall clock's; thresholds fixed at the first price |

Every symbol has one Python thread. The first to take `_engine_lock` creates and
starts the engine; all threads then poll the one tick channel that the stream task
feeds. A tick of its own symbol makes a thread run `_process_tick`: refresh the
balance every 200 ticks, poll a pending entry every third tick, watch the stop and
target of a position, or else ask the strategy for an entry. Whatever needs the
exchange is a blocking engine method: limiter, local checks, HTTP, decoding.

What makes each part correct: the limiter bounds what is sent in any interval and
loses no tokens; the feed hands over ticks in order, nobody sees a half-made engine,
and every thread ends when it must; requests are paid for before they are sent; the slot
and the exchange agree on what is open, closes only reduce, retries end; the gates stop
entries when losses say so; an entry's stop and target are clear of the spread; the
simulated slot behaves as the live one.

`PROJECT.json` lists the hazards at their lines, and for each the properties that
would catch it.

## Modules

| Module | Models | Checked by | Proved in |
|---|---|---|---|
| `RateLimiter` | `rate_limiter.rs` | `MCRateLimiter` | `RateLimiterProofs` |
| `Execution` (EXTENDS `RateLimiter`) | `execution.rs` and the engine's REST methods: price, local refusal, request, arrival, end; `start`'s two calls | `MCExecution` | `ExecutionProofs` |
| `Slot` | abstract: what a symbol's slot promises, whoever keeps it | through its three implementations | `TraderRefinement`, `ExposureProofs`, `BacktestProofs` |
| `Exchange` | Binance's side of the REST calls of one symbol, and the call in flight (external) | with `Trader` | with `Trader` |
| `Trader` (EXTENDS `Exchange`) | `main.py` from `_poll_pending` to `_process_tick`, `normalize_qty`, `RiskState`'s loss counter | `MCTrader` | `TraderProofs`, `TraderRefinement`, `ExposureProofs` |
| `TickFeed` | `websocket.rs`, `start` and `poll_tick`, `get_or_create_engine`, the loops of `run_symbol`, shutdown | itself | `TickFeedProofs` |
| `RiskGate` | balance refresh, `reset_day`, the drawdown check | itself | `RiskGateProofs` |
| `Strategy` | `TickStrategy.evaluate` and what it calls, `build_strategy` | with `Backtest` | with `Backtest` |
| `Backtest` (EXTENDS `Strategy`) | `engine.py`, `feed.py` of `python/backtest` | `MCBacktest` | `BacktestProofs` |

**RateLimiter.** A call is one step, since `check_order` holds the three mutexes to
its end; but `try_consume` reads the monotonic clock for each bucket, so an order
sees instants `t1 <= t2 <= t3`. `tokens`, `last_refill` are the buckets' fields;
`spent` is history (what each bucket has granted up to each instant), for the
interval properties only; `refusedBy` and `lastOp` hold what the last call returned.

**Execution.** Its actions are RateLimiter's operations with what surrounds them.
`flight[t]` is the request thread `t` waits for. `Admitted` is the code behind a
`check_...().map_err(...)?`: send, or return. `Ordered` may also return after the grant: the
precision table and the notional check come after the limiter (`execution.rs:208-227`).
Binance counts a request when it arrives, `Arrive`, at any time after it was sent, which may
be in a later window than the one that paid for it; `arrived` is that history. The methods
never release the GIL (`lib.rs:213-277` has no `allow_threads`), so `MayCall` waits for
everybody else's request. What orders do is `Trader`'s, what a balance says `RiskGate`'s.
A request the client has given up on (`CallEnds` before `Arrive`) is taken never to arrive:
"late" here is up to the client's ten seconds.

**Slot** has a phase, a side and a loss counter, and five steps. Its three
implementations are refinement mappings in the detailed modules: `Kept` (`Trader`: pending
order or position as the thread has it), `Account` (`Trader`: orders and net position as the
exchange has them) and `Simulated` (`Backtest`).

**Trader and Exchange.** A handler that calls the engine is cut at the call. The
action that makes the call sets `call`; the exchange serves it or it fails, setting
`reply`; the action that reads the reply is the rest of the handler. In between the
thread can do nothing else, but orders fill, die and the position may be liquidated.
So `_close_with_market` is `TickClose` (ask for the size), `size_known` (count the
attempt, send the market order) and `close_sent` (count the outcome or give up), and
`_place_entry` is `TickEntry` and `place_entry`, which makes the second call after
-5022. Prices are not modelled: which ticks signal, hit the stop or the target is
open, as is the drawdown gate. `normalize_qty` is `floor(qty / step) * step` in
doubles: `Slips` names the multiples of the step for which the quotient comes out
short (for 0.1: 3, 6 and 7). `Faults` selects what the environment does beyond
refusing calls and killing orders: partial fills, market orders that execute in
part, lost replies, liquidation, restarts of the program. `streak` and `alarm` are
history.

A call the client has given up on is not served later: `recvWindow` is 5 s and the
client's timeout 10 s.

**TickFeed.** `ws` and `backoff` are `run_stream_loop`'s position and `backoff_ms`
(`ReconnectBase`, `ReconnectMax` in the unit of `RECONNECT_BASE_MS`), `chan` is the
channel, `engine` and `lock` are `_engine` and `_engine_lock`, `pc` says where each
thread is. `GilFree` is the GIL: `start()` and the REST methods never release it.
Ticks are numbered on arrival, and `handled` remembers each thread's last one.

**RiskGate.** One thread on an account that trades nothing else, seen through its balance.
`balance` is the account's with nothing tied up; `Available` is what Binance reports, which an
order or a position lowers by its margin and its open loss, tracked or not. `slot` is what the
thread has: `"gone"` is a position or order that it still has and the account no longer, because
a close executed and its reply was lost (`CloseUnanswered`), or something closed it from
elsewhere (`Elsewhere`, which changes the balance as it likes); `FoundGone` clears it without
`on_trade_close`. `strays` counts the orders and positions on the account that the thread does
not know of: an entry whose reply was lost, the rest of a partial fill, a position given up
after its last attempt (`GiveUp`) or forgotten in a restart. A stray goes on making and losing
money (`Elsewhere`, or a close that falls on it), and enters nothing but the balance. `opening`
(what the account held when the day, or the program, began), `missed` (refreshes failed since the
last good one) and `elsewhere` (what was lost since then other than at the thread's own stops)
are history. How a stray comes about is `Trader`'s.

**Strategy and Backtest.** Prices are integers and mids multiples of 10000, so that the
percentages (thresholds of 8, 2, 25 and 15 hundredths of a percent, a mock spread of 2)
come out whole. `evaluate` keeps the order of the gates: each that holds the tick back
leaves what comes after it as it was, so `_last_mid` moves with every tick evaluated, the day
is reset behind the spread gate, and `_last_bid` moves only behind the trend. The trend
compares two moving averages of reals and is any of its three values. A candle is four
ticks, in the order its direction gives; `process` is `_process`, one action per way through
it. The thresholds are taken at the first tick and kept. `Midnight` is the wall clock's:
`reset_day` asks `time.strftime`, not the tick. Symbols share nothing, so there is one.

## Runs

| Run | Expect | What it shows |
|---|---|---|
| `rate_limiter` | pass | In any k windows' length at most k + 1 capacities, so the excess over the configured rate never adds up; tokens account for grants; refused orders are free |
| `rate_limiter_rolling` | violation | The windows are not rolling, as `rate_limiter.rs:4` has them |
| `execution` | pass | The same bound for what arrives at Binance, whenever it does before the call ends; everything that arrives was paid for |
| `trader` | pass | With whole fills and no lost reply, liquidations included: the account holds what is tracked or, closed from elsewhere, nothing; live orders are the tracked ones, the account goes through `Slot`'s steps only, the loss halt holds and is final, fills are adopted, positions released |
| `trader_faults` | pass | Under every fault: slot and exchange do not contradict each other, the thread's slot implements `Slot`, attempts are bounded, closes only reduce |
| `trader_partial` | violation | A partial fill is adopted, its remainder never cancelled: two entry orders live, against `max_open_orders=1` |
| `trader_slip` | violation | A lot of 0.7 with step 0.1 enters 0.6, closes 0.5 and forgets 0.1, against "guaranteed fill" |
| `tick_feed` | pass | Engine creation under the lock, order of ticks, termination of every thread, back-off that only grows |
| `tick_feed_routing` | violation | Ticks are not routed by symbol: whoever takes one for another symbol drops it |
| `risk_gate` | pass | Where the opening balance is known, the overshoot is bounded by what a stale balance hides: the stops since, told to the thread or not, and what was lost elsewhere |
| `risk_gate_day` | violation | Where it is not (start-up, restart, stale at midnight) entries pass a breached drawdown |
| `backtest` | pass | A day's loss stays within its limit and one stop; brackets are clear of the spread; the simulated slot implements `Slot` |

The five violations are the disagreements between code and text under "findings".

**Bounds.** `rate_limiter`: windows of 3 and 2 ticks in 6 ticks of time, so each
window passes at least twice; capacities 3, 2, 1, so every bucket refuses (with the
code's capacities the ten-second bucket never does, which is proved). `execution`: two
threads; windows of 2 and 1 in 3 ticks of time; capacities 4, 2, 1, of which a start
takes 3 of the weight, so every refusal happens, in `start` as well, and a request can be
granted in one window and arrive in another. `trader`: three orders, so that two losses
halt (`MaxConsecLosses = 2`) with an order to spare, two close attempts, polling every
second tick, a lot of three steps that slips to two; `trader_faults` has two orders and
every fault, and halts after one loss: the second order lives beside what the first left
behind, and any further one repeats that. `tick_feed`: two symbols, a channel of two, three
ticks: the channel fills, drops and crosses a reconnect; a back-off that reaches its cap in
two errors. `risk_gate`: two days, a refresh every four ticks (two round trips
fit between), one missed refresh in a row, a limit of 20% on five units, so that one stop is
the limit, two losses halt; one stray at a time and two units lost elsewhere between two good
refreshes, enough for one to be left and found by a later trade. (The bound is tight: with one
stop fewer, or without what was lost elsewhere, TLC finds an entry past it.) `backtest`: four prices
and four trades. Between the first two prices lies every target and stop; at the third the
mock spread has widened past 70% of the limit the first price set, so the stop is widened;
at the fourth the spread is more than the stop's distance, which the spread gate must hold
back. Two stops pass the day's limit of 3%, three losses halt.

**Fairness.** `Trader`: a call ends (the client's timeout), a reply is read, ticks come
while an order is pending, the cooldown runs out: weak fairness. Strong fairness on
status and size queries says that one repeated for ever does not always fail, and on
`TickClose` that the price does not leave the stop or target for good; without these
`FillAdopted` and `PositionReleased` are not promised by the code and do not hold.
`TickFeed`: strong fairness of each thread (it may have to wait again and again for the
GIL or the lock, which are not refused for ever; calls end); none of the stream: the
liveness properties hold if no tick ever comes. `BackoffSaturates` is about behaviours in
which the stream breaks again and again, and needs no fairness of its own. Deadlock is
checked except in `TickFeed`, where all threads end, `Execution`, where a failed start ends
them, and `Backtest`, where the file ends.

## Proofs

All hold for every value of the constants, under the ASSUMEs of the modules (positive
capacities and windows, positive limits, declared weights, whole percentages, model values
distinct). Each module has an inductive invariant with a lemma for the initial states and
step lemmas for the actions.

* **RateLimiterProofs.** `RateSustained`: no interval of `k` windows' length, for any `k`,
  holds grants worth more than `k + 1` capacities. The bound itself is not inductive: `IInv`
  adds, for each bucket, that its tokens account for its history, that nothing is granted
  past the end of the window the last refill opened, and `Reach`: an interval of `k`
  windows' length that ends before that refill held at most `k` capacities. A refill puts
  a window's length between itself and the one before, so that an interval reaching over
  it gives up one window and gains one capacity (`ReachRefilled`, `RateKept`).
  `GrantsAccounted` and `RefusalsAreFree` come from the same invariant. `BurstGuardNeverActs` has its own: what
  the ten-second bucket has granted never exceeds what the minute bucket has by more
  than a minute's orders. It assumes `OrdersPer10Sec >= 2 * OrdersPerMin` and
  `TenSec <= Minute`, true of the code's 1200, 300, 10 s, 60 s, so the "burst guard" of
  `rate_limiter.rs:6` is dead code.
* **ExecutionProofs.** `EInv` follows what is *owed*: the charge of a request that is sent and
  has not arrived. One request is under way (`FlightInv`, the GIL's doing), a call is made
  when nothing is owed, and what it leaves owed it was granted in that step (`CallStep`,
  `OwedGranted`). `Paid` adds what is owed to what has arrived and stays under what was
  granted: `RequestsPaid`. `Arriving` is the limiter's argument again with an unknown `m`,
  what had arrived at the last refill: what arrived since, and what is owed, came out of
  that refill, and `Reach` bounds what arrived before it; a refill finds nothing
  owed, which is where a second request under way would break it: `ArrivalsInBounds`.
* **TraderProofs.** `IInv` is the type invariant with: `CallInv` (which call can be in
  flight in which state of the slot), `ReplyInv` (which replies answer which call),
  `SlotInv` (the order the slot names was accepted, has the slot's side, and has
  executed if it is a position), `OrderInv` (an order on the book is not full) and
  `HaltInv` (a thread at the loss limit is flat and quiet). `SlotSound`,
  `AttemptsBounded`, `ClosesReduce` hold for every set of faults; `HaltHolds` needs that
  there is no restart, `HaltEnforced` also no lost reply: a close whose reply is lost is
  never counted.
* **TraderRefinement.** `SlotRefined`: `Trader` implements `Slot` under every set of faults. The
  gate is asked when an entry is sent, and `Slot` asks it when the entry is accepted, one
  call or (after -5022) two later: the step needs that an entry in flight means a flat slot
  and losses below the limit, which is `CallInv` and `HaltInv` of `TraderProofs`.
* **ExposureProofs** (EXTENDS `TraderProofs`). Orders come first. `Tracked` adds to `IInv`
  that an order fills whole or not at all, that the quantity of an entry in flight is the
  lot's, and that an answer on its way is still true of its order; it is inductive where
  nothing makes the thread forget an order (no partial fill, lost reply or restart), through
  thin books, liquidations and any lot. It gives `OrdersTracked` and `OneOrderLive`. The
  position rests on it: `Exposed` says that a close in flight is for all there is. It needs
  that nothing but a liquidation happens behind the thread's back, and `Clean`: rounding
  what was bought changes nothing. It gives `ExposureTracked` and `CloseFills`. `CleanLots`
  says which lots are clean, and `RoundsDownOneStep` what `normalize_qty` takes off.
  `AccountRefined` is the refinement of `Slot` by the account: `PhaseOf` and `SideOf` are
  the view of it, a liquidation is `Slot`'s release, and the entry's step needs `LossInv`,
  that the history's losing streak is the thread's counter.
* **RiskGateProofs.** `Stale` bounds how old the balance in the gate can be: it is above
  the account's by at most `n` stops and what was lost `elsewhere`, and `2 * n` is at most the
  ticks since the last good refresh and two more, as an entry and a close take a tick each and
  one stop may fall in the tick of the refresh. A close counts as a stop only if it takes the
  position the slot tracks, answered or not; whatever else lowers the balance (liquidation, a
  position given up or forgotten) is in `elsewhere`. `OvershootLimited` is arithmetic from
  there: at an entry `n` is at most `ClosesUnseen`. Nothing is assumed about the size of the
  loss, of the margin or of the refresh interval, nor about how many strays there are.
  `DrawdownHaltsOnKnownOpening` is about behaviours in which every
  entry is measured against the day's opening balance or more: a loss tolerated out of
  some balance is tolerated out of a smaller one that leaves the same account
  (`SmallerOpeningHolds`).
* **BacktestProofs.** `LossInv` carries what the gate saw at the entry to the close: while a
  position is open the day's loss is below its limit, and the position can lose no more than
  the widest stop. It gives `LossContained`: the gate is asked with the very balance the
  close changes, which is what the live thread's gate lacks. `BracketClear` is arithmetic over the thresholds and the spread gate.
  `SimulationKeepsSlot` is the refinement of `Slot`.
* **TickFeedProofs.** `LockInv` (the lock's holder is the thread creating the engine, and
  while there is one nobody is past it) gives `EngineWhole`; `ChanInv` (the channel is in
  order and later than everything processed) gives `OrderKept`, for any number of
  threads and any capacity. `StreamInv` (before the start there is no task, nothing was
  received, the back-off is at its base) shows that the one start loses no tick and lowers
  no back-off: `RoutedWithOneSymbol`, `BackoffNeverFalls`. A failed start and an ended
  stream stay so (`EndOfFeedIsFinal`): a start finds the engine created and the lock held.

**Where the findings end.** For each finding but the first a theorem has the violated
property hold under a condition that the violating run breaks, so that the condition is
the cause; for the first, which lies in the full refill itself, a theorem has the
bound that does hold.

| Finding | The property holds | Theorem |
|---|---|---|
| `rate_limiter_rolling` | with `k + 1` capacities for `k` windows' length | `RateSustained` |
| `trader_partial` | without partial fills, lost replies and restarts | `OneOrderLive` |
| `trader_slip` | for lots that sell back in one piece, until a position is given up, where only a liquidation happens behind the thread's back | `CloseFills`, `CleanLots` |
| `tick_feed_routing` | with one symbol | `RoutedWithOneSymbol` |
| `risk_gate_day` | if no entry is measured against less than the day's opening balance | `DrawdownHaltsOnKnownOpening` |

Only model-checked: liveness (`FillAdopted`, `PositionReleased`, `ShutdownCompletes`,
`StreamEndNoticed`, `StartFailureFatal`, `BackoffSaturates`), for which the prover has
neither fairness nor ENABLED. Proved of it are the safety halves: close attempts run out
(`AttemptsBounded`), a failed start and an ended stream are final (`EndOfFeedIsFinal`), a
wait is never shorter than the one before (`BackoffNeverFalls`).

## Not modelled

Signing, HTTP and JSON; parsing of ticks; logging and heartbeats; `poll_tick_blocking`,
which nothing calls; `get_precision`; the wait a limiter refusal reports, which every
caller drops; the back-off in real time (`backoff_ms` is kept, no clock); the values of the
moving averages, and the spread's, which is written and never read; the backtest's report,
download and runner. Not yet: a thread that dies with a position open, several symbols on
one account.

Known and stated here rather than checked:

* An entry or a close whose reply is lost is executed and unknown to the thread
  (`lostReply`), so `ExposureAccounted`, `NoStrayOrder`, `SlotOnAccount` and
  `HaltAfterLosses` hold only without that fault (the drawdown gate still sees the loss in the
  balance: `OvershootBounded` holds with it); after a restart the program knows nothing
  of what it left open.
* `backtest/engine.py:153` says "Close any open position at last price"; the loop
  drops the position without a trade (`EndOfData`), so its result is in no total. The
  outcome "EXPIRE" of `engine.py:52` is never produced.
* `strategy.py` says of `evaluate` that it is called on every tick; `main.py:339-346` and
  `engine.py:88-111` call it only when flat, so velocity and averages skip the time a
  position is open, and the first tick after a close is compared with one from before it.
* `TickVelocity` is described by the bid (`strategy.py:62`) and computed from the mid.
* The thresholds are percentages of the first price seen and are never taken again, in
  `main.py` and in the backtest: `BracketClear` holds however far the price goes, but the
  spread gate then closes for good, or lets any spread pass.
* The backtest enters at the ask (the bid, for a sale); the live entry is a limit order on
  the other side, which may not fill.

## Plan

Done: the modules, runs and proofs above. Next: `Scalper`, `TickFeed` composed with a slot
per symbol, for a thread that ends while its position is open, and an account several
symbols draw on.
