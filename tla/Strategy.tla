------------------------------ MODULE Strategy ------------------------------
(***************************************************************************)
(* TickStrategy (strategy.py:171-274): what one tick does to the strategy  *)
(* of a symbol, gate by gate, and the bracket of stop and target an entry  *)
(* gets, with the thresholds build_strategy derives from the first tick's  *)
(* price.  Prices are integers, multiples of 10000 on the mid, so that the *)
(* percentages come out whole.                                             *)
(*                                                                         *)
(* The trend, which of two moving averages is above the other, is any of   *)
(* the three at each tick; on the first tick nothing depends on it.        *)
(***************************************************************************)
EXTENDS Integers

CONSTANTS
  MaxConsecLosses,   \* max_consec_losses
  DailyDdPct,        \* daily_dd_pct
  None               \* Python's None

ASSUME StrategyAssumption ==
  /\ MaxConsecLosses \in Nat \ {0}
  /\ DailyDdPct \in 1 .. 100

VARIABLES
  cfg,             \* StrategyConfig; None until the first tick
  last_mid,        \* TickVelocity._last_mid
  last_bid,        \* _last_bid
  consec_losses,   \* RiskState's
  day_start,       \* RiskState.day_start_balance
  day_known        \* RiskState._last_day is today

strategy_vars == <<cfg, last_mid, last_bid, consec_losses, day_start, day_known>>

Signals == {"HOLD", "BUY", "SELL"}

StrategyInit ==
  /\ cfg = None
  /\ last_mid = None
  /\ last_bid = None
  /\ consec_losses = 0
  /\ day_start = 0
  /\ day_known = FALSE

-----------------------------------------------------------------------------
\* The thresholds: 0.08%, 0.02%, 0.25% and 0.15% of the first mid.
build_strategy(mid) ==
  LET bp == mid \div 10000
  IN  [max_spread |-> 8 * bp, min_move |-> 2 * bp, sl_dist |-> 25 * bp, tp_dist |-> 15 * bp]

Spread(tick) == tick.ask - tick.bid

Distance(a, b) == IF a < b THEN b - a ELSE a - b

velocity(tick) == IF last_mid = None THEN 0 ELSE Distance(tick.mid, last_mid)

\* Mutant: the spread is not asked.
AnySpread(tick, thresholds) == TRUE

SpreadFits(tick, thresholds) == Spread(tick) <= thresholds.max_spread

\* Mutant: the drawdown has the wrong sign.
GainBreaches(balance) ==
  day_start' > 0 /\ (balance - day_start') * 100 >= DailyDdPct * day_start'

\* The day's loss has reached its limit; an unknown opening balance has none.
Breaches(balance) ==
  day_start' > 0 /\ (day_start' - balance) * 100 >= DailyDdPct * day_start'

reset_day(balance) ==
  /\ day_known' = TRUE
  /\ day_start' = IF day_known THEN day_start ELSE balance

\* Mutant: one loss more.
ApprovedOnceMore(balance) == consec_losses <= MaxConsecLosses /\ ~Breaches(balance)

\* is_approved, asked while nothing is open.
is_approved(balance) == consec_losses < MaxConsecLosses /\ ~Breaches(balance)

move(tick) == IF last_bid = None THEN 0 ELSE tick.bid - last_bid

detect_pullback(tick, thresholds, trend) ==
  IF trend = 1 /\ move(tick) < -thresholds.min_move THEN "BUY"
  ELSE IF trend = -1 /\ move(tick) > thresholds.min_move THEN "SELL"
  ELSE "HOLD"

\* The stop is half as far again while the spread is above 70% of its limit.
StopDistance(tick, thresholds) ==
  IF Spread(tick) * 10 > thresholds.max_spread * 7
    THEN (thresholds.sl_dist * 3) \div 2 ELSE thresholds.sl_dist

compute_sl_tp(signal, tick, thresholds) ==
  IF signal = "BUY"
    THEN [sl |-> tick.ask - StopDistance(tick, thresholds), tp |-> tick.ask + thresholds.tp_dist]
    ELSE [sl |-> tick.bid + StopDistance(tick, thresholds), tp |-> tick.bid - thresholds.tp_dist]

(***************************************************************************)
(* evaluate: each gate that holds the tick back leaves what comes after it *)
(* as it was.  The bid is remembered by the last one only.                 *)
(***************************************************************************)
evaluate(tick, balance, thresholds, signal) ==
  /\ last_mid' = tick.mid
  /\ \/ /\ ~SpreadFits(tick, thresholds)
        /\ signal = "HOLD"
        /\ UNCHANGED <<day_start, day_known, last_bid>>
     \/ /\ SpreadFits(tick, thresholds)
        /\ reset_day(balance)
        /\ \/ /\ ~is_approved(balance) \/ velocity(tick) < thresholds.min_move
              /\ signal = "HOLD"
              /\ UNCHANGED last_bid
           \/ /\ is_approved(balance) /\ velocity(tick) >= thresholds.min_move
              /\ \E trend \in {-1, 0, 1} :
                   /\ signal = detect_pullback(tick, thresholds, trend)
                   /\ last_bid' = IF trend = 0 THEN last_bid ELSE tick.bid
  /\ UNCHANGED consec_losses

on_trade_close(won) ==
  /\ consec_losses' = IF won THEN 0 ELSE consec_losses + 1
  /\ UNCHANGED <<last_mid, last_bid, day_start, day_known>>

\* time.strftime: the wall clock passes midnight.
Midnight ==
  /\ day_known
  /\ day_known' = FALSE
  /\ UNCHANGED <<cfg, last_mid, last_bid, consec_losses, day_start>>

=============================================================================
