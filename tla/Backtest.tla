------------------------------ MODULE Backtest ------------------------------
(***************************************************************************)
(* The backtest of one symbol (backtest/engine.py:83-129, 133-154) over    *)
(* the candles of a file, four ticks each (backtest/feed.py).  It drives   *)
(* the live strategy with a slot and a balance of its own; the day of its  *)
(* drawdown gate is the day the backtest runs on.  Amounts are for a lot   *)
(* of one.                                                                 *)
(***************************************************************************)
EXTENDS Strategy, Sequences

CONSTANTS
  Prices,         \* a candle's prices: multiples of 10000
  StartBalance,   \* SimState.balance
  MaxTrades       \* bound: trades closed in a behaviour

ASSUME BacktestAssumption ==
  /\ \A p \in Prices : p \in Nat \ {0} /\ p % 10000 = 0
  /\ StartBalance \in Nat \ {0}
  /\ MaxTrades \in Nat

VARIABLES
  feed,       \* the candle's ticks to come, by their mids
  position,   \* SimState.position
  balance,    \* SimState.balance
  trades,     \* the number of trades in SimState.trades
  over        \* the file has ended

vars == <<strategy_vars, feed, position, balance, trades, over>>

Positions == [side : {"BUY", "SELL"}, entry : Int, sl : Int, tp : Int]

ASSUME NoneIsNoState ==
  /\ None \notin Int
  /\ None \notin Positions
  /\ \A p \in Prices : None # build_strategy(p)

TypeOK ==
  /\ cfg \in {build_strategy(p) : p \in Prices} \cup {None}
  /\ last_mid \in Prices \cup {None}
  /\ last_mid = None <=> cfg = None
  /\ last_bid \in Int \cup {None}
  /\ consec_losses \in 0 .. MaxConsecLosses
  /\ day_start \in Int
  /\ day_known \in BOOLEAN
  /\ feed \in Seq(Prices) /\ Len(feed) <= 4
  /\ position \in Positions \cup {None}
  /\ position # None => cfg # None
  /\ balance \in Int
  /\ trades \in 0 .. MaxTrades
  /\ over \in BOOLEAN

Init ==
  /\ StrategyInit
  /\ feed = <<>>
  /\ position = None
  /\ balance = StartBalance
  /\ trades = 0
  /\ over = FALSE

-----------------------------------------------------------------------------
candle_to_ticks(open, high, low, close) ==
  IF close >= open THEN <<open, low, high, close>> ELSE <<open, high, low, close>>

NextCandle ==
  /\ feed = <<>> /\ ~over
  /\ trades < MaxTrades
  /\ \E open, high, low, close \in Prices :
       /\ \A p \in {open, close} : low <= p /\ p <= high
       /\ feed' = candle_to_ticks(open, high, low, close)
  /\ UNCHANGED <<strategy_vars, position, balance, trades, over>>

\* A spread of 0.02% about the mid.
MockTick(mid) == [mid |-> mid, bid |-> mid - mid \div 10000, ask |-> mid + mid \div 10000]

tick == MockTick(Head(feed))

\* The strategy is built at the first tick and keeps its thresholds.
thresholds == IF cfg = None THEN build_strategy(tick.mid) ELSE cfg

HitsTarget(t, pos) == IF pos.side = "BUY" THEN t.bid >= pos.tp ELSE t.ask <= pos.tp
HitsStop(t, pos) == IF pos.side = "BUY" THEN t.bid <= pos.sl ELSE t.ask >= pos.sl

NextTick == feed # <<>> /\ trades < MaxTrades /\ feed' = Tail(feed) /\ cfg' = thresholds

calc_pnl(pos, exit) == IF pos.side = "BUY" THEN exit - pos.entry ELSE pos.entry - exit

Hold ==
  /\ NextTick
  /\ position # None
  /\ ~HitsTarget(tick, position) /\ ~HitsStop(tick, position)
  /\ UNCHANGED <<last_mid, last_bid, consec_losses, day_start, day_known,
                 position, balance, trades, over>>

\* The close is at the target's or the stop's own price, wherever the tick is.
Close ==
  /\ NextTick
  /\ position # None
  /\ HitsTarget(tick, position) \/ HitsStop(tick, position)
  /\ LET won == HitsTarget(tick, position)
     IN  /\ balance' = balance + calc_pnl(position, IF won THEN position.tp ELSE position.sl)
         /\ on_trade_close(won)
  /\ position' = None
  /\ trades' = trades + 1
  /\ UNCHANGED over

Entered(side) ==
  [side |-> side, entry |-> IF side = "BUY" THEN tick.ask ELSE tick.bid,
   sl |-> compute_sl_tp(side, tick, thresholds).sl,
   tp |-> compute_sl_tp(side, tick, thresholds).tp]

Evaluate ==
  /\ NextTick
  /\ position = None
  /\ \E signal \in Signals :
       /\ evaluate(tick, balance, thresholds, signal)
       /\ position' = IF signal = "HOLD" THEN None ELSE Entered(signal)
  /\ UNCHANGED <<balance, trades, over>>

process == Hold \/ Close \/ Evaluate

\* What is open when the file ends is dropped, without a trade.
EndOfData ==
  /\ feed = <<>> /\ ~over
  /\ over' = TRUE
  /\ position' = None
  /\ UNCHANGED <<strategy_vars, feed, balance, trades>>

Next ==
  \/ NextCandle
  \/ process
  \/ EndOfData
  \/ Midnight /\ UNCHANGED <<feed, position, balance, trades, over>>

Spec == Init /\ [][Next]_vars

-----------------------------------------------------------------------------
(***************************************************************************)
(* The tick that opens a position touches neither its stop nor its target: *)
(* the spread gate and the widened stop keep the bracket clear of the      *)
(* spread, however far the price has gone from the one the thresholds were *)
(* taken at (strategy.py:135-149, 246-248; engine.py:28-41).               *)
(***************************************************************************)
BracketSound ==
  [][position = None /\ position' # None
       => ~HitsTarget(tick, position') /\ ~HitsStop(tick, position')]_vars

(***************************************************************************)
(* The day's loss exceeds its limit by less than one stop at its widest:   *)
(* no entry is approved past the limit, across wins, midnights with a      *)
(* position open and ticks held back by other gates (strategy.py:96-111).  *)
(***************************************************************************)
DrawdownContained ==
  day_start > 0 =>
    (day_start - balance) * 100 < DailyDdPct * day_start + 100 * ((cfg.sl_dist * 3) \div 2)

(***************************************************************************)
(* The simulated slot keeps the promise the live one keeps (SlotKept in    *)
(* Trader): one entry at a time, held to a close that is counted or to the *)
(* end of the data, none after MaxConsecLosses losses in a row, and none   *)
(* by the tick that closes (engine.py:83-129).                             *)
(***************************************************************************)
Simulated == INSTANCE Slot WITH
  phase <- IF position = None THEN "flat" ELSE "holding",
  side <- IF position = None THEN "none" ELSE position.side,
  losses <- consec_losses,
  MayRestart <- FALSE

SlotSimulated == Simulated!Spec

=============================================================================
