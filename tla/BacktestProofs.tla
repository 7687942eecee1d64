--------------------------- MODULE BacktestProofs ---------------------------
(***************************************************************************)
(* Theorems about Backtest, for every set of prices, limit and length.     *)
(*                                                                         *)
(* LossInv carries what the entry's gate saw to the close: while a         *)
(* position is open the day's loss is below its limit and the losses in a  *)
(* row are, and what the position can lose is at most the widest stop.     *)
(***************************************************************************)
EXTENDS Backtest, TLAPS

Widest == (cfg.sl_dist * 3) \div 2

LossInv ==
  /\ cfg = None => day_start = 0
  /\ position # None =>
       /\ consec_losses < MaxConsecLosses
       /\ day_start > 0 => (day_start - balance) * 100 < DailyDdPct * day_start
       /\ position.side = "BUY" => position.entry - position.sl <= Widest
       /\ position.side = "SELL" => position.sl - position.entry <= Widest
       /\ position.side = "BUY" => position.tp >= position.entry
       /\ position.side = "SELL" => position.tp <= position.entry
  /\ DrawdownContained

IInv == TypeOK /\ LossInv

-----------------------------------------------------------------------------
\* The gate's margin covers a loss of w, and there is one.
LEMMA Margin ==
  ASSUME NEW d \in Int, NEW b \in Int, NEW c \in Int, NEW w \in Nat, NEW limit \in Int
  PROVE  /\ (d - b) * 100 < limit /\ c >= b - w => (d - c) * 100 < limit + 100 * w
         /\ limit > 0 => (d - d) * 100 < limit + 100 * w
OBVIOUS

LEMMA LimitPositive ==
  ASSUME NEW d \in Int
  PROVE  /\ DailyDdPct * d \in Int
         /\ d > 0 => DailyDdPct * d > 0
<1>1. DailyDdPct \in Int /\ DailyDdPct > 0
  BY StrategyAssumption
<1> QED
  BY <1>1

\* The thresholds stand in these relations whatever the first price was.
LEMMA Thresholds ==
  ASSUME NEW p \in Prices, NEW c, c = build_strategy(p)
  PROVE  /\ c.max_spread \in Nat /\ c.min_move \in Nat
         /\ c.sl_dist \in Nat \ {0} /\ c.tp_dist \in Nat \ {0}
         /\ c.max_spread < c.sl_dist
         /\ (c.sl_dist * 3) \div 2 \in Nat
         /\ c.sl_dist <= (c.sl_dist * 3) \div 2
<1> DEFINE bp == p \div 10000
<1>1. bp \in Nat \ {0}
  BY BacktestAssumption
<1> HIDE DEF bp
<1>2. /\ c.max_spread = 8 * bp /\ c.min_move = 2 * bp
      /\ c.sl_dist = 25 * bp /\ c.tp_dist = 15 * bp
  BY DEF build_strategy, bp
<1> QED
  BY <1>1, <1>2

\* A tick's quote has its bid below its ask.
LEMMA Quotes ==
  ASSUME NEW p \in Prices
  PROVE  /\ MockTick(p).mid = p /\ p \in Int
         /\ MockTick(p).bid \in Int /\ MockTick(p).ask \in Int
         /\ MockTick(p).bid <= MockTick(p).ask
BY BacktestAssumption DEF MockTick

\* The tick being processed, and the thresholds it is held against.
LEMMA AtTick ==
  ASSUME TypeOK, NextTick
  PROVE  /\ tick.mid \in Prices /\ tick.bid \in Int /\ tick.ask \in Int
         /\ tick.bid <= tick.ask
         /\ \E p \in Prices : thresholds = build_strategy(p)
         /\ cfg' = thresholds /\ cfg' # None
         /\ cfg # None => cfg' = cfg
         /\ feed' \in Seq(Prices) /\ Len(feed') <= 4
<1>1. Head(feed) \in Prices /\ feed' \in Seq(Prices) /\ Len(feed') <= 4
  BY DEF NextTick, TypeOK
<1>2. /\ tick.mid \in Prices /\ tick.bid \in Int /\ tick.ask \in Int
      /\ tick.bid <= tick.ask
  BY <1>1, Quotes DEF tick
<1>3. PICK p \in Prices : thresholds = build_strategy(p)
  BY <1>2 DEF thresholds, TypeOK
<1> QED
  BY <1>1, <1>2, <1>3, NoneIsNoState DEF NextTick, thresholds

\* What an entry looks like: a bracket about the entry, clear of the spread.
LEMMA Bracket ==
  ASSUME TypeOK, NextTick, SpreadFits(tick, thresholds), NEW s \in {"BUY", "SELL"}
  PROVE  /\ Entered(s) \in Positions /\ Entered(s) # None /\ Entered(s).side = s
         /\ ~HitsTarget(tick, Entered(s)) /\ ~HitsStop(tick, Entered(s))
         /\ s = "BUY" => /\ Entered(s).entry - Entered(s).sl <= Widest'
                         /\ Entered(s).tp >= Entered(s).entry
         /\ s = "SELL" => /\ Entered(s).sl - Entered(s).entry <= Widest'
                          /\ Entered(s).tp <= Entered(s).entry
<1> DEFINE d == StopDistance(tick, thresholds)
           t == thresholds.tp_dist
           b == tick.bid
           a == tick.ask
<1>1. b \in Int /\ a \in Int /\ b <= a /\ cfg' = thresholds
  BY AtTick
<1>2. /\ thresholds.max_spread \in Nat /\ thresholds.sl_dist \in Nat \ {0}
      /\ t \in Nat \ {0} /\ thresholds.max_spread < thresholds.sl_dist
      /\ (thresholds.sl_dist * 3) \div 2 \in Nat
      /\ thresholds.sl_dist <= (thresholds.sl_dist * 3) \div 2
  BY AtTick, Thresholds
<1>3. d \in Nat /\ thresholds.sl_dist <= d /\ d <= Widest'
  BY <1>1, <1>2 DEF StopDistance, Widest
<1>4. a - b < d
  BY <1>1, <1>2, <1>3 DEF SpreadFits, Spread
<1>5. Widest' \in Nat
  BY <1>1, <1>2 DEF Widest
<1>6. CASE s = "BUY"
  <2>1. Entered(s) = [side |-> "BUY", entry |-> a, sl |-> a - d, tp |-> a + t]
    BY <1>6 DEF Entered, compute_sl_tp
  <2> HIDE DEF d, t, a, b
  <2>2. Entered(s) \in Positions
    BY <1>1, <1>2, <1>3, <2>1 DEF Positions
  <2>3. /\ Entered(s).side = "BUY" /\ Entered(s).entry = a
        /\ Entered(s).sl = a - d /\ Entered(s).tp = a + t
    BY <2>1
  <2>4. ~(b >= a + t) /\ ~(b <= a - d) /\ a - (a - d) <= Widest' /\ a + t >= a
    BY <1>1, <1>2, <1>3, <1>4, <1>5
  <2> QED
    BY <1>6, <2>2, <2>3, <2>4, NoneIsNoState DEF HitsTarget, HitsStop, a, b
<1>7. CASE s = "SELL"
  <2>1. Entered(s) = [side |-> "SELL", entry |-> b, sl |-> b + d, tp |-> b - t]
    BY <1>7 DEF Entered, compute_sl_tp
  <2> HIDE DEF d, t, a, b
  <2>2. Entered(s) \in Positions
    BY <1>1, <1>2, <1>3, <2>1 DEF Positions
  <2>3. /\ Entered(s).side = "SELL" /\ Entered(s).entry = b
        /\ Entered(s).sl = b + d /\ Entered(s).tp = b - t
    BY <2>1
  <2>4. ~(a <= b - t) /\ ~(a >= b + d) /\ (b + d) - b <= Widest' /\ b - t <= b
    BY <1>1, <1>2, <1>3, <1>4, <1>5
  <2> QED
    BY <1>7, <2>2, <2>3, <2>4, NoneIsNoState DEF HitsTarget, HitsStop, a, b
<1> QED
  BY <1>6, <1>7

\* An evaluated tick: what it leaves of the strategy, and what an entry implies.
LEMMA Evaluated ==
  ASSUME TypeOK, Evaluate
  PROVE  /\ day_start' \in {day_start, balance} /\ day_known' \in BOOLEAN
         /\ last_mid' \in Prices /\ last_bid' \in Int \cup {None}
         /\ UNCHANGED <<consec_losses, balance, trades, over>>
         /\ \/ position' = None
            \/ /\ \E s \in {"BUY", "SELL"} : position' = Entered(s)
               /\ SpreadFits(tick, thresholds)
               /\ consec_losses < MaxConsecLosses
               /\ ~Breaches(balance)
<1>0. tick.mid \in Prices /\ tick.bid \in Int /\ day_known \in BOOLEAN
      /\ last_bid \in Int \cup {None}
  BY AtTick DEF Evaluate, TypeOK
<1>1. PICK signal \in Signals :
        /\ evaluate(tick, balance, thresholds, signal)
        /\ position' = IF signal = "HOLD" THEN None ELSE Entered(signal)
  BY DEF Evaluate
<1>2. /\ day_start' \in {day_start, balance} /\ day_known' \in BOOLEAN
      /\ last_mid' \in Prices /\ last_bid' \in Int \cup {None}
      /\ UNCHANGED consec_losses
  BY <1>0, <1>1 DEF evaluate, reset_day
<1>3. signal # "HOLD" => /\ SpreadFits(tick, thresholds)
                         /\ is_approved(balance)
  BY <1>1 DEF evaluate
<1> QED
  BY <1>1, <1>2, <1>3 DEF Evaluate, Signals, is_approved

-----------------------------------------------------------------------------
LEMMA InitIInv == Init => IInv
<1> SUFFICES ASSUME Init PROVE IInv
  OBVIOUS
<1>1. TypeOK
  <2>1. <<>> \in Seq(Prices) /\ Len(<<>>) <= 4
    OBVIOUS
  <2>2. /\ 0 \in 0 .. MaxConsecLosses /\ 0 \in 0 .. MaxTrades
        /\ StartBalance \in Int /\ 0 \in Int
    BY StrategyAssumption, BacktestAssumption
  <2>3. feed \in Seq(Prices) /\ Len(feed) <= 4
    BY <2>1 DEF Init
  <2> QED
    BY <2>2, <2>3 DEF Init, StrategyInit, TypeOK
<1>2. LossInv
  BY DEF Init, StrategyInit, LossInv, DrawdownContained
<1> QED
  BY <1>1, <1>2 DEF IInv

LEMMA CandleStep == IInv /\ NextCandle => IInv'
<1> SUFFICES ASSUME IInv, NextCandle PROVE IInv'
  OBVIOUS
<1>1. UNCHANGED <<strategy_vars, position, balance, trades, over>>
  BY DEF NextCandle
<1>2. feed' \in Seq(Prices) /\ Len(feed') <= 4
  BY DEF NextCandle, candle_to_ticks
<1>3. TypeOK'
  BY <1>1, <1>2 DEF IInv, TypeOK, strategy_vars
<1>4. LossInv'
  BY <1>1 DEF IInv, LossInv, DrawdownContained, Widest, strategy_vars
<1> QED
  BY <1>3, <1>4 DEF IInv

LEMMA HoldStep == IInv /\ Hold => IInv'
<1> SUFFICES ASSUME IInv, Hold PROVE IInv'
  OBVIOUS
<1>1. /\ TypeOK /\ position # None /\ cfg' = cfg /\ cfg' # None
      /\ feed' \in Seq(Prices) /\ Len(feed') <= 4
  BY AtTick DEF IInv, TypeOK, Hold
<1>2. TypeOK'
  BY <1>1 DEF TypeOK, Hold
<1>3. LossInv'
  BY <1>1 DEF IInv, LossInv, DrawdownContained, Widest, Hold
<1> QED
  BY <1>2, <1>3 DEF IInv

\* The loss of a close is at most the widest stop: the gate's margin covers it.
LEMMA CloseStep == IInv /\ Close => IInv'
<1> SUFFICES ASSUME IInv, Close PROVE IInv'
  OBVIOUS
<1>1. /\ TypeOK /\ NextTick /\ position \in Positions /\ cfg' = cfg /\ cfg' # None
      /\ feed' \in Seq(Prices) /\ Len(feed') <= 4
      /\ trades < MaxTrades /\ trades' = trades + 1 /\ position' = None
      /\ consec_losses < MaxConsecLosses
      /\ UNCHANGED <<last_mid, last_bid, day_start, day_known, over>>
  BY AtTick DEF IInv, LossInv, TypeOK, Close, NextTick, on_trade_close
<1>2. consec_losses' \in 0 .. MaxConsecLosses
  BY <1>1, StrategyAssumption DEF Close, on_trade_close, TypeOK
<1>3. Widest \in Nat /\ Widest' = Widest
  <2>1. cfg \in {build_strategy(p) : p \in Prices}
    BY <1>1 DEF TypeOK
  <2> QED
    BY <1>1, <2>1, Thresholds DEF Widest
<1>4. /\ position.side \in {"BUY", "SELL"} /\ position.entry \in Int
      /\ position.sl \in Int /\ position.tp \in Int
  BY <1>1 DEF Positions
<1>5. PICK exit \in {position.tp, position.sl} : balance' = balance + calc_pnl(position, exit)
  BY DEF Close
<1>6. calc_pnl(position, exit) \in Int /\ calc_pnl(position, exit) >= -Widest
  <2>1. /\ position.side = "BUY" => /\ position.entry - position.sl <= Widest
                                    /\ position.tp >= position.entry
        /\ position.side = "SELL" => /\ position.sl - position.entry <= Widest
                                     /\ position.tp <= position.entry
    BY <1>1, NoneIsNoState DEF IInv, LossInv
  <2> QED
    BY <1>3, <1>4, <2>1 DEF calc_pnl
<1>7. balance' \in Int /\ balance' >= balance - Widest
  BY <1>1, <1>3, <1>5, <1>6 DEF TypeOK
<1>8. TypeOK'
  BY <1>1, <1>2, <1>7, BacktestAssumption DEF TypeOK
<1>9. DrawdownContained'
  <2> SUFFICES ASSUME day_start > 0
               PROVE  (day_start - balance') * 100 < DailyDdPct * day_start + 100 * Widest
    BY <1>1, <1>3 DEF DrawdownContained, Widest
  <2>1. (day_start - balance) * 100 < DailyDdPct * day_start
    BY <1>1, NoneIsNoState DEF IInv, LossInv
  <2>2. day_start \in Int /\ balance \in Int /\ DailyDdPct * day_start \in Int
    BY <1>1, LimitPositive DEF TypeOK
  <2> QED
    BY <1>3, <1>7, <2>1, <2>2, Margin
<1>10. LossInv'
  BY <1>1, <1>9 DEF LossInv
<1> QED
  BY <1>8, <1>10 DEF IInv

LEMMA EvaluateStep == IInv /\ Evaluate => IInv'
<1> SUFFICES ASSUME IInv, Evaluate PROVE IInv'
  OBVIOUS
<1>1. /\ TypeOK /\ NextTick /\ position = None
      /\ UNCHANGED <<consec_losses, balance, trades, over>>
      /\ day_start' \in {day_start, balance} /\ day_start' \in Int
  BY Evaluated DEF IInv, TypeOK, Evaluate
<1>2. position' # None =>
        \E s \in {"BUY", "SELL"} :
          /\ position' = Entered(s)
          /\ SpreadFits(tick, thresholds)
          /\ consec_losses < MaxConsecLosses
          /\ ~Breaches(balance)
  BY <1>1, Evaluated
<1>3. position' \in Positions \cup {None}
  BY <1>1, <1>2, Bracket
<1>4. /\ cfg' \in {build_strategy(p) : p \in Prices} /\ cfg' # None
      /\ cfg # None => cfg' = cfg
      /\ feed' \in Seq(Prices) /\ Len(feed') <= 4
  BY <1>1, AtTick
<1>5. TypeOK'
  <2>1. last_mid' # None /\ last_mid' \in Prices /\ last_bid' \in Int \cup {None}
        /\ day_known' \in BOOLEAN
    BY <1>1, Evaluated, BacktestAssumption, NoneIsNoState
  <2> QED
    BY <1>1, <1>3, <1>4, <2>1 DEF TypeOK
<1>6. Widest' \in Nat /\ (cfg # None => Widest' = Widest)
  BY <1>4, Thresholds DEF Widest
<1>7. DrawdownContained'
  <2> SUFFICES ASSUME day_start' > 0
               PROVE  (day_start' - balance) * 100 < DailyDdPct * day_start' + 100 * Widest'
    BY <1>1 DEF DrawdownContained, Widest
  <2>1. DailyDdPct * day_start' \in Int /\ DailyDdPct * day_start' > 0
    BY <1>1, LimitPositive
  <2>2. CASE day_start' = balance
    BY <1>1, <1>6, <2>1, <2>2, Margin
  <2>3. CASE day_start' = day_start
    <3>1. cfg # None
      BY <2>3 DEF IInv, LossInv
    <3> QED
      BY <1>6, <2>3, <3>1 DEF IInv, LossInv, DrawdownContained, Widest
  <2> QED
    BY <1>1, <2>2, <2>3
<1>8. position' # None =>
        /\ consec_losses' < MaxConsecLosses
        /\ day_start' > 0 => (day_start' - balance') * 100 < DailyDdPct * day_start'
  <2>1. DailyDdPct * day_start' \in Int /\ (day_start' - balance) * 100 \in Int
    BY <1>1, StrategyAssumption DEF TypeOK
  <2> QED
    BY <1>1, <1>2, <2>1 DEF Breaches
<1>9. position' # None =>
        /\ position'.side = "BUY" => /\ position'.entry - position'.sl <= Widest'
                                     /\ position'.tp >= position'.entry
        /\ position'.side = "SELL" => /\ position'.sl - position'.entry <= Widest'
                                      /\ position'.tp <= position'.entry
  BY <1>1, <1>2, Bracket
<1> QED
  BY <1>4, <1>5, <1>7, <1>8, <1>9 DEF IInv, LossInv

LEMMA EndStep == IInv /\ EndOfData => IInv'
<1> SUFFICES ASSUME IInv, EndOfData PROVE IInv'
  OBVIOUS
<1>1. TypeOK'
  BY DEF IInv, TypeOK, EndOfData, strategy_vars
<1>2. LossInv'
  BY DEF IInv, LossInv, DrawdownContained, Widest, EndOfData, strategy_vars
<1> QED
  BY <1>1, <1>2 DEF IInv

LEMMA MidnightStep ==
  IInv /\ Midnight /\ UNCHANGED <<feed, position, balance, trades, over>> => IInv'
<1> SUFFICES ASSUME IInv, Midnight, UNCHANGED <<feed, position, balance, trades, over>>
             PROVE  IInv'
  OBVIOUS
<1>1. TypeOK'
  BY DEF IInv, TypeOK, Midnight
<1>2. LossInv'
  BY DEF IInv, LossInv, DrawdownContained, Widest, Midnight
<1> QED
  BY <1>1, <1>2 DEF IInv

LEMMA NextIInv == IInv /\ [Next]_vars => IInv'
<1> SUFFICES ASSUME IInv, [Next]_vars PROVE IInv'
  OBVIOUS
<1>1. CASE UNCHANGED vars
  BY <1>1 DEF vars, strategy_vars, IInv, TypeOK, LossInv, DrawdownContained, Widest
<1> QED
  BY <1>1, CandleStep, HoldStep, CloseStep, EvaluateStep, EndStep, MidnightStep
     DEF Next, process

-----------------------------------------------------------------------------
(***************************************************************************)
(* Types; in particular the losses in a row never pass their limit.        *)
(***************************************************************************)
THEOREM TypeCorrect == Spec => []TypeOK
<1>1. IInv => TypeOK
  BY DEF IInv
<1> QED
  BY InitIInv, NextIInv, <1>1, PTL DEF Spec

(***************************************************************************)
(* For any prices the day's loss exceeds its limit by less than one stop   *)
(* at its widest (strategy.py:96-111).                                     *)
(***************************************************************************)
THEOREM LossContained == Spec => []DrawdownContained
<1>1. IInv => DrawdownContained
  BY DEF IInv, LossInv
<1> QED
  BY InitIInv, NextIInv, <1>1, PTL DEF Spec

(***************************************************************************)
(* An entry's tick touches neither its stop nor its target, however far    *)
(* the price is from the first one: what passes the spread gate is below   *)
(* the stop's distance because 0.08% is below 0.25% of the same price.     *)
(***************************************************************************)
THEOREM BracketClear == Spec => BracketSound
<1> DEFINE Clear == position = None /\ position' # None
                      => ~HitsTarget(tick, position') /\ ~HitsStop(tick, position')
<1>1. ASSUME IInv, Next PROVE Clear
  <2> SUFFICES ASSUME position = None, position' # None
               PROVE  ~HitsTarget(tick, position') /\ ~HitsStop(tick, position')
    OBVIOUS
  <2>1. TypeOK /\ Evaluate /\ NextTick
    BY <1>1 DEF IInv, Next, process, NextCandle, Hold, Close, EndOfData, Evaluate
  <2>2. /\ \E s \in {"BUY", "SELL"} : position' = Entered(s)
        /\ SpreadFits(tick, thresholds)
    BY <2>1, Evaluated
  <2> QED
    BY <2>1, <2>2, Bracket
<1>2. IInv /\ [Next]_vars => [Clear]_vars
  BY <1>1
<1>3. Spec => [][Clear]_vars
  BY InitIInv, NextIInv, <1>2, PTL DEF Spec
<1> QED
  BY <1>3 DEF BracketSound

-----------------------------------------------------------------------------
LEMMA StepSimulates == IInv /\ [Next]_vars => [Simulated!Next]_(Simulated!vars)
<1> SUFFICES ASSUME IInv, [Next]_vars PROVE [Simulated!Next]_(Simulated!vars)
  OBVIOUS
<1>1. CASE UNCHANGED <<position, consec_losses>>
  BY <1>1 DEF Simulated!vars
<1>2. CASE Close
  <2>1. position # None /\ position' = None
        /\ \E won \in BOOLEAN : consec_losses' = IF won THEN 0 ELSE consec_losses + 1
    BY <1>2 DEF Close, on_trade_close, HitsTarget
  <2> QED
    BY <2>1 DEF Simulated!Next, Simulated!Close
<1>3. CASE Evaluate
  <2>1. TypeOK /\ NextTick /\ position = None /\ consec_losses' = consec_losses
    BY <1>3, Evaluated DEF IInv, Evaluate
  <2>2. CASE position' = None
    BY <1>1, <2>1, <2>2
  <2>3. CASE position' # None
    <3>1. PICK s \in {"BUY", "SELL"} : position' = Entered(s)
      BY <1>3, <2>1, <2>3, Evaluated
    <3>2. position'.side = s /\ consec_losses < MaxConsecLosses
      BY <1>3, <2>1, <2>3, <3>1, Evaluated, Bracket
    <3> QED
      BY <2>1, <2>3, <3>2 DEF Simulated!Next, Simulated!Enter
  <2> QED
    BY <2>2, <2>3
<1>4. CASE EndOfData
  BY <1>1, <1>4 DEF EndOfData, strategy_vars, Simulated!Next, Simulated!Release
<1> QED
  BY <1>1, <1>2, <1>3, <1>4 DEF Next, process, NextCandle, Hold, Midnight, vars, strategy_vars

(***************************************************************************)
(* The simulated slot implements Slot, as the live one does                *)
(* (TraderRefinement), without its restarts (engine.py:83-129).            *)
(***************************************************************************)
THEOREM SimulationKeepsSlot == Spec => SlotSimulated
<1>1. Init => Simulated!Init
  BY DEF Init, StrategyInit, Simulated!Init
<1> QED
  BY InitIInv, NextIInv, StepSimulates, <1>1, PTL DEF Spec, SlotSimulated, Simulated!Spec

=============================================================================
