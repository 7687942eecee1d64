------------------------------ MODULE RiskGate ------------------------------
(***************************************************************************)
(* The daily-drawdown gate as the main loop feeds it: the balance a thread *)
(* refreshes every so many ticks (main.py:165-171, 330-331), the day's     *)
(* opening balance RiskState takes from it (strategy.py:96-111), and the   *)
(* entries the gate lets through (strategy.py:219-274, main.py:348-359).   *)
(*                                                                         *)
(* One symbol's thread, on an account that trades nothing else.  What it   *)
(* fetches is Binance's availableBalance (execution.rs:188), which an order*)
(* or a position lowers by its margin and what it has lost so far.  Orders *)
(* and positions can go without the thread, and stay without it: a reply is*)
(* lost, a fill is partial, a position is liquidated or given up.  How each*)
(* comes about is Trader's; here is what it does to the balance.           *)
(***************************************************************************)
EXTENDS Integers

CONSTANTS
  RefreshEvery,      \* BALANCE_REFRESH_EVERY
  DailyDdPct,        \* daily_dd_pct
  MaxConsecLosses,   \* max_consec_losses
  InitialBalance,    \* the account when the program starts
  Loss, Gain,        \* what a stop costs and a target brings
  MaxBalance,        \* bound: the account
  MaxDay,            \* bound: days
  MaxMissed,         \* bound: refreshes that fail in a row
  MaxStrays,         \* bound: strays at a time
  MaxElsewhere       \* bound: what is lost elsewhere between good refreshes

ASSUME RiskAssumption ==
  /\ RefreshEvery \in Nat \ {0}
  /\ DailyDdPct \in 1 .. 100
  /\ MaxConsecLosses \in Nat \ {0}
  /\ MaxBalance \in Nat /\ InitialBalance \in 0 .. MaxBalance
  /\ Loss \in Nat \ {0} /\ Gain \in Nat \ {0}
  /\ MaxDay \in Nat \ {0} /\ MaxMissed \in Nat /\ MaxStrays \in Nat /\ MaxElsewhere \in Nat

VARIABLES
  day,                 \* today, by the local clock
  balance,             \* the account's, with nothing tied up
  opening,             \* history: balance when the day began (the first: the program)
  ticks,               \* SymbolState.tick_count, modulo RefreshEvery
  last_balance,        \* SymbolState.last_balance
  slot,                \* SymbolState.pending, position: "flat", "order", "position"; "gone":
                       \* the thread has one of the two, the account no longer
  strays,              \* orders and positions on the account that the thread has lost sight of
  last_day,            \* RiskState._last_day; 0 for ""
  day_start_balance,   \* RiskState.day_start_balance
  consec_losses,       \* RiskState.consec_losses
  missed,              \* history: refreshes that failed since the last good one
  elsewhere            \* history: lost since then other than at the thread's stops

vars == <<day, balance, opening, ticks, last_balance, slot, strays, last_day,
          day_start_balance, consec_losses, missed, elsewhere>>

TypeOK ==
  /\ day \in 1 .. MaxDay
  /\ balance \in 0 .. MaxBalance
  /\ opening \in 0 .. MaxBalance
  /\ ticks \in 0 .. RefreshEvery - 1
  /\ last_balance \in Nat
  /\ slot \in {"flat", "order", "position", "gone"}
  /\ strays \in 0 .. MaxStrays
  /\ last_day \in 0 .. MaxDay
  /\ day_start_balance \in Nat
  /\ consec_losses \in 0 .. MaxConsecLosses
  /\ missed \in 0 .. MaxMissed
  /\ elsewhere \in 0 .. MaxElsewhere

Started ==
  /\ ticks = 0
  /\ last_balance = 0
  /\ slot = "flat"
  /\ last_day = 0
  /\ day_start_balance = 0
  /\ consec_losses = 0
  /\ missed = 0
  /\ elsewhere = 0

Init ==
  /\ day = 1
  /\ balance = InitialBalance
  /\ opening = InitialBalance
  /\ strays = 0
  /\ Started

-----------------------------------------------------------------------------
Tracked == slot \in {"order", "position"}

\* What Binance may report: no more than there is (margin exceeds open profit).
Available == IF Tracked \/ strays > 0 THEN 0 .. balance ELSE {balance}

\* Mutant: the balance is refreshed only where an entry is considered.
RefreshWhenFlat == ticks' = 0 /\ slot = "flat"

\* The tick _refresh_balance is due.
RefreshDue == ticks' = 0

refresh_balance ==
  /\ ticks' = (ticks + 1) % RefreshEvery
  /\ \/ ~RefreshDue /\ UNCHANGED <<last_balance, missed>>
     \/ RefreshDue /\ last_balance' \in Available /\ missed' = 0
     \/ RefreshDue /\ missed < MaxMissed /\ missed' = missed + 1 /\ UNCHANGED last_balance

\* amount is lost elsewhere, on a tick; a good refresh comes before it.
LostElsewhere(amount) ==
  /\ elsewhere' = (IF RefreshDue /\ missed' = 0 THEN 0 ELSE elsewhere) + amount
  /\ elsewhere' <= MaxElsewhere

\* Something stays on the account that the thread does not know of: the rest of
\* a partial fill, an order or a close's remainder (Trader says how).
MayLeaveStray == strays' \in {strays, strays + 1} /\ strays' <= MaxStrays

\* reset_day(last_balance)
reset_day ==
  /\ last_day' = day
  /\ day_start_balance' = IF last_day # day THEN last_balance' ELSE day_start_balance

\* loss out of opened is daily_dd_pct or more
Breaches(opened, loss) == loss * 100 >= DailyDdPct * opened

\* Mutant: the loss counter is not asked.
ApprovedOnBalance ==
  day_start_balance' > 0 => ~Breaches(day_start_balance', day_start_balance' - last_balance')

\* is_approved, after reset_day; the slot is flat.
is_approved ==
  /\ consec_losses < MaxConsecLosses
  /\ day_start_balance' > 0 => ~Breaches(day_start_balance', day_start_balance' - last_balance')

-----------------------------------------------------------------------------
\* A tick that leaves the slot occupied: nothing is due or hit, or the call fails.
Hold ==
  /\ slot # "flat"
  /\ refresh_balance /\ LostElsewhere(0)
  /\ UNCHANGED <<day, balance, opening, slot, strays, last_day, day_start_balance,
                 consec_losses>>

\* _poll_pending: the order has filled, or is dead, wholly or but for a part.
OrderPolled ==
  /\ slot = "order"
  /\ refresh_balance /\ LostElsewhere(0)
  /\ slot' \in {"position", "flat"}
  /\ MayLeaveStray
  /\ UNCHANGED <<day, balance, opening, last_day, day_start_balance, consec_losses>>

\* The market close executes, on a stray where the tracked position is gone.
\* Averaged with a stray, or in part, it brings or costs anything; what it costs
\* beyond a stop was lost on the stray.
MarketClose(outcome) ==
  /\ slot = "position" \/ (slot = "gone" /\ strays > 0)
  /\ refresh_balance
  /\ IF slot = "position" THEN MayLeaveStray ELSE strays' \in {strays - 1, strays}
  /\ balance' \in 0 .. MaxBalance
  /\ strays = 0 /\ strays' = 0
       => balance' = IF outcome = "TP" THEN balance + Gain ELSE balance - Loss
  /\ LET own == IF slot = "position" THEN Loss ELSE 0
     IN  LostElsewhere(IF balance - balance' > own THEN balance - balance' - own ELSE 0)
  /\ UNCHANGED <<day, opening, last_day, day_start_balance>>

Close(outcome) ==
  /\ MarketClose(outcome)
  /\ slot' = "flat"
  /\ consec_losses' = IF outcome = "TP" THEN 0 ELSE consec_losses + 1

\* The reply is lost: tried again, or given up on; on_trade_close is not told.
CloseUnanswered(outcome) ==
  /\ MarketClose(outcome)
  /\ slot' \in {"gone", "flat"}
  /\ UNCHANGED consec_losses

\* No position on the exchange, or a pending order that is dead.
FoundGone ==
  /\ slot = "gone"
  /\ refresh_balance /\ LostElsewhere(0)
  /\ slot' = "flat"
  /\ UNCHANGED <<day, balance, opening, strays, last_day, day_start_balance, consec_losses>>

\* The last close attempt fails: the state is cleared, the position stays.
GiveUp ==
  /\ slot = "position" \/ (slot = "gone" /\ strays > 0)
  /\ refresh_balance /\ LostElsewhere(0)
  /\ slot' = "flat"
  /\ strays' = IF slot = "position" THEN strays + 1 ELSE strays
  /\ strays' <= MaxStrays
  /\ UNCHANGED <<day, balance, opening, last_day, day_start_balance, consec_losses>>

\* The warm-up or the spread filter holds the tick back before the gate is asked.
HeldBack ==
  /\ slot = "flat"
  /\ refresh_balance /\ LostElsewhere(0)
  /\ UNCHANGED <<day, balance, opening, slot, strays, last_day, day_start_balance,
                 consec_losses>>

\* The gate refuses, or approves and the gates after it give no signal (or the
\* order is not accepted).
NoEntry ==
  /\ slot = "flat"
  /\ refresh_balance /\ LostElsewhere(0)
  /\ reset_day
  /\ UNCHANGED <<day, balance, opening, slot, strays, consec_losses>>

\* An entry the exchange accepts; if the reply is lost the order is a stray.
Enter ==
  /\ slot = "flat"
  /\ refresh_balance /\ LostElsewhere(0)
  /\ reset_day
  /\ is_approved
  /\ slot' \in {"order", "position", "flat"}
  /\ MayLeaveStray
  /\ slot' = "flat" => strays' = strays + 1
  /\ UNCHANGED <<day, balance, opening, consec_losses>>

\* Between ticks a position goes, or a stray, or part of it: liquidated, closed by
\* hand, filled and netted; whatever that brings or costs.
Elsewhere ==
  /\ \/ Tracked /\ slot' = "gone" /\ UNCHANGED strays
     \/ strays > 0 /\ strays' \in {strays - 1, strays} /\ UNCHANGED slot
  /\ balance' \in 0 .. MaxBalance
  /\ elsewhere' = elsewhere + (IF balance' < balance THEN balance - balance' ELSE 0)
  /\ elsewhere' <= MaxElsewhere
  /\ UNCHANGED <<day, opening, ticks, last_balance, last_day, day_start_balance,
                 consec_losses, missed>>

Midnight ==
  /\ day < MaxDay
  /\ day' = day + 1
  /\ opening' = balance
  /\ UNCHANGED <<balance, ticks, last_balance, slot, strays, last_day, day_start_balance,
                 consec_losses, missed, elsewhere>>

\* The program is started again and asks for nothing that it left open.
Restart ==
  /\ ticks' = 0 /\ last_balance' = 0 /\ last_day' = 0 /\ slot' = "flat"
  /\ day_start_balance' = 0 /\ consec_losses' = 0 /\ missed' = 0 /\ elsewhere' = 0
  /\ strays' = strays + (IF Tracked THEN 1 ELSE 0)
  /\ strays' <= MaxStrays
  /\ UNCHANGED <<day, balance, opening>>

Next ==
  \/ Hold \/ OrderPolled
  \/ \E outcome \in {"TP", "SL"} : Close(outcome) \/ CloseUnanswered(outcome)
  \/ FoundGone \/ GiveUp
  \/ HeldBack \/ NoEntry \/ Enter
  \/ Elsewhere \/ Midnight \/ Restart

Spec == Init /\ [][Next]_vars

-----------------------------------------------------------------------------
\* An entry is placed: the slot takes it, or it is a stray from the start.
Entering == slot = "flat" /\ (slot' # "flat" \/ strays' > strays)

\* Closes that fit between the last good refresh and an entry.
ClosesUnseen == ((missed' + 1) * RefreshEvery) \div 2

(***************************************************************************)
(* Where the day's opening balance is known, the gate overshoots by little:*)
(* an entry is placed only while the loss since is below daily_dd_pct but  *)
(* for what happened since the balance was last fetched.  That is one stop *)
(* for every two ticks at most, told to the thread or not, and what was    *)
(* lost elsewhere: in a liquidation, on a position given up or forgotten   *)
(* (strategy.py:102-111, main.py:220-242, 330-353).                        *)
(***************************************************************************)
OvershootBounded ==
  [][Entering /\ day_start_balance' > 0 =>
       ~Breaches(day_start_balance',
                 day_start_balance' - balance - Loss * ClosesUnseen - elsewhere')]_vars

(***************************************************************************)
(* "Risk gate: daily drawdown" (strategy.py:10): no entry is placed when   *)
(* the balance just fetched shows the day's loss at daily_dd_pct or more.  *)
(***************************************************************************)
DailyDrawdownHalts ==
  [][Entering /\ RefreshDue /\ missed' = 0 => ~Breaches(opening, opening - balance)]_vars

=============================================================================
