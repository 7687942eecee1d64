--------------------------- MODULE RiskGateProofs ---------------------------
(***************************************************************************)
(* Proofs about the drawdown gate.  The balance the gate reads is stale:   *)
(* Stale bounds by how much, counting the ticks since the last good        *)
(* refresh, of which every stop hit since took two (but for one that fell  *)
(* in the tick of the refresh itself), told to the thread or not, and what *)
(* was lost elsewhere.  Where the balance is fresh, what the gate promises *)
(* rests on the day's opening balance alone.                               *)
(***************************************************************************)
EXTENDS RiskGate, TLAPS

\* Ticks since the balance was last fetched.
Elapsed == missed * RefreshEvery + ticks

\* The balance held is above the account's by no more than n stops and what
\* was lost elsewhere.
StaleBy(n) ==
  /\ last_balance <= balance + Loss * n + elsewhere
  /\ 2 * n <= Elapsed + 2
  /\ Tracked => 2 * n <= Elapsed + 1

Stale == \E n \in Nat : StaleBy(n)

\* An occupied slot was admitted below the loss limit.
Admitted == slot # "flat" => consec_losses < MaxConsecLosses

GInv == TypeOK /\ Admitted /\ Stale

-----------------------------------------------------------------------------
LEMMA TickWraps ==
  ASSUME TypeOK, refresh_balance
  PROVE  /\ ticks' \in 0 .. RefreshEvery - 1
         /\ \/ ticks' = ticks + 1 /\ ~RefreshDue
            \/ ticks' = 0 /\ ticks + 1 = RefreshEvery /\ RefreshDue
<1>1. /\ ticks \in Nat /\ ticks + 1 <= RefreshEvery /\ RefreshEvery \in Nat \ {0}
      /\ ticks' = (ticks + 1) % RefreshEvery
  BY RiskAssumption DEF TypeOK, refresh_balance
<1>2. CASE ticks + 1 < RefreshEvery
  BY <1>1, <1>2 DEF RefreshDue
<1>3. CASE ticks + 1 = RefreshEvery
  <2>1. \A r \in Nat \ {0} : r % r = 0
    OBVIOUS
  <2> QED
    BY <1>1, <1>3, <2>1 DEF RefreshDue
<1> QED
  BY <1>1, <1>2, <1>3

\* A refresh brings no more than the account's balance, or a tick passes without.
LEMMA RefreshOrLater ==
  ASSUME TypeOK, refresh_balance
  PROVE  /\ last_balance' \in Nat /\ missed' \in 0 .. MaxMissed
         /\ \/ /\ last_balance' \in Available /\ last_balance' <= balance
               /\ Elapsed' = 0 /\ RefreshDue /\ missed' = 0
            \/ /\ last_balance' = last_balance
               /\ Elapsed' = Elapsed + 1 /\ ~(RefreshDue /\ missed' = 0)
<1>1. /\ RefreshEvery \in Nat \ {0} /\ MaxMissed \in Nat
      /\ missed \in 0 .. MaxMissed /\ ticks \in Nat /\ last_balance \in Nat /\ balance \in Nat
  BY RiskAssumption DEF TypeOK
<1>2. CASE ~RefreshDue /\ UNCHANGED <<last_balance, missed>>
  BY <1>1, <1>2, TickWraps DEF Elapsed
<1>3. CASE RefreshDue /\ last_balance' \in Available /\ missed' = 0
  <2>1. \A a \in Available : a \in Nat /\ a <= balance
    BY <1>1 DEF Available
  <2>2. ticks' = 0
    BY <1>3 DEF RefreshDue
  <2> QED
    BY <1>1, <1>3, <2>1, <2>2 DEF Elapsed
<1>4. CASE RefreshDue /\ missed < MaxMissed /\ missed' = missed + 1 /\ UNCHANGED last_balance
  <2>1. ticks' = 0 /\ ticks + 1 = RefreshEvery
    BY <1>1, <1>4, TickWraps DEF RefreshDue
  <2>2. (missed + 1) * RefreshEvery = missed * RefreshEvery + RefreshEvery
    BY <1>1
  <2> QED
    BY <1>1, <1>4, <2>1, <2>2 DEF Elapsed
<1> QED
  BY <1>2, <1>3, <1>4 DEF refresh_balance

LEMMA ElapsedType == ASSUME TypeOK PROVE Elapsed \in Nat
BY RiskAssumption DEF TypeOK, Elapsed

-----------------------------------------------------------------------------
\* A tick keeps the bound, if a stop is hit only with the position tracked before
\* it and not after it.
LEMMA StaleTick ==
  ASSUME GInv, refresh_balance, NEW own \in {0, 1}, NEW amount \in Nat, LostElsewhere(amount),
         NEW b \in Nat, balance' = b, balance <= b + Loss * own + amount,
         own = 1 => Tracked /\ ~Tracked'
  PROVE  Stale'
<1>1. PICK n \in Nat : StaleBy(n)
  BY DEF GInv, Stale
<1>2. /\ Loss \in Nat /\ balance \in Nat /\ last_balance \in Nat /\ Elapsed \in Nat
      /\ elsewhere \in Nat /\ Loss * n \in Nat /\ Loss * own \in Nat
      /\ Loss * (n + own) = Loss * n + Loss * own /\ TypeOK
  BY ElapsedType, RiskAssumption DEF GInv, TypeOK
<1>3. CASE /\ last_balance' <= balance /\ last_balance' \in Nat
           /\ Elapsed' = 0 /\ RefreshDue /\ missed' = 0
  <2>1. elsewhere' = amount
    BY <1>3 DEF LostElsewhere
  <2>2. last_balance' <= b + Loss * own + amount
    BY <1>2, <1>3
  <2>3. StaleBy(own)'
    BY <1>3, <2>1, <2>2 DEF StaleBy
  <2> QED
    BY <2>3 DEF Stale, StaleBy
<1>4. CASE last_balance' = last_balance /\ Elapsed' = Elapsed + 1 /\ ~(RefreshDue /\ missed' = 0)
  <2>1. elsewhere' = elsewhere + amount
    BY <1>4 DEF LostElsewhere
  <2>2. last_balance <= b + Loss * (n + own) + (elsewhere + amount)
    <3>1. \A j, k \in Nat : last_balance <= balance + j + elsewhere /\ balance <= b + k + amount
                            => last_balance <= b + (j + k) + (elsewhere + amount)
      BY <1>2
    <3> QED
      BY <1>1, <1>2, <3>1 DEF StaleBy
  <2>3. last_balance' <= balance' + Loss * (n + own) + elsewhere'
    BY <1>4, <2>1, <2>2
  <2>4. /\ 2 * (n + own) <= Elapsed' + 2
        /\ Tracked' => 2 * (n + own) <= Elapsed' + 1
    BY <1>1, <1>2, <1>4 DEF StaleBy
  <2>5. PICK m \in Nat : m = n + own
    OBVIOUS
  <2>6. StaleBy(m)'
    BY <2>3, <2>4, <2>5 DEF StaleBy
  <2> QED
    BY <2>6 DEF Stale, StaleBy
<1> QED
  BY <1>2, <1>3, <1>4, RefreshOrLater

\* On a tick without a loss only the fetched balance and its history move.
LEMMA QuietTick ==
  ASSUME GInv, refresh_balance, LostElsewhere(0), balance' = balance
  PROVE  /\ Stale'
         /\ ticks' \in 0 .. RefreshEvery - 1 /\ last_balance' \in Nat
         /\ missed' \in 0 .. MaxMissed /\ elsewhere' \in 0 .. MaxElsewhere
<1>1. /\ balance \in Nat /\ elsewhere \in 0 .. MaxElsewhere /\ MaxElsewhere \in Nat
      /\ TypeOK /\ Loss * 0 = 0
  BY RiskAssumption DEF GInv, TypeOK
<1>2. balance <= balance + Loss * 0 + 0
  BY <1>1
<1>3. Stale'
  BY <1>1, <1>2, StaleTick
<1> QED
  BY <1>1, <1>3, TickWraps, RefreshOrLater DEF LostElsewhere

\* A market close costs the account a stop, and the rest elsewhere.
LEMMA CloseTick ==
  ASSUME GInv, NEW outcome \in {"TP", "SL"}, MarketClose(outcome), slot' \in {"gone", "flat"}
  PROVE  /\ Stale'
         /\ ticks' \in 0 .. RefreshEvery - 1 /\ last_balance' \in Nat
         /\ missed' \in 0 .. MaxMissed /\ elsewhere' \in 0 .. MaxElsewhere
         /\ strays' \in 0 .. MaxStrays
<1> DEFINE own == IF slot = "position" THEN Loss ELSE 0
           amount == IF balance - balance' > own THEN balance - balance' - own ELSE 0
<1>1. /\ balance \in Nat /\ elsewhere \in 0 .. MaxElsewhere /\ TypeOK /\ Loss \in Nat
      /\ Loss * 0 = 0 /\ Loss * 1 = Loss /\ MaxElsewhere \in Nat
      /\ strays \in 0 .. MaxStrays /\ MaxStrays \in Nat
  BY RiskAssumption DEF GInv, TypeOK
<1>2. refresh_balance /\ balance' \in 0 .. MaxBalance /\ LostElsewhere(amount)
  BY DEF MarketClose
<1>3. PICK b \in Nat : balance' = b
  BY <1>2, RiskAssumption
<1>4. PICK k \in {0, 1} : Loss * k = own /\ (k = 1 => slot = "position")
  BY <1>1
<1>5. PICK a \in Nat : a = amount /\ balance <= b + own + a
  <2>1. own \in Nat
    BY <1>1
  <2> HIDE DEF own
  <2>2. CASE balance - b > own
    <3>1. balance - b - own \in Nat /\ balance - b - own = amount
      BY <1>1, <1>3, <2>1, <2>2
    <3> HIDE DEF amount
    <3>2. PICK a \in Nat : a = balance - b - own
      BY <3>1
    <3> QED
      BY <1>1, <2>1, <3>1, <3>2
  <2>3. CASE ~(balance - b > own)
    <3>1. amount = 0
      BY <1>3, <2>3
    <3>2. balance <= b + own + 0
      BY <1>1, <2>1, <2>3
    <3> HIDE DEF amount
    <3> QED
      BY <3>1, <3>2
  <2> QED
    BY <2>2, <2>3
<1>6. balance <= b + Loss * k + a
  BY <1>4, <1>5
<1>7. k = 1 => Tracked /\ ~Tracked'
  BY <1>4 DEF Tracked
<1>8. LostElsewhere(a)
  BY <1>2, <1>5
<1> HIDE DEF own, amount
<1>9. Stale'
  BY <1>2, <1>3, <1>6, <1>7, <1>8, StaleTick
<1>10. elsewhere' \in 0 .. MaxElsewhere
  BY <1>1, <1>8 DEF LostElsewhere
<1>11. strays' \in 0 .. MaxStrays
  BY <1>1 DEF MarketClose, MayLeaveStray
<1> QED
  BY <1>1, <1>2, <1>9, <1>10, <1>11, TickWraps, RefreshOrLater

\* What goes elsewhere is added to what the held balance may be above the account's.
LEMMA StaleElsewhere ==
  ASSUME GInv, Elsewhere
  PROVE  Stale' /\ elsewhere' \in 0 .. MaxElsewhere
<1>1. PICK n \in Nat : StaleBy(n)
  BY DEF GInv, Stale
<1>2. /\ Loss * n \in Nat /\ balance \in Nat /\ last_balance \in Nat /\ Elapsed \in Nat
      /\ elsewhere \in Nat /\ MaxElsewhere \in Nat
  BY ElapsedType, RiskAssumption DEF GInv, TypeOK
<1>3. PICK b \in Nat : balance' = b
  BY RiskAssumption DEF Elsewhere
<1>4. PICK a \in Nat : elsewhere' = elsewhere + a /\ balance <= b + a
  <2>1. CASE b < balance
    <3>1. /\ balance - b \in Nat /\ balance <= b + (balance - b)
          /\ elsewhere' = elsewhere + (balance - b)
      BY <1>2, <1>3, <2>1 DEF Elsewhere
    <3> QED
      BY <3>1
  <2>2. CASE ~(b < balance)
    <3>1. elsewhere' = elsewhere + 0 /\ balance <= b + 0
      BY <1>2, <1>3, <2>2 DEF Elsewhere
    <3> QED
      BY <3>1
  <2> QED
    BY <2>1, <2>2
<1>5. last_balance <= b + Loss * n + (elsewhere + a)
  <2>1. \A j \in Nat : last_balance <= balance + j + elsewhere
                       => last_balance <= b + j + (elsewhere + a)
    BY <1>2, <1>4
  <2> QED
    BY <1>1, <1>2, <2>1 DEF StaleBy
<1>6. /\ last_balance' = last_balance /\ Elapsed' = Elapsed
      /\ Tracked' => Tracked
  BY DEF Elsewhere, Elapsed, Tracked
<1>7. StaleBy(n)'
  BY <1>1, <1>3, <1>4, <1>5, <1>6 DEF StaleBy
<1>8. Stale'
  BY <1>7 DEF Stale, StaleBy
<1>9. elsewhere' \in Nat /\ elsewhere' <= MaxElsewhere
  <2>1. elsewhere' <= MaxElsewhere
    BY DEF Elsewhere
  <2> QED
    BY <1>2, <1>4, <2>1
<1> QED
  BY <1>2, <1>8, <1>9

-----------------------------------------------------------------------------
LEMMA InitGInv == Init => GInv
<1> SUFFICES ASSUME Init PROVE GInv
  OBVIOUS
<1>1. TypeOK /\ Admitted
  BY RiskAssumption DEF Init, Started, TypeOK, Admitted
<1>2. StaleBy(0)
  BY RiskAssumption DEF Init, Started, StaleBy, Elapsed
<1> QED
  BY <1>1, <1>2 DEF GInv, Stale

LEMMA NextGInv == GInv /\ [Next]_vars => GInv'
<1> SUFFICES ASSUME GInv, [Next]_vars PROVE GInv'
  OBVIOUS
<1>0. TypeOK /\ Admitted /\ MaxStrays \in Nat /\ strays \in 0 .. MaxStrays
  BY RiskAssumption DEF GInv, TypeOK
<1>1. CASE Hold \/ HeldBack \/ FoundGone \/ GiveUp \/ OrderPolled
  <2>1. /\ refresh_balance /\ LostElsewhere(0)
        /\ UNCHANGED <<day, balance, opening, last_day, day_start_balance, consec_losses>>
    BY <1>1 DEF Hold, HeldBack, FoundGone, GiveUp, OrderPolled
  <2>2. /\ strays' \in 0 .. MaxStrays /\ slot' \in {slot, "position", "flat"}
        /\ slot' # "flat" => slot # "flat"
    BY <1>0, <1>1 DEF Hold, HeldBack, FoundGone, GiveUp, OrderPolled, MayLeaveStray
  <2>3. TypeOK'
    BY <1>0, <2>1, <2>2, QuietTick DEF TypeOK
  <2>4. Admitted'
    BY <1>0, <2>1, <2>2 DEF Admitted
  <2> QED
    BY <2>1, <2>3, <2>4, QuietTick DEF GInv
<1>2. ASSUME NEW outcome \in {"TP", "SL"}, Close(outcome) \/ CloseUnanswered(outcome)
      PROVE  GInv'
  <2>1. /\ MarketClose(outcome) /\ slot # "flat" /\ slot' \in {"gone", "flat"}
        /\ balance' \in 0 .. MaxBalance
        /\ UNCHANGED <<day, opening, last_day, day_start_balance>>
    BY <1>2 DEF Close, CloseUnanswered, MarketClose
  <2>2. consec_losses' \in 0 .. MaxConsecLosses /\ Admitted'
    BY <1>0, <1>2, <2>1, RiskAssumption DEF Close, CloseUnanswered, TypeOK, Admitted
  <2>3. TypeOK'
    BY <1>0, <2>1, <2>2, CloseTick DEF TypeOK
  <2> QED
    BY <2>1, <2>2, <2>3, CloseTick DEF GInv
<1>3. CASE NoEntry \/ Enter
  <2>1. /\ refresh_balance /\ LostElsewhere(0) /\ reset_day /\ slot = "flat"
        /\ UNCHANGED <<day, balance, opening, consec_losses>>
        /\ strays' \in 0 .. MaxStrays
        /\ \/ slot' = "flat"
           \/ slot' \in {"order", "position"} /\ consec_losses < MaxConsecLosses
    BY <1>0, <1>3 DEF NoEntry, Enter, is_approved, MayLeaveStray
  <2>2. last_day' \in 0 .. MaxDay /\ day_start_balance' \in Nat
    BY <1>0, <2>1, QuietTick, RiskAssumption DEF reset_day, TypeOK
  <2>3. TypeOK' /\ Admitted'
    BY <1>0, <2>1, <2>2, QuietTick DEF TypeOK, Admitted
  <2> QED
    BY <2>1, <2>3, QuietTick DEF GInv
<1>4. CASE Elsewhere
  <2>1. /\ slot' \in {slot, "gone"} /\ (slot' # "flat" => slot # "flat")
        /\ strays' \in {strays - 1, strays} /\ (strays' = strays - 1 => strays > 0)
        /\ balance' \in 0 .. MaxBalance
        /\ UNCHANGED <<day, opening, ticks, last_balance, last_day, day_start_balance,
                       consec_losses, missed>>
    BY <1>0, <1>4 DEF Elsewhere, Tracked
  <2>2. strays' \in 0 .. MaxStrays
    BY <1>0, <2>1
  <2>3. TypeOK' /\ Admitted'
    BY <1>0, <1>4, <2>1, <2>2, StaleElsewhere DEF TypeOK, Admitted
  <2> QED
    BY <1>4, <2>3, StaleElsewhere DEF GInv
<1>5. CASE Midnight
  <2>1. TypeOK' /\ Admitted'
    BY <1>0, <1>5, RiskAssumption DEF Midnight, TypeOK, Admitted
  <2>2. Stale'
    BY <1>5 DEF Midnight, GInv, Stale, StaleBy, Elapsed, Tracked
  <2> QED
    BY <2>1, <2>2 DEF GInv
<1>6. CASE Restart
  <2>1. TypeOK' /\ Admitted'
    BY <1>0, <1>6, RiskAssumption DEF Restart, TypeOK, Admitted
  <2>2. StaleBy(0)'
    BY <1>0, <1>6, RiskAssumption DEF Restart, TypeOK, StaleBy, Elapsed, Tracked
  <2> QED
    BY <2>1, <2>2 DEF GInv, Stale, StaleBy
<1>7. CASE UNCHANGED vars
  BY <1>7 DEF vars, GInv, TypeOK, Admitted, Stale, StaleBy, Elapsed, Tracked
<1> QED
  BY <1>1, <1>2, <1>3, <1>4, <1>5, <1>6, <1>7 DEF Next

(***************************************************************************)
(* Type correctness: balances stay natural numbers, whatever is fetched    *)
(* while margin is tied up, and the losses stay within their limit         *)
(* (main.py:165-171, strategy.py:96-117).                                  *)
(***************************************************************************)
THEOREM GateTypeCorrect == Spec => []TypeOK
<1>1. GInv => TypeOK
  BY DEF GInv
<1> QED
  BY InitGInv, NextGInv, <1>1, PTL DEF Spec

-----------------------------------------------------------------------------
LEMMA LessIsNoBreach ==
  ASSUME NEW opened \in Nat, NEW l \in Int, NEW m \in Int, m <= l, ~Breaches(opened, l)
  PROVE  ~Breaches(opened, m)
<1>1. DailyDdPct * opened \in Int
  BY RiskAssumption
<1> QED
  BY <1>1 DEF Breaches

\* What an entry does not see of the account is ClosesUnseen stops at most, and
\* what was lost elsewhere.
LEMMA UnseenAtEntry ==
  ASSUME GInv, Enter
  PROVE  /\ last_balance' <= balance + Loss * ClosesUnseen + elsewhere'
         /\ Loss * ClosesUnseen \in Nat /\ elsewhere' \in Nat
<1>1. /\ refresh_balance /\ LostElsewhere(0) /\ slot = "flat" /\ balance' = balance
  BY DEF Enter
<1>2. /\ ticks' \in 0 .. RefreshEvery - 1 /\ missed' \in 0 .. MaxMissed
      /\ RefreshEvery \in Nat \ {0} /\ Loss \in Nat /\ balance \in Nat /\ MaxMissed \in Nat
      /\ last_balance \in Nat /\ last_balance' \in Nat /\ Elapsed \in Nat
      /\ elsewhere \in Nat /\ elsewhere' \in Nat
  BY <1>1, QuietTick, TickWraps, RefreshOrLater, ElapsedType, RiskAssumption DEF GInv, TypeOK
<1>3. PICK m \in Nat : m = missed' /\ m * RefreshEvery \in Nat
  <2>1. \A k \in 0 .. MaxMissed : k \in Nat /\ k * RefreshEvery \in Nat
    BY <1>2
  <2> QED
    BY <1>2, <2>1
<1>4. /\ ClosesUnseen \in Nat
      /\ \A n \in Nat : 2 * n <= m * RefreshEvery + RefreshEvery => n <= ClosesUnseen
  <2>1. \A k \in Nat : k \div 2 \in Nat /\ \A n \in Nat : 2 * n <= k => n <= k \div 2
    OBVIOUS
  <2>2. (m + 1) * RefreshEvery = m * RefreshEvery + RefreshEvery
    BY <1>2
  <2>3. ClosesUnseen = (m * RefreshEvery + RefreshEvery) \div 2
    BY <1>3, <2>2 DEF ClosesUnseen
  <2>4. m * RefreshEvery + RefreshEvery \in Nat
    <3>1. \A k \in Nat : k + RefreshEvery \in Nat
      BY <1>2
    <3> QED
      BY <1>3, <3>1
  <2> QED
    BY <2>1, <2>3, <2>4
<1>5. \A a, b, c \in Nat : a <= b => c * a \in Nat /\ c * b \in Nat /\ c * a <= c * b
  <2> SUFFICES ASSUME NEW a \in Nat, NEW b \in Nat, NEW c \in Nat, a <= b
               PROVE  c * a \in Nat /\ c * b \in Nat /\ c * a <= c * b
    OBVIOUS
  <2>1. b - a \in Nat /\ c * b = c * a + c * (b - a) /\ c * (b - a) \in Nat
    OBVIOUS
  <2> QED
    BY <2>1
<1>6. Loss * ClosesUnseen \in Nat
  BY <1>2, <1>4, <1>5
<1>7. CASE last_balance' <= balance
  BY <1>2, <1>6, <1>7
<1>8. CASE last_balance' = last_balance /\ Elapsed' = Elapsed + 1 /\ ~(RefreshDue /\ missed' = 0)
  <2>1. PICK n \in Nat : StaleBy(n)
    BY DEF GInv, Stale
  <2>2. 2 * n <= m * RefreshEvery + RefreshEvery
    <3>1. PICK t \in 0 .. RefreshEvery - 1 : Elapsed' = m * RefreshEvery + t
      BY <1>2, <1>3 DEF Elapsed
    <3>2. 2 * n <= Elapsed + 2
      BY <2>1 DEF StaleBy
    <3>3. \A k \in Nat : Elapsed + 1 = k + t => 2 * n <= k + RefreshEvery
      BY <1>2, <3>2
    <3> QED
      BY <1>3, <1>8, <3>1, <3>3
  <2>3. Loss * n \in Nat /\ Loss * n <= Loss * ClosesUnseen
    BY <1>2, <1>4, <1>5, <2>2
  <2>4. elsewhere' = elsewhere
    BY <1>1, <1>2, <1>8 DEF LostElsewhere
  <2>5. last_balance <= balance + Loss * n + elsewhere
    BY <2>1 DEF StaleBy
  <2>6. last_balance <= balance + Loss * ClosesUnseen + elsewhere
    BY <1>2, <1>6, <2>3, <2>5
  <2> QED
    BY <1>2, <1>6, <1>8, <2>4, <2>6
<1> QED
  BY <1>1, <1>2, <1>6, <1>7, <1>8, RefreshOrLater DEF GInv

\* Only Enter places an entry.
LEMMA EnteringIsEnter ==
  ASSUME GInv, Next, Entering
  PROVE  Enter
<1>1. slot = "flat" /\ strays \in Nat /\ (slot' # "flat" \/ strays' > strays)
  BY RiskAssumption DEF GInv, TypeOK, Entering
<1>2. ~(Hold \/ OrderPolled \/ FoundGone \/ GiveUp)
  BY <1>1 DEF Hold, OrderPolled, FoundGone, GiveUp
<1>3. ASSUME NEW outcome \in {"TP", "SL"} PROVE ~(Close(outcome) \/ CloseUnanswered(outcome))
  BY <1>1 DEF Close, CloseUnanswered, MarketClose
<1>4. ~(HeldBack \/ NoEntry \/ Midnight)
  BY <1>1 DEF HeldBack, NoEntry, Midnight
<1>5. ~(Elsewhere \/ Restart)
  BY <1>1 DEF Elsewhere, Restart, Tracked
<1> QED
  BY <1>2, <1>3, <1>4, <1>5 DEF Next

(***************************************************************************)
(* Where the day's opening balance is known the gate overshoots by no more *)
(* than what the stale balance hides: the stops of that time, and what was *)
(* lost elsewhere in it, on positions the thread has given up, forgotten or*)
(* found gone.  For every refresh interval, limit and size of loss         *)
(* (strategy.py:102-111, main.py:220-242, 330-353).                        *)
(***************************************************************************)
THEOREM OvershootLimited == Spec => OvershootBounded
<1> DEFINE Known == Entering /\ day_start_balance' > 0
           Kept == ~Breaches(day_start_balance',
                             day_start_balance' - balance - Loss * ClosesUnseen - elsewhere')
<1>1. GInv /\ [Next]_vars => [Known => Kept]_vars
  <2> SUFFICES ASSUME GInv, Next, Known PROVE Kept
    OBVIOUS
  <2>1. Enter
    BY EnteringIsEnter
  <2>2. /\ last_balance' <= balance + Loss * ClosesUnseen + elsewhere'
        /\ Loss * ClosesUnseen \in Nat /\ elsewhere' \in Nat
        /\ last_balance' \in Nat /\ balance \in Nat /\ day_start_balance' \in Nat
    BY <2>1, UnseenAtEntry, NextGInv DEF GInv, TypeOK
  <2>3. ~Breaches(day_start_balance', day_start_balance' - last_balance')
    BY <2>1 DEF Enter, is_approved
  <2>4. PICK d, l, u, e \in Nat : /\ d = day_start_balance' /\ l = last_balance'
                                  /\ u = Loss * ClosesUnseen /\ e = elsewhere'
    BY <2>2
  <2>5. d - l \in Int /\ d - balance - u - e \in Int /\ d - balance - u - e <= d - l
    BY <2>2, <2>4
  <2>6. ~Breaches(d, d - l)
    BY <2>3, <2>4
  <2>7. ~Breaches(d, d - balance - u - e)
    BY <2>5, <2>6, LessIsNoBreach
  <2> QED
    BY <2>4, <2>7
<1> QED
  BY InitGInv, NextGInv, <1>1, PTL DEF Spec, OvershootBounded

-----------------------------------------------------------------------------
\* A loss tolerated out of some balance is tolerated out of a smaller one
\* that leaves the same account.
LEMMA SmallerOpeningHolds ==
  ASSUME NEW d \in Nat, NEW o \in Nat, NEW b \in Nat, o <= d, ~Breaches(d, d - b)
  PROVE  ~Breaches(o, o - b)
<1>1. PICK k \in Nat : d = o + k
  <2>1. d - o \in Nat /\ d = o + (d - o)
    OBVIOUS
  <2> QED
    BY <2>1
<1>2. /\ DailyDdPct \in Nat /\ DailyDdPct <= 100
      /\ DailyDdPct * o \in Nat /\ DailyDdPct * k \in Nat
      /\ DailyDdPct * (o + k) = DailyDdPct * o + DailyDdPct * k
  BY RiskAssumption
<1>3. DailyDdPct * k <= 100 * k
  <2>1. PICK r \in Nat : DailyDdPct + r = 100
    <3>1. 100 - DailyDdPct \in Nat /\ DailyDdPct + (100 - DailyDdPct) = 100
      BY <1>2
    <3> QED
      BY <3>1
  <2>2. (DailyDdPct + r) * k = DailyDdPct * k + r * k /\ r * k \in Nat
    BY <1>2
  <2> QED
    BY <1>2, <2>1, <2>2
<1>4. ~(((o + k) - b) * 100 >= DailyDdPct * o + DailyDdPct * k)
  BY <1>1, <1>2 DEF Breaches
<1>5. \A u, v \in Nat : v <= 100 * k /\ ~(((o + k) - b) * 100 >= u + v)
                        => ~((o - b) * 100 >= u)
  OBVIOUS
<1> QED
  BY <1>2, <1>3, <1>4, <1>5 DEF Breaches

\* What an entry is measured against is the day's opening balance or more.
OpeningKnown == 0 < day_start_balance' /\ opening <= day_start_balance'

(***************************************************************************)
(* The documented promise of the gate (strategy.py:10) is kept by every    *)
(* behaviour in which no entry is measured against less than the balance   *)
(* the day opened with: a day_start_balance of zero, or one taken low      *)
(* (strategy.py:96-100), is the only way it fails.                         *)
(***************************************************************************)
THEOREM DrawdownHaltsOnKnownOpening ==
  Spec /\ [][Entering => OpeningKnown]_vars => DailyDrawdownHalts
<1> DEFINE Fresh == Entering /\ RefreshDue /\ missed' = 0
           Kept == ~Breaches(opening, opening - balance)
<1>1. GInv /\ [Next]_vars /\ [Entering => OpeningKnown]_vars => [Fresh => Kept]_vars
  <2> SUFFICES ASSUME GInv, Next, OpeningKnown, Fresh PROVE Kept
    BY DEF Entering, vars
  <2>1. Enter
    BY EnteringIsEnter
  <2>2. missed + 1 # 0
    BY RiskAssumption DEF GInv, TypeOK
  <2>3. last_balance' \in Nat /\ last_balance' <= balance
    BY <2>1, <2>2, RefreshOrLater DEF Enter, GInv
  <2>4. balance \in Nat /\ opening \in Nat /\ day_start_balance' \in Nat
    BY NextGInv, RiskAssumption DEF GInv, TypeOK
  <2>5. ~Breaches(day_start_balance', day_start_balance' - last_balance')
    BY <2>1 DEF Enter, is_approved, OpeningKnown
  <2>6. PICK d \in Nat : d = day_start_balance'
    BY <2>4
  <2>7. PICK l \in Nat : l = last_balance' /\ l <= balance
    BY <2>3
  <2>8. ~Breaches(d, d - l)
    BY <2>5, <2>6, <2>7
  <2>9. opening <= d
    BY <2>6 DEF OpeningKnown
  <2>10. d - balance <= d - l /\ d - balance \in Int /\ d - l \in Int
    <3>1. balance \in Nat /\ l <= balance
      BY <2>4, <2>7
    <3> QED
      BY <3>1
  <2>11. ~Breaches(d, d - balance)
    BY <2>4, <2>8, <2>10, LessIsNoBreach
  <2> QED
    BY <2>4, <2>9, <2>11, SmallerOpeningHolds
<1> QED
  BY InitGInv, NextGInv, <1>1, PTL DEF Spec, DailyDrawdownHalts

=============================================================================
