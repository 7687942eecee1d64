------------------------------- MODULE Trader -------------------------------
(***************************************************************************)
(* One symbol's trading thread (src/python/main.py): the entry order it    *)
(* places, the fill it polls for, the stop it watches, the market close it *)
(* retries, and the loss counter that halts it (RiskState), composed with  *)
(* the exchange.                                                           *)
(*                                                                         *)
(* A tick that needs the exchange ends its action by making a call; the    *)
(* thread does nothing until the reply is in (the engine methods block),   *)
(* while the exchange goes on.  Which ticks signal an entry, hit the stop  *)
(* or hit the target is left open, as is the drawdown gate.  Quantities    *)
(* count the smallest unit the exchange knows; Step is the lot step.       *)
(***************************************************************************)
EXTENDS Exchange

CONSTANTS
  Lot,              \* SymbolState.lot_size
  Slips,            \* the multiples k for which the f64 quotient k*Step / Step
                    \* comes out just below k
  PollEvery,        \* PENDING_POLL_EVERY
  MaxCloseRetries,  \* MAX_CLOSE_RETRIES
  MaxConsecLosses   \* RiskState.max_consec_losses

ASSUME LotAssumption ==
  Lot \in Nat /\ Slips \subseteq Nat \ {0}

ASSUME LimitsAssumption ==
  /\ PollEvery \in Nat \ {0}
  /\ MaxCloseRetries \in Nat \ {0}
  /\ MaxConsecLosses \in Nat \ {0}

PendingStates == [id : Ids, side : Sides]
PositionStates == [id : Ids, side : Sides, tries : 0 .. MaxCloseRetries]

ASSUME NoneIsNoState == None \notin PendingStates \cup PositionStates

VARIABLES
  pending,   \* SymbolState.pending: the entry order whose fill is awaited
  position,  \* SymbolState.position, with close_tries
  cooling,   \* the last close attempt is younger than CLOSE_RETRY_COOLDOWN
  ticks,     \* SymbolState.tick_count, modulo PollEvery
  losses,    \* RiskState.consec_losses
  alarm      \* history: "CHECK EXCHANGE MANUALLY!" has been logged

local_vars == <<pending, position, cooling, ticks, losses, alarm>>
vars == <<orders, nextId, net, call, reply, streak,
          pending, position, cooling, ticks, losses, alarm>>

TypeOK ==
  /\ ExchangeTypeOK
  /\ pending \in PendingStates \cup {None}
  /\ position \in PositionStates \cup {None}
  /\ cooling \in BOOLEAN
  /\ ticks \in 0 .. PollEvery - 1
  /\ losses \in 0 .. MaxConsecLosses
  /\ alarm \in BOOLEAN

FreshState ==
  /\ pending = None
  /\ position = None
  /\ cooling = FALSE
  /\ ticks = 0
  /\ losses = 0
  /\ alarm = FALSE

Init == ExchangeInit /\ FreshState

-----------------------------------------------------------------------------
\* floor(qty / step) * step, in doubles.
normalize_qty(qty) ==
  LET k == qty \div Step
  IN  (IF qty % Step = 0 /\ k \in Slips THEN k - 1 ELSE k) * Step

open_count == IF pending = None /\ position = None THEN 0 ELSE 1

max_open_orders == 1

\* Mutant: off by one.
ApprovedAtLimit == open_count < max_open_orders /\ losses <= MaxConsecLosses

is_approved == open_count < max_open_orders /\ losses < MaxConsecLosses

-----------------------------------------------------------------------------
(***************************************************************************)
(* _process_tick, one action per way through it.                           *)
(***************************************************************************)
Tick ==
  /\ call = None
  /\ ticks' = (ticks + 1) % PollEvery

Make(c) == call' = c /\ reply' = None

NoCall == UNCHANGED <<call, reply>>

\* A tick that asks nothing of the exchange: a pending order that is not due
\* for a poll, a position that neither stop nor target is hit for (or that a
\* close was just tried for), or no entry.
TickQuiet ==
  /\ Tick
  /\ pending # None => ticks' # 0
  /\ NoCall
  /\ UNCHANGED <<orders, nextId, net, streak, pending, position, cooling, losses, alarm>>

TickPoll ==
  /\ Tick
  /\ pending # None
  /\ ticks' = 0
  /\ Make([op |-> "status", id |-> pending.id])
  /\ UNCHANGED <<orders, nextId, net, streak, pending, position, cooling, losses, alarm>>

\* The stop or the target is hit: _close_with_market asks for the position.
TickClose(outcome) ==
  /\ Tick
  /\ pending = None
  /\ position # None
  /\ ~cooling
  /\ cooling' = TRUE
  /\ Make([op |-> "size", outcome |-> outcome])
  /\ UNCHANGED <<orders, nextId, net, streak, pending, position, losses, alarm>>

EntryCall(side, retry) ==
  [op |-> "entry", side |-> side, qty |-> normalize_qty(Lot), retry |-> retry]

TickEntry(side) ==
  /\ Tick
  /\ pending = None
  /\ position = None
  /\ is_approved
  /\ Make(EntryCall(side, FALSE))
  /\ UNCHANGED <<orders, nextId, net, streak, pending, position, cooling, losses, alarm>>

CooldownOver ==
  /\ cooling
  /\ cooling' = FALSE
  /\ UNCHANGED <<orders, nextId, net, call, reply, streak, pending, position,
                 ticks, losses, alarm>>

-----------------------------------------------------------------------------
(***************************************************************************)
(* What the thread does with a reply.                                      *)
(***************************************************************************)
Answered(op) == call # None /\ call.op = op /\ reply # None

Return == Make(None)

Adopted(side) == [id |-> reply.id, side |-> side, tries |-> 0]

\* Mutant: executed_qty is not asked.
SaysAlive == reply.status # "CANCELED"

\* Mutant: an order counts as filled when all of the configured lot is.
SaysWholeLot == reply.status = "FILLED" /\ reply.filled >= Lot

SaysFilled == reply.status \in {"FILLED", "PARTIALLY_FILLED"} /\ reply.filled > 0

\* Mutant: an order that has not filled is not kept.
RegisterFillOnly == (SaysFilled => position' = Adopted(call.side))
                    /\ (~SaysFilled => UNCHANGED position) /\ UNCHANGED pending

\* _register_entry_result
register_entry_result ==
  IF SaysFilled
    THEN position' = Adopted(call.side) /\ UNCHANGED pending
    ELSE pending' = [id |-> reply.id, side |-> call.side] /\ UNCHANGED position

\* _place_entry, once place_order has returned or raised.
place_entry ==
  /\ Answered("entry")
  /\ \/ /\ reply.kind = "order"
        /\ register_entry_result
        /\ Return
     \/ /\ reply.kind = "post_only" /\ ~call.retry
        /\ Make(EntryCall(call.side, TRUE))
        /\ UNCHANGED <<pending, position>>
     \/ /\ reply.kind = "failed" \/ (reply.kind = "post_only" /\ call.retry)
        /\ Return
        /\ UNCHANGED <<pending, position>>
  /\ UNCHANGED <<orders, nextId, net, streak, cooling, ticks, losses, alarm>>

\* _poll_pending, once get_order_status has returned or raised.
poll_pending ==
  /\ Answered("status")
  /\ \/ /\ reply.kind = "failed"
        /\ UNCHANGED <<pending, position>>
     \/ /\ reply.kind = "order"
        /\ IF SaysFilled
             THEN position' = Adopted(pending.side) /\ pending' = None
             ELSE /\ pending' = IF reply.status = "CANCELED" THEN None ELSE pending
                  /\ UNCHANGED position
  /\ Return
  /\ UNCHANGED <<orders, nextId, net, streak, cooling, ticks, losses, alarm>>

\* Mutant: the close is for the lot, and not reduce-only.
CloseLot(size) ==
  [op |-> "close", side |-> Opposite(position.side),
   qty |-> normalize_qty(Lot), outcome |-> call.outcome, reduce |-> FALSE]

CloseCall(size) ==
  [op |-> "close", side |-> Opposite(position.side),
   qty |-> normalize_qty(Smaller(Lot, size)), outcome |-> call.outcome, reduce |-> TRUE]

\* Mutant: the attempt is not counted.
TriedUncounted == position

Tried == [position EXCEPT !.tries = @ + 1]

\* _close_with_market, once get_position_size has returned or raised.
size_known ==
  /\ Answered("size")
  /\ \/ reply.kind = "failed" /\ Return /\ UNCHANGED position
     \/ reply.kind = "size" /\ reply.size = 0 /\ Return /\ position' = None
     \/ /\ reply.kind = "size" /\ reply.size > 0
        /\ position' = Tried
        /\ Make(CloseCall(reply.size))
  /\ UNCHANGED <<orders, nextId, net, streak, pending, cooling, ticks, losses, alarm>>

\* Mutant: the branches are swapped.
CountWins(outcome) == losses' = IF outcome = "TP" THEN losses + 1 ELSE 0

\* RiskState.on_trade_close
on_trade_close(outcome) == losses' = IF outcome = "TP" THEN 0 ELSE losses + 1

\* Mutant: one attempt too many.
NoneLeft == position.tries > MaxCloseRetries

GivesUp == position.tries >= MaxCloseRetries

\* _close_with_market, once place_market_order has returned or raised.
close_sent ==
  /\ Answered("close")
  /\ Return
  /\ \/ /\ reply.kind = "closed"
        /\ on_trade_close(call.outcome)
        /\ position' = None
        /\ UNCHANGED alarm
     \/ /\ reply.kind = "failed" /\ GivesUp
        /\ position' = None
        /\ alarm' = TRUE
        /\ UNCHANGED losses
     \/ /\ reply.kind = "failed" /\ ~GivesUp
        /\ UNCHANGED <<position, alarm, losses>>
  /\ UNCHANGED <<orders, nextId, net, streak, pending, cooling, ticks>>

-----------------------------------------------------------------------------
\* The program is killed, perhaps in the middle of a call, and started again:
\* it keeps nothing and asks the exchange for nothing but the balance.
Restart ==
  /\ "restart" \in Faults
  /\ pending' = None /\ position' = None /\ cooling' = FALSE
  /\ ticks' = 0 /\ losses' = 0
  /\ Return
  /\ UNCHANGED <<orders, nextId, net, streak, alarm>>

process_tick ==
  \/ TickQuiet
  \/ TickPoll
  \/ \E outcome \in Outcomes : TickClose(outcome)
  \/ \E side \in Sides : TickEntry(side)

handle_reply == place_entry \/ poll_pending \/ size_known \/ close_sent

Next ==
  \/ process_tick
  \/ handle_reply
  \/ CooldownOver
  \/ Restart
  \/ ExchangeNext /\ UNCHANGED local_vars

Spec == Init /\ [][Next]_vars

-----------------------------------------------------------------------------
(***************************************************************************)
(* Fairness.  A call ends (the client's timeout), its reply is read, ticks *)
(* come while an order is pending, the cooldown runs out.  For a query or  *)
(* a close that is tried over and over: it does not fail for ever, and the *)
(* price does not leave the stop for good.                                 *)
(***************************************************************************)
CallEnds == ServeEntry \/ ServeStatus \/ ServeSize \/ ServeClose \/ CallFails

Fairness ==
  /\ WF_vars(CallEnds /\ UNCHANGED local_vars)
  /\ WF_vars(handle_reply)
  /\ WF_vars(pending # None /\ process_tick)
  /\ WF_vars(CooldownOver)
  /\ SF_vars((ServeStatus \/ ServeSize) /\ UNCHANGED local_vars)
  /\ SF_vars(\E outcome \in Outcomes : TickClose(outcome))

FairSpec == Spec /\ Fairness

-----------------------------------------------------------------------------
\* An entry the exchange accepted and whose reply the thread has yet to read.
AcceptedUnread == Answered("entry") /\ reply.kind = "order"

CloseUnread == Answered("close") /\ reply.kind = "closed"

Holding(id) == Signed(orders[id].side, orders[id].filled)

\* The position the thread's bookkeeping implies.
Accounted ==
  IF CloseUnread THEN 0
  ELSE IF AcceptedUnread THEN Holding(reply.id)
  ELSE IF pending # None THEN Holding(pending.id)
  ELSE IF position # None THEN Holding(position.id)
  ELSE 0

(***************************************************************************)
(* While every order fills whole and no reply is lost, the exchange's net  *)
(* position is at every instant the one order the thread tracks, fill by   *)
(* fill, and nothing once its close has executed: no exposure without a    *)
(* stop.  Closed from elsewhere it is nothing, and stays so until the      *)
(* thread has found that out.  Only a close given up on (main.py:231-234)  *)
(* ends that.                                                              *)
(***************************************************************************)
ExposureAccounted ==
  ~alarm => net = Accounted \/ (net = 0 /\ "liquidation" \in Faults)

(***************************************************************************)
(* An order that is on the book is the one the thread awaits: none is left *)
(* behind where a fill would go unseen, whatever was placed, retried after *)
(* -5022, adopted or closed before (main.py:174-192, 264-316).             *)
(***************************************************************************)
NoStrayOrder ==
  \A id \in Ids :
    orders[id].open => (pending # None /\ id = pending.id) \/ (AcceptedUnread /\ id = reply.id)

(***************************************************************************)
(* Whatever fails, is lost or fills in between, a close only ever shrinks  *)
(* the position it faces and never turns it over, though its quantity was  *)
(* read from the exchange in an earlier call (main.py:215-230).            *)
(***************************************************************************)
CloseOnlyReduces ==
  [][Awaits("close") /\ reply' # None /\ net' # net
       => Magnitude(net') < Magnitude(net) /\ Signed(call.side, net') <= 0]_vars

(***************************************************************************)
(* A tracked position that has used up its close attempts has the last of  *)
(* them in flight: it is never kept without a way to be closed again       *)
(* (main.py:227-235).                                                      *)
(***************************************************************************)
AttemptsLeft ==
  position # None /\ position.tries = MaxCloseRetries => call # None /\ call.op = "close"

(***************************************************************************)
(* The slot is in step with the exchange under every fault: never both a   *)
(* pending order and a position, sides as on the exchange, a position only *)
(* for an order that has executed; so a stop never closes the wrong way.   *)
(***************************************************************************)
SlotMatchesExchange ==
  /\ pending = None \/ position = None
  /\ pending # None => orders[pending.id].side = pending.side
  /\ position # None => /\ orders[position.id].side = position.side
                        /\ orders[position.id].filled > 0

(***************************************************************************)
(* The gate of strategy.py:105-106: no entry is sent once max_consec_losses*)
(* losing closes have executed since the last winning one.                 *)
(***************************************************************************)
HaltAfterLosses == call # None /\ call.op = "entry" => streak < MaxConsecLosses

(***************************************************************************)
(* The halt has no way out: consec_losses is reset by a winning close only,*)
(* a halted thread has nothing open, and no new day resets the counter.    *)
(***************************************************************************)
HaltIsFinal == [][losses = MaxConsecLosses => UNCHANGED <<losses, pending, position, call>>]_vars

(***************************************************************************)
(* The slot as the thread keeps it implements Slot under every fault: the  *)
(* gate asked when an entry is sent still holds when its reply, or that of *)
(* the retry, is adopted; the side lives from order to close; losses move  *)
(* with a close only (main.py:174-192, 215-242, 264-316).                  *)
(***************************************************************************)
Kept == INSTANCE Slot WITH
  phase <- IF pending # None THEN "ordered" ELSE IF position # None THEN "holding" ELSE "flat",
  side <- IF pending # None THEN pending.side
          ELSE IF position # None THEN position.side ELSE "none",
  MayRestart <- "restart" \in Faults

SlotKept == Kept!Spec

(***************************************************************************)
(* So does the account, where orders fill whole and no reply is lost: seen *)
(* from the exchange the program has one order live or holds one lot, adds *)
(* to neither, never turns one over, and enters nothing after the losses   *)
(* that halt it.  Once a position is given up (main.py:231-236), no more.  *)
(***************************************************************************)
Live == {id \in Ids : orders[id].open}

Account == INSTANCE Slot WITH
  phase <- IF net = 0 /\ Live = {} THEN "flat"
           ELSE IF net = 0 /\ \E id \in Ids : Live = {id} THEN "ordered"
           ELSE IF Magnitude(net) = normalize_qty(Lot) /\ Live = {} THEN "holding"
           ELSE "overexposed",
  side <- IF net > 0 THEN "BUY" ELSE IF net < 0 THEN "SELL"
          ELSE IF Live # {} THEN orders[CHOOSE id \in Live : TRUE].side ELSE "none",
  losses <- streak,
  MayRestart <- FALSE

SlotOnAccount == Account!Init /\ [][alarm \/ Account!Next]_(Account!vars)

(***************************************************************************)
(* The configured limit, max_open_orders=1 (main.py:158), read as what the *)
(* exchange sees: at most one entry order of the symbol is live.           *)
(***************************************************************************)
OneEntryOrderLive ==
  \A i, j \in Ids : orders[i].open /\ orders[j].open => i = j

(***************************************************************************)
(* "MARKET close - guaranteed fill" (main.py:209): when the close has been *)
(* answered with success the position is gone.                             *)
(***************************************************************************)
GuaranteedFill == CloseUnread => net = 0

(***************************************************************************)
(* A pending order that has filled is adopted: polling finds the fill,     *)
(* however the failures of the status query fall (main.py:174-188).        *)
(***************************************************************************)
FillAdopted ==
  \A id \in Ids :
    (pending # None /\ pending.id = id /\ orders[id].filled > 0)
      ~> (position # None /\ position.id = id)

(***************************************************************************)
(* A position whose stop or target stays hit is released, by its close, by *)
(* finding nothing to close, or by giving up after MAX_CLOSE_RETRIES.      *)
(***************************************************************************)
PositionReleased == position # None ~> position = None

=============================================================================
