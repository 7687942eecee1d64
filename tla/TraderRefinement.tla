-------------------------- MODULE TraderRefinement --------------------------
(***************************************************************************)
(* Trader implements Slot, for every lot, limit and set of faults: what    *)
(* the thread keeps of its slot goes through Slot's steps and no others.   *)
(* The gate is asked when the entry is sent and Slot asks it when the      *)
(* entry is accepted: HaltInv carries it across the call and its retry.    *)
(***************************************************************************)
EXTENDS TraderProofs

\* Steps that leave the slot alone.
LEMMA KeptStutter ==
  ASSUME UNCHANGED <<pending, position, losses>>
  PROVE  UNCHANGED Kept!vars
BY DEF Kept!vars

\* What is made of an order's reply is a state of the slot.
LEMMA OrderAdopted ==
  ASSUME IInv, reply # None, reply.kind = "order", NEW s \in Sides
  PROVE  /\ Adopted(s) # None /\ Adopted(s).side = s
         /\ [id |-> reply.id, side |-> s] # None
<1>1. reply.id \in Ids
  BY ReplyShapes DEF IInv, TypeOK, ExchangeTypeOK
<1>2. Adopted(s) \in PositionStates /\ [id |-> reply.id, side |-> s] \in PendingStates
  BY <1>1, LimitsAssumption DEF Adopted, PositionStates, PendingStates
<1> QED
  BY <1>2, NoneDiffers DEF Adopted

-----------------------------------------------------------------------------
\* An accepted entry is Enter: the gate has held since the entry was sent.
LEMMA EntryRefines ==
  ASSUME IInv, place_entry
  PROVE  [Kept!Next]_(Kept!vars)
<1>1. /\ call \in Calls /\ call # None /\ call.op = "entry" /\ reply # None
      /\ pending = None /\ position = None
  BY DEF IInv, TypeOK, ExchangeTypeOK, CallInv, place_entry, Answered
<1>2. losses < MaxConsecLosses /\ losses' = losses
  BY <1>1, LimitsAssumption DEF IInv, TypeOK, HaltInv, place_entry
<1>3. CASE UNCHANGED <<pending, position>>
  BY <1>2, <1>3, KeptStutter
<1>4. CASE reply.kind = "order" /\ register_entry_result
  <2>1. call.side \in Sides
    BY <1>1, CallShapes
  <2>2. CASE SaysFilled
    <3>1. position' = Adopted(call.side) /\ pending' = None
      BY <1>1, <1>4, <2>2 DEF register_entry_result
    <3>2. position' # None /\ position'.side = call.side
      BY <1>1, <1>4, <2>1, <3>1, OrderAdopted
    <3> QED
      BY <1>1, <1>2, <2>1, <3>1, <3>2 DEF Kept!Next, Kept!Enter, Sides
  <2>3. CASE ~SaysFilled
    <3>1. pending' = [id |-> reply.id, side |-> call.side] /\ position' = None
      BY <1>1, <1>4, <2>3 DEF register_entry_result
    <3>2. pending' # None
      BY <1>1, <1>4, <2>1, <3>1, OrderAdopted
    <3> QED
      BY <1>1, <1>2, <2>1, <3>1, <3>2 DEF Kept!Next, Kept!Enter, Sides
  <2> QED
    BY <2>2, <2>3
<1> QED
  BY <1>3, <1>4 DEF place_entry

\* A poll finds the fill, finds the order dead, or nothing new.
LEMMA PollRefines ==
  ASSUME IInv, poll_pending
  PROVE  [Kept!Next]_(Kept!vars)
<1>1. pending # None /\ position = None /\ losses' = losses /\ reply # None
  BY DEF IInv, CallInv, poll_pending, Answered
<1>2. CASE UNCHANGED <<pending, position>>
  BY <1>1, <1>2, KeptStutter
<1>3. CASE reply.kind = "order" /\ position' = Adopted(pending.side) /\ pending' = None
  <2>1. pending.side \in Sides
    BY <1>1 DEF IInv, TypeOK, PendingStates
  <2>2. position' # None /\ position'.side = pending.side
    BY <1>1, <1>3, <2>1, OrderAdopted
  <2> QED
    BY <1>1, <1>3, <2>2 DEF Kept!Next, Kept!Fill
<1>4. CASE pending' = None /\ position' = position
  BY <1>1, <1>4 DEF Kept!Next, Kept!Release
<1> QED
  BY <1>2, <1>3, <1>4 DEF poll_pending

\* Another close attempt leaves phase and side; a position found gone is released.
LEMMA SizeRefines ==
  ASSUME IInv, size_known
  PROVE  [Kept!Next]_(Kept!vars)
<1>1. pending = None /\ pending' = None /\ position # None /\ losses' = losses
  BY DEF IInv, CallInv, size_known, Answered
<1>2. CASE UNCHANGED position
  BY <1>1, <1>2, KeptStutter
<1>3. CASE position' = None
  BY <1>1, <1>3 DEF Kept!Next, Kept!Release
<1>4. CASE reply.kind = "size" /\ reply.size > 0 /\ position' = Tried
  <2>1. position \in PositionStates /\ position.tries < MaxCloseRetries
    BY <1>1 DEF IInv, TypeOK, CallInv, size_known, Answered
  <2>2. position' # None /\ position'.side = position.side
    BY <1>4, <2>1, NoneDiffers, LimitsAssumption DEF Tried, PositionStates
  <2> QED
    BY <1>1, <2>2 DEF Kept!vars
<1> QED
  BY <1>2, <1>3, <1>4 DEF size_known

\* The losses move as the position goes, and only with a close that succeeded.
LEMMA CloseRefines ==
  ASSUME IInv, close_sent
  PROVE  [Kept!Next]_(Kept!vars)
<1>1. pending = None /\ pending' = None /\ position # None
  BY DEF IInv, CallInv, close_sent, Answered
<1>2. CASE on_trade_close(call.outcome) /\ position' = None
  <2>1. \E won \in BOOLEAN : losses' = IF won THEN 0 ELSE losses + 1
    BY <1>2 DEF on_trade_close
  <2> QED
    BY <1>1, <1>2, <2>1 DEF Kept!Next, Kept!Close
<1>3. CASE position' = None /\ losses' = losses
  BY <1>1, <1>3 DEF Kept!Next, Kept!Release
<1>4. CASE UNCHANGED <<position, losses>>
  BY <1>1, <1>4, KeptStutter
<1> QED
  BY <1>2, <1>3, <1>4 DEF close_sent

\* A restart empties the slot and forgets the losses.
LEMMA RestartRefines ==
  ASSUME Restart
  PROVE  [Kept!Next]_(Kept!vars)
BY DEF Restart, Kept!Next, Kept!Restart

LEMMA StepRefines == IInv /\ [Next]_vars => [Kept!Next]_(Kept!vars)
<1> SUFFICES ASSUME IInv, [Next]_vars PROVE [Kept!Next]_(Kept!vars)
  OBVIOUS
<1>1. CASE process_tick \/ CooldownOver
  BY <1>1, KeptStutter DEF process_tick, TickQuiet, TickPoll, TickClose, TickEntry, CooldownOver
<1>2. CASE UNCHANGED local_vars \/ UNCHANGED vars
  BY <1>2, KeptStutter DEF local_vars, vars
<1>3. CASE handle_reply
  BY <1>3, EntryRefines, PollRefines, SizeRefines, CloseRefines DEF handle_reply
<1> QED
  BY <1>1, <1>2, <1>3, RestartRefines DEF Next

(***************************************************************************)
(* The slot a thread keeps is Slot's, under every set of faults: one entry *)
(* at a time, on one side until it is flat again, none once the losses it  *)
(* counts have reached the limit, and losses counted as a position goes    *)
(* and at no other time (main.py:174-316).                                 *)
(***************************************************************************)
THEOREM SlotRefined == Spec => SlotKept
<1>1. Init => Kept!Init
  BY DEF Init, FreshState, Kept!Init
<1> QED
  BY InitIInv, NextIInv, StepRefines, <1>1, PTL DEF Spec, SlotKept, Kept!Spec

=============================================================================
