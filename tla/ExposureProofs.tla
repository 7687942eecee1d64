--------------------------- MODULE ExposureProofs ---------------------------
(***************************************************************************)
(* Theorems about Trader: what the exchange has of the symbol, in orders   *)
(* and in position, is what the thread tracks.                             *)
(*                                                                         *)
(* The orders come first (Tracked).  Every order fills whole, and a reply  *)
(* that calls an order dead or filled is not out of date (Current): so an  *)
(* order the thread lets go of is off the book.  That needs whole fills,   *)
(* replies that arrive and no restart, and nothing of closes.              *)
(*                                                                         *)
(* The position rests on it (Exposed).  A fill meets the tracked order,    *)
(* since there is no other one, and a close is for all there is and takes  *)
(* it away, since nothing else is held.  Without Clean, or on a thin book, *)
(* a close leaves a remainder behind; a position closed from elsewhere     *)
(* leaves none.                                                            *)
(***************************************************************************)
EXTENDS TraderProofs

Quantity == normalize_qty(Lot)

\* Selling back what was bought needs no further rounding.
Clean == normalize_qty(Quantity) = Quantity

\* Nothing makes the thread let go of an order that is still on the book.
NothingForgotten == Faults \cap {"partial", "lostReply", "restart"} = {}

\* All that may happen behind the thread's back is that its position goes.
ClosedFromElsewhere == Faults \subseteq {"liquidation"}

Whole ==
  \A id \in Ids :
    /\ orders[id].filled \in {0, orders[id].qty}
    /\ id < nextId => orders[id].qty = Quantity /\ Quantity > 0

EntrySized == call # None /\ call.op = "entry" => call.qty = Quantity

Current ==
  reply # None /\ reply.kind = "order" =>
    /\ reply.status \in {"NEW", "FILLED", "CANCELED"}
    /\ reply.status = "FILLED" =>
         reply.filled > 0 /\ orders[reply.id].filled = orders[reply.id].qty
    /\ reply.status = "CANCELED" =>
         ~orders[reply.id].open /\ orders[reply.id].filled = 0

Tracked == Whole /\ EntrySized /\ Current /\ NoStrayOrder

\* A close is for all that was bought, or was found to be nothing.
CloseSized ==
  ~alarm =>
    /\ call # None /\ call.op = "close" => call.qty = Quantity
    /\ Answered("size") /\ reply.kind = "size" =>
         reply.size \in {0, Quantity} /\ (reply.size = 0 => net = 0)

Exposed == CloseSized /\ ExposureAccounted

-----------------------------------------------------------------------------
LEMMA QuantityType == Quantity \in Nat /\ Quantity <= Lot
BY Normalized, LotAssumption DEF Quantity

LEMMA NothingHeld ==
  ASSUME NEW id \in Ids, orders[id].filled \in Nat, orders[id].filled <= 0
  PROVE  Holding(id) = 0
<1>1. \A q \in Nat : q <= 0 => q = 0 /\ -q = 0
  OBVIOUS
<1> QED
  BY <1>1 DEF Holding, Signed

\* What the other invariant says of the order a slot or a reply names.
LEMMA Named ==
  ASSUME IInv
  PROVE  /\ \A id \in Ids : /\ orders[id].side \in Sides /\ orders[id].qty \in Nat
                            /\ orders[id].filled \in Nat /\ orders[id].open \in BOOLEAN
                            /\ orders[id].open => orders[id].filled < orders[id].qty
         /\ pending # None =>
              /\ pending.id \in Ids /\ pending.id < nextId /\ pending.side \in Sides
              /\ orders[pending.id].side = pending.side
         /\ position # None =>
              /\ position.id \in Ids /\ position.id < nextId /\ position.side \in Sides
              /\ orders[position.id].side = position.side
              /\ orders[position.id].filled > 0
         /\ reply # None =>
              /\ call # None /\ reply \in Replies
              /\ reply.kind = "order" => reply.id \in Ids /\ reply.id < nextId
BY ReplyShapes DEF IInv, TypeOK, ExchangeTypeOK, Orders, OrderInv, SlotInv, ReplyInv, CallInv,
   PendingStates, PositionStates

\* The reply to a query about, or the acceptance of, an order that fills whole.
LEMMA WholeReply ==
  ASSUME NEW o \in Orders, NEW id \in Ids, o.filled \in {0, o.qty}, o.qty > 0
  PROVE  LET r == OrderReply(id, o)
         IN  /\ r.kind = "order" /\ r.id = id
             /\ r.status \in {"NEW", "FILLED", "CANCELED"}
             /\ r.status = "FILLED" => r.filled > 0 /\ o.filled = o.qty
             /\ r.status = "CANCELED" => ~o.open /\ o.filled = 0
BY DEF OrderReply, StatusOf, Orders

\* A tracked position is worth the quantity.
LEMMA PositionWorth ==
  ASSUME IInv, Tracked, position # None
  PROVE  /\ Quantity > 0
         /\ Holding(position.id) = Signed(position.side, Quantity)
BY Named DEF Tracked, Whole, Holding

-----------------------------------------------------------------------------
(***************************************************************************)
(* Which lots are clean.                                                   *)
(***************************************************************************)
LEMMA StepsOf ==
  ASSUME NEW k \in Nat
  PROVE  k * Step \in Nat /\ (k * Step) % Step = 0 /\ (k * Step) \div Step = k
BY ExchangeAssumption

LEMMA NormalizedSteps ==
  ASSUME NEW q \in Nat
  PROVE  LET k == q \div Step
             m == IF q % Step = 0 /\ k \in Slips THEN k - 1 ELSE k
         IN  k \in Nat /\ m \in Nat /\ normalize_qty(q) = m * Step
<1>1. q \div Step \in Nat
  BY ExchangeAssumption
<1>2. q \div Step \in Slips => q \div Step - 1 \in Nat
  BY <1>1, LotAssumption
<1> QED
  BY <1>1, <1>2 DEF normalize_qty

(***************************************************************************)
(* What normalize_qty takes off is less than a step, or one whole step off *)
(* a quantity that was on the grid (execution.rs:451-454).                 *)
(***************************************************************************)
THEOREM RoundsDownOneStep ==
  ASSUME NEW q \in Nat
  PROVE  /\ normalize_qty(q) \in Nat /\ normalize_qty(q) % Step = 0
         /\ normalize_qty(q) <= q /\ q - normalize_qty(q) <= Step
         /\ q - normalize_qty(q) = Step => q % Step = 0 /\ q \div Step \in Slips
<1> DEFINE k == q \div Step
           m == IF q % Step = 0 /\ k \in Slips THEN k - 1 ELSE k
<1>1. k \in Nat /\ m \in Nat /\ normalize_qty(q) = m * Step
  BY NormalizedSteps
<1>2. /\ k * Step \in Nat /\ k * Step <= q /\ q - k * Step < Step
      /\ q % Step = 0 => q = k * Step
  BY ExchangeAssumption
<1>3. m * Step \in Nat /\ (m * Step) % Step = 0
  BY <1>1, StepsOf
<1>4. CASE q % Step = 0 /\ k \in Slips
  <2>1. m * Step = k * Step - Step
    BY <1>1, <1>4, ExchangeAssumption
  <2> QED
    BY <1>1, <1>2, <1>3, <1>4, <2>1, ExchangeAssumption
<1>5. CASE ~(q % Step = 0 /\ k \in Slips)
  <2>1. m = k
    BY <1>5
  <2> QED
    BY <1>1, <1>2, <1>3, <2>1, ExchangeAssumption
<1> QED
  BY <1>4, <1>5

(***************************************************************************)
(* A lot sells back in one piece unless the quotient of what was bought    *)
(* comes out short too: a lot between two steps, rounded down onto a       *)
(* multiple that slips, or a multiple that slips onto one that does.       *)
(***************************************************************************)
THEOREM CleanLots ==
  Clean <=> IF Lot % Step = 0 /\ Lot \div Step \in Slips
              THEN Lot \div Step - 1 \notin Slips
              ELSE Lot \div Step \notin Slips
<1> DEFINE k == Lot \div Step
           m == IF Lot % Step = 0 /\ k \in Slips THEN k - 1 ELSE k
<1>1. k \in Nat /\ m \in Nat /\ Quantity = m * Step
  BY NormalizedSteps, LotAssumption DEF Quantity
<1> HIDE DEF m
<1>2. Quantity \in Nat /\ Quantity % Step = 0 /\ Quantity \div Step = m
  BY <1>1, StepsOf
<1>3. CASE m \in Slips
  <2>1. normalize_qty(Quantity) = (m - 1) * Step
    BY <1>2, <1>3 DEF normalize_qty
  <2>2. (m - 1) * Step = m * Step - Step /\ m * Step \in Nat
    BY <1>1, ExchangeAssumption
  <2>3. ~Clean
    BY <1>1, <2>1, <2>2, ExchangeAssumption DEF Clean
  <2> QED
    BY <1>3, <2>3 DEF m
<1>4. CASE m \notin Slips
  <2>1. Clean
    BY <1>1, <1>2, <1>4 DEF normalize_qty, Clean
  <2> QED
    BY <1>4, <2>1 DEF m
<1> QED
  BY <1>3, <1>4

-----------------------------------------------------------------------------
(***************************************************************************)
(* The orders.                                                             *)
(***************************************************************************)
LEMMA TickTracked ==
  ASSUME IInv, Tracked, process_tick
  PROVE  Tracked'
<1>1. /\ call = None /\ reply = None /\ reply' = None
      /\ UNCHANGED <<orders, nextId, pending>>
  BY DEF process_tick, TickQuiet, TickPoll, TickClose, TickEntry, Tick, NoCall, Make,
     IInv, CallInv
<1>2. EntrySized'
  BY <1>1 DEF EntrySized, process_tick, TickQuiet, TickPoll, TickClose, TickEntry, NoCall,
     Make, EntryCall, Quantity
<1>3. Whole' /\ Current'
  BY <1>1 DEF Tracked, Whole, Current
<1>4. NoStrayOrder'
  BY <1>1 DEF Tracked, NoStrayOrder, AcceptedUnread, Answered
<1> QED
  BY <1>2, <1>3, <1>4 DEF Tracked

\* What place_entry adopts is named by the reply it adopts it from.
LEMMA EntryAdopts ==
  ASSUME IInv, place_entry, reply.kind = "order"
  PROVE  /\ register_entry_result /\ call' = None /\ reply.id \in Ids
         /\ SaysFilled => /\ position' = Adopted(call.side) /\ pending' = None
                          /\ position' # None /\ position'.id = reply.id
         /\ ~SaysFilled => /\ pending' = [id |-> reply.id, side |-> call.side]
                           /\ position' = None
                           /\ pending' # None /\ pending'.id = reply.id
<1>0. /\ call # None /\ call.op = "entry" /\ reply # None
      /\ pending = None /\ position = None
  BY DEF place_entry, Answered, IInv, CallInv
<1>1. register_entry_result /\ call' = None
  BY DEF place_entry, Return, Make
<1>2. reply \in Replies /\ reply.id \in Ids /\ call \in Calls /\ call.side \in Sides
  BY <1>0, Named, CallShapes DEF IInv, TypeOK, ExchangeTypeOK
<1>3. /\ Adopted(call.side) \in PositionStates
      /\ [id |-> reply.id, side |-> call.side] \in PendingStates
  BY <1>2, LimitsAssumption DEF Adopted, PositionStates, PendingStates
<1> QED
  BY <1>0, <1>1, <1>2, <1>3, NoneDiffers DEF register_entry_result, Adopted

\* An accepted order becomes the tracked one, pending or filled.
LEMMA EntryTracked ==
  ASSUME IInv, Tracked, place_entry
  PROVE  Tracked'
<1>0. /\ call # None /\ call.op = "entry" /\ reply # None /\ reply' = None
      /\ pending = None
      /\ UNCHANGED <<orders, nextId>>
  BY DEF place_entry, Answered, Return, Make, IInv, CallInv
<1>1. Whole' /\ Current'
  BY <1>0 DEF Tracked, Whole, Current
<1>2. EntrySized'
  BY <1>0 DEF EntrySized, place_entry, Return, Make, EntryCall, Quantity
<1>3. CASE reply.kind # "order"
  <2>1. UNCHANGED pending
    BY <1>3 DEF place_entry
  <2>2. NoStrayOrder'
    BY <1>0, <1>3, <2>1 DEF Tracked, NoStrayOrder, AcceptedUnread, Answered
  <2> QED
    BY <1>1, <1>2, <2>2 DEF Tracked
<1>4. CASE reply.kind = "order" /\ SaysFilled
  <2>1. ~orders[reply.id].open
    <3>1. reply.status = "FILLED"
      BY <1>0, <1>4 DEF Tracked, Current, SaysFilled
    <3> QED
      BY <1>0, <1>4, <3>1, Named DEF Tracked, Current
  <2>2. NoStrayOrder'
    BY <1>0, <2>1 DEF Tracked, NoStrayOrder, AcceptedUnread
  <2> QED
    BY <1>1, <1>2, <2>2 DEF Tracked
<1>5. CASE reply.kind = "order" /\ ~SaysFilled
  <2>1. NoStrayOrder'
    BY <1>0, <1>5, EntryAdopts DEF Tracked, NoStrayOrder, AcceptedUnread
  <2> QED
    BY <1>1, <1>2, <2>1 DEF Tracked
<1> QED
  BY <1>3, <1>4, <1>5

\* A poll lets go of a filled order or a dead one.
LEMMA PollTracked ==
  ASSUME IInv, Tracked, poll_pending
  PROVE  Tracked'
<1>0. /\ call # None /\ call.op = "status" /\ reply # None /\ reply' = None /\ call' = None
      /\ pending # None
      /\ reply.kind \in {"order", "failed"}
      /\ reply.kind = "order" => reply.id = pending.id
      /\ UNCHANGED <<orders, nextId>>
  BY DEF poll_pending, Answered, Return, Make, IInv, CallInv, ReplyInv, ReplyKinds
<1>1. Whole' /\ Current' /\ EntrySized'
  BY <1>0 DEF Tracked, Whole, Current, EntrySized
<1>2. NoStrayOrder <=> \A id \in Ids : orders[id].open => id = pending.id
  BY <1>0 DEF NoStrayOrder, AcceptedUnread, Answered
<1>3. pending' = pending \/ ~orders[pending.id].open
  <2>1. pending' = pending \/ (reply.kind = "order" /\ (SaysFilled \/ reply.status = "CANCELED"))
    BY DEF poll_pending
  <2> QED
    BY <1>0, <2>1, Named DEF Tracked, Current, SaysFilled
<1>4. NoStrayOrder'
  BY <1>0, <1>2, <1>3 DEF Tracked, NoStrayOrder
<1> QED
  BY <1>1, <1>4 DEF Tracked

\* The close, to its end, finds no order on the book.
LEMMA CloseTracked ==
  ASSUME IInv, Tracked, size_known \/ close_sent
  PROVE  Tracked'
<1>1. /\ call # None /\ call.op \in {"size", "close"} /\ reply' = None
      /\ pending = None /\ pending' = None
      /\ call' # None => call'.op = "close"
      /\ UNCHANGED <<orders, nextId>>
  BY DEF size_known, close_sent, Answered, Return, Make, CloseCall, IInv, CallInv
<1> QED
  BY <1>1 DEF Tracked, Whole, Current, EntrySized, NoStrayOrder, AcceptedUnread, Answered

\* An accepted entry is the only order on the book.
LEMMA ServeEntryTracked ==
  ASSUME "partial" \notin Faults, IInv, Tracked, ServeEntry, UNCHANGED local_vars
  PROVE  Tracked'
<1>0. /\ call # None /\ call.op = "entry" /\ reply = None /\ nextId \in Ids
      /\ call.side \in Sides /\ call.qty = Quantity /\ Quantity > 0
      /\ pending = None
      /\ UNCHANGED <<call, pending>>
  BY EntryEffect
     DEF ServeEntry, Awaits, IInv, CallInv, Tracked, EntrySized, local_vars
<1>1. PICK o \in Orders :
        /\ orders' = [orders EXCEPT ![nextId] = o]
        /\ o.side = call.side /\ o.qty = call.qty
        /\ o.filled \in {0} \cup Executable(call.qty)
        /\ reply' = OrderReply(nextId, o) /\ reply' \in Replies
  BY EntryEffect DEF IInv
<1>2. /\ o.filled \in {0, o.qty} /\ nextId' = nextId + 1
      /\ orders \in [Ids -> Orders] /\ nextId \in Nat
  BY <1>0, <1>1 DEF Executable, ServeEntry, IInv, TypeOK, ExchangeTypeOK
<1>3. /\ reply' # None /\ reply'.kind = "order" /\ reply'.id = nextId
      /\ reply'.status \in {"NEW", "FILLED", "CANCELED"}
      /\ reply'.status = "FILLED" => reply'.filled > 0 /\ o.filled = o.qty
      /\ reply'.status = "CANCELED" => ~o.open /\ o.filled = 0
  BY <1>0, <1>1, <1>2, WholeReply, NoneDiffers
<1>4. /\ orders'[nextId] = o
      /\ \A id \in Ids \ {nextId} : orders'[id] = orders[id]
  BY <1>0, <1>1, <1>2
<1>5. \A id \in Ids : id < nextId' => id < nextId \/ id = nextId
  BY <1>2 DEF Ids
<1>6. Whole'
  BY <1>0, <1>1, <1>2, <1>4, <1>5 DEF Tracked, Whole
<1>7. Current'
  BY <1>0, <1>3, <1>4 DEF Current
<1>8. EntrySized'
  BY <1>0 DEF EntrySized
<1>9. \A id \in Ids : ~orders[id].open
  BY <1>0 DEF Tracked, NoStrayOrder, AcceptedUnread, Answered
<1>10. NoStrayOrder'
  BY <1>0, <1>3, <1>4, <1>9 DEF NoStrayOrder, AcceptedUnread, Answered
<1> QED
  BY <1>6, <1>7, <1>8, <1>10 DEF Tracked

\* A query answered, a call failed: the exchange stays as it is.
LEMMA AnswerShape ==
  ASSUME IInv, Tracked, UNCHANGED local_vars,
         ServeStatus \/ ServeSize \/ CallFails \/ PostOnlyReject
  PROVE  /\ call # None /\ reply = None /\ reply' # None
         /\ UNCHANGED <<orders, nextId, net, call, pending, position, alarm>>
         /\ reply'.kind \in {"order", "size", "failed", "post_only"}
         /\ reply'.kind = "order" =>
              /\ call.op = "status" /\ pending # None /\ reply'.id = pending.id
              /\ reply'.status \in {"NEW", "FILLED", "CANCELED"}
              /\ reply'.status = "FILLED" =>
                   reply'.filled > 0 /\ orders[pending.id].filled = orders[pending.id].qty
              /\ reply'.status = "CANCELED" =>
                   ~orders[pending.id].open /\ orders[pending.id].filled = 0
<1>0. /\ call # None /\ reply = None /\ reply' # None
      /\ UNCHANGED <<orders, nextId, net, call, pending, position, alarm>>
      /\ reply'.kind \in {"order", "size", "failed", "post_only"}
  <2>1. /\ call # None /\ reply = None
        /\ UNCHANGED <<orders, nextId, net, call, pending, position, alarm>>
    BY DEF ServeStatus, ServeSize, CallFails, PostOnlyReject, Awaits, local_vars
  <2>2. CASE ServeStatus
    <3>1. reply' = OrderReply(call.id, orders[call.id])
      BY <2>2 DEF ServeStatus
    <3>2. call.id \in Ids /\ orders[call.id] \in Orders
      BY <2>2, CallShapes DEF ServeStatus, Awaits, IInv, TypeOK, ExchangeTypeOK
    <3>3. reply' \in Replies
      BY <3>1, <3>2 DEF OrderReply, StatusOf, Statuses, Replies, Orders
    <3> QED
      BY <2>1, <3>1, <3>3, NoneDiffers DEF OrderReply
  <2>3. CASE ServeSize
    <3>1. Magnitude(net) \in Nat
      BY DEF Magnitude, IInv, TypeOK, ExchangeTypeOK
    <3>2. reply' = [kind |-> "size", size |-> Magnitude(net)] /\ reply' \in Replies
      BY <2>3, <3>1 DEF ServeSize, Replies
    <3> QED
      BY <2>1, <3>2, NoneDiffers
  <2>4. CASE CallFails \/ PostOnlyReject
    <3>1. reply' \in Replies /\ reply'.kind \in {"failed", "post_only"}
      BY <2>4 DEF CallFails, PostOnlyReject, Replies
    <3> QED
      BY <2>1, <3>1, NoneDiffers
  <2> QED
    BY <2>1, <2>2, <2>3, <2>4
<1>1. reply'.kind = "order" =>
        /\ call.op = "status" /\ pending # None /\ reply'.id = pending.id
        /\ reply'.status \in {"NEW", "FILLED", "CANCELED"}
        /\ reply'.status = "FILLED" =>
             reply'.filled > 0 /\ orders[pending.id].filled = orders[pending.id].qty
        /\ reply'.status = "CANCELED" =>
             ~orders[pending.id].open /\ orders[pending.id].filled = 0
  <2> SUFFICES ASSUME reply'.kind = "order"
               PROVE  /\ call.op = "status" /\ pending # None /\ reply'.id = pending.id
                      /\ reply'.status \in {"NEW", "FILLED", "CANCELED"}
                      /\ reply'.status = "FILLED" =>
                           reply'.filled > 0 /\ orders[pending.id].filled = orders[pending.id].qty
                      /\ reply'.status = "CANCELED" =>
                           ~orders[pending.id].open /\ orders[pending.id].filled = 0
    OBVIOUS
  <2>1. ServeStatus
    BY DEF ServeSize, CallFails, PostOnlyReject
  <2>2. /\ call.op = "status" /\ pending # None /\ call.id = pending.id
        /\ reply' = OrderReply(pending.id, orders[pending.id])
    BY <2>1 DEF ServeStatus, Awaits, IInv, CallInv
  <2>3. /\ pending.id \in Ids /\ orders[pending.id] \in Orders
        /\ orders[pending.id].filled \in {0, orders[pending.id].qty}
        /\ orders[pending.id].qty > 0
    BY <2>2, Named DEF Tracked, Whole, IInv, TypeOK, ExchangeTypeOK
  <2> QED
    BY <2>2, <2>3, WholeReply
<1> QED
  BY <1>0, <1>1

LEMMA AnswerTracked ==
  ASSUME IInv, Tracked, UNCHANGED local_vars,
         ServeStatus \/ ServeSize \/ CallFails \/ PostOnlyReject
  PROVE  Tracked'
<1>1. Whole' /\ Current' /\ EntrySized'
  BY AnswerShape DEF Tracked, Whole, Current, EntrySized
<1>2. AcceptedUnread' = FALSE /\ AcceptedUnread = FALSE
  BY AnswerShape DEF AcceptedUnread, Answered
<1>3. NoStrayOrder'
  BY <1>2, AnswerShape DEF Tracked, NoStrayOrder
<1> QED
  BY <1>1, <1>3 DEF Tracked

\* Closes and outside closes leave the orders alone.
LEMMA PositionTracked ==
  ASSUME IInv, Tracked, ServeClose \/ Liquidate, UNCHANGED local_vars
  PROVE  Tracked'
<1>1. CASE ServeClose
  <2>1. /\ call # None /\ call.op = "close" /\ reply' = [kind |-> "closed"]
        /\ UNCHANGED <<orders, nextId, call, pending>>
    BY <1>1 DEF ServeClose, Awaits, local_vars
  <2> QED
    BY <2>1 DEF Tracked, Whole, Current, EntrySized, NoStrayOrder, AcceptedUnread, Answered
<1>2. CASE Liquidate
  <2>1. UNCHANGED <<orders, nextId, call, reply, pending>>
    BY <1>2 DEF Liquidate, local_vars
  <2> QED
    BY <2>1 DEF Tracked, Whole, Current, EntrySized, NoStrayOrder, AcceptedUnread, Answered
<1> QED
  BY <1>1, <1>2

\* A fill fills all of an order.
LEMMA WholeFill ==
  ASSUME "partial" \notin Faults, IInv, Tracked, NEW id \in Ids, Fill(id)
  PROVE  /\ orders[id].filled = 0 /\ orders[id].qty \in Nat
         /\ orders' = [orders EXCEPT ![id] = [side |-> orders[id].side, qty |-> orders[id].qty,
                                             filled |-> orders[id].qty, open |-> FALSE]]
         /\ net' = net + Signed(orders[id].side, orders[id].qty)
<1>0. orders[id].open
  BY DEF Fill
<1>1. PICK o \in Orders :
        /\ orders' = [orders EXCEPT ![id] = o]
        /\ o.side = orders[id].side /\ o.qty = orders[id].qty
        /\ o.filled - orders[id].filled \in Executable(orders[id].qty - orders[id].filled)
        /\ o.open <=> o.filled < o.qty
        /\ net' = net + Signed(o.side, o.filled - orders[id].filled)
  BY FillEffect DEF IInv
<1>2. /\ orders[id].qty \in Nat /\ orders[id].filled < orders[id].qty
      /\ orders[id].filled \in {0, orders[id].qty} /\ o.filled \in Nat
  BY <1>0, Named DEF Tracked, Whole, Orders
<1>3. orders[id].filled = 0
  BY <1>2
<1>4. o.filled = o.qty
  BY <1>1, <1>2, <1>3 DEF Executable
<1>5. ~o.open /\ o.open \in BOOLEAN /\ o.filled - orders[id].filled = orders[id].qty
  BY <1>1, <1>2, <1>3, <1>4 DEF Orders
<1>6. o = [side |-> orders[id].side, qty |-> orders[id].qty, filled |-> orders[id].qty,
          open |-> FALSE]
  BY <1>1, <1>4, <1>5 DEF Orders
<1> QED
  BY <1>1, <1>2, <1>3, <1>5, <1>6

LEMMA FillTracked ==
  ASSUME "partial" \notin Faults, IInv, Tracked, NEW id \in Ids, Fill(id), UNCHANGED local_vars
  PROVE  Tracked'
<1>0. orders[id].open /\ UNCHANGED <<nextId, call, reply, pending>>
  BY DEF Fill, local_vars
<1>1. /\ orders'[id].filled = orders[id].qty /\ orders'[id].qty = orders[id].qty
      /\ ~orders'[id].open /\ orders[id].filled = 0
      /\ \A other \in Ids \ {id} : orders'[other] = orders[other]
  BY WholeFill DEF IInv, TypeOK, ExchangeTypeOK
<1>2. Whole'
  BY <1>0, <1>1 DEF Tracked, Whole
<1>3. Current' /\ EntrySized'
  BY <1>0, <1>1, Named DEF Tracked, Current, EntrySized
<1>4. NoStrayOrder'
  BY <1>0, <1>1 DEF Tracked, NoStrayOrder, AcceptedUnread, Answered
<1> QED
  BY <1>2, <1>3, <1>4 DEF Tracked

LEMMA KillTracked ==
  ASSUME IInv, Tracked, NEW id \in Ids, Kill(id), UNCHANGED local_vars
  PROVE  Tracked'
<1>0. UNCHANGED <<nextId, call, reply, pending>>
  BY DEF Kill, local_vars
<1>1. \A other \in Ids :
        /\ orders'[other].qty = orders[other].qty
        /\ orders'[other].filled = orders[other].filled
        /\ orders'[other].open => orders[other].open
  BY DEF Kill, IInv, TypeOK, ExchangeTypeOK, Orders
<1>2. Whole' /\ EntrySized' /\ Current'
  BY <1>0, <1>1, Named DEF Tracked, Whole, EntrySized, Current
<1>3. NoStrayOrder'
  BY <1>0, <1>1 DEF Tracked, NoStrayOrder, AcceptedUnread, Answered
<1> QED
  BY <1>2, <1>3 DEF Tracked

LEMMA InitTracked == Init => Tracked
<1> SUFFICES ASSUME Init PROVE Tracked
  OBVIOUS
<1>1. /\ \A id \in Ids : orders[id].filled = 0 /\ orders[id].qty = 0 /\ ~orders[id].open
      /\ \A id \in Ids : ~(id < nextId)
      /\ call = None /\ reply = None
  BY DEF Init, ExchangeInit, FreshState, Ids
<1> QED
  BY <1>1 DEF Tracked, Whole, EntrySized, Current, NoStrayOrder

LEMMA NextTracked ==
  ASSUME NothingForgotten
  PROVE  IInv /\ Tracked /\ [Next]_vars => Tracked'
<1> SUFFICES ASSUME IInv, Tracked, [Next]_vars PROVE Tracked'
  OBVIOUS
<1>0. "partial" \notin Faults /\ "lostReply" \notin Faults /\ "restart" \notin Faults
  BY DEF NothingForgotten
<1>1. CASE process_tick
  BY <1>1, TickTracked
<1>2. CASE handle_reply
  BY <1>2, EntryTracked, PollTracked, CloseTracked DEF handle_reply
<1>3. CASE ExchangeNext /\ UNCHANGED local_vars
  BY <1>0, <1>3, ServeEntryTracked, AnswerTracked, PositionTracked, FillTracked, KillTracked
     DEF ExchangeNext, ReplyLost
<1>4. CASE CooldownOver \/ UNCHANGED vars
  <2>1. UNCHANGED <<orders, nextId, call, reply, pending>>
    BY <1>4 DEF CooldownOver, vars
  <2> QED
    BY <2>1 DEF Tracked, Whole, EntrySized, Current, NoStrayOrder, AcceptedUnread, Answered
<1> QED
  BY <1>0, <1>1, <1>2, <1>3, <1>4 DEF Next, Restart

(***************************************************************************)
(* The only order on the book is the one the thread awaits, through thin   *)
(* books, positions closed from elsewhere, failures of every call and      *)
(* closes given up on (main.py:174-192, 264-316).                          *)
(***************************************************************************)
THEOREM OrdersTracked ==
  ASSUME NothingForgotten
  PROVE  Spec => []NoStrayOrder
<1>1. Tracked => NoStrayOrder
  BY DEF Tracked
<1>2. IInv /\ Tracked /\ [Next]_vars => Tracked'
  BY NextTracked
<1> QED
  BY InitIInv, NextIInv, InitTracked, <1>1, <1>2, PTL DEF Spec

(***************************************************************************)
(* So max_open_orders=1 (main.py:158) holds of the account too: two entry  *)
(* orders can be live only after a partial fill, a lost reply or a restart.*)
(***************************************************************************)
THEOREM OneOrderLive ==
  ASSUME NothingForgotten
  PROVE  Spec => []OneEntryOrderLive
<1>1. IInv /\ Tracked => OneEntryOrderLive
  <2> SUFFICES ASSUME IInv, Tracked, NEW i \in Ids, NEW j \in Ids,
                      orders[i].open, orders[j].open
               PROVE  i = j
    BY DEF OneEntryOrderLive
  <2>1. AcceptedUnread => pending = None
    BY DEF AcceptedUnread, Answered, IInv, CallInv
  <2> QED
    BY <2>1 DEF Tracked, NoStrayOrder
<1>2. IInv /\ Tracked /\ [Next]_vars => Tracked'
  BY NextTracked
<1> QED
  BY InitIInv, NextIInv, InitTracked, <1>1, <1>2, PTL DEF Spec

-----------------------------------------------------------------------------
(***************************************************************************)
(* The position.                                                           *)
(***************************************************************************)
LEMMA TickExposed ==
  ASSUME IInv, Exposed, process_tick
  PROVE  Exposed'
<1>1. /\ call = None /\ reply = None /\ reply' = None
      /\ UNCHANGED <<orders, net, pending, position, alarm>>
      /\ call' # None => call'.op # "close"
  BY DEF process_tick, TickQuiet, TickPoll, TickClose, TickEntry, Tick, NoCall, Make,
     EntryCall, IInv, CallInv
<1> QED
  BY <1>1 DEF Exposed, CloseSized, ExposureAccounted, Accounted, Holding, CloseUnread,
     AcceptedUnread, Answered

LEMMA EntryExposed ==
  ASSUME IInv, Exposed, place_entry
  PROVE  Exposed'
<1>0. /\ call # None /\ call.op = "entry" /\ reply # None /\ reply' = None
      /\ pending = None /\ position = None
      /\ UNCHANGED <<orders, net, alarm>>
      /\ call' # None => call'.op = "entry"
  BY DEF place_entry, Answered, Return, Make, EntryCall, IInv, CallInv
<1>1. CloseSized'
  BY <1>0 DEF CloseSized, Answered
<1>2. CASE reply.kind # "order"
  <2>1. UNCHANGED <<pending, position>>
    BY <1>2 DEF place_entry
  <2> QED
    BY <1>0, <1>1, <1>2, <2>1 DEF Exposed, ExposureAccounted, Accounted, CloseUnread,
       AcceptedUnread, Answered
<1>3. CASE reply.kind = "order"
  BY <1>0, <1>1, <1>3, EntryAdopts DEF Exposed, ExposureAccounted, Accounted, Holding,
     CloseUnread, AcceptedUnread, Answered
<1> QED
  BY <1>2, <1>3

\* A poll adopts a fill, or forgets an order that died without one.
LEMMA PollExposed ==
  ASSUME IInv, Tracked, Exposed, poll_pending
  PROVE  Exposed'
<1>0. /\ call # None /\ call.op = "status" /\ reply # None /\ reply' = None /\ call' = None
      /\ pending # None /\ position = None
      /\ reply.kind \in {"order", "failed"}
      /\ reply.kind = "order" => reply.id = pending.id
      /\ UNCHANGED <<orders, net, alarm>>
  BY DEF poll_pending, Answered, Return, Make, IInv, CallInv, ReplyInv, ReplyKinds
<1>1. CloseSized'
  BY <1>0 DEF CloseSized, Answered
<1>2. Accounted = Holding(pending.id)
  BY <1>0 DEF Accounted, AcceptedUnread, CloseUnread, Answered
<1>3. CASE UNCHANGED <<pending, position>>
  BY <1>0, <1>1, <1>2, <1>3 DEF Exposed, ExposureAccounted, Accounted, Holding,
     AcceptedUnread, CloseUnread, Answered
<1>4. CASE reply.kind = "order" /\ SaysFilled
  <2>1. position' = Adopted(pending.side) /\ pending' = None
    BY <1>4 DEF poll_pending
  <2>2. position' # None /\ position'.id = pending.id
    <3>1. Adopted(pending.side) \in PositionStates
      BY <1>0, <1>4, Named, LimitsAssumption DEF Adopted, PositionStates
    <3> QED
      BY <1>0, <1>4, <2>1, <3>1, NoneDiffers DEF Adopted
  <2> QED
    BY <1>0, <1>1, <1>2, <2>1, <2>2 DEF Exposed, ExposureAccounted, Accounted, Holding,
       AcceptedUnread, CloseUnread, Answered
<1>5. CASE reply.kind = "order" /\ ~SaysFilled /\ reply.status = "CANCELED"
  <2>1. pending' = None /\ position' = None
    BY <1>0, <1>5 DEF poll_pending
  <2>2. Holding(pending.id) = 0
    BY <1>0, <1>5, Named, NothingHeld DEF Tracked, Current
  <2> QED
    BY <1>0, <1>1, <1>2, <2>1, <2>2 DEF Exposed, ExposureAccounted, Accounted, AcceptedUnread,
       CloseUnread, Answered
<1> QED
  BY <1>0, <1>3, <1>4, <1>5 DEF poll_pending

\* The size asked for is the position's, and the close is for all of it.
LEMMA SizeExposed ==
  ASSUME IInv, Tracked, Exposed, Clean, size_known
  PROVE  Exposed'
<1>0. /\ call # None /\ call.op = "size" /\ reply # None /\ reply' = None
      /\ pending = None /\ pending' = None /\ position # None /\ position \in PositionStates
      /\ UNCHANGED <<orders, net, alarm>>
  BY DEF size_known, Answered, Return, Make, IInv, CallInv, TypeOK
<1>1. Accounted = Holding(position.id)
  BY <1>0 DEF Accounted, AcceptedUnread, CloseUnread, Answered
<1>2. CASE reply.kind = "size" /\ reply.size > 0
  <2>1. position' = Tried /\ call' = CloseCall(reply.size)
    BY <1>2 DEF size_known, Make
  <2>2. position' # None /\ position'.id = position.id
    <3>1. position.tries < MaxCloseRetries
      BY <1>0 DEF IInv, CallInv
    <3>2. Tried \in PositionStates /\ Tried.id = position.id
      BY <1>0, <3>1, LimitsAssumption DEF Tried, PositionStates
    <3> QED
      BY <2>1, <3>2, NoneDiffers
  <2>3. ~alarm => call'.qty = Quantity
    <3>1. ~alarm => reply.size = Quantity
      BY <1>0, <1>2 DEF Exposed, CloseSized, Answered
    <3>2. ~alarm => Smaller(Lot, reply.size) = Quantity
      BY <3>1, QuantityType, LotAssumption DEF Smaller
    <3> QED
      BY <2>1, <3>2 DEF CloseCall, Clean
  <2>4. call'.op = "close"
    BY <2>1 DEF CloseCall
  <2>5. CloseSized'
    BY <1>0, <2>3, <2>4 DEF CloseSized, Answered
  <2> QED
    BY <1>0, <1>1, <2>2, <2>5 DEF Exposed, ExposureAccounted, Accounted, Holding,
       AcceptedUnread, CloseUnread, Answered
<1>3. CASE reply.kind = "size" /\ reply.size = 0
  <2>1. call' = None /\ position' = None
    BY <1>3 DEF size_known, Return, Make
  <2>2. ~alarm => net = 0
    BY <1>0, <1>3 DEF Exposed, CloseSized, Answered
  <2> QED
    BY <1>0, <2>1, <2>2 DEF Exposed, CloseSized, ExposureAccounted, Accounted, AcceptedUnread,
       CloseUnread, Answered
<1>4. CASE reply.kind = "failed"
  <2>1. call' = None /\ position' = position
    BY <1>4 DEF size_known, Return, Make
  <2> QED
    BY <1>0, <1>1, <2>1 DEF Exposed, CloseSized, ExposureAccounted, Accounted, Holding,
       AcceptedUnread, CloseUnread, Answered
<1> QED
  BY <1>2, <1>3, <1>4 DEF size_known

\* What a counted close leaves untracked is nothing; giving up raises the alarm.
LEMMA CloseExposed ==
  ASSUME IInv, Exposed, close_sent
  PROVE  Exposed'
<1>0. /\ call # None /\ call.op = "close" /\ reply # None /\ reply' = None /\ call' = None
      /\ pending = None /\ pending' = None /\ position # None
      /\ reply.kind \in {"closed", "failed"}
      /\ UNCHANGED <<orders, net>>
  BY DEF close_sent, Answered, Return, Make, IInv, CallInv, ReplyInv, ReplyKinds
<1>1. CloseSized'
  BY <1>0 DEF CloseSized, Answered
<1>2. CASE reply.kind = "closed"
  <2>1. position' = None /\ alarm' = alarm
    BY <1>0, <1>2 DEF close_sent
  <2>2. ~alarm => net = 0
    BY <1>0, <1>2 DEF Exposed, ExposureAccounted, Accounted, CloseUnread, Answered
  <2> QED
    BY <1>0, <1>1, <2>1, <2>2 DEF Exposed, ExposureAccounted, Accounted, AcceptedUnread,
       CloseUnread, Answered
<1>3. CASE reply.kind = "failed"
  <2>1. alarm' \/ (position' = position /\ alarm' = alarm)
    BY <1>0, <1>3 DEF close_sent
  <2>2. Accounted = Holding(position.id)
    BY <1>0, <1>3 DEF Accounted, CloseUnread, AcceptedUnread, Answered
  <2> QED
    BY <1>0, <1>1, <2>1, <2>2 DEF Exposed, ExposureAccounted, Accounted, Holding,
       AcceptedUnread, CloseUnread, Answered
<1> QED
  BY <1>0, <1>2, <1>3

-----------------------------------------------------------------------------
\* An accepted entry is all that is held.
LEMMA ServeEntryExposed ==
  ASSUME IInv, Exposed, ServeEntry, UNCHANGED local_vars
  PROVE  Exposed'
<1>0. /\ call # None /\ call.op = "entry" /\ reply = None /\ nextId \in Ids
      /\ call.side \in Sides
      /\ pending = None /\ position = None
      /\ UNCHANGED <<call, pending, position, alarm>>
  BY EntryEffect DEF ServeEntry, Awaits, IInv, CallInv, local_vars
<1>1. PICK o \in Orders :
        /\ orders' = [orders EXCEPT ![nextId] = o]
        /\ o.side = call.side
        /\ reply' = OrderReply(nextId, o) /\ reply' \in Replies
        /\ net' = net + Signed(call.side, o.filled)
  BY EntryEffect DEF IInv
<1>2. reply' # None /\ reply'.kind = "order" /\ reply'.id = nextId /\ orders'[nextId] = o
  BY <1>0, <1>1, NoneDiffers DEF OrderReply, IInv, TypeOK, ExchangeTypeOK
<1>3. ~alarm => net = 0
  BY <1>0 DEF Exposed, ExposureAccounted, Accounted, CloseUnread, AcceptedUnread, Answered
<1>4. net' = net + Signed(o.side, o.filled) /\ Signed(o.side, o.filled) \in Int
  BY <1>0, <1>1 DEF Signed, Orders
<1>5. ExposureAccounted'
  BY <1>0, <1>2, <1>3, <1>4 DEF ExposureAccounted, Accounted, Holding, CloseUnread,
     AcceptedUnread, Answered
<1>6. CloseSized'
  BY <1>0 DEF CloseSized, Answered
<1> QED
  BY <1>5, <1>6 DEF Exposed

LEMMA AnswerExposed ==
  ASSUME IInv, Tracked, Exposed, UNCHANGED local_vars,
         ServeStatus \/ ServeSize \/ CallFails \/ PostOnlyReject
  PROVE  Exposed'
<1>1. /\ AcceptedUnread' = FALSE /\ CloseUnread' = FALSE
      /\ AcceptedUnread = FALSE /\ CloseUnread = FALSE
  BY AnswerShape DEF AcceptedUnread, CloseUnread, Answered
<1>2. ExposureAccounted'
  BY <1>1, AnswerShape DEF Exposed, ExposureAccounted, Accounted, Holding
<1>3. reply'.kind = "size" /\ ~alarm =>
        reply'.size \in {0, Quantity} /\ (reply'.size = 0 => net = 0)
  <2> SUFFICES ASSUME reply'.kind = "size", ~alarm
               PROVE  reply'.size \in {0, Quantity} /\ (reply'.size = 0 => net = 0)
    OBVIOUS
  <2>1. ServeSize
    BY DEF ServeStatus, CallFails, PostOnlyReject, OrderReply
  <2>2. /\ call.op = "size" /\ pending = None /\ position # None
        /\ reply'.size = Magnitude(net)
    BY <2>1 DEF ServeSize, Awaits, IInv, CallInv
  <2>3. net = Signed(position.side, Quantity) \/ net = 0
    BY <1>1, <2>2, PositionWorth DEF Exposed, ExposureAccounted, Accounted
  <2>4. Magnitude(net) \in {0, Quantity} /\ (Magnitude(net) = 0 => net = 0)
    BY <2>3, QuantityType DEF Magnitude, Signed
  <2> QED
    BY <2>2, <2>4
<1>4. CloseSized'
  BY <1>3, AnswerShape DEF Exposed, CloseSized, Answered
<1> QED
  BY <1>2, <1>4 DEF Exposed

\* A close that has something to reduce takes away all that is held.
LEMMA AllClosed ==
  ASSUME "thinBook" \notin Faults, IInv, Tracked, Exposed, ~alarm, ServeClose
  PROVE  /\ net' = 0 /\ net = Signed(position.side, Quantity)
         /\ position # None /\ position.side \in Sides /\ Quantity > 0
<1>0. /\ call # None /\ call.op = "close" /\ reply = None
      /\ pending = None /\ position # None
      /\ call.side = Opposite(position.side) /\ call.reduce
      /\ position.side \in Sides /\ call.qty = Quantity
      /\ Reducible(call.side) > 0
  BY Named DEF ServeClose, Awaits, IInv, CallInv, Exposed, CloseSized
<1>1. net # 0
  BY <1>0 DEF Reducible
<1>2. net = Signed(position.side, Quantity) /\ Quantity > 0
  BY <1>0, <1>1, PositionWorth DEF Exposed, ExposureAccounted, Accounted, CloseUnread,
     AcceptedUnread, Answered
<1>3. Reducible(call.side) = Quantity
  BY <1>0, <1>2, QuantityType DEF Reducible, Opposite, Signed, Sides
<1>4. net' = net + Signed(call.side, Smaller(Quantity, Quantity))
  BY <1>0, <1>3 DEF ServeClose
<1>5. net' = 0
  BY <1>0, <1>2, <1>4, QuantityType DEF Smaller, Opposite, Signed, Sides
<1> QED
  BY <1>0, <1>2, <1>5

LEMMA ServeCloseExposed ==
  ASSUME "thinBook" \notin Faults, IInv, Tracked, Exposed, ServeClose, UNCHANGED local_vars
  PROVE  Exposed'
<1>0. /\ call # None /\ call.op = "close" /\ reply = None
      /\ reply' # None /\ reply'.kind = "closed"
      /\ UNCHANGED <<call, alarm>>
  <2>1. reply' = [kind |-> "closed"] /\ reply' \in Replies
    BY DEF ServeClose, Replies
  <2> QED
    BY <2>1, NoneDiffers DEF ServeClose, Awaits, local_vars
<1>1. CloseSized'
  BY <1>0 DEF Exposed, CloseSized, Answered
<1>2. ~alarm => net' = 0
  BY AllClosed
<1> QED
  BY <1>0, <1>1, <1>2 DEF Exposed, ExposureAccounted, Accounted, CloseUnread, Answered

\* A fill meets the tracked order.
LEMMA FillExposed ==
  ASSUME "partial" \notin Faults, IInv, Tracked, Exposed, NEW id \in Ids, Fill(id),
         UNCHANGED local_vars
  PROVE  Exposed'
<1>0. /\ orders[id].open /\ UNCHANGED <<nextId, call, reply, pending, position, alarm>>
  BY DEF Fill, local_vars
<1>1. (pending # None /\ id = pending.id) \/ (AcceptedUnread /\ id = reply.id)
  BY <1>0 DEF Tracked, NoStrayOrder
<1>2. /\ ~CloseUnread /\ (AcceptedUnread => pending = None)
      /\ call # None => call.op \notin {"size", "close"}
  BY <1>1 DEF IInv, CallInv, AcceptedUnread, CloseUnread, Answered
<1>3. CloseSized'
  BY <1>0, <1>2 DEF CloseSized, Answered
<1>4. Accounted = Holding(id) /\ Accounted' = Holding(id)'
  BY <1>0, <1>1, <1>2 DEF Accounted, Holding, AcceptedUnread, CloseUnread, Answered
<1>5. /\ orders[id].qty \in Nat /\ net' = net + Signed(orders[id].side, orders[id].qty)
      /\ orders'[id].side = orders[id].side /\ orders'[id].filled = orders[id].qty
  BY WholeFill DEF IInv, TypeOK, ExchangeTypeOK
<1>6. Holding(id) = 0
  BY WholeFill, NothingHeld
<1>7. ~alarm => net = 0
  BY <1>4, <1>6 DEF Exposed, ExposureAccounted
<1>8. /\ Holding(id)' = Signed(orders[id].side, orders[id].qty)
      /\ Signed(orders[id].side, orders[id].qty) \in Int
  BY <1>5 DEF Holding, Signed
<1>9. ExposureAccounted'
  BY <1>0, <1>4, <1>5, <1>7, <1>8 DEF ExposureAccounted
<1> QED
  BY <1>3, <1>9 DEF Exposed

LEMMA KillExposed ==
  ASSUME IInv, Exposed, NEW id \in Ids, Kill(id), UNCHANGED local_vars
  PROVE  Exposed'
<1>0. UNCHANGED <<net, call, reply, pending, position, alarm>>
  BY DEF Kill, local_vars
<1>1. \A other \in Ids : Holding(other)' = Holding(other)
  BY DEF Kill, Holding, IInv, TypeOK, ExchangeTypeOK, Orders
<1>2. /\ AcceptedUnread' = AcceptedUnread /\ CloseUnread' = CloseUnread
      /\ AcceptedUnread => reply.id \in Ids
  BY <1>0, Named DEF AcceptedUnread, CloseUnread, Answered
<1>3. Accounted' = Accounted
  BY <1>0, <1>1, <1>2, Named DEF Accounted
<1> QED
  BY <1>0, <1>3 DEF Exposed, CloseSized, ExposureAccounted, Answered

\* The position may go at any instant; the thread finds out when it asks.
LEMMA LiquidateExposed ==
  ASSUME IInv, Exposed, Liquidate, UNCHANGED local_vars
  PROVE  Exposed'
<1>1. /\ UNCHANGED <<orders, call, reply, pending, position, alarm>>
      /\ net' = 0 /\ "liquidation" \in Faults
  BY DEF Liquidate, local_vars
<1> QED
  BY <1>1 DEF Exposed, CloseSized, ExposureAccounted, Answered

LEMMA InitExposed == Init => Exposed
BY DEF Init, ExchangeInit, FreshState, Exposed, CloseSized, ExposureAccounted, Accounted,
   AcceptedUnread, CloseUnread, Answered

LEMMA NextExposed ==
  ASSUME ClosedFromElsewhere, Clean
  PROVE  IInv /\ Tracked /\ Exposed /\ [Next]_vars => Tracked' /\ Exposed'
<1> SUFFICES ASSUME IInv, Tracked, Exposed, [Next]_vars PROVE Tracked' /\ Exposed'
  OBVIOUS
<1>0. /\ "partial" \notin Faults /\ "thinBook" \notin Faults
      /\ "lostReply" \notin Faults /\ "restart" \notin Faults
      /\ NothingForgotten
  BY DEF ClosedFromElsewhere, NothingForgotten
<1>1. Tracked'
  BY <1>0, NextTracked
<1>2. CASE process_tick
  BY <1>1, <1>2, TickExposed
<1>3. CASE handle_reply
  BY <1>1, <1>3, EntryExposed, PollExposed, SizeExposed, CloseExposed DEF handle_reply
<1>4. CASE ExchangeNext /\ UNCHANGED local_vars
  BY <1>0, <1>1, <1>4, ServeEntryExposed, AnswerExposed, ServeCloseExposed, FillExposed,
     KillExposed, LiquidateExposed DEF ExchangeNext, ReplyLost
<1>5. CASE CooldownOver \/ UNCHANGED vars
  <2>1. UNCHANGED <<orders, net, call, reply, pending, position, alarm>>
    BY <1>5 DEF CooldownOver, vars
  <2> QED
    BY <1>1, <2>1 DEF Exposed, CloseSized, ExposureAccounted, Accounted, Holding,
       AcceptedUnread, CloseUnread, Answered
<1> QED
  BY <1>0, <1>2, <1>3, <1>4, <1>5 DEF Next, Restart

(***************************************************************************)
(* For every lot that sells back in one piece: until a position is given   *)
(* up, what the exchange holds is at every instant what the thread tracks, *)
(* or nothing, when it was closed from elsewhere (main.py:174-316).        *)
(***************************************************************************)
THEOREM ExposureTracked ==
  ASSUME ClosedFromElsewhere, Clean
  PROVE  Spec => []ExposureAccounted
<1>1. Exposed => ExposureAccounted
  BY DEF Exposed
<1>2. IInv /\ Tracked /\ Exposed /\ [Next]_vars => Tracked' /\ Exposed'
  BY NextExposed
<1> QED
  BY InitIInv, NextIInv, InitTracked, InitExposed, <1>1, <1>2, PTL DEF Spec

(***************************************************************************)
(* So main.py:209, "MARKET close - guaranteed fill", holds of such lots on *)
(* a deep book: a close answered with success has left nothing behind.     *)
(***************************************************************************)
THEOREM CloseFills ==
  ASSUME ClosedFromElsewhere, Clean
  PROVE  Spec => [](~alarm => GuaranteedFill)
<1>1. Exposed => (~alarm => GuaranteedFill)
  BY DEF Exposed, ExposureAccounted, Accounted, GuaranteedFill
<1>2. IInv /\ Tracked /\ Exposed /\ [Next]_vars => Tracked' /\ Exposed'
  BY NextExposed
<1> QED
  BY InitIInv, NextIInv, InitTracked, InitExposed, <1>1, <1>2, PTL DEF Spec

-----------------------------------------------------------------------------
(***************************************************************************)
(* The account's view of the slot, as Account has it, from a position n,   *)
(* the ids that are live and the orders.                                   *)
(***************************************************************************)
PhaseOf(n, live) ==
  IF n = 0 /\ live = {} THEN "flat"
  ELSE IF n = 0 /\ \E id \in Ids : live = {id} THEN "ordered"
  ELSE IF Magnitude(n) = normalize_qty(Lot) /\ live = {} THEN "holding"
  ELSE "overexposed"

SideOf(n, live, book) ==
  IF n > 0 THEN "BUY" ELSE IF n < 0 THEN "SELL"
  ELSE IF live # {} THEN book[CHOOSE id \in live : TRUE].side ELSE "none"

LEMMA FlatView ==
  ASSUME NEW book
  PROVE  PhaseOf(0, {}) = "flat" /\ SideOf(0, {}, book) = "none"
BY DEF PhaseOf, SideOf

LEMMA OrderedView ==
  ASSUME NEW id \in Ids, NEW book
  PROVE  PhaseOf(0, {id}) = "ordered" /\ SideOf(0, {id}, book) = book[id].side
<1>1. (CHOOSE x \in {id} : TRUE) = id
  OBVIOUS
<1> QED
  BY <1>1 DEF PhaseOf, SideOf

LEMMA HoldingView ==
  ASSUME NEW side \in Sides, Quantity > 0, NEW book
  PROVE  /\ PhaseOf(Signed(side, Quantity), {}) = "holding"
         /\ SideOf(Signed(side, Quantity), {}, book) = side
<1>1. /\ Quantity \in Nat /\ Quantity = normalize_qty(Lot)
      /\ side = "BUY" \/ side = "SELL"
  BY QuantityType DEF Quantity, Sides
<1>2. \A q \in Nat : q > 0 => -q < 0 /\ ~(-q >= 0) /\ ~(-q > 0) /\ - (-q) = q /\ -q # 0
  OBVIOUS
<1>3. CASE side = "BUY"
  <2>1. Signed(side, Quantity) = Quantity /\ Magnitude(Quantity) = Quantity
    BY <1>1, <1>3 DEF Signed, Magnitude
  <2> QED
    BY <1>1, <1>3, <2>1 DEF PhaseOf, SideOf
<1>4. CASE side = "SELL"
  <2> DEFINE n == -Quantity
  <2>1. n < 0 /\ ~(n > 0) /\ n # 0 /\ Magnitude(n) = Quantity
    BY <1>1, <1>2 DEF Magnitude
  <2>2. Signed(side, Quantity) = n
    BY <1>4 DEF Signed
  <2> HIDE DEF n
  <2> QED
    BY <1>1, <1>4, <2>1, <2>2 DEF PhaseOf, SideOf
<1> QED
  BY <1>1, <1>3, <1>4

\* Steps of the account's view.
LEMMA ViewEnters ==
  ASSUME NEW side \in Sides, PhaseOf(net, Live) = "flat", streak < MaxConsecLosses,
         PhaseOf(net', Live') \in {"ordered", "holding"},
         SideOf(net', Live', orders') = side, streak' = streak
  PROVE  Account!Next
<1>1. Account!Enter(side)
  BY DEF Account!Enter, PhaseOf, SideOf
<1> QED
  BY <1>1 DEF Account!Next, Sides

LEMMA ViewFills ==
  ASSUME PhaseOf(net, Live) = "ordered", PhaseOf(net', Live') = "holding",
         SideOf(net', Live', orders') = SideOf(net, Live, orders), streak' = streak
  PROVE  Account!Next
BY DEF Account!Next, Account!Fill, PhaseOf, SideOf

LEMMA ViewReleases ==
  ASSUME PhaseOf(net, Live) \in {"ordered", "holding"}, PhaseOf(net', Live') = "flat",
         SideOf(net', Live', orders') = "none", streak' = streak
  PROVE  Account!Next
BY DEF Account!Next, Account!Release, PhaseOf, SideOf

LEMMA ViewCloses ==
  ASSUME PhaseOf(net, Live) = "holding", PhaseOf(net', Live') = "flat",
         SideOf(net', Live', orders') = "none", NEW won \in BOOLEAN,
         streak' = IF won THEN 0 ELSE streak + 1
  PROVE  Account!Next
BY DEF Account!Next, Account!Close, PhaseOf, SideOf

LEMMA ViewStays ==
  ASSUME UNCHANGED <<orders, net, streak>>
  PROVE  UNCHANGED Account!vars
BY DEF Account!vars, Live

-----------------------------------------------------------------------------
\* An accepted entry is Enter, unless it is dead on arrival.
LEMMA EntryOnAccount ==
  ASSUME "partial" \notin Faults, IInv, LossInv, Tracked, Exposed, ~alarm, ServeEntry
  PROVE  [Account!Next]_(Account!vars)
<1>0. /\ call # None /\ call.op = "entry" /\ reply = None /\ nextId \in Ids
      /\ call.side \in Sides /\ call.qty = Quantity /\ Quantity > 0
      /\ pending = None /\ position = None /\ streak' = streak
  BY EntryEffect DEF ServeEntry, Awaits, IInv, CallInv, Tracked, EntrySized
<1>1. PICK o \in Orders :
        /\ orders' = [orders EXCEPT ![nextId] = o]
        /\ o.side = call.side /\ o.qty = call.qty
        /\ o.filled \in {0} \cup Executable(call.qty)
        /\ o.open => o.filled < o.qty
        /\ net' = net + Signed(call.side, o.filled)
  BY EntryEffect DEF IInv
<1>2. net = 0 /\ Live = {}
  BY <1>0 DEF Tracked, Exposed, ExposureAccounted, Accounted, NoStrayOrder, CloseUnread,
     AcceptedUnread, Answered, Live
<1>3. PhaseOf(net, Live) = "flat"
  BY <1>2, FlatView
<1>4. streak < MaxConsecLosses
  <2>1. losses # MaxConsecLosses /\ losses \in 0 .. MaxConsecLosses /\ streak = losses
    BY <1>0 DEF IInv, HaltInv, TypeOK, LossInv, CloseUnread, Answered
  <2> QED
    BY <2>1, LimitsAssumption
<1>5. /\ orders'[nextId] = o
      /\ \A id \in Ids \ {nextId} : orders'[id] = orders[id]
      /\ \A id \in Ids : ~orders[id].open
      /\ o.filled \in {0, Quantity} /\ o.open \in BOOLEAN
  BY <1>0, <1>1, <1>2 DEF IInv, TypeOK, ExchangeTypeOK, Live, Executable, Orders
<1>6. CASE o.filled = Quantity
  <2>1. Live' = {}
    BY <1>0, <1>1, <1>5, <1>6, QuantityType DEF Live
  <2>2. net' = Signed(call.side, Quantity)
    BY <1>0, <1>1, <1>2, <1>6, QuantityType DEF Signed
  <2> QED
    BY <1>0, <1>3, <1>4, <2>1, <2>2, HoldingView, ViewEnters
<1>7. CASE o.filled = 0
  <2>1. net' = 0
    <3>1. \A q \in Nat : q <= 0 => 0 + q = 0 /\ 0 + (-q) = 0
      OBVIOUS
    <3>2. o.filled \in Nat /\ o.filled <= 0
      BY <1>7
    <3> QED
      BY <1>1, <1>2, <3>1, <3>2 DEF Signed
  <2>2. CASE o.open
    <3>1. Live' = {nextId}
      BY <1>0, <1>5, <2>2 DEF Live
    <3>2. SideOf(net', Live', orders') = call.side /\ PhaseOf(net', Live') = "ordered"
      <4>1. orders'[nextId].side = call.side
        BY <1>1, <1>5
      <4>2. /\ PhaseOf(0, {nextId}) = "ordered"
            /\ \A book : SideOf(0, {nextId}, book) = book[nextId].side
        BY <1>0, OrderedView
      <4> QED
        BY <2>1, <3>1, <4>1, <4>2
    <3> QED
      BY <1>0, <1>3, <1>4, <3>2, ViewEnters
  <2>3. CASE ~o.open
    <3>1. Live' = {}
      BY <1>5, <2>3 DEF Live
    <3>2. /\ PhaseOf(net', Live') = PhaseOf(net, Live)
          /\ SideOf(net', Live', orders') = SideOf(net, Live, orders)
      BY <1>2, <2>1, <3>1, FlatView
    <3> QED
      BY <1>0, <3>2 DEF Account!vars, PhaseOf, SideOf
  <2> QED
    BY <1>5, <2>2, <2>3
<1> QED
  BY <1>5, <1>6, <1>7

\* A close executed is Close.
LEMMA CloseOnAccount ==
  ASSUME "thinBook" \notin Faults, IInv, Tracked, Exposed, ~alarm, ServeClose
  PROVE  [Account!Next]_(Account!vars)
<1>0. call # None /\ call.op = "close" /\ reply = None /\ pending = None /\ orders' = orders
  BY DEF ServeClose, Awaits, IInv, CallInv
<1>1. Live = {} /\ Live' = {}
  BY <1>0 DEF Tracked, NoStrayOrder, AcceptedUnread, Answered, Live
<1>2. \E won \in BOOLEAN : streak' = IF won THEN 0 ELSE streak + 1
  BY DEF ServeClose
<1>3. /\ PhaseOf(net, Live) = "holding" /\ PhaseOf(net', Live') = "flat"
      /\ SideOf(net', Live', orders') = "none"
  BY <1>0, <1>1, AllClosed, HoldingView, FlatView
<1> QED
  BY <1>2, <1>3, ViewCloses

\* The one order on the book, with nothing held.
LEMMA LiveAlone ==
  ASSUME IInv, Tracked, Exposed, ~alarm, NEW id \in Ids, orders[id].open
  PROVE  /\ Live = {id} /\ net = 0 /\ orders[id].side \in Sides
         /\ PhaseOf(net, Live) = "ordered"
         /\ SideOf(net, Live, orders) = orders[id].side
<1>1. (pending # None /\ id = pending.id) \/ (AcceptedUnread /\ id = reply.id)
  BY DEF Tracked, NoStrayOrder
<1>2. ~CloseUnread /\ (AcceptedUnread => pending = None)
  BY <1>1 DEF IInv, CallInv, AcceptedUnread, CloseUnread, Answered
<1>3. Live = {id}
  BY <1>1, <1>2 DEF Tracked, NoStrayOrder, Live
<1>4. orders[id].filled \in Nat /\ orders[id].filled <= 0
  BY Named DEF Tracked, Whole
<1>5. Accounted = Holding(id)
  BY <1>1, <1>2 DEF Accounted
<1>6. net = 0
  BY <1>4, <1>5, NothingHeld DEF Exposed, ExposureAccounted
<1> QED
  BY <1>3, <1>6, OrderedView, Named

LEMMA FillOnAccount ==
  ASSUME "partial" \notin Faults, IInv, Tracked, Exposed, ~alarm, NEW id \in Ids, Fill(id)
  PROVE  [Account!Next]_(Account!vars)
<1>0. /\ Live = {id} /\ net = 0 /\ orders[id].side \in Sides /\ orders[id].open
      /\ PhaseOf(net, Live) = "ordered" /\ SideOf(net, Live, orders) = orders[id].side
      /\ streak' = streak
  BY LiveAlone DEF Fill
<1>1. orders[id].qty = Quantity /\ Quantity > 0
  <2>1. id < nextId
    BY <1>0, Named DEF Tracked, NoStrayOrder, AcceptedUnread, Answered
  <2> QED
    BY <2>1 DEF Tracked, Whole
<1>2. net' = Signed(orders[id].side, Quantity)
  BY <1>0, <1>1, WholeFill, QuantityType DEF Signed
<1>3. Live' = {}
  BY <1>0, WholeFill DEF Live, IInv, TypeOK, ExchangeTypeOK
<1>4. PhaseOf(net', Live') = "holding" /\ SideOf(net', Live', orders') = orders[id].side
  BY <1>0, <1>1, <1>2, <1>3, HoldingView
<1> QED
  BY <1>0, <1>4, ViewFills

LEMMA KillOnAccount ==
  ASSUME IInv, Tracked, Exposed, ~alarm, NEW id \in Ids, Kill(id)
  PROVE  [Account!Next]_(Account!vars)
<1>0. /\ Live = {id} /\ net = 0 /\ PhaseOf(net, Live) = "ordered"
      /\ net' = net /\ streak' = streak
  BY LiveAlone DEF Kill
<1>1. Live' = {}
  BY <1>0 DEF Kill, Live, IInv, TypeOK, ExchangeTypeOK, Orders
<1> QED
  BY <1>0, <1>1, FlatView, ViewReleases

\* What is closed from elsewhere was the one lot held: that is Release.
LEMMA LiquidateOnAccount ==
  ASSUME IInv, Tracked, Exposed, ~alarm, Liquidate
  PROVE  [Account!Next]_(Account!vars)
<1>0. net # 0 /\ net' = 0 /\ orders' = orders /\ streak' = streak
  BY DEF Liquidate
<1>1. Live = {} /\ Live' = {}
  BY <1>0, LiveAlone DEF Live
<1>2. net = Accounted
  BY <1>0 DEF Exposed, ExposureAccounted
<1>3. PICK id \in Ids : id < nextId /\ net = Holding(id) /\ orders[id].side \in Sides
  BY <1>0, <1>2, Named DEF Accounted, AcceptedUnread, Answered
<1>4. /\ orders[id].filled \in {0, Quantity} /\ orders[id].filled \in Nat
      /\ Quantity > 0 /\ Quantity \in Nat
  BY <1>3, Named, QuantityType DEF Tracked, Whole
<1>5. orders[id].filled # 0
  <2>1. orders[id].filled <= 0 => Holding(id) = 0
    BY <1>4, NothingHeld
  <2> QED
    BY <1>0, <1>3, <1>4, <2>1
<1>6. net = Signed(orders[id].side, Quantity)
  BY <1>3, <1>4, <1>5 DEF Holding
<1>7. /\ PhaseOf(net, Live) = "holding" /\ PhaseOf(net', Live') = "flat"
      /\ SideOf(net', Live', orders') = "none"
  BY <1>0, <1>1, <1>3, <1>4, <1>6, HoldingView, FlatView
<1> QED
  BY <1>0, <1>7, ViewReleases

(***************************************************************************)
(* The account implements Slot, until a position is given up: seen from    *)
(* the exchange there is one order live or one lot held, on one side until *)
(* it is gone, and no entry after the losses that halt (main.py:174-316,   *)
(* strategy.py:102-117).                                                   *)
(***************************************************************************)
THEOREM AccountRefined ==
  ASSUME ClosedFromElsewhere, Clean
  PROVE  Spec => SlotOnAccount
<1>0. /\ "partial" \notin Faults /\ "thinBook" \notin Faults
      /\ "lostReply" \notin Faults /\ "restart" \notin Faults
  BY DEF ClosedFromElsewhere
<1>1. Init => Account!Init
  <2> SUFFICES ASSUME Init PROVE Account!Init
    OBVIOUS
  <2>1. net = 0 /\ Live = {} /\ streak = 0
    BY DEF Init, ExchangeInit, Live
  <2> QED
    BY <2>1 DEF Account!Init
<1>2. IInv /\ LossInv /\ Tracked /\ Exposed /\ [Next]_vars
        => [alarm \/ Account!Next]_(Account!vars)
  <2> SUFFICES ASSUME IInv, LossInv, Tracked, Exposed, [Next]_vars, ~alarm
               PROVE  [Account!Next]_(Account!vars)
    OBVIOUS
  <2>1. CASE process_tick \/ handle_reply \/ CooldownOver \/ UNCHANGED vars
    <3>1. UNCHANGED <<orders, net, streak>>
      BY <2>1 DEF process_tick, TickQuiet, TickPoll, TickClose, TickEntry, handle_reply,
         place_entry, poll_pending, size_known, close_sent, CooldownOver, vars
    <3> QED
      BY <3>1, ViewStays
  <2>2. CASE ServeStatus \/ ServeSize \/ CallFails \/ PostOnlyReject
    <3>1. UNCHANGED <<orders, net, streak>>
      BY <2>2 DEF ServeStatus, ServeSize, CallFails, PostOnlyReject
    <3> QED
      BY <3>1, ViewStays
  <2>3. CASE ExchangeNext /\ UNCHANGED local_vars
    BY <1>0, <2>2, <2>3, EntryOnAccount, CloseOnAccount, FillOnAccount, KillOnAccount,
       LiquidateOnAccount DEF ExchangeNext, ReplyLost
  <2> QED
    BY <1>0, <2>1, <2>3 DEF Next, Restart
<1>3. IInv /\ Tracked /\ Exposed /\ [Next]_vars => Tracked' /\ Exposed'
  BY NextExposed
<1>4. IInv /\ LossInv /\ [Next]_vars => LossInv'
  BY <1>0, LossNext
<1> QED
  BY InitIInv, NextIInv, InitTracked, InitExposed, LossInit, <1>1, <1>2, <1>3, <1>4, PTL
     DEF Spec, SlotOnAccount

=============================================================================
