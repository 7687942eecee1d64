---------------------------- MODULE TraderProofs ----------------------------
(***************************************************************************)
(* Theorems about Trader, for every lot, step, limit and number of orders. *)
(*                                                                         *)
(* IInv holds under every fault: the call in flight fits the slot it is    *)
(* for (CallInv), the reply fits the call (ReplyInv), and what the slot    *)
(* names is on the exchange (SlotInv).  It implies the type invariant,     *)
(* whose bound on consec_losses needs the halt, and the bound on the close *)
(* attempts.                                                               *)
(***************************************************************************)
EXTENDS Trader, TLAPS

CallInv ==
  /\ call = None =>
       /\ reply = None
       /\ pending = None \/ position = None
       /\ position # None => position.tries < MaxCloseRetries
  /\ (call # None /\ call.op = "entry") => pending = None /\ position = None
  /\ (call # None /\ call.op = "status") =>
       pending # None /\ position = None /\ call.id = pending.id
  /\ (call # None /\ call.op = "size") =>
       pending = None /\ position # None /\ position.tries < MaxCloseRetries
  /\ (call # None /\ call.op = "close") =>
       /\ pending = None /\ position # None
       /\ call.side = Opposite(position.side)
       /\ call.reduce

ReplyKinds(op) ==
  IF op = "entry" THEN {"order", "post_only", "failed"}
  ELSE IF op = "status" THEN {"order", "failed"}
  ELSE IF op = "size" THEN {"size", "failed"}
  ELSE {"closed", "failed"}

ReplyInv ==
  reply # None =>
    /\ reply.kind \in ReplyKinds(call.op)
    /\ reply.kind = "order" =>
         /\ reply.id < nextId
         /\ reply.filled <= orders[reply.id].filled
         /\ call.op = "entry" => orders[reply.id].side = call.side
         /\ call.op = "status" => reply.id = pending.id

SlotInv ==
  /\ pending # None => pending.id < nextId /\ orders[pending.id].side = pending.side
  /\ position # None => /\ position.id < nextId
                        /\ orders[position.id].side = position.side
                        /\ orders[position.id].filled > 0

OrderInv == \A id \in Ids : orders[id].open => orders[id].filled < orders[id].qty

HaltInv == losses = MaxConsecLosses => pending = None /\ position = None /\ call = None

IInv == TypeOK /\ CallInv /\ ReplyInv /\ SlotInv /\ OrderInv /\ HaltInv

-----------------------------------------------------------------------------
LEMMA CallShapes ==
  ASSUME NEW c \in Calls
  PROVE  /\ c.op \in {"entry", "status", "size", "close"}
         /\ c.op = "entry" => c.side \in Sides /\ c.qty \in Nat /\ c.retry \in BOOLEAN
         /\ c.op = "status" => c.id \in Ids
         /\ c.op = "size" => c.outcome \in Outcomes
         /\ c.op = "close" => c.side \in Sides /\ c.qty \in Nat /\ c.outcome \in Outcomes
BY DEF Calls

LEMMA ReplyShapes ==
  ASSUME NEW r \in Replies
  PROVE  /\ r.kind \in {"failed", "post_only", "closed", "order", "size"}
         /\ r.kind = "order" => r.id \in Ids /\ r.status \in Statuses /\ r.filled \in Nat
         /\ r.kind = "size" => r.size \in Nat
BY DEF Replies

LEMMA NoneDiffers ==
  /\ \A c \in Calls : c # None
  /\ \A r \in Replies : r # None
  /\ \A p \in PendingStates : p # None
  /\ \A p \in PositionStates : p # None
BY NoneAssumption, NoneIsNoState

LEMMA Normalized ==
  ASSUME NEW q \in Nat
  PROVE  normalize_qty(q) \in Nat /\ normalize_qty(q) <= q
<1> DEFINE k == q \div Step
           m == IF q % Step = 0 /\ k \in Slips THEN k - 1 ELSE k
<1>1. k \in Nat /\ k * Step <= q
  BY ExchangeAssumption
<1>2. m \in Nat /\ m <= k
  BY <1>1, LotAssumption
<1>3. normalize_qty(q) = m * Step
  BY DEF normalize_qty
<1> HIDE DEF k, m
<1>4. m * Step \in Nat /\ m * Step <= k * Step
  BY <1>1, <1>2, ExchangeAssumption
<1>5. k * Step \in Nat
  BY <1>1, ExchangeAssumption
<1> QED
  BY <1>1, <1>3, <1>4, <1>5

LEMMA Arithmetic ==
  ASSUME NEW side \in Sides, NEW q \in Nat, TypeOK
  PROVE  /\ Signed(side, q) \in Int
         /\ Opposite(side) \in Sides
         /\ Magnitude(net) \in Nat
         /\ Reducible(side) \in Int
BY DEF Signed, Opposite, Magnitude, Reducible, TypeOK, ExchangeTypeOK, Sides

\* What a step of Fill or ServeEntry may execute is a quantity.
LEMMA Executables ==
  ASSUME NEW q \in Nat
  PROVE  /\ \A x \in Executable(q) : x \in Nat /\ x <= q
         /\ q > 0 => \A x \in Executable(q) : x > 0
BY DEF Executable, Multiples

-----------------------------------------------------------------------------
\* A close moves the position by what it executes, toward zero and no further.
LEMMA CloseEffect ==
  ASSUME TypeOK, ServeClose, NEW side \in Sides, call.side = side, call.qty \in Nat
  PROVE  /\ net' \in Int
         /\ call.reduce =>
              \E q \in Nat : q <= Reducible(side) /\ net' = net + Signed(side, q)
<1>1. net \in Int /\ Reducible(side) \in Int
  BY Arithmetic DEF TypeOK, ExchangeTypeOK
<1> DEFINE full == IF call.reduce THEN Smaller(call.qty, Reducible(side)) ELSE call.qty
<1>2. full \in Nat /\ (call.reduce => full <= Reducible(side))
  BY <1>1 DEF ServeClose, Smaller
<1>3. \E q \in IF "thinBook" \in Faults THEN Multiples(full) ELSE {full} :
        net' = net + Signed(call.side, q)
  BY DEF ServeClose
<1> HIDE DEF full
<1>4. PICK q \in Nat : q <= full /\ net' = net + Signed(side, q)
  BY <1>2, <1>3 DEF Multiples
<1>5. net' \in Int
  BY <1>1, <1>4 DEF Signed
<1>6. call.reduce => q <= Reducible(side)
  BY <1>1, <1>2, <1>4
<1> QED
  BY <1>4, <1>5, <1>6

\* A fill raises what the order has executed and takes it off the book when done.
LEMMA FillEffect ==
  ASSUME TypeOK, OrderInv, NEW id \in Ids, Fill(id)
  PROVE  \E o \in Orders :
           /\ orders' = [orders EXCEPT ![id] = o]
           /\ o.side = orders[id].side /\ o.qty = orders[id].qty
           /\ o.filled > orders[id].filled /\ o.filled <= o.qty
           /\ o.open <=> o.filled < o.qty
           /\ o.filled - orders[id].filled \in Executable(orders[id].qty - orders[id].filled)
           /\ net' = net + Signed(o.side, o.filled - orders[id].filled)
           /\ net' \in Int
<1>1. /\ orders[id] \in Orders
      /\ orders[id].qty - orders[id].filled \in Nat \ {0}
      /\ net \in Int
  BY DEF Fill, TypeOK, ExchangeTypeOK, OrderInv, Orders
<1>2. PICK q \in Executable(orders[id].qty - orders[id].filled) :
        /\ orders' = [orders EXCEPT ![id].filled = @ + q,
                                    ![id].open = orders[id].filled + q < orders[id].qty]
        /\ net' = net + Signed(orders[id].side, q)
  BY DEF Fill
<1>3. q \in Nat /\ q > 0 /\ q <= orders[id].qty - orders[id].filled
  BY <1>1, Executables
<1> DEFINE o == [orders[id] EXCEPT !.filled = @ + q,
                                   !.open = orders[id].filled + q < orders[id].qty]
<1>4. /\ o \in Orders
      /\ o.side = orders[id].side /\ o.qty = orders[id].qty
      /\ o.filled = orders[id].filled + q
      /\ o.open <=> o.filled < o.qty
  <2>1. /\ orders[id].filled + q \in Nat
        /\ (orders[id].filled + q < orders[id].qty) \in BOOLEAN
    BY <1>1, <1>3 DEF Orders
  <2>2. o \in Orders
    BY <1>1, <2>1 DEF Orders
  <2>3. o.side = orders[id].side /\ o.qty = orders[id].qty
    BY <1>1 DEF Orders
  <2>4. o.filled = orders[id].filled + q
    BY <1>1 DEF Orders
  <2>5. o.open = (orders[id].filled + q < orders[id].qty)
    BY <1>1 DEF Orders
  <2> QED
    BY <2>2, <2>3, <2>4, <2>5
<1>5. orders' = [orders EXCEPT ![id] = o]
  BY <1>1, <1>2 DEF Orders
<1> HIDE DEF o
<1>6. net' \in Int
  BY <1>1, <1>2, <1>3 DEF Signed
<1>7. o.filled - orders[id].filled = q /\ o.filled > orders[id].filled /\ o.filled <= o.qty
  BY <1>1, <1>3, <1>4 DEF Orders
<1> QED
  BY <1>2, <1>4, <1>5, <1>6, <1>7

\* An accepted entry is a new order under the next id, reported as it stands.
LEMMA EntryEffect ==
  ASSUME TypeOK, ServeEntry
  PROVE  /\ call \in Calls /\ call.op = "entry" /\ call.side \in Sides
         /\ call.qty \in Nat /\ call.qty > 0 /\ nextId \in Ids
         /\ nextId' = nextId + 1 /\ nextId' \in 1 .. MaxOrders + 1
         /\ \E o \in Orders :
              /\ orders' = [orders EXCEPT ![nextId] = o]
              /\ o.side = call.side /\ o.qty = call.qty
              /\ o.filled \in {0} \cup Executable(call.qty)
              /\ o.open => o.filled < o.qty
              /\ reply' = OrderReply(nextId, o) /\ reply' \in Replies
              /\ net' = net + Signed(call.side, o.filled) /\ net' \in Int
<1>1. /\ call \in Calls /\ call.op = "entry" /\ call.side \in Sides
      /\ call.qty \in Nat /\ call.qty > 0 /\ nextId \in Ids /\ nextId' = nextId + 1
      /\ net \in Int
  BY CallShapes DEF ServeEntry, Awaits, TypeOK, ExchangeTypeOK
<1>2. nextId' \in 1 .. MaxOrders + 1
  BY <1>1, ExchangeAssumption DEF Ids
<1>3. PICK filled \in {0} \cup Executable(call.qty), open \in BOOLEAN :
        LET o == [side |-> call.side, qty |-> call.qty, filled |-> filled, open |-> open]
        IN  /\ filled = call.qty => ~open
            /\ orders' = [orders EXCEPT ![nextId] = o]
            /\ reply' = OrderReply(nextId, o)
            /\ net' = net + Signed(call.side, filled)
  BY DEF ServeEntry
<1> DEFINE o == [side |-> call.side, qty |-> call.qty, filled |-> filled, open |-> open]
<1>4. filled \in Nat /\ filled <= call.qty
  BY <1>1, Executables
<1>5. o \in Orders /\ o.side = call.side /\ o.qty = call.qty /\ o.filled = filled
  BY <1>1, <1>4 DEF Orders
<1>6. o.open => o.filled < o.qty
  BY <1>1, <1>3, <1>4
<1>7. orders' = [orders EXCEPT ![nextId] = o] /\ reply' = OrderReply(nextId, o)
  BY <1>3
<1> HIDE DEF o
<1>8. reply' \in Replies
  BY <1>1, <1>5, <1>7 DEF OrderReply, StatusOf, Statuses, Replies, Orders
<1>9. net' = net + Signed(call.side, o.filled) /\ net' \in Int
  BY <1>1, <1>3, <1>4, <1>5 DEF Signed
<1> QED
  BY <1>1, <1>2, <1>3, <1>5, <1>6, <1>7, <1>8, <1>9

LEMMA InitIInv == Init => IInv
<1> SUFFICES ASSUME Init PROVE IInv
  OBVIOUS
<1>1. TypeOK
  <2>1. orders \in [Ids -> Orders]
    BY DEF Init, ExchangeInit, Orders, Sides
  <2>2. nextId \in 1 .. MaxOrders + 1 /\ ticks \in 0 .. PollEvery - 1 /\ losses \in 0 .. MaxConsecLosses
    BY ExchangeAssumption, LimitsAssumption DEF Init, ExchangeInit, FreshState
  <2>3. ExchangeTypeOK
    BY <2>1, <2>2 DEF Init, ExchangeInit, ExchangeTypeOK
  <2> QED
    BY <2>2, <2>3 DEF Init, FreshState, TypeOK
<1>2. CallInv /\ ReplyInv /\ SlotInv /\ OrderInv /\ HaltInv
  BY LimitsAssumption DEF Init, ExchangeInit, FreshState,
     CallInv, ReplyInv, SlotInv, OrderInv, HaltInv
<1> QED
  BY <1>1, <1>2 DEF IInv

\* A tick that makes no call.
LEMMA QuietStep ==
  ASSUME IInv, TickQuiet
  PROVE  IInv'
<1>0. /\ TypeOK /\ CallInv /\ ReplyInv /\ SlotInv /\ OrderInv /\ HaltInv
      /\ ticks' \in 0 .. PollEvery - 1
  BY LimitsAssumption DEF IInv, TypeOK, TickQuiet, Tick
<1>1. TypeOK'
  BY <1>0 DEF TypeOK, ExchangeTypeOK, TickQuiet, Tick, NoCall
<1>2. CallInv'
  BY <1>0 DEF IInv, CallInv, TypeOK, ExchangeTypeOK, TickQuiet, Tick, NoCall
<1>3. ReplyInv'
  BY <1>0
     DEF IInv, ReplyInv, CallInv, TypeOK, ExchangeTypeOK, ReplyKinds, TickQuiet, Tick, NoCall
<1>4. SlotInv'
  BY <1>0 DEF IInv, SlotInv, ReplyInv, CallInv, TypeOK, ExchangeTypeOK, TickQuiet, Tick, NoCall
<1>5. OrderInv'
  BY <1>0 DEF IInv, OrderInv, TypeOK, ExchangeTypeOK, TickQuiet, Tick, NoCall
<1>6. HaltInv'
  BY <1>0 DEF IInv, HaltInv, CallInv, TypeOK, ExchangeTypeOK, TickQuiet, Tick, NoCall
<1> QED
  BY <1>1, <1>2, <1>3, <1>4, <1>5, <1>6 DEF IInv

\* A tick that polls the pending order.
LEMMA PollStep ==
  ASSUME IInv, TickPoll
  PROVE  IInv'
<1>0. /\ TypeOK /\ CallInv /\ ReplyInv /\ SlotInv /\ OrderInv /\ HaltInv
      /\ ticks' \in 0 .. PollEvery - 1
      /\ call' \in Calls /\ call' # None
  BY LimitsAssumption, NoneDiffers
     DEF IInv, TypeOK, TickPoll, Tick, Make, Calls, PendingStates
<1>1. TypeOK'
  BY <1>0 DEF TypeOK, ExchangeTypeOK, TickPoll, Tick, Make
<1>2. CallInv'
  BY <1>0 DEF IInv, CallInv, TypeOK, ExchangeTypeOK, TickPoll, Tick, Make
<1>3. ReplyInv'
  BY <1>0 DEF IInv, ReplyInv, CallInv, TypeOK, ExchangeTypeOK, ReplyKinds, TickPoll, Tick, Make
<1>4. SlotInv'
  BY <1>0 DEF IInv, SlotInv, ReplyInv, CallInv, TypeOK, ExchangeTypeOK, TickPoll, Tick, Make
<1>5. OrderInv'
  BY <1>0 DEF IInv, OrderInv, TypeOK, ExchangeTypeOK, TickPoll, Tick, Make
<1>6. HaltInv'
  BY <1>0 DEF IInv, HaltInv, CallInv, TypeOK, ExchangeTypeOK, TickPoll, Tick, Make
<1> QED
  BY <1>1, <1>2, <1>3, <1>4, <1>5, <1>6 DEF IInv

\* A tick that hits the stop or the target.
LEMMA CloseTickStep ==
  ASSUME IInv, NEW outcome \in Outcomes, TickClose(outcome)
  PROVE  IInv'
<1>0. /\ TypeOK /\ CallInv /\ ReplyInv /\ SlotInv /\ OrderInv /\ HaltInv
      /\ ticks' \in 0 .. PollEvery - 1
      /\ call' \in Calls /\ call' # None
  BY LimitsAssumption, NoneDiffers
     DEF IInv, TypeOK, TickClose, Tick, Make, Calls
<1>1. TypeOK'
  BY <1>0 DEF TypeOK, ExchangeTypeOK, TickClose, Tick, Make
<1>2. CallInv'
  BY <1>0 DEF IInv, CallInv, TypeOK, ExchangeTypeOK, TickClose, Tick, Make
<1>3. ReplyInv'
  BY <1>0 DEF IInv, ReplyInv, CallInv, TypeOK, ExchangeTypeOK, ReplyKinds, TickClose, Tick, Make
<1>4. SlotInv'
  BY <1>0 DEF IInv, SlotInv, ReplyInv, CallInv, TypeOK, ExchangeTypeOK, TickClose, Tick, Make
<1>5. OrderInv'
  BY <1>0 DEF IInv, OrderInv, TypeOK, ExchangeTypeOK, TickClose, Tick, Make
<1>6. HaltInv'
  BY <1>0 DEF IInv, HaltInv, CallInv, TypeOK, ExchangeTypeOK, TickClose, Tick, Make
<1> QED
  BY <1>1, <1>2, <1>3, <1>4, <1>5, <1>6 DEF IInv

\* A tick that places an entry.
LEMMA EntryTickStep ==
  ASSUME IInv, NEW side \in Sides, TickEntry(side)
  PROVE  IInv'
<1>0. /\ TypeOK /\ CallInv /\ ReplyInv /\ SlotInv /\ OrderInv /\ HaltInv
      /\ ticks' \in 0 .. PollEvery - 1
      /\ call' \in Calls /\ call' # None
  <2>0. TypeOK /\ CallInv /\ ReplyInv /\ SlotInv /\ OrderInv /\ HaltInv
    BY DEF IInv
  <2>1. ticks' \in 0 .. PollEvery - 1
    BY <2>0, LimitsAssumption DEF TypeOK, TickEntry, Tick
  <2>2. call' \in Calls /\ call' # None
    BY <2>0, LotAssumption, NoneDiffers, Normalized DEF TickEntry, Make, EntryCall, Calls
  <2> QED
    BY <2>0, <2>1, <2>2
<1>1. TypeOK'
  BY <1>0 DEF TypeOK, ExchangeTypeOK, TickEntry, Tick, Make, EntryCall, is_approved
<1>2. CallInv'
  BY <1>0
     DEF IInv, CallInv, TypeOK, ExchangeTypeOK, TickEntry, Tick, Make, EntryCall, is_approved
<1>3. ReplyInv'
  BY <1>0
     DEF IInv, ReplyInv, CallInv, TypeOK, ExchangeTypeOK, ReplyKinds, TickEntry, Tick, Make,
         EntryCall, is_approved
<1>4. SlotInv'
  BY <1>0
     DEF IInv, SlotInv, ReplyInv, CallInv, TypeOK, ExchangeTypeOK, TickEntry, Tick, Make,
         EntryCall, is_approved
<1>5. OrderInv'
  BY <1>0
     DEF IInv, OrderInv, TypeOK, ExchangeTypeOK, TickEntry, Tick, Make, EntryCall, is_approved
<1>6. HaltInv'
  BY <1>0
     DEF IInv, HaltInv, CallInv, TypeOK, ExchangeTypeOK, TickEntry, Tick, Make, EntryCall,
         is_approved
<1> QED
  BY <1>1, <1>2, <1>3, <1>4, <1>5, <1>6 DEF IInv

\* The cooldown runs out.
LEMMA CooldownStep ==
  ASSUME IInv, CooldownOver
  PROVE  IInv'
<1>0. /\ TypeOK /\ CallInv /\ ReplyInv /\ SlotInv /\ OrderInv /\ HaltInv
  BY DEF IInv
<1>1. TypeOK'
  BY <1>0 DEF TypeOK, ExchangeTypeOK, CooldownOver
<1>2. CallInv'
  BY <1>0 DEF IInv, CallInv, TypeOK, ExchangeTypeOK, CooldownOver
<1>3. ReplyInv'
  BY <1>0 DEF IInv, ReplyInv, CallInv, TypeOK, ExchangeTypeOK, ReplyKinds, CooldownOver
<1>4. SlotInv'
  BY <1>0 DEF IInv, SlotInv, ReplyInv, CallInv, TypeOK, ExchangeTypeOK, CooldownOver
<1>5. OrderInv'
  BY <1>0 DEF IInv, OrderInv, TypeOK, ExchangeTypeOK, CooldownOver
<1>6. HaltInv'
  BY <1>0 DEF IInv, HaltInv, CallInv, TypeOK, ExchangeTypeOK, CooldownOver
<1> QED
  BY <1>1, <1>2, <1>3, <1>4, <1>5, <1>6 DEF IInv

\* The program is started again.
LEMMA RestartStep ==
  ASSUME IInv, Restart
  PROVE  IInv'
<1>0. /\ TypeOK /\ CallInv /\ ReplyInv /\ SlotInv /\ OrderInv /\ HaltInv
      /\ ticks' \in 0 .. PollEvery - 1 /\ losses' \in 0 .. MaxConsecLosses /\ losses' # MaxConsecLosses
  <2>0. TypeOK /\ CallInv /\ ReplyInv /\ SlotInv /\ OrderInv /\ HaltInv
    BY DEF IInv
  <2>1. ticks' \in 0 .. PollEvery - 1 /\ losses' \in 0 .. MaxConsecLosses /\ losses' # MaxConsecLosses
    BY <2>0, LimitsAssumption DEF Restart
  <2> QED
    BY <2>0, <2>1
<1>1. TypeOK'
  BY <1>0 DEF TypeOK, ExchangeTypeOK, Restart, Return, Make
<1>2. CallInv'
  BY <1>0 DEF IInv, CallInv, TypeOK, ExchangeTypeOK, Restart, Return, Make
<1>3. ReplyInv'
  BY <1>0 DEF IInv, ReplyInv, CallInv, TypeOK, ExchangeTypeOK, ReplyKinds, Restart, Return, Make
<1>4. SlotInv'
  BY <1>0 DEF IInv, SlotInv, ReplyInv, CallInv, TypeOK, ExchangeTypeOK, Restart, Return, Make
<1>5. OrderInv'
  BY <1>0 DEF IInv, OrderInv, TypeOK, ExchangeTypeOK, Restart, Return, Make
<1>6. HaltInv'
  BY <1>0 DEF IInv, HaltInv, CallInv, TypeOK, ExchangeTypeOK, Restart, Return, Make
<1> QED
  BY <1>1, <1>2, <1>3, <1>4, <1>5, <1>6 DEF IInv

\* The entry's reply is read.
LEMMA PlaceEntryStep ==
  ASSUME IInv, place_entry
  PROVE  IInv'
<1>0. /\ TypeOK /\ CallInv /\ ReplyInv /\ SlotInv /\ OrderInv /\ HaltInv
      /\ call \in Calls /\ reply \in Replies /\ call.side \in Sides /\ call # None /\ reply # None
      /\ reply.kind = "order" => reply.id \in Ids /\ reply.filled \in Nat
      /\ reply.kind = "order" => [id |-> reply.id, side |-> call.side] \in PendingStates /\ Adopted(call.side) \in PositionStates
      /\ reply.kind = "post_only" => EntryCall(call.side, TRUE) \in Calls
  <2>0. TypeOK /\ CallInv /\ ReplyInv /\ SlotInv /\ OrderInv /\ HaltInv
    BY DEF IInv
  <2>1. call \in Calls /\ reply \in Replies /\ call.side \in Sides /\ call # None /\ reply # None
    BY <2>0, CallShapes DEF place_entry, Answered, TypeOK, ExchangeTypeOK
  <2>2. reply.kind = "order" => reply.id \in Ids /\ reply.filled \in Nat
    BY <2>0, ReplyShapes, <2>1
  <2>3. reply.kind = "order" => [id |-> reply.id, side |-> call.side] \in PendingStates /\ Adopted(call.side) \in PositionStates
    BY <2>0, <2>1, <2>2, LimitsAssumption DEF PendingStates, PositionStates, Adopted
  <2>4. reply.kind = "post_only" => EntryCall(call.side, TRUE) \in Calls
    BY <2>0, <2>1, LotAssumption, Normalized DEF EntryCall, Calls
  <2> QED
    BY <2>0, <2>1, <2>2, <2>3, <2>4
<1>1. TypeOK'
  BY <1>0, NoneDiffers, LimitsAssumption
     DEF TypeOK, ExchangeTypeOK, place_entry, register_entry_result, SaysFilled, Adopted,
         EntryCall, Answered, Return, Make
<1>2. CallInv'
  BY <1>0, NoneDiffers, LimitsAssumption
     DEF IInv, CallInv, TypeOK, ExchangeTypeOK, place_entry, register_entry_result, SaysFilled,
         Adopted, EntryCall, Answered, Return, Make
<1>3. ReplyInv'
  BY DEF place_entry, Return, Make, ReplyInv
<1>4. SlotInv'
  <2>1. UNCHANGED <<orders, nextId>> /\ call.op = "entry"
    BY DEF place_entry, Answered
  <2>2. CASE reply.kind = "order"
    <3>1. reply.id < nextId /\ reply.filled <= orders[reply.id].filled
      BY <1>0, <2>1, <2>2 DEF ReplyInv
    <3>2. orders[reply.id].side = call.side
      BY <1>0, <2>1, <2>2 DEF ReplyInv
    <3>3. reply.id \in Ids /\ reply.filled \in Nat /\ orders[reply.id].filled \in Nat
      BY <1>0, <2>2 DEF TypeOK, ExchangeTypeOK, Orders
    <3>4. SaysFilled => orders[reply.id].filled > 0
      BY <3>1, <3>3 DEF SaysFilled
    <3>5. CASE SaysFilled
      BY <1>0, <2>1, <2>2, <3>1, <3>2, <3>4, <3>5
         DEF place_entry, register_entry_result, Adopted, CallInv, SlotInv
    <3>6. CASE ~SaysFilled
      BY <1>0, <2>1, <2>2, <3>1, <3>2, <3>6
         DEF place_entry, register_entry_result, CallInv, SlotInv
    <3> QED
      BY <3>5, <3>6
  <2>3. CASE reply.kind # "order"
    BY <1>0, <2>1, <2>3 DEF place_entry, CallInv, SlotInv
  <2> QED
    BY <2>2, <2>3
<1>5. OrderInv'
  BY <1>0, NoneDiffers, LimitsAssumption
     DEF IInv, OrderInv, TypeOK, ExchangeTypeOK, place_entry, register_entry_result, SaysFilled,
         Adopted, EntryCall, Answered, Return, Make
<1>6. HaltInv'
  BY <1>0, NoneDiffers, LimitsAssumption
     DEF IInv, HaltInv, CallInv, TypeOK, ExchangeTypeOK, place_entry, register_entry_result,
         SaysFilled, Adopted, EntryCall, Answered, Return, Make
<1> QED
  BY <1>1, <1>2, <1>3, <1>4, <1>5, <1>6 DEF IInv

\* The status of the pending order is read.
LEMMA PollPendingStep ==
  ASSUME IInv, poll_pending
  PROVE  IInv'
<1>0. /\ TypeOK /\ CallInv /\ ReplyInv /\ SlotInv /\ OrderInv /\ HaltInv
      /\ call \in Calls /\ reply \in Replies /\ call # None /\ reply # None /\ pending \in PendingStates /\ pending # None
      /\ reply.kind = "order" => reply.id \in Ids /\ reply.filled \in Nat
      /\ reply.kind = "order" => Adopted(pending.side) \in PositionStates
  <2>0. TypeOK /\ CallInv /\ ReplyInv /\ SlotInv /\ OrderInv /\ HaltInv
    BY DEF IInv
  <2>1. call \in Calls /\ reply \in Replies /\ call # None /\ reply # None /\ pending \in PendingStates /\ pending # None
    BY <2>0 DEF poll_pending, Answered, TypeOK, ExchangeTypeOK, CallInv
  <2>2. reply.kind = "order" => reply.id \in Ids /\ reply.filled \in Nat
    BY <2>0, ReplyShapes, <2>1
  <2>3. reply.kind = "order" => Adopted(pending.side) \in PositionStates
    BY <2>0, <2>1, <2>2, LimitsAssumption DEF PendingStates, PositionStates, Adopted
  <2> QED
    BY <2>0, <2>1, <2>2, <2>3
<1>1. TypeOK'
  BY <1>0, NoneDiffers, LimitsAssumption
     DEF TypeOK, ExchangeTypeOK, poll_pending, SaysFilled, Adopted, Answered, Return, Make
<1>2. CallInv'
  BY <1>0, NoneDiffers, LimitsAssumption
     DEF IInv, CallInv, TypeOK, ExchangeTypeOK, poll_pending, SaysFilled, Adopted, Answered,
         Return, Make
<1>3. ReplyInv'
  BY DEF poll_pending, Return, Make, ReplyInv
<1>4. SlotInv'
  <2>1. UNCHANGED <<orders, nextId>> /\ call.op = "status"
    BY DEF poll_pending, Answered
  <2>2. CASE reply.kind = "order"
    <3>1. reply.id < nextId /\ reply.filled <= orders[reply.id].filled
      BY <1>0, <2>1, <2>2 DEF ReplyInv
    <3>2. orders[reply.id].side = pending.side
      BY <1>0, <2>1, <2>2 DEF ReplyInv, CallInv, SlotInv
    <3>3. reply.id \in Ids /\ reply.filled \in Nat /\ orders[reply.id].filled \in Nat
      BY <1>0, <2>2 DEF TypeOK, ExchangeTypeOK, Orders
    <3>4. SaysFilled => orders[reply.id].filled > 0
      BY <3>1, <3>3 DEF SaysFilled
    <3>5. CASE SaysFilled
      BY <1>0, <2>1, <2>2, <3>1, <3>2, <3>4, <3>5
         DEF poll_pending, Adopted, CallInv, SlotInv
    <3>6. CASE ~SaysFilled
      BY <1>0, <2>1, <2>2, <3>1, <3>2, <3>6
         DEF poll_pending, CallInv, SlotInv
    <3> QED
      BY <3>5, <3>6
  <2>3. CASE reply.kind # "order"
    BY <1>0, <2>1, <2>3 DEF poll_pending, CallInv, SlotInv
  <2> QED
    BY <2>2, <2>3
<1>5. OrderInv'
  BY <1>0, NoneDiffers, LimitsAssumption
     DEF IInv, OrderInv, TypeOK, ExchangeTypeOK, poll_pending, SaysFilled, Adopted, Answered,
         Return, Make
<1>6. HaltInv'
  BY <1>0, NoneDiffers, LimitsAssumption
     DEF IInv, HaltInv, CallInv, TypeOK, ExchangeTypeOK, poll_pending, SaysFilled, Adopted,
         Answered, Return, Make
<1> QED
  BY <1>1, <1>2, <1>3, <1>4, <1>5, <1>6 DEF IInv

\* The size of the position is read.
LEMMA SizeKnownStep ==
  ASSUME IInv, size_known
  PROVE  IInv'
<1>0. /\ TypeOK /\ CallInv /\ ReplyInv /\ SlotInv /\ OrderInv /\ HaltInv
      /\ call \in Calls /\ reply \in Replies /\ call.outcome \in Outcomes /\ call # None /\ reply # None
      /\ position # None /\ position \in PositionStates /\ position.tries < MaxCloseRetries
      /\ [position EXCEPT !.tries = @ + 1] \in PositionStates
      /\ Opposite(position.side) \in Sides
      /\ reply.kind = "size" => reply.size \in Nat /\ Smaller(Lot, reply.size) \in Nat
      /\ reply.kind = "size" => CloseCall(reply.size) \in Calls
  <2>0. TypeOK /\ CallInv /\ ReplyInv /\ SlotInv /\ OrderInv /\ HaltInv
    BY DEF IInv
  <2>1. call \in Calls /\ reply \in Replies /\ call.outcome \in Outcomes /\ call # None /\ reply # None
    BY <2>0, CallShapes DEF size_known, Tried, Answered, TypeOK, ExchangeTypeOK
  <2>2. position # None /\ position \in PositionStates /\ position.tries < MaxCloseRetries
    BY <2>0 DEF size_known, Tried, Answered, CallInv, TypeOK
  <2>3. [position EXCEPT !.tries = @ + 1] \in PositionStates
    BY <2>0, <2>2, LimitsAssumption DEF PositionStates
  <2>4. Opposite(position.side) \in Sides
    BY <2>0, <2>2 DEF PositionStates, Opposite, Sides
  <2>5. reply.kind = "size" => reply.size \in Nat /\ Smaller(Lot, reply.size) \in Nat
    BY <2>0, <2>1, ReplyShapes, LotAssumption DEF Smaller
  <2>6. reply.kind = "size" => CloseCall(reply.size) \in Calls
    BY <2>0, <2>1, <2>4, <2>5, Normalized DEF CloseCall, Calls
  <2> QED
    BY <2>0, <2>1, <2>2, <2>3, <2>4, <2>5, <2>6
<1>1. TypeOK'
  <2>1. position' \in PositionStates \cup {None} /\ call' \in Calls \cup {None} /\ reply' = None
    BY <1>0 DEF size_known, Tried, Answered, Return, Make
  <2> QED
    BY <1>0, <2>1 DEF TypeOK, ExchangeTypeOK, size_known
<1>2. CallInv'
  <2>1. call.op = "size" /\ pending = None /\ pending' = None
    BY <1>0 DEF size_known, Tried, Answered, CallInv
  <2>2. CASE reply.kind = "size" /\ reply.size > 0
    <3>1. /\ position' = [position EXCEPT !.tries = @ + 1]
          /\ call' = CloseCall(reply.size) /\ reply' = None
      BY <1>0, <2>2 DEF size_known, Tried, Make
    <3>2. position'.side = position.side /\ position' # None
      BY <1>0, <3>1, NoneDiffers DEF PositionStates
    <3>3. /\ call'.op = "close" /\ call' # None
          /\ call'.side = Opposite(position.side) /\ call'.reduce
      BY <1>0, <2>2, <3>1, NoneDiffers DEF CloseCall
    <3> QED
      BY <2>1, <3>1, <3>2, <3>3 DEF CallInv
  <2>3. CASE ~(reply.kind = "size" /\ reply.size > 0)
    <3>1. call' = None /\ reply' = None /\ (position' = None \/ position' = position)
      BY <2>3 DEF size_known, Tried, Return, Make
    <3> QED
      BY <1>0, <2>1, <3>1 DEF CallInv
  <2> QED
    BY <2>2, <2>3
<1>3. ReplyInv'
  BY <1>0, NoneDiffers, LimitsAssumption
     DEF IInv, ReplyInv, CallInv, TypeOK, ExchangeTypeOK, ReplyKinds, size_known, Tried, CloseCall,
         Answered, Return, Make, PositionStates
<1>4. SlotInv'
  BY <1>0, NoneDiffers, LimitsAssumption
     DEF IInv, SlotInv, ReplyInv, CallInv, TypeOK, ExchangeTypeOK, size_known, Tried, CloseCall,
         Answered, Return, Make, PositionStates
<1>5. OrderInv'
  BY <1>0, NoneDiffers, LimitsAssumption
     DEF IInv, OrderInv, TypeOK, ExchangeTypeOK, size_known, Tried, CloseCall, Answered, Return,
         Make, PositionStates
<1>6. HaltInv'
  BY <1>0, NoneDiffers, LimitsAssumption
     DEF IInv, HaltInv, CallInv, TypeOK, ExchangeTypeOK, size_known, Tried, CloseCall, Answered,
         Return, Make, PositionStates
<1> QED
  BY <1>1, <1>2, <1>3, <1>4, <1>5, <1>6 DEF IInv

\* The close's reply is read.
LEMMA CloseSentStep ==
  ASSUME IInv, close_sent
  PROVE  IInv'
<1>0. /\ TypeOK /\ CallInv /\ ReplyInv /\ SlotInv /\ OrderInv /\ HaltInv
      /\ call \in Calls /\ reply \in Replies /\ call # None /\ reply # None
      /\ losses < MaxConsecLosses /\ losses \in Nat
      /\ position \in PositionStates /\ position # None /\ position.tries \in Nat /\ pending = None
      /\ losses' \in 0 .. MaxConsecLosses /\ alarm' \in BOOLEAN
  <2>0. TypeOK /\ CallInv /\ ReplyInv /\ SlotInv /\ OrderInv /\ HaltInv
    BY DEF IInv
  <2>1. call \in Calls /\ reply \in Replies /\ call # None /\ reply # None
    BY <2>0 DEF close_sent, Answered, TypeOK, ExchangeTypeOK
  <2>2. losses < MaxConsecLosses /\ losses \in Nat
    BY <2>0, <2>1, LimitsAssumption DEF HaltInv, TypeOK
  <2>3. position \in PositionStates /\ position # None /\ position.tries \in Nat /\ pending = None
    <3>1. position # None /\ position \in PositionStates /\ pending = None
      BY <2>0 DEF close_sent, Answered, CallInv, TypeOK
    <3> QED
      BY <3>1, LimitsAssumption DEF PositionStates
  <2>4. losses' \in 0 .. MaxConsecLosses /\ alarm' \in BOOLEAN
    <3>1. losses + 1 \in 0 .. MaxConsecLosses /\ 0 \in 0 .. MaxConsecLosses
      BY <2>2, LimitsAssumption
    <3>2. losses' \in {0, losses, losses + 1} /\ alarm' \in {alarm, TRUE}
      BY DEF close_sent, GivesUp, on_trade_close
    <3> QED
      BY <2>0, <3>1, <3>2 DEF TypeOK
  <2> QED
    BY <2>0, <2>1, <2>2, <2>3, <2>4
<1>1. TypeOK'
  BY <1>0, NoneDiffers, LimitsAssumption
     DEF TypeOK, ExchangeTypeOK, close_sent, GivesUp, on_trade_close, Answered, Return, Make
<1>2. CallInv'
  BY <1>0, NoneDiffers, LimitsAssumption
     DEF IInv, CallInv, TypeOK, ExchangeTypeOK, close_sent, GivesUp, on_trade_close, Answered,
         Return, Make
<1>3. ReplyInv'
  BY <1>0, NoneDiffers, LimitsAssumption
     DEF IInv, ReplyInv, CallInv, TypeOK, ExchangeTypeOK, ReplyKinds, close_sent, GivesUp,
         on_trade_close, Answered, Return, Make
<1>4. SlotInv'
  BY <1>0, NoneDiffers, LimitsAssumption
     DEF IInv, SlotInv, ReplyInv, CallInv, TypeOK, ExchangeTypeOK, close_sent, GivesUp,
         on_trade_close, Answered, Return, Make
<1>5. OrderInv'
  BY <1>0, NoneDiffers, LimitsAssumption
     DEF IInv, OrderInv, TypeOK, ExchangeTypeOK, close_sent, GivesUp, on_trade_close, Answered,
         Return, Make
<1>6. HaltInv'
  BY <1>0, NoneDiffers, LimitsAssumption
     DEF IInv, HaltInv, CallInv, TypeOK, ExchangeTypeOK, close_sent, GivesUp, on_trade_close,
         Answered, Return, Make
<1> QED
  BY <1>1, <1>2, <1>3, <1>4, <1>5, <1>6 DEF IInv

\* A status query is served.
LEMMA ServeStatusStep ==
  ASSUME IInv, ServeStatus, UNCHANGED local_vars
  PROVE  IInv'
<1>0. /\ TypeOK /\ CallInv /\ ReplyInv /\ SlotInv /\ OrderInv /\ HaltInv
      /\ call \in Calls /\ call # None /\ reply = None
      /\ call.op = "status" /\ call.id \in Ids /\ pending # None /\ call.id = pending.id /\ orders[call.id] \in Orders
      /\ reply' \in Replies /\ reply' # None
  <2>0. TypeOK /\ CallInv /\ ReplyInv /\ SlotInv /\ OrderInv /\ HaltInv
    BY DEF IInv
  <2>1. call \in Calls /\ call # None /\ reply = None
    BY <2>0 DEF ServeStatus, Awaits, TypeOK, ExchangeTypeOK
  <2>2. call.op = "status" /\ call.id \in Ids /\ pending # None /\ call.id = pending.id /\ orders[call.id] \in Orders
    BY <2>0, <2>1, CallShapes DEF ServeStatus, Awaits, CallInv, TypeOK, ExchangeTypeOK
  <2>3. reply' \in Replies /\ reply' # None
    BY <2>0, <2>2, NoneDiffers DEF ServeStatus, OrderReply, StatusOf, Statuses, Replies, Orders
  <2> QED
    BY <2>0, <2>1, <2>2, <2>3
<1>1. TypeOK'
  BY <1>0 DEF TypeOK, ExchangeTypeOK, ServeStatus, local_vars
<1>2. CallInv'
  BY <1>0, NoneDiffers
     DEF IInv, CallInv, TypeOK, ExchangeTypeOK, ServeStatus, local_vars, Awaits, OrderReply
<1>3. ReplyInv'
  <2>1. reply' = OrderReply(call.id, orders[call.id]) /\ UNCHANGED <<orders, nextId, call, pending>>
    BY DEF ServeStatus, local_vars
  <2>2. /\ reply'.kind = "order" /\ reply'.id = call.id
        /\ reply'.filled = orders[call.id].filled /\ orders[call.id].filled \in Nat
    BY <1>0, <2>1 DEF OrderReply, Orders
  <2> QED
    BY <1>0, <2>1, <2>2 DEF ReplyInv, ReplyKinds, SlotInv
<1>4. SlotInv'
  BY <1>0, NoneDiffers
     DEF IInv, SlotInv, ReplyInv, CallInv, TypeOK, ExchangeTypeOK, ServeStatus, local_vars,
         Awaits, OrderReply
<1>5. OrderInv'
  BY <1>0, NoneDiffers
     DEF IInv, OrderInv, TypeOK, ExchangeTypeOK, ServeStatus, local_vars, Awaits, OrderReply
<1>6. HaltInv'
  BY <1>0, NoneDiffers
     DEF IInv, HaltInv, CallInv, TypeOK, ExchangeTypeOK, ServeStatus, local_vars, Awaits,
         OrderReply
<1> QED
  BY <1>1, <1>2, <1>3, <1>4, <1>5, <1>6 DEF IInv

\* A position query is served.
LEMMA ServeSizeStep ==
  ASSUME IInv, ServeSize, UNCHANGED local_vars
  PROVE  IInv'
<1>0. /\ TypeOK /\ CallInv /\ ReplyInv /\ SlotInv /\ OrderInv /\ HaltInv
      /\ call \in Calls /\ call # None /\ reply = None
      /\ Magnitude(net) \in Nat
      /\ reply' \in Replies /\ reply' # None
  <2>0. TypeOK /\ CallInv /\ ReplyInv /\ SlotInv /\ OrderInv /\ HaltInv
    BY DEF IInv
  <2>1. call \in Calls /\ call # None /\ reply = None
    BY <2>0 DEF ServeSize, Awaits, TypeOK, ExchangeTypeOK
  <2>2. Magnitude(net) \in Nat
    BY <2>0 DEF TypeOK, ExchangeTypeOK, Magnitude
  <2>3. reply' \in Replies /\ reply' # None
    BY <2>0, <2>2, NoneDiffers DEF ServeSize, Replies
  <2> QED
    BY <2>0, <2>1, <2>2, <2>3
<1>1. TypeOK'
  BY <1>0, NoneDiffers DEF TypeOK, ExchangeTypeOK, ServeSize, local_vars, Awaits
<1>2. CallInv'
  BY <1>0, NoneDiffers DEF IInv, CallInv, TypeOK, ExchangeTypeOK, ServeSize, local_vars, Awaits
<1>3. ReplyInv'
  BY <1>0, NoneDiffers
     DEF IInv, ReplyInv, CallInv, TypeOK, ExchangeTypeOK, ReplyKinds, ServeSize, local_vars,
         Awaits
<1>4. SlotInv'
  BY <1>0, NoneDiffers
     DEF IInv, SlotInv, ReplyInv, CallInv, TypeOK, ExchangeTypeOK, ServeSize, local_vars, Awaits
<1>5. OrderInv'
  BY <1>0, NoneDiffers DEF IInv, OrderInv, TypeOK, ExchangeTypeOK, ServeSize, local_vars, Awaits
<1>6. HaltInv'
  BY <1>0, NoneDiffers
     DEF IInv, HaltInv, CallInv, TypeOK, ExchangeTypeOK, ServeSize, local_vars, Awaits
<1> QED
  BY <1>1, <1>2, <1>3, <1>4, <1>5, <1>6 DEF IInv

\* A close executes.
LEMMA ServeCloseStep ==
  ASSUME IInv, ServeClose, UNCHANGED local_vars
  PROVE  IInv'
<1>0. /\ TypeOK /\ CallInv /\ ReplyInv /\ SlotInv /\ OrderInv /\ HaltInv
      /\ call \in Calls /\ call # None /\ reply = None
      /\ call.op = "close" /\ call.side \in Sides /\ call.qty \in Nat
      /\ reply' \in Replies /\ reply' # None
      /\ streak' \in Nat
      /\ net' \in Int
  <2>0. TypeOK /\ CallInv /\ ReplyInv /\ SlotInv /\ OrderInv /\ HaltInv
    BY DEF IInv
  <2>1. call \in Calls /\ call # None /\ reply = None
    BY <2>0 DEF ServeClose, Awaits, TypeOK, ExchangeTypeOK
  <2>2. call.op = "close" /\ call.side \in Sides /\ call.qty \in Nat
    BY <2>0, <2>1, CallShapes DEF ServeClose, Awaits
  <2>3. reply' \in Replies /\ reply' # None
    BY <2>0, NoneDiffers DEF ServeClose, Replies
  <2>4. streak' \in Nat
    BY <2>0 DEF ServeClose, TypeOK, ExchangeTypeOK
  <2>5. net' \in Int
    BY <2>0, <2>2, CloseEffect
  <2> QED
    BY <2>0, <2>1, <2>2, <2>3, <2>4, <2>5
<1>1. TypeOK'
  BY <1>0, NoneDiffers DEF TypeOK, ExchangeTypeOK, ServeClose, local_vars, Awaits
<1>2. CallInv'
  BY <1>0, NoneDiffers DEF IInv, CallInv, TypeOK, ExchangeTypeOK, ServeClose, local_vars, Awaits
<1>3. ReplyInv'
  BY <1>0, NoneDiffers
     DEF IInv, ReplyInv, CallInv, TypeOK, ExchangeTypeOK, ReplyKinds, ServeClose, local_vars,
         Awaits
<1>4. SlotInv'
  BY <1>0, NoneDiffers
     DEF IInv, SlotInv, ReplyInv, CallInv, TypeOK, ExchangeTypeOK, ServeClose, local_vars,
         Awaits
<1>5. OrderInv'
  BY <1>0, NoneDiffers
     DEF IInv, OrderInv, TypeOK, ExchangeTypeOK, ServeClose, local_vars, Awaits
<1>6. HaltInv'
  BY <1>0, NoneDiffers
     DEF IInv, HaltInv, CallInv, TypeOK, ExchangeTypeOK, ServeClose, local_vars, Awaits
<1> QED
  BY <1>1, <1>2, <1>3, <1>4, <1>5, <1>6 DEF IInv

\* A call fails.
LEMMA CallFailsStep ==
  ASSUME IInv, CallFails, UNCHANGED local_vars
  PROVE  IInv'
<1>0. /\ TypeOK /\ CallInv /\ ReplyInv /\ SlotInv /\ OrderInv /\ HaltInv
      /\ call \in Calls /\ call # None /\ reply = None
      /\ call.op \in {"entry", "status", "size", "close"}
      /\ reply' \in Replies /\ reply' # None
  <2>0. TypeOK /\ CallInv /\ ReplyInv /\ SlotInv /\ OrderInv /\ HaltInv
    BY DEF IInv
  <2>1. call \in Calls /\ call # None /\ reply = None
    BY <2>0 DEF CallFails, TypeOK, ExchangeTypeOK
  <2>2. call.op \in {"entry", "status", "size", "close"}
    BY <2>0, <2>1, CallShapes
  <2>3. reply' \in Replies /\ reply' # None
    BY <2>0, NoneDiffers DEF CallFails, Replies
  <2> QED
    BY <2>0, <2>1, <2>2, <2>3
<1>1. TypeOK'
  BY <1>0, NoneDiffers DEF TypeOK, ExchangeTypeOK, CallFails, local_vars
<1>2. CallInv'
  BY <1>0, NoneDiffers DEF IInv, CallInv, TypeOK, ExchangeTypeOK, CallFails, local_vars
<1>3. ReplyInv'
  BY <1>0, NoneDiffers
     DEF IInv, ReplyInv, CallInv, TypeOK, ExchangeTypeOK, ReplyKinds, CallFails, local_vars
<1>4. SlotInv'
  BY <1>0, NoneDiffers
     DEF IInv, SlotInv, ReplyInv, CallInv, TypeOK, ExchangeTypeOK, CallFails, local_vars
<1>5. OrderInv'
  BY <1>0, NoneDiffers DEF IInv, OrderInv, TypeOK, ExchangeTypeOK, CallFails, local_vars
<1>6. HaltInv'
  BY <1>0, NoneDiffers DEF IInv, HaltInv, CallInv, TypeOK, ExchangeTypeOK, CallFails, local_vars
<1> QED
  BY <1>1, <1>2, <1>3, <1>4, <1>5, <1>6 DEF IInv

\* An entry crosses the spread.
LEMMA PostOnlyRejectStep ==
  ASSUME IInv, PostOnlyReject, UNCHANGED local_vars
  PROVE  IInv'
<1>0. /\ TypeOK /\ CallInv /\ ReplyInv /\ SlotInv /\ OrderInv /\ HaltInv
      /\ call \in Calls /\ call # None /\ reply = None
      /\ reply' \in Replies /\ reply' # None
  <2>0. TypeOK /\ CallInv /\ ReplyInv /\ SlotInv /\ OrderInv /\ HaltInv
    BY DEF IInv
  <2>1. call \in Calls /\ call # None /\ reply = None
    BY <2>0 DEF PostOnlyReject, Awaits, TypeOK, ExchangeTypeOK
  <2>2. reply' \in Replies /\ reply' # None
    BY <2>0, NoneDiffers DEF PostOnlyReject, Replies
  <2> QED
    BY <2>0, <2>1, <2>2
<1>1. TypeOK'
  BY <1>0, NoneDiffers DEF TypeOK, ExchangeTypeOK, PostOnlyReject, local_vars, Awaits
<1>2. CallInv'
  BY <1>0, NoneDiffers
     DEF IInv, CallInv, TypeOK, ExchangeTypeOK, PostOnlyReject, local_vars, Awaits
<1>3. ReplyInv'
  BY <1>0, NoneDiffers
     DEF IInv, ReplyInv, CallInv, TypeOK, ExchangeTypeOK, ReplyKinds, PostOnlyReject,
         local_vars, Awaits
<1>4. SlotInv'
  BY <1>0, NoneDiffers
     DEF IInv, SlotInv, ReplyInv, CallInv, TypeOK, ExchangeTypeOK, PostOnlyReject, local_vars,
         Awaits
<1>5. OrderInv'
  BY <1>0, NoneDiffers
     DEF IInv, OrderInv, TypeOK, ExchangeTypeOK, PostOnlyReject, local_vars, Awaits
<1>6. HaltInv'
  BY <1>0, NoneDiffers
     DEF IInv, HaltInv, CallInv, TypeOK, ExchangeTypeOK, PostOnlyReject, local_vars, Awaits
<1> QED
  BY <1>1, <1>2, <1>3, <1>4, <1>5, <1>6 DEF IInv

\* A reply is lost.
LEMMA ReplyLostStep ==
  ASSUME IInv, ReplyLost, UNCHANGED local_vars
  PROVE  IInv'
<1>0. /\ TypeOK /\ CallInv /\ ReplyInv /\ SlotInv /\ OrderInv /\ HaltInv
      /\ call \in Calls /\ call # None /\ reply # None
      /\ call.op \in {"entry", "status", "size", "close"}
      /\ reply' \in Replies /\ reply' # None
  <2>0. TypeOK /\ CallInv /\ ReplyInv /\ SlotInv /\ OrderInv /\ HaltInv
    BY DEF IInv
  <2>1. call \in Calls /\ call # None /\ reply # None
    BY <2>0 DEF ReplyLost, TypeOK, ExchangeTypeOK, CallInv
  <2>2. call.op \in {"entry", "status", "size", "close"}
    BY <2>0, <2>1, CallShapes
  <2>3. reply' \in Replies /\ reply' # None
    BY <2>0, NoneDiffers DEF ReplyLost, Replies
  <2> QED
    BY <2>0, <2>1, <2>2, <2>3
<1>1. TypeOK'
  BY <1>0, NoneDiffers DEF TypeOK, ExchangeTypeOK, ReplyLost, local_vars
<1>2. CallInv'
  BY <1>0, NoneDiffers DEF IInv, CallInv, TypeOK, ExchangeTypeOK, ReplyLost, local_vars
<1>3. ReplyInv'
  BY <1>0, NoneDiffers
     DEF IInv, ReplyInv, CallInv, TypeOK, ExchangeTypeOK, ReplyKinds, ReplyLost, local_vars
<1>4. SlotInv'
  BY <1>0, NoneDiffers
     DEF IInv, SlotInv, ReplyInv, CallInv, TypeOK, ExchangeTypeOK, ReplyLost, local_vars
<1>5. OrderInv'
  BY <1>0, NoneDiffers DEF IInv, OrderInv, TypeOK, ExchangeTypeOK, ReplyLost, local_vars
<1>6. HaltInv'
  BY <1>0, NoneDiffers DEF IInv, HaltInv, CallInv, TypeOK, ExchangeTypeOK, ReplyLost, local_vars
<1> QED
  BY <1>1, <1>2, <1>3, <1>4, <1>5, <1>6 DEF IInv

\* An order fills, whole or in part.
LEMMA FillStep ==
  ASSUME IInv, NEW id \in Ids, Fill(id), UNCHANGED local_vars
  PROVE  IInv'
<1>a. /\ TypeOK /\ CallInv /\ ReplyInv /\ SlotInv /\ OrderInv /\ HaltInv
  BY DEF IInv
<1>b. PICK o \in Orders :
        /\ orders' = [orders EXCEPT ![id] = o]
        /\ o.side = orders[id].side /\ o.filled > orders[id].filled
        /\ o.open <=> o.filled < o.qty
        /\ net' \in Int
  BY <1>a, FillEffect
<1>c. UNCHANGED <<nextId, call, reply, streak>>
  BY DEF Fill
<1>d. /\ \A i \in Ids : /\ orders'[i].side = orders[i].side
                       /\ orders[i].filled \in Nat /\ orders'[i].filled \in Nat
                       /\ orders'[i].filled >= orders[i].filled
      /\ (reply # None /\ reply.kind = "order") => reply.id \in Ids /\ reply.filled \in Nat
  BY <1>a, <1>b, ReplyShapes DEF TypeOK, ExchangeTypeOK, Orders
<1>1. TypeOK'
  BY <1>a, <1>b, <1>c, <1>d, NoneDiffers DEF TypeOK, ExchangeTypeOK, local_vars
<1>2. CallInv'
  BY <1>a, <1>b, <1>c, NoneDiffers DEF CallInv, local_vars, Orders
<1>3. ReplyInv'
  BY <1>a, <1>b, <1>c, <1>d, NoneDiffers
     DEF ReplyInv, ReplyKinds, TypeOK, ExchangeTypeOK, local_vars
<1>4. SlotInv'
  BY <1>a, <1>b, <1>c, NoneDiffers
     DEF SlotInv, CallInv, TypeOK, ExchangeTypeOK, local_vars, Orders
<1>5. OrderInv'
  BY <1>a, <1>b, <1>c, NoneDiffers DEF OrderInv, TypeOK, ExchangeTypeOK, local_vars, Orders
<1>6. HaltInv'
  BY <1>a, <1>b, <1>c, NoneDiffers DEF HaltInv, local_vars, Orders
<1> QED
  BY <1>1, <1>2, <1>3, <1>4, <1>5, <1>6 DEF IInv

\* An entry is accepted.
LEMMA ServeEntryStep ==
  ASSUME IInv, ServeEntry, UNCHANGED local_vars
  PROVE  IInv'
<1>a. /\ TypeOK /\ CallInv /\ ReplyInv /\ SlotInv /\ OrderInv /\ HaltInv
  BY DEF IInv
<1>b. PICK o \in Orders :
        /\ orders' = [orders EXCEPT ![nextId] = o]
        /\ o.side = call.side
        /\ o.open => o.filled < o.qty
        /\ reply' = OrderReply(nextId, o) /\ reply' \in Replies
        /\ net' \in Int
  BY <1>a, EntryEffect
<1>c. /\ UNCHANGED <<call, streak>>
      /\ call \in Calls /\ call.op = "entry" /\ call # None /\ reply = None
      /\ nextId \in Ids /\ nextId \in Nat
      /\ nextId' = nextId + 1 /\ nextId' \in 1 .. MaxOrders + 1
  <2>1. /\ call \in Calls /\ call.op = "entry" /\ nextId \in Ids
        /\ nextId' = nextId + 1 /\ nextId' \in 1 .. MaxOrders + 1
    BY <1>a, EntryEffect
  <2>2. UNCHANGED <<call, streak>> /\ call # None /\ reply = None
    BY DEF ServeEntry, Awaits
  <2> QED
    BY <2>1, <2>2 DEF Ids
<1>1. TypeOK'
  BY <1>a, <1>b, <1>c DEF TypeOK, ExchangeTypeOK, local_vars
<1>2. CallInv'
  BY <1>a, <1>b, <1>c, NoneDiffers DEF CallInv, local_vars, Orders, OrderReply
<1>3. ReplyInv'
  BY <1>a, <1>b, <1>c, NoneDiffers
     DEF ReplyInv, ReplyKinds, TypeOK, ExchangeTypeOK, local_vars, Orders, OrderReply
<1>4. SlotInv'
  BY <1>a, <1>b, <1>c, NoneDiffers
     DEF SlotInv, CallInv, TypeOK, ExchangeTypeOK, local_vars, Orders, OrderReply
<1>5. OrderInv'
  BY <1>a, <1>b, <1>c, NoneDiffers
     DEF OrderInv, TypeOK, ExchangeTypeOK, local_vars, Orders, OrderReply
<1>6. HaltInv'
  BY <1>a, <1>b, <1>c, NoneDiffers DEF HaltInv, local_vars, Orders, OrderReply
<1> QED
  BY <1>1, <1>2, <1>3, <1>4, <1>5, <1>6 DEF IInv

\* An order is taken off the book.
LEMMA KillStep ==
  ASSUME IInv, NEW id \in Ids, Kill(id), UNCHANGED local_vars
  PROVE  IInv'
<1>0. /\ TypeOK /\ CallInv /\ ReplyInv /\ SlotInv /\ OrderInv /\ HaltInv
      /\ orders[id] \in Orders
  <2>0. TypeOK /\ CallInv /\ ReplyInv /\ SlotInv /\ OrderInv /\ HaltInv
    BY DEF IInv
  <2>1. orders[id] \in Orders
    BY <2>0 DEF TypeOK, ExchangeTypeOK
  <2> QED
    BY <2>0, <2>1
<1>1. TypeOK'
  BY <1>0, NoneDiffers DEF TypeOK, ExchangeTypeOK, Kill, local_vars, Orders
<1>2. CallInv'
  BY <1>0, NoneDiffers DEF IInv, CallInv, TypeOK, ExchangeTypeOK, Kill, local_vars, Orders
<1>3. ReplyInv'
  BY <1>0, NoneDiffers
     DEF IInv, ReplyInv, CallInv, TypeOK, ExchangeTypeOK, ReplyKinds, Kill, local_vars, Orders
<1>4. SlotInv'
  BY <1>0, NoneDiffers
     DEF IInv, SlotInv, ReplyInv, CallInv, TypeOK, ExchangeTypeOK, Kill, local_vars, Orders
<1>5. OrderInv'
  BY <1>0, NoneDiffers DEF IInv, OrderInv, TypeOK, ExchangeTypeOK, Kill, local_vars, Orders
<1>6. HaltInv'
  BY <1>0, NoneDiffers
     DEF IInv, HaltInv, CallInv, TypeOK, ExchangeTypeOK, Kill, local_vars, Orders
<1> QED
  BY <1>1, <1>2, <1>3, <1>4, <1>5, <1>6 DEF IInv

\* The position is closed from elsewhere.
LEMMA LiquidateStep ==
  ASSUME IInv, Liquidate, UNCHANGED local_vars
  PROVE  IInv'
<1>0. /\ TypeOK /\ CallInv /\ ReplyInv /\ SlotInv /\ OrderInv /\ HaltInv
  <2>0. TypeOK /\ CallInv /\ ReplyInv /\ SlotInv /\ OrderInv /\ HaltInv
    BY DEF IInv
  <2> QED
    BY <2>0
<1>1. TypeOK'
  BY <1>0, NoneDiffers DEF TypeOK, ExchangeTypeOK, Liquidate, local_vars
<1>2. CallInv'
  BY <1>0, NoneDiffers DEF IInv, CallInv, TypeOK, ExchangeTypeOK, Liquidate, local_vars
<1>3. ReplyInv'
  BY <1>0, NoneDiffers
     DEF IInv, ReplyInv, CallInv, TypeOK, ExchangeTypeOK, ReplyKinds, Liquidate, local_vars
<1>4. SlotInv'
  BY <1>0, NoneDiffers
     DEF IInv, SlotInv, ReplyInv, CallInv, TypeOK, ExchangeTypeOK, Liquidate, local_vars
<1>5. OrderInv'
  BY <1>0, NoneDiffers DEF IInv, OrderInv, TypeOK, ExchangeTypeOK, Liquidate, local_vars
<1>6. HaltInv'
  BY <1>0, NoneDiffers DEF IInv, HaltInv, CallInv, TypeOK, ExchangeTypeOK, Liquidate, local_vars
<1> QED
  BY <1>1, <1>2, <1>3, <1>4, <1>5, <1>6 DEF IInv

LEMMA NextIInv == IInv /\ [Next]_vars => IInv'
<1> SUFFICES ASSUME IInv, [Next]_vars PROVE IInv'
  OBVIOUS
<1>1. CASE process_tick
  BY <1>1, QuietStep, PollStep, CloseTickStep, EntryTickStep DEF process_tick
<1>2. CASE handle_reply
  BY <1>2, PlaceEntryStep, PollPendingStep, SizeKnownStep, CloseSentStep DEF handle_reply
<1>3. CASE CooldownOver
  BY <1>3, CooldownStep
<1>4. CASE Restart
  BY <1>4, RestartStep
<1>5. CASE ExchangeNext /\ UNCHANGED local_vars
  BY <1>5, ServeEntryStep, ServeStatusStep, ServeSizeStep, ServeCloseStep, CallFailsStep,
     PostOnlyRejectStep, ReplyLostStep, FillStep, KillStep, LiquidateStep DEF ExchangeNext
<1>6. CASE UNCHANGED vars
  BY <1>6 DEF vars, IInv, TypeOK, ExchangeTypeOK, CallInv, ReplyInv, SlotInv, OrderInv, HaltInv
<1> QED
  BY <1>1, <1>2, <1>3, <1>4, <1>5, <1>6 DEF Next

(***************************************************************************)
(* The thread's and the exchange's state keep their types under every      *)
(* fault; in particular consec_losses never passes max_consec_losses and   *)
(* close_tries never passes MAX_CLOSE_RETRIES.                             *)
(***************************************************************************)
THEOREM TypeCorrect == Spec => []TypeOK
<1>1. IInv => TypeOK
  BY DEF IInv
<1> QED
  BY InitIInv, NextIInv, <1>1, PTL DEF Spec

(***************************************************************************)
(* Under every fault the slot is in step with the exchange: pending and    *)
(* position exclude each other and name orders of their side.              *)
(***************************************************************************)
THEOREM SlotSound == Spec => []SlotMatchesExchange
<1>1. IInv => SlotMatchesExchange
  <2> SUFFICES ASSUME IInv PROVE SlotMatchesExchange
    OBVIOUS
  <2>1. call # None => call.op \in {"entry", "status", "size", "close"}
    BY CallShapes DEF IInv, TypeOK, ExchangeTypeOK
  <2> QED
    BY <2>1 DEF IInv, CallInv, SlotInv, SlotMatchesExchange
<1> QED
  BY InitIInv, NextIInv, <1>1, PTL DEF Spec

(***************************************************************************)
(* A tracked position always has a close attempt left or in flight.        *)
(***************************************************************************)
THEOREM AttemptsBounded == Spec => []AttemptsLeft
<1>1. IInv => AttemptsLeft
  <2> SUFFICES ASSUME IInv PROVE AttemptsLeft
    OBVIOUS
  <2>1. call # None => call.op \in {"entry", "status", "size", "close"}
    BY CallShapes DEF IInv, TypeOK, ExchangeTypeOK
  <2> QED
    BY <2>1, LimitsAssumption
       DEF IInv, CallInv, AttemptsLeft, TypeOK, PositionStates
<1> QED
  BY InitIInv, NextIInv, <1>1, PTL DEF Spec

(***************************************************************************)
(* Under every fault a close shrinks the position or leaves it alone, and  *)
(* never turns it over: reduce=True and the side opposite to the order's.  *)
(***************************************************************************)
THEOREM ClosesReduce == Spec => CloseOnlyReduces
<1> DEFINE Shrinks == Awaits("close") /\ reply' # None /\ net' # net
                        => Magnitude(net') < Magnitude(net) /\ Signed(call.side, net') <= 0
<1>1. ASSUME IInv, Next PROVE Shrinks
  <2> SUFFICES ASSUME Awaits("close"), reply' # None, net' # net
               PROVE  Magnitude(net') < Magnitude(net) /\ Signed(call.side, net') <= 0
    OBVIOUS
  <2>1. /\ TypeOK /\ call \in Calls /\ call.op = "close" /\ call # None /\ reply = None
        /\ call.reduce /\ call.side \in Sides /\ call.qty \in Nat
    BY <1>1, CallShapes DEF IInv, TypeOK, ExchangeTypeOK, CallInv, Awaits
  <2>2. ServeClose
    <3>1. ~process_tick /\ ~handle_reply /\ ~CooldownOver /\ ~Restart
      BY <2>1 DEF process_tick, TickQuiet, TickPoll, TickClose, TickEntry, Tick,
         handle_reply, place_entry, poll_pending, size_known, close_sent, Answered,
         CooldownOver, Restart, Return, Make
    <3>2. ExchangeNext
      BY <1>1, <3>1 DEF Next
    <3>3. \A id \in Ids : ~Fill(id) /\ ~Kill(id)
      BY <2>1 DEF Fill, Kill
    <3> QED
      BY <2>1, <3>2, <3>3 DEF ExchangeNext, ServeEntry, ServeStatus, ServeSize, Awaits,
         CallFails, PostOnlyReject, ReplyLost, Liquidate
  <2>3. PICK q \in Nat : q <= Reducible(call.side) /\ net' = net + Signed(call.side, q)
    BY <2>1, <2>2, CloseEffect
  <2>4. net \in Int /\ (call.side = "BUY" \/ call.side = "SELL")
    BY <2>1 DEF TypeOK, ExchangeTypeOK, Sides
  <2> QED
    BY <2>3, <2>4 DEF Reducible, Signed, Magnitude
<1>2. IInv /\ [Next]_vars => [Shrinks]_vars
  BY <1>1
<1>3. Spec => [][Shrinks]_vars
  BY InitIInv, NextIInv, <1>2, PTL DEF Spec
<1> QED
  BY <1>3 DEF CloseOnlyReduces

(***************************************************************************)
(* Once max_consec_losses is reached the thread stays as it is for good:   *)
(* flat, with no call in flight and the counter where it stands.           *)
(***************************************************************************)
THEOREM HaltHolds ==
  ASSUME "restart" \notin Faults
  PROVE  Spec => HaltIsFinal
<1> DEFINE Final == losses = MaxConsecLosses => UNCHANGED <<losses, pending, position, call>>
<1>1. ASSUME IInv, Next PROVE Final
  <2> SUFFICES ASSUME losses = MaxConsecLosses
               PROVE  UNCHANGED <<losses, pending, position, call>>
    OBVIOUS
  <2>1. pending = None /\ position = None /\ call = None /\ losses \in Nat
    BY <1>1, LimitsAssumption DEF IInv, HaltInv
  <2>2. ~handle_reply /\ ~Restart
    BY <2>1
       DEF handle_reply, place_entry, poll_pending, size_known, close_sent, Answered, Restart
  <2>3. ASSUME process_tick PROVE UNCHANGED <<losses, pending, position, call>>
    <3>1. ~is_approved
      BY <2>1 DEF is_approved
    <3> QED
      BY <2>1, <2>3, <3>1 DEF process_tick, TickQuiet, TickPoll, TickClose, TickEntry, NoCall
  <2>4. ASSUME CooldownOver PROVE UNCHANGED <<losses, pending, position, call>>
    BY <2>4 DEF CooldownOver
  <2>5. ASSUME ExchangeNext, UNCHANGED local_vars
        PROVE  UNCHANGED <<losses, pending, position, call>>
    BY <2>5 DEF ExchangeNext, local_vars, ServeEntry, ServeStatus, ServeSize, ServeClose,
       CallFails, PostOnlyReject, ReplyLost, Fill, Kill, Liquidate
  <2> QED
    BY <1>1, <2>2, <2>3, <2>4, <2>5 DEF Next
<1>2. IInv /\ [Next]_vars => [Final]_vars
  BY <1>1
<1>3. Spec => [][Final]_vars
  BY InitIInv, NextIInv, <1>2, PTL DEF Spec
<1> QED
  BY <1>3 DEF HaltIsFinal

-----------------------------------------------------------------------------
\* The counter the thread keeps is the exchange's, but for a close it has yet
\* to hear of.
LossInv ==
  IF CloseUnread
    THEN streak = (IF call.outcome = "TP" THEN 0 ELSE losses + 1)
    ELSE streak = losses

LEMMA LossInit == Init => LossInv
BY NoneAssumption DEF Init, ExchangeInit, FreshState, LossInv, CloseUnread, Answered

LEMMA LossNext ==
  ASSUME "restart" \notin Faults, "lostReply" \notin Faults
  PROVE  IInv /\ LossInv /\ [Next]_vars => LossInv'
<1> SUFFICES ASSUME IInv, LossInv, [Next]_vars PROVE LossInv'
  OBVIOUS
<1>0. TypeOK /\ CallInv /\ ReplyInv
  BY DEF IInv
<1>1. CASE process_tick
  <2>1. call = None /\ reply = None /\ reply' = None /\ UNCHANGED <<losses, streak>>
    BY <1>0, <1>1 DEF process_tick, TickQuiet, TickPoll, TickClose, TickEntry, Tick,
       NoCall, Make, CallInv
  <2> QED
    BY <2>1 DEF LossInv, CloseUnread, Answered
<1>2. CASE place_entry \/ poll_pending \/ size_known
  <2>1. call.op # "close" /\ reply' = None /\ UNCHANGED <<losses, streak>>
    BY <1>2 DEF place_entry, poll_pending, size_known, Answered, Return, Make
  <2> QED
    BY <2>1 DEF LossInv, CloseUnread, Answered
<1>3. CASE close_sent
  <2>1. /\ reply' = None /\ UNCHANGED streak
        /\ reply.kind = "closed" => losses' = IF call.outcome = "TP" THEN 0 ELSE losses + 1
        /\ reply.kind # "closed" => losses' = losses
    BY <1>3 DEF close_sent, on_trade_close, Return, Make
  <2>2. CloseUnread <=> reply.kind = "closed"
    BY <1>3 DEF close_sent, CloseUnread
  <2> QED
    BY <2>1, <2>2 DEF LossInv, CloseUnread, Answered
<1>4. CASE ServeClose /\ UNCHANGED local_vars
  <2>1. /\ reply = None /\ reply'.kind = "closed" /\ call' = call /\ call # None
        /\ call.op = "close" /\ losses' = losses
        /\ streak' = IF call.outcome = "TP" THEN 0 ELSE streak + 1
    BY <1>4 DEF ServeClose, Awaits, local_vars
  <2>2. reply' # None
    BY <1>4, NoneDiffers DEF ServeClose, Replies
  <2> QED
    BY <2>1, <2>2 DEF LossInv, CloseUnread, Answered
<1>5. CASE /\ ExchangeNext /\ ~ServeClose
           /\ UNCHANGED local_vars
  <2>1. UNCHANGED <<losses, streak, call>>
    BY <1>5 DEF ExchangeNext, local_vars, ServeEntry, ServeStatus, ServeSize,
       CallFails, PostOnlyReject, ReplyLost, Fill, Kill, Liquidate
  <2>2. CloseUnread' <=> CloseUnread
    <3>1. CASE ServeEntry
      BY <2>1, <3>1 DEF ServeEntry, Awaits, OrderReply, CloseUnread, Answered
    <3>2. CASE ServeStatus \/ ServeSize \/ CallFails \/ PostOnlyReject
      BY <2>1, <3>2 DEF ServeStatus, ServeSize, CallFails, PostOnlyReject, Awaits,
         OrderReply, CloseUnread, Answered
    <3>3. CASE \/ \E id \in Ids : Fill(id) \/ Kill(id)
               \/ Liquidate
      BY <2>1, <3>3 DEF Fill, Kill, Liquidate, CloseUnread, Answered
    <3>4. ~ReplyLost
      BY DEF ReplyLost
    <3> QED
      BY <1>5, <3>1, <3>2, <3>3, <3>4 DEF ExchangeNext
  <2> QED
    BY <2>1, <2>2 DEF LossInv
<1>6. CASE CooldownOver \/ UNCHANGED vars
  BY <1>6 DEF CooldownOver, vars, LossInv, CloseUnread, Answered
<1> QED
  BY <1>1, <1>2, <1>3, <1>4, <1>5, <1>6 DEF Next, handle_reply, Restart

(***************************************************************************)
(* Without lost replies and restarts no entry is sent after                *)
(* max_consec_losses losing closes in a row.                               *)
(***************************************************************************)
THEOREM HaltEnforced ==
  ASSUME "restart" \notin Faults, "lostReply" \notin Faults
  PROVE  Spec => []HaltAfterLosses
<1>1. IInv /\ LossInv /\ [Next]_vars => LossInv'
  BY LossNext
<1>2. IInv /\ LossInv => HaltAfterLosses
  <2> SUFFICES ASSUME IInv, LossInv, call # None, call.op = "entry"
               PROVE  streak < MaxConsecLosses
    BY DEF HaltAfterLosses
  <2>1. losses # MaxConsecLosses /\ losses \in 0 .. MaxConsecLosses
    BY DEF IInv, HaltInv, TypeOK
  <2>2. streak = losses
    BY DEF LossInv, CloseUnread, Answered
  <2> QED
    BY <2>1, <2>2, LimitsAssumption
<1> QED
  BY InitIInv, NextIInv, LossInit, <1>1, <1>2, PTL DEF Spec

=============================================================================
