------------------------------ MODULE Exchange ------------------------------
(***************************************************************************)
(* Binance's side of the REST calls a symbol's thread makes: the orders of *)
(* that symbol, its net position, and the one call in flight (an engine    *)
(* method blocks its thread until it returns, lib.rs:213-277).  External   *)
(* to the repository: modelled from the replies src/ reads and the errors  *)
(* it handles.                                                             *)
(*                                                                         *)
(* A call is made, then served or failed, then its reply is read; orders   *)
(* may fill or die at any instant in between.  A call the client gave up   *)
(* on is not served later: recvWindow (5 s, execution.rs:33) is shorter    *)
(* than the client's timeout (10 s, execution.rs:87).                      *)
(***************************************************************************)
EXTENDS Integers

CONSTANTS
  MaxOrders,   \* bound: orders the exchange accepts in a behaviour
  Step,        \* the symbol's lot step, in the smallest unit of quantity
  Faults,      \* which of FaultKinds may happen
  None         \* no value

FaultKinds == {
  "partial",       \* an order may fill in parts
  "thinBook",      \* a market order may execute in part, the rest expiring
  "lostReply",     \* a served call may still end in an error for the caller
  "liquidation",   \* the position may be closed from elsewhere
  "restart" }      \* the program may be killed and started again

ASSUME ExchangeAssumption ==
  MaxOrders \in Nat \ {0} /\ Step \in Nat \ {0} /\ Faults \subseteq FaultKinds

Sides == {"BUY", "SELL"}
Outcomes == {"TP", "SL"}
Statuses == {"NEW", "PARTIALLY_FILLED", "FILLED", "CANCELED"}
Ids == 1 .. MaxOrders

Orders == [side : Sides, qty : Nat, filled : Nat, open : BOOLEAN]

Calls ==
  [op : {"entry"}, side : Sides, qty : Nat, retry : BOOLEAN]     \* place_order
    \cup [op : {"status"}, id : Ids]                             \* get_order_status
    \cup [op : {"size"}, outcome : Outcomes]                     \* get_position_size
    \cup [op : {"close"}, side : Sides, qty : Nat, outcome : Outcomes,
          reduce : BOOLEAN]                                      \* place_market_order

Replies ==
  [kind : {"failed", "post_only", "closed"}]
    \cup [kind : {"order"}, id : Ids, status : Statuses, filled : Nat]
    \cup [kind : {"size"}, size : Nat]

ASSUME NoneAssumption == None \notin Calls \cup Replies

VARIABLES
  orders,    \* every order of the symbol, by id
  nextId,    \* the id the next order gets
  net,       \* the signed position
  call,      \* the call in flight
  reply,     \* its outcome, once there is one
  streak     \* history: losing closes executed since the last winning one

exchange_vars == <<orders, nextId, net, call, reply, streak>>

ExchangeTypeOK ==
  /\ orders \in [Ids -> Orders]
  /\ nextId \in 1 .. MaxOrders + 1
  /\ net \in Int
  /\ call \in Calls \cup {None}
  /\ reply \in Replies \cup {None}
  /\ streak \in Nat

ExchangeInit ==
  /\ orders = [i \in Ids |-> [side |-> "BUY", qty |-> 0, filled |-> 0, open |-> FALSE]]
  /\ nextId = 1
  /\ net = 0
  /\ call = None
  /\ reply = None
  /\ streak = 0

-----------------------------------------------------------------------------
Opposite(side) == IF side = "BUY" THEN "SELL" ELSE "BUY"

Signed(side, qty) == IF side = "BUY" THEN qty ELSE -qty

Smaller(a, b) == IF a <= b THEN a ELSE b

Magnitude(a) == IF a >= 0 THEN a ELSE -a

\* CANCELED stands for the three final statuses the caller treats alike.
StatusOf(o) ==
  IF o.filled = o.qty THEN "FILLED"
  ELSE IF ~o.open THEN "CANCELED"
  ELSE IF o.filled = 0 THEN "NEW" ELSE "PARTIALLY_FILLED"

OrderReply(id, o) ==
  [kind |-> "order", id |-> id, status |-> StatusOf(o), filled |-> o.filled]

Multiples(qty) == {q \in 0 .. qty : q % Step = 0}

\* The quantities that can execute at once when qty is left.
Executable(qty) == IF "partial" \in Faults THEN Multiples(qty) \ {0} ELSE {qty}

\* How much of the position an order on this side takes away.
Reducible(side) == IF side = "SELL" THEN net ELSE -net

Awaits(op) == call # None /\ call.op = op /\ reply = None

-----------------------------------------------------------------------------
\* A limit order is accepted: it rests, or comes back already filled or dead.
ServeEntry ==
  /\ Awaits("entry")
  /\ nextId \in Ids
  /\ call.qty > 0
  /\ \E filled \in {0} \cup Executable(call.qty), open \in BOOLEAN :
       LET o == [side |-> call.side, qty |-> call.qty, filled |-> filled, open |-> open]
       IN  /\ filled = call.qty => ~open
           /\ orders' = [orders EXCEPT ![nextId] = o]
           /\ reply' = OrderReply(nextId, o)
           /\ net' = net + Signed(call.side, filled)
  /\ nextId' = nextId + 1
  /\ UNCHANGED <<call, streak>>

ServeStatus ==
  /\ Awaits("status")
  /\ reply' = OrderReply(call.id, orders[call.id])
  /\ UNCHANGED <<orders, nextId, net, call, streak>>

ServeSize ==
  /\ Awaits("size")
  /\ reply' = [kind |-> "size", size |-> Magnitude(net)]
  /\ UNCHANGED <<orders, nextId, net, call, streak>>

\* A market order executes; reduceOnly clips it to the position it faces, and
\* an order with nothing to reduce is refused (CallFails).
ServeClose ==
  /\ Awaits("close")
  /\ call.qty > 0
  /\ call.reduce => Reducible(call.side) > 0
  /\ LET full == IF call.reduce THEN Smaller(call.qty, Reducible(call.side)) ELSE call.qty
     IN  \E q \in IF "thinBook" \in Faults THEN Multiples(full) ELSE {full} :
           net' = net + Signed(call.side, q)
  /\ streak' = IF call.outcome = "TP" THEN 0 ELSE streak + 1
  /\ reply' = [kind |-> "closed"]
  /\ UNCHANGED <<orders, nextId, call>>

\* The call ends in an error and had no effect: refused by the limiter, by a
\* local check or by the exchange, or never got there.
CallFails ==
  /\ call # None /\ reply = None
  /\ reply' = [kind |-> "failed"]
  /\ UNCHANGED <<orders, nextId, net, call, streak>>

\* The post-only price had crossed the spread: error code -5022.
PostOnlyReject ==
  /\ Awaits("entry")
  /\ reply' = [kind |-> "post_only"]
  /\ UNCHANGED <<orders, nextId, net, call, streak>>

\* The call was served, the caller gets an error.
ReplyLost ==
  /\ "lostReply" \in Faults
  /\ reply # None /\ reply.kind \in {"order", "size", "closed"}
  /\ reply' = [kind |-> "failed"]
  /\ UNCHANGED <<orders, nextId, net, call, streak>>

Fill(id) ==
  /\ orders[id].open
  /\ \E q \in Executable(orders[id].qty - orders[id].filled) :
       /\ orders' = [orders EXCEPT
                       ![id].filled = @ + q,
                       ![id].open = orders[id].filled + q < orders[id].qty]
       /\ net' = net + Signed(orders[id].side, q)
  /\ UNCHANGED <<nextId, call, reply, streak>>

\* The exchange, or the account's owner, takes the order off the book.
Kill(id) ==
  /\ orders[id].open
  /\ orders' = [orders EXCEPT ![id].open = FALSE]
  /\ UNCHANGED <<nextId, net, call, reply, streak>>

\* The position is closed from elsewhere.
Liquidate ==
  /\ "liquidation" \in Faults
  /\ net # 0
  /\ net' = 0
  /\ UNCHANGED <<orders, nextId, call, reply, streak>>

ExchangeNext ==
  \/ ServeEntry \/ ServeStatus \/ ServeSize \/ ServeClose
  \/ CallFails \/ PostOnlyReject \/ ReplyLost
  \/ \E id \in Ids : Fill(id) \/ Kill(id)
  \/ Liquidate

=============================================================================
