--------------------------- MODULE ExecutionProofs ---------------------------
(***************************************************************************)
(* Theorems about Execution, for every set of threads, capacity, window    *)
(* and pair of weights.                                                    *)
(*                                                                         *)
(* A call finds nobody's request under way, so that a step is one of four: *)
(* a call, which sends at most what the limiter grants in it (CallStep);   *)
(* an arrival; an end; a pause.  What a sent request still owes Binance    *)
(* is in Owed; Paid and Arriving say, for what is owed, that it has been   *)
(* granted, and that it fits between the last refill and the next.         *)
(***************************************************************************)
EXTENDS Execution, RateLimiterProofs

USE CapacityAssumption, ClockAssumption, WeightsAssumption,
    ExecutionAssumption, NoneIsNoRequest

Kinds == {"order", "light", "heavy"}

Waiting(t) == flight[t] # None /\ ~flight[t].there

\* What may yet arrive and be counted against b: nothing, or a sent request.
Owed(b) == {0} \cup {Charge(flight[t].kind, b) : t \in {s \in Threads : Waiting(s)}}

\* A step that grants at least p tokens of bucket b.
Grants(b, p) ==
  \/ p = 0 /\ Untouched(b)
  \/ \E t \in Instants, cost \in Nat :
       now <= t /\ t <= now' /\ p <= cost /\ Touched(b, t, cost)

FlightInv ==
  /\ \A t, other \in Threads : flight[t] # None /\ flight[other] # None => t = other
  /\ engine = "created" => \A t \in Threads : flight[t] = None

\* What is owed was granted no later than now.
Paid(b) ==
  \A p \in Owed(b), u \in Instants :
    /\ arrived[b][u] <= spent[b][u]
    /\ u >= now => arrived[b][u] + p <= spent[b][u]

(***************************************************************************)
(* One bucket's arrivals a, with p to come.  m is what had arrived when    *)
(* the bucket was last refilled: what has arrived since, and p, has come   *)
(* out of that refill, and the k windows before it held at most k          *)
(* capacities.                                                             *)
(***************************************************************************)
Arriving(a, last, n, tok, w, cap, p) ==
  /\ last <= n
  /\ \A u, v \in Instants : u <= v => a[u] <= a[v]
  /\ \A u \in Instants : u >= n => a[u] = a[n]
  /\ \E m \in Nat :
       /\ Before(a, last) <= m /\ m <= a[last]
       /\ a[n] + p <= m + (cap - tok)
       /\ Reach(a, m, last, w, cap)
  /\ Rate(a, w, cap)

ArrivingInv(b, p) ==
  Arriving(arrived[b], last_refill[b], now, tokens[b], Window[b], Capacity[b], p)

EInv ==
  /\ ExecTypeOK
  /\ FlightInv
  /\ \A b \in Buckets : Paid(b) /\ \A p \in Owed(b) : ArrivingInv(b, p)

-----------------------------------------------------------------------------
LEMMA ChargeTypes ==
  ASSUME NEW kind \in Kinds, NEW b \in Buckets
  PROVE  Charge(kind, b) \in Nat
BY WeightsAssumption, ExecutionAssumption DEF Charge, Weight, Kinds

LEMMA OwedTypes ==
  ASSUME ExecTypeOK, NEW b \in Buckets
  PROVE  Owed(b) \subseteq Nat /\ 0 \in Owed(b)
<1>1. \A t \in Threads : flight[t] # None => flight[t].kind \in Kinds
  BY DEF ExecTypeOK, Requests, Kinds
<1> QED
  BY <1>1, ChargeTypes DEF Owed, Waiting

LEMMA WeightIsDeclared ==
  ASSUME NEW kind \in {"light", "heavy"}
  PROVE  Weight(kind) \in Weights
BY DEF Weight

-----------------------------------------------------------------------------
\* A granted weight is taken from its bucket in full.
LEMMA WeightGrants ==
  ASSUME TypeOK, NEW kind \in {"light", "heavy"}, check_weight(Weight(kind))
  PROVE  /\ TypeOK' /\ now <= now'
         /\ \A b \in Buckets : Grants(b, 0)
         /\ refusedBy' = "none" => \A b \in Buckets : Grants(b, Charge(kind, b))
<1>1. /\ TypeOK' /\ now <= now'
      /\ \A b \in Buckets : StepOf(b)
  BY WeightStep, WeightIsDeclared
<1>2. \A b \in Buckets : Grants(b, 0)
  BY <1>1 DEF StepOf, Grants
<1>3. ASSUME refusedBy' = "none", NEW b \in Buckets
      PROVE  Grants(b, Charge(kind, b))
  <2>1. PICK t \in now .. MaxTime :
          WeightGranted(Weight(kind), t) \/ WeightRefused(Weight(kind), t)
    BY DEF check_weight
  <2>2. WeightGranted(Weight(kind), t)
    BY <1>3, <2>1 DEF WeightRefused, Answer
  <2>3. t \in Instants /\ now <= t /\ t <= t /\ now' = t /\ Weight(kind) \in Nat
    BY <2>1, <2>2, LaterInstants, WeightIsDeclared, InstantsAreNat, WeightsAssumption
       DEF TypeOK, WeightGranted
  <2>4. CASE b = "weight"
    <3>1. Available("weight", t) \in Nat /\ Charge(kind, b) = Weight(kind)
      BY <2>3, <2>4, AvailableType DEF Charge
    <3>2. Touched(b, t, Weight(kind))
      BY <2>2, <2>3, <2>4, <3>1 DEF TypeOK, WeightGranted, Consumed, Touched
    <3> QED
      BY <2>3, <3>1, <3>2 DEF Grants
  <2>5. CASE b # "weight"
    BY <2>2, <2>5 DEF TypeOK, WeightGranted, Untouched, Charge, Grants
  <2> QED
    BY <2>4, <2>5
<1> QED
  BY <1>1, <1>2, <1>3

\* A granted order takes one token from each bucket.
LEMMA OrderGrants ==
  ASSUME TypeOK, check_order
  PROVE  /\ TypeOK' /\ now <= now'
         /\ \A b \in Buckets : Grants(b, 0)
         /\ refusedBy' = "none" => \A b \in Buckets : Grants(b, Charge("order", b))
<1>1. /\ TypeOK' /\ now <= now'
      /\ \A b \in Buckets : StepOf(b)
  BY OrderStep
<1>2. \A b \in Buckets : Grants(b, 0)
  BY <1>1 DEF StepOf, Grants
<1>3. ASSUME refusedBy' = "none", NEW b \in Buckets
      PROVE  Grants(b, Charge("order", b))
  <2>1. PICK t1 \in Instants, t2 \in Instants, t3 \in Instants :
          /\ now <= t1 /\ t1 <= t2 /\ t2 <= t3
          /\ \/ OrderRefusedByWeight(t1)
             \/ OrderRefusedByMinute(t1, t2)
             \/ OrderRefusedByTenSec(t1, t2, t3)
             \/ OrderGranted(t1, t2, t3)
    BY OrderInstants
  <2>2. OrderGranted(t1, t2, t3)
    BY <1>3, <2>1
       DEF OrderRefusedByWeight, OrderRefusedByMinute, OrderRefusedByTenSec, Answer
  <2>3. /\ now <= t1 /\ now <= t2 /\ now <= t3 /\ now' = t3
        /\ t1 <= t3 /\ t2 <= t3 /\ t3 <= t3
    BY <2>1, <2>2, InstantsAreNat DEF TypeOK, OrderGranted
  <2>4. \A d \in Buckets, t \in Instants : Available(d, t) \in Nat
    BY AvailableType
  <2>5. /\ Touched("weight", t1, 1)
        /\ Touched("orderMin", t2, 1)
        /\ Touched("order10s", t3, 1)
    BY <2>1, <2>2, <2>4 DEF TypeOK, OrderGranted, Touched, Consumed, Buckets
  <2>6. Charge("order", b) = 1
    BY DEF Charge, Weight
  <2> QED
    BY <2>1, <2>3, <2>5, <2>6 DEF Grants, Buckets
<1> QED
  BY <1>1, <1>2, <1>3

-----------------------------------------------------------------------------
NoFlight == [t \in Threads |-> None]

\* What any call does: nobody waits when it is made, and if it leaves a
\* request under way the limiter has granted it in this step.
CallStepOf(t) ==
  /\ TypeOK' /\ now <= now' /\ arrived' = arrived
  /\ \A b \in Buckets : Grants(b, 0)
  /\ \/ flight' = NoFlight
     \/ \E kind \in Kinds :
          /\ flight' = [NoFlight EXCEPT ![t] = [kind |-> kind, there |-> FALSE]]
          /\ \A b \in Buckets : Grants(b, Charge(kind, b))
  /\ engine' \in {"loading", "funding", "started", "failed"}

LEMMA AdmittedStep ==
  ASSUME ExecTypeOK, NEW t \in Threads, NEW kind \in Kinds,
         \A other \in Threads \ {t} : flight[other] = None,
         Admitted(t, kind),
         refusedBy' = "none" => \A b \in Buckets : Grants(b, Charge(kind, b))
  PROVE  \/ flight' = NoFlight
         \/ /\ flight' = [NoFlight EXCEPT ![t] = [kind |-> kind, there |-> FALSE]]
            /\ \A b \in Buckets : Grants(b, Charge(kind, b))
<1>1. CASE refusedBy' = "none"
  <2>1. flight' = [NoFlight EXCEPT ![t] = [kind |-> kind, there |-> FALSE]]
    BY <1>1 DEF Admitted, Send, NoFlight, ExecTypeOK
  <2> QED
    BY <1>1, <2>1
<1>2. CASE refusedBy' # "none"
  BY <1>2 DEF Admitted, Return, NoFlight, ExecTypeOK
<1> QED
  BY <1>1, <1>2

LEMMA CallStep ==
  ASSUME ExecTypeOK, FlightInv, NEW t \in Threads, Call(t)
  PROVE  CallStepOf(t)
<1>0. TypeOK /\ "light" \in Kinds /\ "heavy" \in Kinds /\ "order" \in Kinds
  BY DEF ExecTypeOK, Kinds
<1>1. ASSUME NEW kind \in {"light", "heavy"}, Weighed(t, kind)
      PROVE  CallStepOf(t)
  <2>1. /\ kind \in Kinds /\ check_weight(Weight(kind)) /\ Admitted(t, kind)
        /\ \A other \in Threads \ {t} : flight[other] = None
        /\ engine = "started" /\ engine' = engine /\ arrived' = arrived
    BY <1>1 DEF Weighed, MayCall, GilFree, Kinds
  <2> QED
    BY <1>0, <2>1, WeightGrants, AdmittedStep DEF CallStepOf
<1>2. ASSUME Ordered(t)
      PROVE  CallStepOf(t)
  <2>1. /\ check_order
        /\ Admitted(t, "order") \/ flight' = flight
        /\ \A other \in Threads : flight[other] = None
        /\ engine = "started" /\ engine' = engine /\ arrived' = arrived
    BY <1>2 DEF Ordered, MayCall, GilFree
  <2>2. CASE flight' = flight
    <3>1. flight' = NoFlight
      BY <2>1, <2>2 DEF ExecTypeOK, NoFlight
    <3> QED
      BY <1>0, <2>1, <3>1, OrderGrants DEF CallStepOf
  <2>3. CASE Admitted(t, "order")
    BY <1>0, <2>1, <2>3, OrderGrants, AdmittedStep DEF CallStepOf
  <2> QED
    BY <2>1, <2>2, <2>3
<1>3. CASE load_precision_rules(t)
  <2>1. /\ check_weight(Weight("light")) /\ Admitted(t, "light")
        /\ \A other \in Threads \ {t} : flight[other] = None
        /\ engine' \in {"loading", "failed"} /\ arrived' = arrived
    BY <1>3 DEF load_precision_rules, FlightInv, Weight
  <2> QED
    BY <1>0, <2>1, WeightGrants, AdmittedStep DEF CallStepOf
<1>4. CASE start_refresh_wallet(t)
  <2>1. /\ check_weight(Weight("heavy")) /\ Admitted(t, "heavy")
        /\ \A other \in Threads \ {t} : flight[other] = None
        /\ engine' \in {"funding", "failed"} /\ arrived' = arrived
    BY <1>4 DEF start_refresh_wallet, Answered, FlightInv, Weight
  <2> QED
    BY <1>0, <2>1, WeightGrants, AdmittedStep DEF CallStepOf
<1> QED
  BY <1>1, <1>2, <1>3, <1>4
     DEF Call, place_limit_order, place_market_order, cancel_order,
         query_order_status, query_position_size, refresh_wallet

\* After a call what is owed is what it was granted.
LEMMA OwedGranted ==
  ASSUME NEW t \in Threads, CallStepOf(t), NEW b \in Buckets, NEW p \in Owed(b)'
  PROVE  p \in Nat /\ Grants(b, p)
<1>1. CASE flight' = NoFlight
  <2>1. p = 0
    BY <1>1 DEF Owed, Waiting, NoFlight
  <2> QED
    BY <2>1 DEF CallStepOf
<1>2. ASSUME NEW kind \in Kinds,
             flight' = [NoFlight EXCEPT ![t] = [kind |-> kind, there |-> FALSE]],
             \A d \in Buckets : Grants(d, Charge(kind, d))
      PROVE  p \in Nat /\ Grants(b, p)
  <2>1. \A s \in Threads : Waiting(s)' => s = t
    BY <1>2 DEF Waiting, NoFlight
  <2>2. flight'[t].kind = kind
    BY <1>2 DEF NoFlight
  <2>3. p = 0 \/ p = Charge(kind, b)
    BY <2>1, <2>2 DEF Owed, Charge, Weight
  <2> QED
    BY <1>2, <2>3, ChargeTypes DEF CallStepOf
<1> QED
  BY <1>1, <1>2 DEF CallStepOf

-----------------------------------------------------------------------------
(***************************************************************************)
(* The history a with nothing to come, after a grant that refills nothing: *)
(* p of what is then left may arrive.                                      *)
(***************************************************************************)
LEMMA ArrivingGranted ==
  ASSUME NEW a \in [Instants -> Nat], NEW last \in Instants,
         NEW n \in Instants, NEW m \in Instants, n <= m,
         NEW tok \in Nat, NEW cost \in Nat, cost <= tok, NEW p \in Nat, p <= cost,
         NEW w \in Nat \ {0}, NEW cap \in Nat \ {0},
         Arriving(a, last, n, tok, w, cap, 0)
  PROVE  Arriving(a, last, m, tok - cost, w, cap, p)
<1>0. /\ Instants \subseteq Nat
      /\ \A u \in Instants : a[u] \in Nat
      /\ last \in Nat /\ n \in Nat /\ m \in Nat
  BY InstantsAreNat
<1>1. a[m] = a[n]
  BY <1>0 DEF Arriving
<1>2. PICK r \in Nat :
        /\ Before(a, last) <= r /\ r <= a[last]
        /\ a[n] + 0 <= r + (cap - tok)
        /\ Reach(a, r, last, w, cap)
  BY DEF Arriving
<1>3. a[m] + p <= r + (cap - (tok - cost))
  BY <1>0, <1>1, <1>2
<1>4. last <= m /\ \A u \in Instants : u >= m => a[u] = a[m]
  BY <1>0, <1>1 DEF Arriving
<1> QED
  BY <1>2, <1>3, <1>4 DEF Arriving

\* After a grant that refills, all that has arrived lies before the refill.
LEMMA ArrivingRefilled ==
  ASSUME NEW a \in [Instants -> Nat], NEW last \in Instants,
         NEW n \in Instants, NEW t \in Instants, NEW m \in Instants, n <= t, t <= m,
         NEW tok \in Nat, NEW cost \in Nat, NEW p \in Nat, p <= cost,
         NEW w \in Nat \ {0}, NEW cap \in Nat \ {0},
         Arriving(a, last, n, tok, w, cap, 0), t - last >= w
  PROVE  Arriving(a, t, m, cap - cost, w, cap, p)
<1>0. /\ Instants \subseteq Nat
      /\ \A u \in Instants : a[u] \in Nat
      /\ last \in Nat /\ n \in Nat /\ t \in Nat /\ m \in Nat
  BY InstantsAreNat
<1>1. a[m] = a[n] /\ a[t] = a[n]
  BY <1>0 DEF Arriving
<1>2. PICK r \in Nat : /\ r <= a[last] /\ a[n] + 0 <= r + (cap - tok)
                      /\ Reach(a, r, last, w, cap)
  BY DEF Arriving
<1>3. \A u, v \in Instants : u <= v => a[u] <= a[v]
  BY DEF Arriving
<1>4. \A s \in Instants : Before(a, s) \in Nat /\ Before(a, s) <= a[s]
  BY <1>0, <1>3, BeforeMonotone
<1>5. Reach(a, a[n], t, w, cap)
  <2>1. ASSUME NEW s \in Instants, s > last PROVE a[n] - Before(a, s) <= cap
    <3>1. s # 0 /\ s - 1 \in Instants /\ s - 1 >= last
      BY <1>0, <2>1 DEF Instants
    <3>2. Before(a, s) >= a[last]
      BY <1>0, <1>3, <3>1 DEF Before
    <3> QED
      BY <1>0, <1>2, <1>4, <3>2
  <2>2. a[n] - r <= cap /\ a[n] \in Nat
    BY <1>0, <1>2
  <2> QED
    BY <1>2, <1>4, <2>1, <2>2, ReachRefilled
<1>6. Before(a, t) <= a[n] /\ a[n] <= a[t]
  BY <1>0, <1>1, <1>4
<1>7. a[m] + p <= a[n] + (cap - (cap - cost))
  BY <1>0, <1>1
<1>8. \A u \in Instants : u >= m => a[u] = a[m]
  BY <1>0, <1>1 DEF Arriving
<1>9. Rate(a, w, cap)
  BY DEF Arriving
<1> QED
  BY <1>0, <1>3, <1>5, <1>6, <1>7, <1>8, <1>9 DEF Arriving

(***************************************************************************)
(* What was owed arrives: an interval that holds it began after the last   *)
(* refill, or reaches no further back than a window before.                *)
(***************************************************************************)
LEMMA ArrivingArrived ==
  ASSUME NEW a \in [Instants -> Nat], NEW g \in [Instants -> Nat],
         NEW last \in Instants, NEW n \in Instants, NEW t \in Instants, n <= t,
         NEW tok \in Nat, NEW p \in Nat,
         NEW w \in Nat \ {0}, NEW cap \in Nat \ {0},
         Arriving(a, last, n, tok, w, cap, p), Adds(g, a, t, p)
  PROVE  Arriving(g, last, t, tok, w, cap, 0)
<1>0. /\ Instants \subseteq Nat
      /\ \A u \in Instants : a[u] \in Nat /\ g[u] \in Nat
      /\ last \in Nat /\ n \in Nat /\ t \in Nat
      /\ last <= n /\ last <= t
  BY InstantsAreNat DEF Arriving
<1>1. PICK r \in Nat :
        /\ Before(a, last) <= r /\ r <= a[last]
        /\ a[n] + p <= r + (cap - tok)
        /\ Reach(a, r, last, w, cap)
  BY DEF Arriving
<1>2. /\ \A u, v \in Instants : u <= v => a[u] <= a[v]
      /\ \A u \in Instants : u >= n => a[u] = a[n]
      /\ Rate(a, w, cap)
  BY DEF Arriving
<1>s. ShiftedBy(a, g, n, t, p)
  BY <1>2, AfterGrant
<1>3. /\ \A u, v \in Instants : u <= v => g[u] <= g[v]
      /\ \A u \in Instants : u >= t => g[u] = a[n] + p
      /\ \A s \in Instants : s <= t => Before(g, s) = Before(a, s)
  BY <1>s DEF ShiftedBy
<1>4. \A u \in Instants : a[u] <= g[u]
  BY <1>0 DEF Adds
<1>5. \A s \in Instants : Before(a, s) \in Nat
  BY <1>0, <1>2, BeforeMonotone
<1>6. ASSUME NEW s \in Instants, s > last PROVE Before(a, s) >= r
  <2>1. s # 0 /\ s - 1 \in Instants /\ s - 1 >= last
    BY <1>0, <1>6 DEF Instants
  <2>2. Before(a, s) >= a[last]
    BY <1>0, <1>2, <2>1 DEF Before
  <2> QED
    BY <1>0, <1>1, <1>5, <2>2
<1>7. Rate(g, w, cap)
  <2>1. a[n] + p <= r + cap
    BY <1>0, <1>1
  <2> QED
    BY <1>0, <1>s, <1>1, <1>2, <1>5, <1>6, <2>1, RateKept
<1>8. Before(g, last) <= r /\ r <= g[last]
  BY <1>0, <1>1, <1>3, <1>4
<1>9. g[t] + 0 <= r + (cap - tok)
  BY <1>0, <1>1, <1>3
<1>10. Reach(g, r, last, w, cap)
  <2>1. \A s \in Instants : s <= last => Before(g, s) = Before(a, s)
    BY <1>0, <1>3
  <2> QED
    BY <1>1, <2>1 DEF Reach
<1>11. \A u \in Instants : u >= t => g[u] = g[t]
  BY <1>0, <1>3
<1> QED
  BY <1>0, <1>3, <1>7, <1>8, <1>9, <1>10, <1>11 DEF Arriving

-----------------------------------------------------------------------------
LEMMA GrantArriving ==
  ASSUME TypeOK, TypeOK', now <= now', NEW b \in Buckets,
         arrived[b] \in [Instants -> Nat], arrived' = arrived,
         ArrivingInv(b, 0), NEW p \in Nat, Grants(b, p)
  PROVE  ArrivingInv(b, p)'
<1>1. /\ last_refill[b] \in Instants /\ tokens[b] \in Nat
      /\ now \in Instants /\ now' \in Instants
      /\ Window[b] \in Nat \ {0} /\ Capacity[b] \in Nat \ {0}
  BY ConstantTypes DEF TypeOK
<1>2. CASE p = 0 /\ Untouched(b)
  <2>1. 0 \in Nat /\ 0 <= tokens[b] /\ 0 <= 0 /\ tokens[b] - 0 = tokens[b]
    BY <1>1
  <2>2. Arriving(arrived[b], last_refill[b], now', tokens[b] - 0, Window[b], Capacity[b], 0)
    BY <1>1, <2>1, ArrivingGranted DEF ArrivingInv
  <2> QED
    BY <1>2, <2>1, <2>2 DEF ArrivingInv, Untouched, Window, Capacity
<1>3. ASSUME NEW t \in Instants, NEW cost \in Nat,
             now <= t, t <= now', p <= cost, Touched(b, t, cost)
      PROVE  ArrivingInv(b, p)'
  <2>1. CASE Refills(b, t)
    <3>1. t - last_refill[b] >= Window[b]
      BY <2>1 DEF Refills
    <3>2. Arriving(arrived[b], t, now', Capacity[b] - cost, Window[b], Capacity[b], p)
      BY <1>1, <1>3, <3>1, ArrivingRefilled DEF ArrivingInv
    <3> QED
      BY <1>3, <2>1, <3>2 DEF Touched, Available, Stamp, ArrivingInv, Window, Capacity
  <2>2. CASE ~Refills(b, t)
    <3>1. cost <= tokens[b]
      BY <1>3, <2>2 DEF Touched, Available
    <3>2. Arriving(arrived[b], last_refill[b], now', tokens[b] - cost,
                   Window[b], Capacity[b], p)
      BY <1>1, <1>3, <3>1, ArrivingGranted DEF ArrivingInv
    <3> QED
      BY <1>3, <2>2, <3>2 DEF Touched, Available, Stamp, ArrivingInv, Window, Capacity
  <2> QED
    BY <2>1, <2>2
<1> QED
  BY <1>2, <1>3 DEF Grants

\* Whatever is granted is in the history from then on.
LEMMA GrantRecorded ==
  ASSUME TypeOK, TypeOK', NEW b \in Buckets, NEW p \in Nat, Grants(b, p),
         NEW u \in Instants
  PROVE  /\ spent[b][u] \in Nat /\ spent'[b][u] \in Nat
         /\ spent[b][u] <= spent'[b][u]
         /\ u >= now' => spent[b][u] + p <= spent'[b][u]
<1>1. spent[b][u] \in Nat /\ spent'[b][u] \in Nat /\ u \in Nat /\ now' \in Nat
  BY InstantsAreNat DEF TypeOK
<1>2. CASE p = 0 /\ Untouched(b)
  BY <1>1, <1>2 DEF Untouched
<1>3. ASSUME NEW t \in Instants, NEW cost \in Nat, t <= now', p <= cost,
             Touched(b, t, cost)
      PROVE  /\ spent[b][u] <= spent'[b][u]
             /\ u >= now' => spent[b][u] + p <= spent'[b][u]
  <2>1. spent'[b][u] = spent[b][u] + (IF u >= t THEN cost ELSE 0) /\ t \in Nat
    BY <1>3, InstantsAreNat DEF Touched, Recorded
  <2> QED
    BY <1>1, <1>3, <2>1
<1> QED
  BY <1>1, <1>2, <1>3 DEF Grants

LEMMA EInvInit == ExecInit => EInv
<1> SUFFICES ASSUME ExecInit PROVE EInv
  OBVIOUS
<1>1. ExecTypeOK /\ IInv
  BY InitSound DEF IInv, ExecInit, ExecTypeOK
<1>2. FlightInv
  BY DEF ExecInit, FlightInv
<1>3. ASSUME NEW b \in Buckets
      PROVE  Paid(b) /\ \A p \in Owed(b) : ArrivingInv(b, p)
  <2>1. Owed(b) = {0}
    BY DEF Owed, Waiting, ExecInit
  <2>2. /\ now = 0 /\ 0 \in Instants /\ last_refill[b] = 0 /\ tokens[b] = Capacity[b]
        /\ \A u \in Instants : arrived[b][u] = 0 /\ spent[b][u] = 0
        /\ Window[b] \in Nat \ {0} /\ Capacity[b] \in Nat \ {0}
    BY ConstantTypes DEF ExecInit, Init, Instants
  <2>3. Paid(b)
    BY <2>1, <2>2 DEF Paid
  <2>4. \A s \in Instants : Before(arrived[b], s) = 0
    BY <2>2 DEF Before, Instants
  <2>5. \A k \in Nat : k * Capacity[b] \in Nat
    BY <2>2, Multiples
  <2>6. /\ Rate(arrived[b], Window[b], Capacity[b])
        /\ Reach(arrived[b], 0, last_refill[b], Window[b], Capacity[b])
    BY <2>2, <2>4, <2>5 DEF Rate, Reach, RollingBound
  <2>7. ArrivingInv(b, 0)
    BY <2>2, <2>4, <2>6 DEF ArrivingInv, Arriving
  <2> QED
    BY <2>1, <2>3, <2>7
<1> QED
  BY <1>1, <1>2, <1>3 DEF EInv

LEMMA CallKeeps ==
  ASSUME EInv, NEW t \in Threads, Call(t)
  PROVE  EInv'
<1>1. ExecTypeOK /\ FlightInv /\ TypeOK
  BY DEF EInv, ExecTypeOK
<1>2. CallStepOf(t)
  BY <1>1, CallStep
<1>3. TypeOK' /\ now <= now' /\ arrived' = arrived
  BY <1>2 DEF CallStepOf
<1>4. flight' \in [Threads -> Requests \cup {None}]
  <2>1. NoFlight \in [Threads -> Requests \cup {None}]
    BY DEF NoFlight
  <2>2. \A kind \in Kinds : [kind |-> kind, there |-> FALSE] \in Requests
    BY DEF Requests, Kinds
  <2> QED
    BY <1>2, <2>1, <2>2 DEF CallStepOf
<1>5. ExecTypeOK'
  BY <1>1, <1>2, <1>3, <1>4 DEF CallStepOf, ExecTypeOK
<1>6. FlightInv'
  BY <1>2 DEF CallStepOf, FlightInv, NoFlight
<1>7. ASSUME NEW b \in Buckets
      PROVE  (Paid(b) /\ \A p \in Owed(b) : ArrivingInv(b, p))'
  <2>1. /\ Paid(b) /\ ArrivingInv(b, 0) /\ 0 \in Owed(b)
        /\ arrived[b] \in [Instants -> Nat]
    BY <1>1, OwedTypes DEF EInv, ExecTypeOK
  <2>2. ASSUME NEW p \in Owed(b)'
        PROVE  ArrivingInv(b, p)'
    BY <1>1, <1>2, <1>3, <2>1, <2>2, OwedGranted, GrantArriving
  <2>3. ASSUME NEW p \in Owed(b)', NEW u \in Instants
        PROVE  /\ arrived'[b][u] <= spent'[b][u]
               /\ u >= now' => arrived'[b][u] + p <= spent'[b][u]
    <3>1. Grants(b, p) /\ p \in Nat
      BY <1>2, <2>1, <2>3, OwedGranted
    <3>2. /\ spent[b][u] \in Nat /\ spent'[b][u] \in Nat
          /\ spent[b][u] <= spent'[b][u]
          /\ u >= now' => spent[b][u] + p <= spent'[b][u]
      BY <1>1, <1>3, <3>1, GrantRecorded
    <3>3. arrived[b][u] <= spent[b][u] /\ arrived[b][u] \in Nat
      BY <2>1 DEF Paid
    <3> QED
      BY <1>3, <3>1, <3>2, <3>3
  <2> QED
    BY <2>2, <2>3 DEF Paid
<1> QED
  BY <1>5, <1>6, <1>7 DEF EInv

LEMMA ArriveKeeps ==
  ASSUME EInv, NEW t \in Threads, Arrive(t)
  PROVE  EInv'
<1>1. ExecTypeOK /\ FlightInv /\ TypeOK /\ Waiting(t)
  BY DEF EInv, ExecTypeOK, Arrive, Waiting
<1>2. PICK u \in now .. MaxTime :
        /\ now' = u
        /\ arrived' = [b \in Buckets |-> [i \in Instants |->
                         arrived[b][i] + (IF i >= u THEN Charge(flight[t].kind, b) ELSE 0)]]
  BY DEF Arrive
<1>3. u \in Instants /\ now <= u
  BY <1>1, <1>2, LaterInstants DEF TypeOK
<1>4. flight[t].kind \in Kinds /\ flight[t] \in Requests
  BY <1>1 DEF ExecTypeOK, Requests, Kinds, Waiting
<1>5. /\ TypeOK'
      /\ tokens' = tokens /\ last_refill' = last_refill /\ spent' = spent
      /\ engine' = engine
  BY <1>2, <1>3, <1>1 DEF Arrive, TypeOK
<1>6. flight' = [flight EXCEPT ![t].there = TRUE]
  BY DEF Arrive
<1>7. flight' \in [Threads -> Requests \cup {None}] /\ ~Waiting(t)'
  BY <1>1, <1>4, <1>6 DEF ExecTypeOK, Requests, Waiting
<1>8. \A b \in Buckets : Charge(flight[t].kind, b) \in Nat
  BY <1>4, ChargeTypes
<1>9. arrived' \in [Buckets -> [Instants -> Nat]]
  BY <1>1, <1>2, <1>8 DEF ExecTypeOK
<1>10. ExecTypeOK'
  BY <1>1, <1>5, <1>7, <1>9 DEF ExecTypeOK
<1>11. \A s \in Threads \ {t} : flight[s] = None /\ flight'[s] = None
  BY <1>1, <1>6 DEF FlightInv, Waiting, ExecTypeOK
<1>12. FlightInv'
  BY <1>1, <1>5, <1>11 DEF FlightInv, Waiting
<1>13. ASSUME NEW b \in Buckets
       PROVE  (Paid(b) /\ \A p \in Owed(b) : ArrivingInv(b, p))'
  <2> DEFINE p == Charge(flight[t].kind, b)
  <2>0. p \in Nat
    BY <1>8
  <2>1. p \in Owed(b)
    BY <1>1 DEF Owed
  <2>2. Owed(b)' = {0}
    BY <1>7, <1>11 DEF Owed, Waiting
  <2>3. /\ arrived[b] \in [Instants -> Nat] /\ arrived'[b] \in [Instants -> Nat]
        /\ last_refill[b] \in Instants /\ tokens[b] \in Nat /\ now \in Instants
        /\ \A i \in Instants : spent[b][i] \in Nat
        /\ Window[b] \in Nat \ {0} /\ Capacity[b] \in Nat \ {0}
    BY <1>1, <1>9, ConstantTypes DEF ExecTypeOK, TypeOK
  <2>4. Adds(arrived'[b], arrived[b], u, p)
    BY <1>2 DEF Adds
  <2>5. Paid(b) /\ ArrivingInv(b, p)
    BY <2>1 DEF EInv
  <2> HIDE DEF p
  <2>6. Arriving(arrived'[b], last_refill[b], u, tokens[b], Window[b], Capacity[b], 0)
    BY <1>3, <2>0, <2>3, <2>4, <2>5, ArrivingArrived DEF ArrivingInv
  <2>7. ArrivingInv(b, 0)'
    BY <1>2, <1>5, <2>6 DEF ArrivingInv, Window, Capacity
  <2>8. \A i \in Instants : arrived'[b][i] <= spent'[b][i]
    <3> SUFFICES ASSUME NEW i \in Instants PROVE arrived'[b][i] <= spent[b][i]
      BY <1>5
    <3>1. /\ i \in Nat /\ u \in Nat /\ now \in Nat
          /\ arrived[b][i] \in Nat /\ spent[b][i] \in Nat
          /\ arrived'[b][i] = arrived[b][i] + (IF i >= u THEN p ELSE 0)
      BY <1>3, <2>3, <2>4, InstantsAreNat DEF Adds
    <3>2. /\ arrived[b][i] <= spent[b][i]
          /\ i >= now => arrived[b][i] + p <= spent[b][i]
      BY <2>1, <2>5 DEF Paid, p
    <3> QED
      BY <1>3, <2>0, <3>1, <3>2
  <2>9. \A i \in Instants : arrived'[b][i] + 0 <= spent'[b][i]
    BY <2>3, <2>8
  <2> QED
    BY <2>2, <2>7, <2>8, <2>9 DEF Paid
<1> QED
  BY <1>10, <1>12, <1>13 DEF EInv

\* An end, and a pause, leave nothing more owed.
LEMMA QuietKeeps ==
  ASSUME EInv, LimiterIdle, arrived' = arrived,
         FlightInv', ExecTypeOK', \A s \in Threads : Waiting(s)' => flight'[s] = flight[s]
  PROVE  EInv'
<1>1. /\ now' = now /\ tokens' = tokens /\ last_refill' = last_refill /\ spent' = spent
  BY DEF LimiterIdle, limiter_vars, vars
<1>2. \A b \in Buckets : Owed(b)' \subseteq Owed(b)
  BY DEF Owed, Waiting
<1>3. \A b \in Buckets : \A p \in Owed(b) : ArrivingInv(b, p) => ArrivingInv(b, p)'
  BY <1>1 DEF ArrivingInv, Window, Capacity
<1>4. \A b \in Buckets : Paid(b) => Paid(b)'
  BY <1>1, <1>2 DEF Paid
<1> QED
  BY <1>2, <1>3, <1>4 DEF EInv

LEMMA EndKeeps ==
  ASSUME EInv, NEW t \in Threads, started(t) \/ CallEnds(t)
  PROVE  EInv'
<1>1. /\ LimiterIdle /\ arrived' = arrived
      /\ flight' = [flight EXCEPT ![t] = None]
      /\ engine' \in {engine, "started", "failed"}
  BY DEF started, CallEnds, Return
<1>2. TypeOK'
  BY <1>1 DEF EInv, ExecTypeOK, TypeOK, LimiterIdle, limiter_vars, vars
<1>3. ExecTypeOK'
  BY <1>1, <1>2 DEF EInv, ExecTypeOK
<1>4. FlightInv'
  BY <1>1 DEF EInv, ExecTypeOK, FlightInv
<1>5. \A s \in Threads : Waiting(s)' => flight'[s] = flight[s]
  BY <1>1 DEF Waiting, EInv, ExecTypeOK
<1> QED
  BY <1>1, <1>3, <1>4, <1>5, QuietKeeps

LEMMA PauseKeeps == EInv /\ UNCHANGED exec_vars => EInv'
<1> SUFFICES ASSUME EInv, UNCHANGED exec_vars PROVE EInv'
  OBVIOUS
<1>1. LimiterIdle /\ arrived' = arrived /\ flight' = flight /\ engine' = engine
  BY DEF exec_vars, LimiterIdle, limiter_vars, vars
<1>2. ExecTypeOK' /\ FlightInv'
  BY <1>1 DEF EInv, ExecTypeOK, TypeOK, FlightInv, LimiterIdle, limiter_vars, vars
<1> QED
  BY <1>1, <1>2, QuietKeeps

LEMMA EInvNext == EInv /\ [ExecNext]_exec_vars => EInv'
BY CallKeeps, ArriveKeeps, EndKeeps, PauseKeeps DEF ExecNext

-----------------------------------------------------------------------------
(***************************************************************************)
(* The engine's state, the requests under way and what Binance has counted *)
(* keep their types, for any number of threads.                            *)
(***************************************************************************)
THEOREM ExecTypeCorrect == ExecSpec => []ExecTypeOK
<1>1. EInv => ExecTypeOK
  BY DEF EInv
<1> QED
  BY EInvInit, EInvNext, <1>1, PTL DEF ExecSpec

(***************************************************************************)
(* "Each REST caller declares its cost before sending" (rate_limiter.rs:10)*)
(* Nothing has arrived that was not granted before at its full price,      *)
(* whatever was lost or refused on the way.                                *)
(***************************************************************************)
THEOREM RequestsPaid == ExecSpec => []EveryRequestPaid
<1>1. EInv => EveryRequestPaid
  <2> SUFFICES ASSUME EInv, NEW b \in Buckets, NEW u \in Instants
               PROVE  arrived[b][u] <= spent[b][u]
    BY DEF EveryRequestPaid
  <2>1. Paid(b) /\ 0 \in Owed(b)
    BY OwedTypes DEF EInv
  <2> QED
    BY <2>1 DEF Paid
<1> QED
  BY EInvInit, EInvNext, <1>1, PTL DEF ExecSpec

(***************************************************************************)
(* Whenever requests arrive until the client gives them up, no interval of *)
(* k windows' length holds arrivals worth more than k + 1 capacities,      *)
(* because the engine has one request under way at a time                  *)
(* (rate_limiter.rs:42-58, lib.rs:163-277).                                *)
(***************************************************************************)
THEOREM ArrivalsInBounds == ExecSpec => []ArrivalsBounded
<1>1. EInv => ArrivalsBounded
  <2>1. ASSUME EInv, NEW b \in Buckets
        PROVE  Rate(arrived[b], Window[b], Capacity[b])
    <3>1. ArrivingInv(b, 0)
      BY <2>1, OwedTypes DEF EInv
    <3> QED
      BY <3>1 DEF ArrivingInv, Arriving
  <2> QED
    BY <2>1 DEF ArrivalsBounded, RollingRate, Rate
<1> QED
  BY EInvInit, EInvNext, <1>1, PTL DEF ExecSpec

=============================================================================
