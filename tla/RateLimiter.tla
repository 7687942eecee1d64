----------------------------- MODULE RateLimiter -----------------------------
(***************************************************************************)
(* The client-side rate limiter of src/src/rate_limiter.rs: three buckets  *)
(* of tokens that are refilled in full, lazily, by the first call that     *)
(* finds its window elapsed.  check_weight draws on the weight bucket;     *)
(* check_order draws one token from each bucket and gives back what it     *)
(* took when a later bucket refuses.                                       *)
(*                                                                         *)
(* check_order holds the three mutexes to its end, so each call is one     *)
(* step; but try_consume reads the clock again for every bucket, so a call *)
(* sees up to three instants.  The wait a refusal reports                  *)
(* (ms_until_refill) is left out: every caller in execution.rs drops it.   *)
(***************************************************************************)
EXTENDS Integers

CONSTANTS
  WeightPerMin,     \* WEIGHT_PER_MIN
  OrdersPerMin,     \* ORDERS_PER_MIN
  OrdersPer10Sec,   \* ORDERS_PER_10SEC
  Minute, TenSec,   \* the two windows, in ticks of the monotonic clock
  Weights,          \* the weights callers declare to check_weight
  MaxTime           \* bound on the clock

ASSUME CapacityAssumption ==
  /\ WeightPerMin \in Nat \ {0}
  /\ OrdersPerMin \in Nat \ {0}
  /\ OrdersPer10Sec \in Nat \ {0}

ASSUME ClockAssumption ==
  /\ Minute \in Nat \ {0}
  /\ TenSec \in Nat \ {0}
  /\ MaxTime \in Nat

ASSUME WeightsAssumption == Weights \subseteq Nat \ {0}

Buckets == {"weight", "orderMin", "order10s"}

Instants == 0 .. MaxTime

Capacity == [b \in Buckets |-> IF b = "weight" THEN WeightPerMin
                               ELSE IF b = "orderMin" THEN OrdersPerMin
                               ELSE OrdersPer10Sec]

Window == [b \in Buckets |-> IF b = "order10s" THEN TenSec ELSE Minute]

VARIABLES
  now,           \* the last instant anyone has read
  tokens,        \* Bucket.tokens
  last_refill,   \* Bucket.last_refill
  refusedBy,     \* the bucket that refused the last call, "none" if it was granted
  lastOp,        \* which operation the last call was
  spent          \* history: spent[b][u], the tokens b has granted up to instant u

vars == <<now, tokens, last_refill, refusedBy, lastOp, spent>>

TypeOK ==
  /\ now \in Instants
  /\ tokens \in [Buckets -> Nat]
  /\ last_refill \in [Buckets -> Instants]
  /\ refusedBy \in Buckets \cup {"none"}
  /\ lastOp \in {"none", "check_weight", "check_order"}
  /\ spent \in [Buckets -> [Instants -> Nat]]

Init ==
  /\ now = 0
  /\ tokens = Capacity
  /\ last_refill = [b \in Buckets |-> 0]
  /\ refusedBy = "none"
  /\ lastOp = "none"
  /\ spent = [b \in Buckets |-> [u \in Instants |-> 0]]

-----------------------------------------------------------------------------
(***************************************************************************)
(* try_consume, in the parts its callers combine: whether the call at t    *)
(* refills the bucket, the tokens it then finds, the stamp it then leaves. *)
(***************************************************************************)
Refills(b, t) == t - last_refill[b] >= Window[b]

\* Mutant: a refill adds the capacity to what is left.
RefillAdds(b, t) == IF Refills(b, t) THEN tokens[b] + Capacity[b] ELSE tokens[b]

Available(b, t) == IF Refills(b, t) THEN Capacity[b] ELSE tokens[b]

\* Mutant: a refill leaves the stamp as it was.
NeverStamped(b, t) == last_refill[b]

Stamp(b, t) == IF Refills(b, t) THEN t ELSE last_refill[b]

\* Mutant: the cost is taken from the tokens there were before the refill.
ConsumedUnrefilled(b, t, cost) == tokens[b] - cost

\* The tokens left once try_consume(cost) has succeeded at t.
Consumed(b, t, cost) == Available(b, t) - cost

\* Mutant: the rollback is forgotten.
NotRolledBack(left) == left

\* check_order's `tokens += 1` on a bucket it has already drawn from.
RolledBack(left) == left + 1

\* The history once b has granted cost at t.
Recorded(b, t, cost) ==
  [u \in Instants |-> spent[b][u] + (IF u >= t THEN cost ELSE 0)]

Answer(op, by) ==
  /\ lastOp' = op
  /\ refusedBy' = by

-----------------------------------------------------------------------------
WeightGranted(cost, t) ==
  /\ Available("weight", t) >= cost
  /\ tokens' = [tokens EXCEPT !["weight"] = Consumed("weight", t, cost)]
  /\ last_refill' = [last_refill EXCEPT !["weight"] = Stamp("weight", t)]
  /\ spent' = [spent EXCEPT !["weight"] = Recorded("weight", t, cost)]
  /\ now' = t
  /\ Answer("check_weight", "none")

WeightRefused(cost, t) ==
  /\ Available("weight", t) < cost
  /\ tokens' = [tokens EXCEPT !["weight"] = Available("weight", t)]
  /\ last_refill' = [last_refill EXCEPT !["weight"] = Stamp("weight", t)]
  /\ now' = t
  /\ Answer("check_weight", "weight")
  /\ UNCHANGED spent

\* RateLimiter::check_weight
check_weight(cost) ==
  \E t \in now .. MaxTime : WeightGranted(cost, t) \/ WeightRefused(cost, t)

-----------------------------------------------------------------------------
OrderRefusedByWeight(t) ==
  /\ Available("weight", t) < 1
  /\ tokens' = [tokens EXCEPT !["weight"] = Available("weight", t)]
  /\ last_refill' = [last_refill EXCEPT !["weight"] = Stamp("weight", t)]
  /\ now' = t
  /\ Answer("check_order", "weight")
  /\ UNCHANGED spent

OrderRefusedByMinute(t1, t2) ==
  /\ Available("weight", t1) >= 1
  /\ Available("orderMin", t2) < 1
  /\ tokens' = [tokens EXCEPT
                  !["weight"]   = RolledBack(Consumed("weight", t1, 1)),
                  !["orderMin"] = Available("orderMin", t2)]
  /\ last_refill' = [last_refill EXCEPT !["weight"]   = Stamp("weight", t1),
                                        !["orderMin"] = Stamp("orderMin", t2)]
  /\ now' = t2
  /\ Answer("check_order", "orderMin")
  /\ UNCHANGED spent

OrderRefusedByTenSec(t1, t2, t3) ==
  /\ Available("weight", t1) >= 1
  /\ Available("orderMin", t2) >= 1
  /\ Available("order10s", t3) < 1
  /\ tokens' = [tokens EXCEPT
                  !["weight"]   = RolledBack(Consumed("weight", t1, 1)),
                  !["orderMin"] = RolledBack(Consumed("orderMin", t2, 1)),
                  !["order10s"] = Available("order10s", t3)]
  /\ last_refill' = [last_refill EXCEPT !["weight"]   = Stamp("weight", t1),
                                        !["orderMin"] = Stamp("orderMin", t2),
                                        !["order10s"] = Stamp("order10s", t3)]
  /\ now' = t3
  /\ Answer("check_order", "order10s")
  /\ UNCHANGED spent

OrderGranted(t1, t2, t3) ==
  /\ Available("weight", t1) >= 1
  /\ Available("orderMin", t2) >= 1
  /\ Available("order10s", t3) >= 1
  /\ tokens' = [tokens EXCEPT !["weight"]   = Consumed("weight", t1, 1),
                              !["orderMin"] = Consumed("orderMin", t2, 1),
                              !["order10s"] = Consumed("order10s", t3, 1)]
  /\ last_refill' = [last_refill EXCEPT !["weight"]   = Stamp("weight", t1),
                                        !["orderMin"] = Stamp("orderMin", t2),
                                        !["order10s"] = Stamp("order10s", t3)]
  /\ spent' = [spent EXCEPT !["weight"]   = Recorded("weight", t1, 1),
                            !["orderMin"] = Recorded("orderMin", t2, 1),
                            !["order10s"] = Recorded("order10s", t3, 1)]
  /\ now' = t3
  /\ Answer("check_order", "none")

\* RateLimiter::check_order
check_order ==
  \E t1 \in now .. MaxTime :
    \/ OrderRefusedByWeight(t1)
    \/ \E t2 \in t1 .. MaxTime :
         \/ OrderRefusedByMinute(t1, t2)
         \/ \E t3 \in t2 .. MaxTime :
              OrderRefusedByTenSec(t1, t2, t3) \/ OrderGranted(t1, t2, t3)

\* Time passes between two calls.
Elapse(t) ==
  /\ t \in now + 1 .. MaxTime
  /\ now' = t
  /\ UNCHANGED <<tokens, last_refill, refusedBy, lastOp, spent>>

Next ==
  \/ check_order
  \/ \E cost \in Weights : check_weight(cost)
  \/ \E t \in Instants : Elapse(t)

Spec == Init /\ [][Next]_vars

-----------------------------------------------------------------------------
\* What a history f = spent[b] had reached before instant s.
Before(f, s) == IF s = 0 THEN 0 ELSE f[s - 1]

\* No interval shorter than the window w holds more than limit tokens of f.
RollingBound(f, w, limit) ==
  \A s, e \in Instants :
    (s <= e /\ e - s < w) => f[e] - Before(f, s) <= limit

\* However long the interval: k windows hold no more than k + 1 capacities of f.
RollingRate(f, w, cap) ==
  \A k \in 1 .. MaxTime + 1 : RollingBound(f, k * w, k * cap + cap)

(***************************************************************************)
(* The limiter's rolling guarantee: because a refill is full and refills   *)
(* are a window apart, no interval as long as k windows contains more than *)
(* k + 1 capacities, for each of the three buckets, whatever the mix of    *)
(* calls, refusals and rollbacks.  For one window that is twice what the   *)
(* bucket is named for; over a long run the declared rate is kept.         *)
(***************************************************************************)
SustainedRate ==
  \A b \in Buckets : RollingRate(spent[b], Window[b], Capacity[b])

(***************************************************************************)
(* What rate_limiter.rs:4 says of the weight budget: "2400 request-weight  *)
(* per minute (rolling 1-min window)".  The code's windows do not roll.    *)
(***************************************************************************)
RollingWindowRespected == RollingBound(spent["weight"], Minute, WeightPerMin)

(***************************************************************************)
(* A refused order costs nothing: whatever check_order took from the       *)
(* buckets before one of them refused is back in them when it returns.     *)
(***************************************************************************)
RefusedOrderCostsNothing ==
  [][lastOp' = "check_order" /\ refusedBy' # "none"
       => \A b \in Buckets : tokens'[b] >= tokens[b]]_vars

(***************************************************************************)
(* No bucket ever holds more than its capacity (a rollback never mints a   *)
(* token, even when the call it undoes has just refilled the bucket), and  *)
(* what is missing is exactly what was granted since the last refill.      *)
(***************************************************************************)
TokensAccountForGrants ==
  \A b \in Buckets :
    tokens[b] = Capacity[b] - (spent[b][now] - Before(spent[b], last_refill[b]))

(***************************************************************************)
(* With the capacities the code declares (1200 per ten seconds, 300 per    *)
(* minute) the ten-second bucket, the "burst guard" of rate_limiter.rs:6,  *)
(* never refuses an order: the minute bucket always refuses first.         *)
(***************************************************************************)
BurstGuardIdle == refusedBy # "order10s"

=============================================================================
