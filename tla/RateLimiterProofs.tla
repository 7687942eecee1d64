-------------------------- MODULE RateLimiterProofs --------------------------
(***************************************************************************)
(* Theorems about RateLimiter, for every capacity, window, weight set and  *)
(* clock bound.                                                            *)
(*                                                                         *)
(* The argument is per bucket.  Whatever a call does, each bucket either   *)
(* is left alone or goes through one try_consume whose grant is kept or    *)
(* given back (WeightStep, OrderStep).  BucketInv is inductive over those   *)
(* two cases (UntouchedBucket, TouchedBucket) and implies the properties.  *)
(***************************************************************************)
EXTENDS RateLimiter, TLAPS

USE CapacityAssumption, ClockAssumption, WeightsAssumption

\* Bucket b goes through try_consume at t and keeps a grant of cost tokens
\* (0 when it refused, or when its grant was rolled back).
Touched(b, t, cost) ==
  /\ cost <= Available(b, t)
  /\ tokens'[b] = Available(b, t) - cost
  /\ last_refill'[b] = Stamp(b, t)
  /\ spent'[b] = Recorded(b, t, cost)

Untouched(b) ==
  /\ tokens'[b] = tokens[b]
  /\ last_refill'[b] = last_refill[b]
  /\ spent'[b] = spent[b]

\* The k windows before last held no more than k capacities of the history f,
\* which had reached top by then.
Reach(f, top, last, w, cap) ==
  \A k \in Nat, s \in Instants :
    (s <= last /\ last - s < k * w) => top - Before(f, s) <= k * cap

\* RollingRate with no bound on the number of windows.
Rate(f, w, cap) == \A k \in Nat : RollingBound(f, k * w, k * cap + cap)

(***************************************************************************)
(* One bucket's invariant, on the values of its history f, last refill,    *)
(* clock n, tokens, window w and capacity cap.  Beyond the accounting, it  *)
(* says that nothing is granted past the end of the window a refill opens, *)
(* and that the k windows before a refill held at most k capacities:       *)
(* together they bound every interval that straddles a refill.             *)
(***************************************************************************)
Sound(f, last, n, tok, w, cap) ==
  /\ last <= n
  /\ \A u, v \in Instants : u <= v => f[u] <= f[v]
  /\ \A u \in Instants : (u >= n \/ u + 1 >= last + w) => f[u] = f[n]
  /\ tok = cap - (f[n] - Before(f, last))
  /\ Reach(f, Before(f, last), last, w, cap)
  /\ Rate(f, w, cap)

BucketInv(b) ==
  Sound(spent[b], last_refill[b], now, tokens[b], Window[b], Capacity[b])

IInv == TypeOK /\ \A b \in Buckets : BucketInv(b)

-----------------------------------------------------------------------------
LEMMA ConstantTypes ==
  \A b \in Buckets : Capacity[b] \in Nat \ {0} /\ Window[b] \in Nat \ {0}
BY DEF Buckets, Capacity, Window

LEMMA AvailableType ==
  ASSUME TypeOK, NEW b \in Buckets, NEW t \in Instants
  PROVE  Available(b, t) \in Nat /\ Stamp(b, t) \in Instants
BY ConstantTypes DEF TypeOK, Available, Stamp, Refills, Instants

LEMMA RecordedType ==
  ASSUME TypeOK, NEW b \in Buckets, NEW t \in Instants, NEW cost \in Nat
  PROVE  /\ Recorded(b, t, cost) \in [Instants -> Nat]
         /\ Recorded(b, t, 0) = spent[b]
<1>1. spent[b] \in [Instants -> Nat]
  BY DEF TypeOK
<1>2. \A u \in Instants : spent[b][u] + 0 = spent[b][u]
  BY <1>1
<1> QED
  BY <1>1, <1>2 DEF Recorded

-----------------------------------------------------------------------------
\* What a monotone history had reached before an instant is monotone too.
LEMMA BeforeMonotone ==
  ASSUME NEW f \in [Instants -> Nat],
         \A u, v \in Instants : u <= v => f[u] <= f[v],
         NEW r \in Instants, NEW s \in Instants, r <= s
  PROVE  /\ Before(f, r) \in Nat
         /\ Before(f, s) \in Nat
         /\ Before(f, r) <= Before(f, s)
         /\ Before(f, s) <= f[s]
<1>1. \A u \in Instants : u # 0 => u - 1 \in Instants
  BY DEF Instants
<1> QED
  BY <1>1 DEF Before, Instants

\* A bucket that is left alone stays sound as the clock advances.
LEMMA SoundLater ==
  ASSUME NEW f \in [Instants -> Nat], NEW last \in Instants,
         NEW n \in Instants, NEW m \in Instants, n <= m,
         NEW tok \in Nat, NEW w \in Nat \ {0}, NEW cap \in Nat \ {0},
         Sound(f, last, n, tok, w, cap)
  PROVE  Sound(f, last, m, tok, w, cap)
<1>1. f[m] = f[n]
  BY DEF Sound, Instants
<1> QED
  BY <1>1 DEF Sound, Instants

LEMMA InstantsAreNat == Instants \subseteq Nat
BY DEF Instants

\* g is the history f once cost tokens have been granted at t.
Adds(g, f, t, cost) ==
  \A u \in Instants : g[u] = f[u] + (IF u >= t THEN cost ELSE 0)

\* The readings of a history g that agrees with f before t and is cost higher
\* than f's last value, f[n], from then on.
ShiftedBy(f, g, n, t, cost) ==
  /\ \A u, v \in Instants : u <= v => g[u] <= g[v]
  /\ \A u \in Instants : u >= t => g[u] = f[n] + cost
  /\ \A s \in Instants : s <= t => Before(g, s) = Before(f, s)
  /\ \A s \in Instants : s > t => Before(g, s) = f[n] + cost
  /\ \A s, e \in Instants :
       (s <= e /\ e < t) => g[e] - Before(g, s) = f[e] - Before(f, s)

LEMMA AfterGrant ==
  ASSUME NEW f \in [Instants -> Nat], NEW g \in [Instants -> Nat],
         NEW n \in Instants, NEW t \in Instants, n <= t, NEW cost \in Nat,
         \A u, v \in Instants : u <= v => f[u] <= f[v],
         \A u \in Instants : u >= n => f[u] = f[n],
         Adds(g, f, t, cost)
  PROVE  ShiftedBy(f, g, n, t, cost)
<1>0. /\ Instants \subseteq Nat
      /\ n \in Nat /\ t \in Nat
      /\ \A u \in Instants : f[u] \in Nat /\ g[u] \in Nat
  BY InstantsAreNat
<1>1. \A u \in Instants : u # 0 => u - 1 \in Instants
  BY DEF Instants
<1>2. \A u \in Instants : u >= t => f[u] = f[n]
  BY <1>0
<1>3. \A u, v \in Instants : u <= v => f[u] <= f[v]
  BY <1>0
<1>4. \A u \in Instants : u >= t => g[u] = f[n] + cost
  BY <1>0, <1>2 DEF Adds
<1>5. \A u \in Instants : u < t => g[u] = f[u]
  BY <1>0 DEF Adds
<1>6. \A s \in Instants : s <= t => Before(g, s) = Before(f, s)
  BY <1>0, <1>1, <1>5 DEF Before
<1>7. \A s \in Instants : s > t => Before(g, s) = f[n] + cost
  BY <1>0, <1>1, <1>4 DEF Before
<1>8. \A u, v \in Instants : u <= v => g[u] <= g[v]
  <2> SUFFICES ASSUME NEW u \in Instants, NEW v \in Instants, u <= v
               PROVE  g[u] <= g[v]
    OBVIOUS
  <2>1. CASE v < t
    BY <1>0, <1>3, <1>5, <2>1
  <2>2. CASE u < t /\ v >= t
    BY <1>0, <1>2, <1>3, <1>4, <1>5, <2>2
  <2>3. CASE u >= t
    BY <1>0, <1>4, <2>3
  <2> QED
    BY <1>0, <2>1, <2>2, <2>3
<1>9. \A s, e \in Instants :
        (s <= e /\ e < t) => g[e] - Before(g, s) = f[e] - Before(f, s)
  BY <1>0, <1>5, <1>6
<1> QED
  BY <1>4, <1>6, <1>7, <1>8, <1>9 DEF ShiftedBy

LEMMA Multiples ==
  ASSUME NEW k \in Nat, NEW x \in Nat
  PROVE  /\ k * x \in Nat
         /\ k # 0 => k - 1 \in Nat /\ (k - 1) * x \in Nat /\ k * x = (k - 1) * x + x
OBVIOUS

(***************************************************************************)
(* A refill moves the reach one window and one capacity on.                *)
(***************************************************************************)
LEMMA ReachRefilled ==
  ASSUME NEW f \in [Instants -> Nat], NEW last \in Instants, NEW t \in Instants,
         NEW old \in Nat, NEW new \in Nat,
         NEW w \in Nat \ {0}, NEW cap \in Nat \ {0},
         \A s \in Instants : Before(f, s) \in Nat,
         Reach(f, old, last, w, cap), t - last >= w, new - old <= cap,
         \A s \in Instants : s > last => new - Before(f, s) <= cap
  PROVE  Reach(f, new, t, w, cap)
<1> SUFFICES ASSUME NEW k \in Nat, NEW s \in Instants, s <= t, t - s < k * w
             PROVE  new - Before(f, s) <= k * cap
  BY DEF Reach
<1>0. s \in Nat /\ t \in Nat /\ last \in Nat /\ Before(f, s) \in Nat
  BY InstantsAreNat
<1>1. /\ k * w \in Nat /\ k * cap \in Nat
      /\ k # 0 => /\ k - 1 \in Nat
                  /\ (k - 1) * w \in Nat /\ k * w = (k - 1) * w + w
                  /\ (k - 1) * cap \in Nat /\ k * cap = (k - 1) * cap + cap
  BY Multiples
<1>2. k # 0
  <2>1. k = 0 => k * w = 0
    OBVIOUS
  <2> QED
    BY <1>0, <2>1
<1>3. CASE s > last
  BY <1>0, <1>1, <1>2, <1>3
<1>4. CASE s <= last
  <2>1. last - s < (k - 1) * w
    BY <1>0, <1>1, <1>2
  <2>2. old - Before(f, s) <= (k - 1) * cap
    BY <1>1, <1>2, <1>4, <2>1 DEF Reach
  <2> QED
    BY <1>0, <1>1, <1>2, <2>2
<1> QED
  BY <1>0, <1>3, <1>4

(***************************************************************************)
(* A grant at t keeps the rate if the whole of it fits, with what there    *)
(* was since instant last, in one capacity on top of top: an interval that *)
(* holds the grant began after last, or reaches back from it no further    *)
(* than k windows.                                                         *)
(***************************************************************************)
LEMMA RateKept ==
  ASSUME NEW f \in [Instants -> Nat], NEW g \in [Instants -> Nat],
         NEW last \in Instants, NEW n \in Instants, NEW t \in Instants, last <= t,
         NEW top \in Nat, NEW cost \in Nat,
         NEW w \in Nat \ {0}, NEW cap \in Nat \ {0},
         \A s \in Instants : Before(f, s) \in Nat,
         ShiftedBy(f, g, n, t, cost), f[n] + cost <= top + cap,
         \A s \in Instants : s > last /\ s <= t => Before(f, s) >= top,
         Reach(f, top, last, w, cap), Rate(f, w, cap)
  PROVE  Rate(g, w, cap)
<1> SUFFICES ASSUME NEW k \in Nat, NEW s \in Instants, NEW e \in Instants,
                    s <= e, e - s < k * w
             PROVE  g[e] - Before(g, s) <= k * cap + cap
  BY DEF Rate, RollingBound
<1>0. /\ s \in Nat /\ e \in Nat /\ t \in Nat /\ last \in Nat /\ n \in Nat
      /\ k * w \in Nat /\ k * cap \in Nat
      /\ f[n] \in Nat /\ Before(f, s) \in Nat
  BY InstantsAreNat, Multiples
<1>1. CASE e < t
  <2>1. g[e] - Before(g, s) = f[e] - Before(f, s)
    BY <1>1 DEF ShiftedBy
  <2>2. f[e] - Before(f, s) <= k * cap + cap
    BY DEF Rate, RollingBound
  <2> QED
    BY <2>1, <2>2
<1>2. CASE e >= t /\ s > t
  <2>1. g[e] = f[n] + cost /\ Before(g, s) = f[n] + cost
    BY <1>2 DEF ShiftedBy
  <2> QED
    BY <1>0, <2>1
<1>3. CASE e >= t /\ s <= t
  <2>1. g[e] = f[n] + cost /\ Before(g, s) = Before(f, s)
    BY <1>3 DEF ShiftedBy
  <2>2. CASE s > last
    <3>1. Before(f, s) >= top
      BY <1>3, <2>2
    <3> QED
      BY <1>0, <2>1, <3>1
  <2>3. CASE s <= last
    <3>1. last - s < k * w
      BY <1>0, <1>3
    <3>2. top - Before(f, s) <= k * cap
      BY <2>3, <3>1 DEF Reach
    <3> QED
      BY <1>0, <2>1, <3>2
  <2> QED
    BY <1>0, <2>2, <2>3
<1> QED
  BY <1>0, <1>1, <1>2, <1>3

(***************************************************************************)
(* A grant inside the window the last refill opened keeps a bucket sound.  *)
(***************************************************************************)
LEMMA SoundGranted ==
  ASSUME NEW f \in [Instants -> Nat], NEW g \in [Instants -> Nat],
         NEW last \in Instants, NEW n \in Instants, NEW t \in Instants,
         NEW m \in Instants, n <= t, t <= m,
         NEW cost \in Nat, NEW tok \in Nat, cost <= tok,
         NEW w \in Nat \ {0}, NEW cap \in Nat \ {0},
         Sound(f, last, n, tok, w, cap), Adds(g, f, t, cost), t - last < w
  PROVE  Sound(g, last, m, tok - cost, w, cap)
<1>0. /\ Instants \subseteq Nat
      /\ last \in Nat /\ n \in Nat /\ t \in Nat /\ m \in Nat
      /\ \A u \in Instants : f[u] \in Nat /\ g[u] \in Nat
  BY InstantsAreNat
<1>s. ShiftedBy(f, g, n, t, cost)
  BY <1>0, AfterGrant DEF Sound
<1>1. /\ \A u, v \in Instants : u <= v => g[u] <= g[v]
      /\ \A u \in Instants : u >= t => g[u] = f[n] + cost
      /\ \A s \in Instants : s <= t => Before(g, s) = Before(f, s)
      /\ \A s \in Instants : s > t => Before(g, s) = f[n] + cost
  BY <1>s DEF ShiftedBy
<1>2. /\ last <= n
      /\ \A u, v \in Instants : u <= v => f[u] <= f[v]
      /\ tok = cap - (f[n] - Before(f, last))
      /\ Reach(f, Before(f, last), last, w, cap)
      /\ Rate(f, w, cap)
  BY <1>0 DEF Sound
<1>3. \A r, s \in Instants :
        r <= s => /\ Before(f, r) \in Nat
                  /\ Before(f, s) \in Nat
                  /\ Before(f, r) <= Before(f, s)
  BY <1>0, <1>2, BeforeMonotone
<1>4. \A u \in Instants : (u >= m \/ u + 1 >= last + w) => g[u] = g[m]
  BY <1>0, <1>1
<1>5. tok - cost = cap - (g[m] - Before(g, last))
  BY <1>0, <1>1, <1>2, <1>3
<1>6. Reach(g, Before(g, last), last, w, cap)
  <2>1. Before(g, last) = Before(f, last)
    BY <1>0, <1>1, <1>2
  <2>2. \A s \in Instants : s <= last => Before(g, s) = Before(f, s)
    BY <1>0, <1>1, <1>2
  <2> QED
    BY <1>2, <2>1, <2>2 DEF Reach
<1>7. Rate(g, w, cap)
  <2>1. f[n] + cost <= Before(f, last) + cap
    BY <1>0, <1>2, <1>3
  <2>2. \A s \in Instants : s > last /\ s <= t => Before(f, s) >= Before(f, last)
    BY <1>0, <1>3
  <2>3. last <= t /\ \A s \in Instants : Before(f, s) \in Nat
    BY <1>0, <1>2, <1>3
  <2> QED
    BY <1>s, <1>2, <2>1, <2>2, <2>3, RateKept
<1> QED
  BY <1>0, <1>1, <1>2, <1>4, <1>5, <1>6, <1>7 DEF Sound

(***************************************************************************)
(* So does a grant that first refills the bucket: the window's length      *)
(* before it reaches back no further than the refill before.               *)
(***************************************************************************)
LEMMA SoundRefilled ==
  ASSUME NEW f \in [Instants -> Nat], NEW g \in [Instants -> Nat],
         NEW last \in Instants, NEW n \in Instants, NEW t \in Instants,
         NEW m \in Instants, n <= t, t <= m,
         NEW cost \in Nat, NEW tok \in Nat,
         NEW w \in Nat \ {0}, NEW cap \in Nat \ {0}, cost <= cap,
         Sound(f, last, n, tok, w, cap), Adds(g, f, t, cost), t - last >= w
  PROVE  Sound(g, t, m, cap - cost, w, cap)
<1>0. /\ Instants \subseteq Nat
      /\ last \in Nat /\ n \in Nat /\ t \in Nat /\ m \in Nat
      /\ \A u \in Instants : f[u] \in Nat /\ g[u] \in Nat
  BY InstantsAreNat
<1>s. ShiftedBy(f, g, n, t, cost)
  BY <1>0, AfterGrant DEF Sound
<1>1. /\ \A u, v \in Instants : u <= v => g[u] <= g[v]
      /\ \A u \in Instants : u >= t => g[u] = f[n] + cost
      /\ \A s \in Instants : s <= t => Before(g, s) = Before(f, s)
      /\ \A s \in Instants : s > t => Before(g, s) = f[n] + cost
  BY <1>s DEF ShiftedBy
<1>2. /\ last <= n
      /\ \A u, v \in Instants : u <= v => f[u] <= f[v]
      /\ tok = cap - (f[n] - Before(f, last))
      /\ \A u \in Instants : (u >= n \/ u + 1 >= last + w) => f[u] = f[n]
  BY DEF Sound
<1>3. \A r, s \in Instants :
        r <= s => /\ Before(f, r) \in Nat
                  /\ Before(f, s) \in Nat
                  /\ Before(f, r) <= Before(f, s)
  BY <1>0, <1>2, BeforeMonotone
<1>4. Before(f, t) = f[n]
  <2>1. t # 0 /\ t - 1 \in Instants
    BY <1>0 DEF Instants
  <2>2. (t - 1) + 1 >= last + w
    BY <1>0
  <2>3. f[t - 1] = f[n]
    BY <1>2, <2>1, <2>2
  <2> QED
    BY <2>1, <2>3 DEF Before
<1>5. f[n] \in Nat
  OBVIOUS
<1>6. \A u \in Instants : (u >= m \/ u + 1 >= t + w) => g[u] = g[m]
  BY <1>0, <1>1
<1>7. cap - cost = cap - (g[m] - Before(g, t))
  BY <1>0, <1>1, <1>4, <1>5
<1>8. Reach(f, f[n], t, w, cap)
  <2>1. \A s \in Instants : s > last => f[n] - Before(f, s) <= cap
    BY <1>0, <1>2, <1>3, <1>5
  <2>2. f[n] - Before(f, last) <= cap
    BY <1>0, <1>2, <1>3, <1>5
  <2>3. Reach(f, Before(f, last), last, w, cap)
    BY DEF Sound
  <2>4. \A s \in Instants : Before(f, s) \in Nat
    BY <1>0, <1>3
  <2> QED
    BY <1>5, <2>1, <2>2, <2>3, <2>4, ReachRefilled
<1>9. Reach(g, Before(g, t), t, w, cap)
  BY <1>0, <1>1, <1>4, <1>8 DEF Reach
<1>10. Rate(g, w, cap)
  <2>1. \A s \in Instants : s > t /\ s <= t => Before(f, s) >= f[n]
    BY <1>0
  <2>2. f[n] + cost <= f[n] + cap
    BY <1>0, <1>5
  <2>3. Rate(f, w, cap)
    BY DEF Sound
  <2>4. t <= t /\ \A s \in Instants : Before(f, s) \in Nat
    BY <1>0, <1>3
  <2> QED
    BY <1>s, <1>5, <1>8, <2>1, <2>2, <2>3, <2>4, RateKept
<1> QED
  BY <1>0, <1>1, <1>6, <1>7, <1>9, <1>10 DEF Sound

-----------------------------------------------------------------------------
LEMMA RecordedAdds ==
  ASSUME NEW b, NEW t, NEW cost
  PROVE  Adds(Recorded(b, t, cost), spent[b], t, cost)
BY DEF Adds, Recorded

LEMMA UntouchedBucket ==
  ASSUME TypeOK, TypeOK', now <= now', NEW b \in Buckets, BucketInv(b), Untouched(b)
  PROVE  BucketInv(b)'
<1>1. Sound(spent[b], last_refill[b], now', tokens[b], Window[b], Capacity[b])
  BY ConstantTypes, SoundLater DEF TypeOK, BucketInv
<1> QED
  BY <1>1 DEF BucketInv, Untouched, Window, Capacity

LEMMA TouchedBucket ==
  ASSUME TypeOK, TypeOK', NEW b \in Buckets, BucketInv(b),
         NEW t \in Instants, now <= t, t <= now',
         NEW cost \in Nat, Touched(b, t, cost)
  PROVE  BucketInv(b)'
<1> DEFINE g == Recorded(b, t, cost)
<1>1. /\ spent[b] \in [Instants -> Nat] /\ g \in [Instants -> Nat]
      /\ last_refill[b] \in Instants /\ tokens[b] \in Nat
      /\ now \in Instants /\ now' \in Instants
      /\ Adds(g, spent[b], t, cost)
      /\ Window[b] \in Nat \ {0} /\ Capacity[b] \in Nat \ {0}
  BY ConstantTypes, RecordedType, RecordedAdds DEF TypeOK
<1> HIDE DEF g
<1>2. CASE Refills(b, t)
  <2>1. cost <= Capacity[b] /\ t - last_refill[b] >= Window[b]
    BY <1>2 DEF Touched, Available, Refills
  <2>2. Sound(g, t, now', Capacity[b] - cost, Window[b], Capacity[b])
    BY <1>1, <2>1, SoundRefilled DEF BucketInv
  <2>3. /\ spent'[b] = g /\ last_refill'[b] = t /\ tokens'[b] = Capacity[b] - cost
        /\ Window[b]' = Window[b] /\ Capacity[b]' = Capacity[b]
    BY <1>2 DEF Touched, Available, Stamp, Window, Capacity, g
  <2> QED
    BY <2>2, <2>3 DEF BucketInv
<1>3. CASE ~Refills(b, t)
  <2>1. cost <= tokens[b] /\ t - last_refill[b] < Window[b]
    <3>1. cost <= tokens[b]
      BY <1>3 DEF Touched, Available
    <3>2. t \in Nat /\ last_refill[b] \in Nat
      BY <1>1, InstantsAreNat
    <3> QED
      BY <1>1, <1>3, <3>1, <3>2 DEF Refills
  <2>2. Sound(g, last_refill[b], now', tokens[b] - cost, Window[b], Capacity[b])
    BY <1>1, <2>1, SoundGranted DEF BucketInv
  <2>3. /\ spent'[b] = g /\ last_refill'[b] = last_refill[b]
        /\ tokens'[b] = tokens[b] - cost
        /\ Window[b]' = Window[b] /\ Capacity[b]' = Capacity[b]
    BY <1>3 DEF Touched, Available, Stamp, Window, Capacity, g
  <2> QED
    BY <2>2, <2>3 DEF BucketInv
<1> QED
  BY <1>2, <1>3

-----------------------------------------------------------------------------
\* What a step may do to bucket b.
StepOf(b) ==
  \/ Untouched(b)
  \/ \E t \in Instants, cost \in Nat :
       now <= t /\ t <= now' /\ Touched(b, t, cost)

LEMMA LaterInstants ==
  ASSUME NEW t \in Instants, NEW u \in t .. MaxTime
  PROVE  u \in Instants /\ t <= u /\ u \in u .. MaxTime
BY DEF Instants

(***************************************************************************)
(* Every call keeps the types, moves the clock forward and does to each    *)
(* bucket one of the two things the invariant is closed under.             *)
(***************************************************************************)
LEMMA WeightStep ==
  ASSUME TypeOK, NEW cost \in Weights, check_weight(cost)
  PROVE  TypeOK' /\ now <= now' /\ \A b \in Buckets : StepOf(b)
<1>1. PICK t \in now .. MaxTime : WeightGranted(cost, t) \/ WeightRefused(cost, t)
  BY DEF check_weight
<1>2. t \in Instants /\ now <= t /\ cost \in Nat /\ t <= t
  BY <1>1, LaterInstants, InstantsAreNat DEF TypeOK
<1>3. /\ Available("weight", t) \in Nat /\ Stamp("weight", t) \in Instants
      /\ "weight" \in Buckets
  BY <1>2, AvailableType DEF Buckets
<1>4. CASE WeightGranted(cost, t)
  <2>1. Recorded("weight", t, cost) \in [Instants -> Nat]
    BY <1>2, <1>3, RecordedType
  <2>2. TypeOK'
    BY <1>2, <1>3, <1>4, <2>1
       DEF TypeOK, WeightGranted, Consumed, Answer, Buckets
  <2>3. Touched("weight", t, cost)
    BY <1>2, <1>3, <1>4 DEF TypeOK, WeightGranted, Consumed, Touched
  <2>4. \A b \in Buckets \ {"weight"} : Untouched(b)
    BY <1>4 DEF TypeOK, WeightGranted, Untouched
  <2>5. now' = t
    BY <1>4 DEF WeightGranted
  <2> QED
    BY <1>2, <2>2, <2>3, <2>4, <2>5 DEF StepOf
<1>5. CASE WeightRefused(cost, t)
  <2>1. Recorded("weight", t, 0) = spent["weight"]
    BY <1>2, <1>3, RecordedType
  <2>2. TypeOK'
    BY <1>2, <1>3, <1>5 DEF TypeOK, WeightRefused, Answer, Buckets
  <2>3. Touched("weight", t, 0)
    BY <1>2, <1>3, <1>5, <2>1 DEF TypeOK, WeightRefused, Touched
  <2>4. \A b \in Buckets \ {"weight"} : Untouched(b)
    BY <1>5 DEF TypeOK, WeightRefused, Untouched
  <2>5. now' = t
    BY <1>5 DEF WeightRefused
  <2> QED
    BY <1>2, <2>2, <2>3, <2>4, <2>5 DEF StepOf
<1> QED
  BY <1>1, <1>4, <1>5

\* The instants at which check_order tries its three buckets.
LEMMA OrderInstants ==
  ASSUME TypeOK, check_order
  PROVE  \E t1 \in Instants, t2 \in Instants, t3 \in Instants :
           /\ now <= t1 /\ t1 <= t2 /\ t2 <= t3
           /\ \/ OrderRefusedByWeight(t1)
              \/ OrderRefusedByMinute(t1, t2)
              \/ OrderRefusedByTenSec(t1, t2, t3)
              \/ OrderGranted(t1, t2, t3)
<1>1. PICK t1 \in now .. MaxTime :
        \/ OrderRefusedByWeight(t1)
        \/ \E t2 \in t1 .. MaxTime :
             \/ OrderRefusedByMinute(t1, t2)
             \/ \E t3 \in t2 .. MaxTime :
                  OrderRefusedByTenSec(t1, t2, t3) \/ OrderGranted(t1, t2, t3)
  BY DEF check_order
<1>2. t1 \in Instants /\ now <= t1 /\ t1 <= t1
  BY LaterInstants DEF TypeOK, Instants
<1>3. CASE OrderRefusedByWeight(t1)
  BY <1>2, <1>3
<1>4. \A t2 \in t1 .. MaxTime : t2 \in Instants /\ t1 <= t2 /\ t2 <= t2
  BY <1>2, LaterInstants DEF Instants
<1>5. CASE \E t2 \in t1 .. MaxTime : OrderRefusedByMinute(t1, t2)
  BY <1>2, <1>4, <1>5
<1>6. CASE \E t2 \in t1 .. MaxTime : \E t3 \in t2 .. MaxTime :
             OrderRefusedByTenSec(t1, t2, t3) \/ OrderGranted(t1, t2, t3)
  <2>1. PICK t2 \in t1 .. MaxTime, t3 \in Instants :
          /\ t2 <= t3
          /\ OrderRefusedByTenSec(t1, t2, t3) \/ OrderGranted(t1, t2, t3)
    BY <1>4, <1>6, LaterInstants
  <2> QED
    BY <1>2, <1>4, <2>1
<1> QED
  BY <1>1, <1>3, <1>5, <1>6

LEMMA OrderStep ==
  ASSUME TypeOK, check_order
  PROVE  TypeOK' /\ now <= now' /\ \A b \in Buckets : StepOf(b)
<1>0. "weight" \in Buckets /\ "orderMin" \in Buckets /\ "order10s" \in Buckets
  BY DEF Buckets
<1>1. PICK t1 \in Instants, t2 \in Instants, t3 \in Instants :
        /\ now <= t1 /\ t1 <= t2 /\ t2 <= t3
        /\ \/ OrderRefusedByWeight(t1)
           \/ OrderRefusedByMinute(t1, t2)
           \/ OrderRefusedByTenSec(t1, t2, t3)
           \/ OrderGranted(t1, t2, t3)
  BY OrderInstants
<1>2. /\ now \in Nat /\ t1 \in Nat /\ t2 \in Nat /\ t3 \in Nat
      /\ now <= t1 /\ now <= t2 /\ now <= t3 /\ t1 <= t3 /\ t1 <= t2
      /\ t2 <= t3 /\ t1 <= t1 /\ t2 <= t2 /\ t3 <= t3
  BY <1>1, InstantsAreNat DEF TypeOK
<1>3. \A b \in Buckets, t \in Instants :
        /\ Available(b, t) \in Nat
        /\ Stamp(b, t) \in Instants
        /\ Recorded(b, t, 1) \in [Instants -> Nat]
        /\ Recorded(b, t, 0) = spent[b]
  BY AvailableType, RecordedType
<1>4. CASE OrderRefusedByWeight(t1)
  <2>1. TypeOK'
    BY <1>0, <1>2, <1>3, <1>4 DEF TypeOK, OrderRefusedByWeight, Answer
  <2>2. Touched("weight", t1, 0)
    BY <1>0, <1>2, <1>3, <1>4 DEF TypeOK, OrderRefusedByWeight, Touched
  <2>3. \A b \in Buckets \ {"weight"} : Untouched(b)
    BY <1>4 DEF TypeOK, OrderRefusedByWeight, Untouched
  <2>4. now' = t1
    BY <1>4 DEF OrderRefusedByWeight
  <2> QED
    BY <1>2, <2>1, <2>2, <2>3, <2>4 DEF StepOf
<1>5. CASE OrderRefusedByMinute(t1, t2)
  <2>1. RolledBack(Consumed("weight", t1, 1)) = Available("weight", t1)
    BY <1>0, <1>2, <1>3 DEF RolledBack, Consumed
  <2>2. TypeOK'
    BY <1>0, <1>2, <1>3, <1>5, <2>1 DEF TypeOK, OrderRefusedByMinute, Answer
  <2>3. Touched("weight", t1, 0)
    BY <1>0, <1>2, <1>3, <1>5, <2>1 DEF TypeOK, OrderRefusedByMinute, Touched
  <2>4. Touched("orderMin", t2, 0)
    BY <1>0, <1>2, <1>3, <1>5 DEF TypeOK, OrderRefusedByMinute, Touched
  <2>5. \A b \in Buckets \ {"weight", "orderMin"} : Untouched(b)
    BY <1>5 DEF TypeOK, OrderRefusedByMinute, Untouched
  <2>6. now' = t2
    BY <1>5 DEF OrderRefusedByMinute
  <2> QED
    BY <1>2, <2>2, <2>3, <2>4, <2>5, <2>6 DEF StepOf
<1>6. CASE OrderRefusedByTenSec(t1, t2, t3)
  <2>1. /\ RolledBack(Consumed("weight", t1, 1)) = Available("weight", t1)
        /\ RolledBack(Consumed("orderMin", t2, 1)) = Available("orderMin", t2)
    BY <1>0, <1>2, <1>3 DEF RolledBack, Consumed
  <2>2. TypeOK'
    <3>0. /\ RolledBack(Consumed("weight", t1, 1)) \in Nat
          /\ RolledBack(Consumed("orderMin", t2, 1)) \in Nat
          /\ Available("order10s", t3) \in Nat
      BY <1>0, <1>3, <2>1
    <3>1. tokens' \in [Buckets -> Nat]
      BY <1>6, <3>0 DEF TypeOK, OrderRefusedByTenSec
    <3>2. last_refill' \in [Buckets -> Instants]
      BY <1>0, <1>2, <1>3, <1>6 DEF TypeOK, OrderRefusedByTenSec
    <3> QED
      BY <1>0, <1>6, <3>1, <3>2 DEF TypeOK, OrderRefusedByTenSec, Answer
  <2>3. Touched("weight", t1, 0)
    BY <1>0, <1>2, <1>3, <1>6, <2>1 DEF TypeOK, OrderRefusedByTenSec, Touched
  <2>4. Touched("orderMin", t2, 0)
    BY <1>0, <1>2, <1>3, <1>6, <2>1 DEF TypeOK, OrderRefusedByTenSec, Touched
  <2>5. Touched("order10s", t3, 0)
    BY <1>0, <1>2, <1>3, <1>6 DEF TypeOK, OrderRefusedByTenSec, Touched
  <2>6. now' = t3
    BY <1>6 DEF OrderRefusedByTenSec
  <2> QED
    BY <1>2, <2>2, <2>3, <2>4, <2>5, <2>6 DEF StepOf, Buckets
<1>7. CASE OrderGranted(t1, t2, t3)
  <2>1. /\ Consumed("weight", t1, 1) \in Nat
        /\ Consumed("orderMin", t2, 1) \in Nat
        /\ Consumed("order10s", t3, 1) \in Nat
    BY <1>0, <1>2, <1>3, <1>7 DEF OrderGranted, Consumed
  <2>2. TypeOK'
    BY <1>0, <1>2, <1>3, <1>7, <2>1 DEF TypeOK, OrderGranted, Answer
  <2>3. Touched("weight", t1, 1)
    BY <1>0, <1>2, <1>3, <1>7 DEF TypeOK, OrderGranted, Touched, Consumed
  <2>4. Touched("orderMin", t2, 1)
    BY <1>0, <1>2, <1>3, <1>7 DEF TypeOK, OrderGranted, Touched, Consumed
  <2>5. Touched("order10s", t3, 1)
    BY <1>0, <1>2, <1>3, <1>7 DEF TypeOK, OrderGranted, Touched, Consumed
  <2>6. now' = t3
    BY <1>7 DEF OrderGranted
  <2> QED
    BY <1>2, <2>2, <2>3, <2>4, <2>5, <2>6 DEF StepOf, Buckets
<1> QED
  BY <1>1, <1>4, <1>5, <1>6, <1>7

LEMMA ElapseStep ==
  ASSUME TypeOK, NEW t \in Instants, Elapse(t)
  PROVE  TypeOK' /\ now <= now' /\ \A b \in Buckets : StepOf(b)
<1>1. now \in Nat /\ t \in Nat /\ now <= t
  BY InstantsAreNat DEF Elapse, TypeOK
<1>2. \A b \in Buckets : Untouched(b)
  BY DEF Elapse, Untouched
<1>3. TypeOK'
  BY DEF Elapse, TypeOK
<1> QED
  BY <1>1, <1>2, <1>3 DEF Elapse, StepOf

-----------------------------------------------------------------------------
LEMMA InitSound == Init => IInv
<1> SUFFICES ASSUME Init PROVE IInv
  OBVIOUS
<1>0. 0 \in Instants
  BY DEF Instants
<1>1. TypeOK
  <2>1. tokens \in [Buckets -> Nat]
    BY ConstantTypes DEF Init, Capacity
  <2> QED
    BY <1>0, <2>1 DEF Init, TypeOK
<1>2. \A b \in Buckets : BucketInv(b)
  <2> SUFFICES ASSUME NEW b \in Buckets PROVE BucketInv(b)
    OBVIOUS
  <2>1. \A u \in Instants : spent[b][u] = 0
    BY DEF Init
  <2>2. \A u \in Instants : Before(spent[b], u) = 0
    BY <2>1 DEF Before, Instants
  <2>3. now = 0 /\ last_refill[b] = 0 /\ tokens[b] = Capacity[b] /\ 0 \in Instants
    BY DEF Init, Instants
  <2>4. ASSUME NEW k \in Nat PROVE k * Capacity[b] \in Nat
    BY ConstantTypes, Multiples
  <2>5. Rate(spent[b], Window[b], Capacity[b])
    BY ConstantTypes, <2>1, <2>2, <2>4 DEF Rate, RollingBound
  <2>6. Reach(spent[b], Before(spent[b], last_refill[b]), last_refill[b],
              Window[b], Capacity[b])
    BY <2>2, <2>3, <2>4 DEF Reach
  <2>7. tokens[b] = Capacity[b] - (spent[b][now] - Before(spent[b], last_refill[b]))
    BY ConstantTypes, <2>1, <2>2, <2>3
  <2> QED
    BY <2>1, <2>3, <2>5, <2>6, <2>7 DEF BucketInv, Sound
<1> QED
  BY <1>1, <1>2 DEF IInv

LEMMA NextSound == IInv /\ [Next]_vars => IInv'
<1> SUFFICES ASSUME IInv, [Next]_vars PROVE IInv'
  OBVIOUS
<1>1. CASE UNCHANGED vars
  BY <1>1 DEF IInv, vars, TypeOK, BucketInv, Window, Capacity
<1>2. CASE Next
  <2>1. TypeOK' /\ now <= now' /\ \A b \in Buckets : StepOf(b)
    BY <1>2, WeightStep, OrderStep, ElapseStep DEF IInv, Next
  <2>2. ASSUME NEW b \in Buckets PROVE BucketInv(b)'
    <3>1. CASE Untouched(b)
      BY <2>1, <3>1, UntouchedBucket DEF IInv
    <3>2. CASE \E t \in Instants, cost \in Nat :
                 now <= t /\ t <= now' /\ Touched(b, t, cost)
      BY <2>1, <3>2, TouchedBucket DEF IInv
    <3> QED
      BY <2>1, <3>1, <3>2 DEF StepOf
  <2> QED
    BY <2>1, <2>2 DEF IInv, Buckets
<1> QED
  BY <1>1, <1>2

\* No bucket ever holds more than its capacity.
LEMMA TokensBounded ==
  ASSUME IInv, NEW b \in Buckets
  PROVE  tokens[b] <= Capacity[b]
<1>1. spent[b] \in [Instants -> Nat] /\ last_refill[b] \in Instants /\ now \in Instants
  BY DEF IInv, TypeOK
<1>2. /\ last_refill[b] <= now
      /\ \A u, v \in Instants : u <= v => spent[b][u] <= spent[b][v]
      /\ tokens[b] = Capacity[b] - (spent[b][now] - Before(spent[b], last_refill[b]))
  BY DEF IInv, BucketInv, Sound
<1>3. /\ Before(spent[b], last_refill[b]) \in Nat
      /\ Before(spent[b], now) \in Nat
      /\ Before(spent[b], last_refill[b]) <= Before(spent[b], now)
      /\ Before(spent[b], now) <= spent[b][now]
  <2> DEFINE f == spent[b]
  <2>1. f \in [Instants -> Nat] /\ \A u, v \in Instants : u <= v => f[u] <= f[v]
    BY <1>1, <1>2
  <2> HIDE DEF f
  <2>2. /\ Before(f, last_refill[b]) \in Nat
        /\ Before(f, now) \in Nat
        /\ Before(f, last_refill[b]) <= Before(f, now)
        /\ Before(f, now) <= f[now]
    BY <1>1, <1>2, <2>1, BeforeMonotone
  <2> QED
    BY <2>2 DEF f
<1> QED
  BY <1>1, <1>2, <1>3, ConstantTypes

(***************************************************************************)
(* The limiter's types hold in every reachable state, for every capacity,  *)
(* window, weight set and clock bound.                                     *)
(***************************************************************************)
THEOREM TypeCorrect == Spec => []TypeOK
<1>1. IInv => TypeOK
  BY DEF IInv
<1> QED
  BY InitSound, NextSound, <1>1, PTL DEF Spec

(***************************************************************************)
(* Within any interval as long as k windows a bucket grants at most k + 1  *)
(* capacities (try_consume's full, lazy refill, rate_limiter.rs:42-58).    *)
(***************************************************************************)
THEOREM RateSustained == Spec => []SustainedRate
<1>1. IInv => SustainedRate
  <2>1. ASSUME IInv, NEW b \in Buckets PROVE Rate(spent[b], Window[b], Capacity[b])
    BY <2>1 DEF IInv, BucketInv, Sound
  <2> QED
    BY <2>1 DEF SustainedRate, RollingRate, Rate
<1> QED
  BY InitSound, NextSound, <1>1, PTL DEF Spec

(***************************************************************************)
(* What a bucket lacks is what it granted since its last refill, so the    *)
(* rollbacks of check_order neither lose nor mint a token.                 *)
(***************************************************************************)
THEOREM GrantsAccounted == Spec => []TokensAccountForGrants
<1>1. IInv => TokensAccountForGrants
  BY DEF IInv, BucketInv, Sound, TokensAccountForGrants
<1> QED
  BY InitSound, NextSound, <1>1, PTL DEF Spec

(***************************************************************************)
(* A check_order that is refused leaves no bucket poorer: the buckets it   *)
(* had drawn from get their token back (rate_limiter.rs:114-128).          *)
(***************************************************************************)
THEOREM RefusalsAreFree == Spec => RefusedOrderCostsNothing
<1> DEFINE Free == lastOp' = "check_order" /\ refusedBy' # "none"
                     => \A b \in Buckets : tokens'[b] >= tokens[b]
<1>1. ASSUME IInv, Next PROVE Free
  <2>0. /\ "weight" \in Buckets /\ "orderMin" \in Buckets /\ "order10s" \in Buckets
        /\ TypeOK /\ tokens \in [Buckets -> Nat]
        /\ \A b \in Buckets : Capacity[b] \in Nat
    BY <1>1, ConstantTypes DEF Buckets, IInv, TypeOK
  <2>1. \A b \in Buckets, t \in Instants :
          /\ Available(b, t) \in Nat
          /\ Available(b, t) >= tokens[b]
          /\ RolledBack(Consumed(b, t, 1)) = Available(b, t)
    BY <1>1, <2>0, AvailableType, TokensBounded DEF Available, RolledBack, Consumed
  <2>2. CASE \E cost \in Weights : check_weight(cost)
    BY <2>2 DEF check_weight, WeightGranted, WeightRefused, Answer
  <2>3. ASSUME NEW t1 \in Instants, OrderRefusedByWeight(t1) PROVE Free
    BY <2>0, <2>1, <2>3 DEF OrderRefusedByWeight
  <2>4. ASSUME NEW t1 \in Instants, NEW t2 \in Instants, OrderRefusedByMinute(t1, t2)
        PROVE  Free
    BY <2>0, <2>1, <2>4 DEF OrderRefusedByMinute
  <2>5. ASSUME NEW t1 \in Instants, NEW t2 \in Instants, NEW t3 \in Instants,
               OrderRefusedByTenSec(t1, t2, t3)
        PROVE  Free
    BY <2>0, <2>1, <2>5 DEF OrderRefusedByTenSec
  <2>6. ASSUME NEW t1, NEW t2, NEW t3, OrderGranted(t1, t2, t3) PROVE Free
    BY <2>6 DEF OrderGranted, Answer
  <2>7. CASE check_order
    <3>1. PICK t1 \in Instants, t2 \in Instants, t3 \in Instants :
            \/ OrderRefusedByWeight(t1)
            \/ OrderRefusedByMinute(t1, t2)
            \/ OrderRefusedByTenSec(t1, t2, t3)
            \/ OrderGranted(t1, t2, t3)
      BY <2>0, <2>7, OrderInstants
    <3> QED
      BY <2>3, <2>4, <2>5, <2>6, <3>1
  <2>8. CASE \E t \in Instants : Elapse(t)
    BY <2>0, <2>8 DEF Elapse
  <2> QED
    BY <1>1, <2>2, <2>7, <2>8 DEF Next
<1>2. IInv /\ [Next]_vars => [Free]_vars
  BY <1>1
<1>3. Spec => [][Free]_vars
  BY InitSound, NextSound, <1>2, PTL DEF Spec
<1> QED
  BY <1>3 DEF RefusedOrderCostsNothing

-----------------------------------------------------------------------------
(***************************************************************************)
(* The ten-second bucket.  When it has been refilled since the minute      *)
(* bucket was, it has granted no more than that one; otherwise at most a   *)
(* minute's orders more.  So it can only run dry when the minute bucket is *)
(* dry too and refuses first.                                              *)
(***************************************************************************)
BurstInv ==
  /\ TypeOK
  /\ last_refill["orderMin"] <= now /\ last_refill["order10s"] <= now
  /\ tokens["orderMin"] <= OrdersPerMin /\ tokens["order10s"] <= OrdersPer10Sec
  /\ last_refill["order10s"] > last_refill["orderMin"]
       => OrdersPer10Sec - tokens["order10s"] <= OrdersPerMin - tokens["orderMin"]
  /\ OrdersPer10Sec - tokens["order10s"]
       <= OrdersPerMin + (OrdersPerMin - tokens["orderMin"])
  /\ BurstGuardIdle

(***************************************************************************)
(* With at least twice as many orders allowed in ten seconds as in a       *)
(* minute, as the code's constants have it (1200 against 300), the burst   *)
(* guard of rate_limiter.rs:6 never refuses an order.                      *)
(***************************************************************************)
THEOREM BurstGuardNeverActs ==
  ASSUME OrdersPer10Sec >= 2 * OrdersPerMin, TenSec <= Minute
  PROVE  Spec => []BurstGuardIdle
<1>1. Init => BurstInv
  <2> SUFFICES ASSUME Init PROVE BurstInv
    OBVIOUS
  <2>1. TypeOK
    BY InitSound DEF IInv
  <2> QED
    BY <2>1 DEF Init, BurstInv, BurstGuardIdle, Buckets, Capacity
<1>2. BurstInv /\ [Next]_vars => BurstInv'
  <2> SUFFICES ASSUME BurstInv, [Next]_vars PROVE BurstInv'
    OBVIOUS
  <2>0. /\ TypeOK
        /\ now \in Nat /\ tokens["orderMin"] \in Nat /\ tokens["order10s"] \in Nat
        /\ last_refill["orderMin"] \in Nat /\ last_refill["order10s"] \in Nat
        /\ OrdersPerMin \in Nat /\ OrdersPer10Sec \in Nat /\ OrdersPerMin >= 1
    <3>1. TypeOK /\ "orderMin" \in Buckets /\ "order10s" \in Buckets
      BY DEF BurstInv, Buckets
    <3>2. /\ now \in Instants
          /\ tokens["orderMin"] \in Nat /\ tokens["order10s"] \in Nat
          /\ last_refill["orderMin"] \in Instants /\ last_refill["order10s"] \in Instants
      BY <3>1 DEF TypeOK
    <3>3. OrdersPerMin \in Nat /\ OrdersPer10Sec \in Nat /\ OrdersPerMin >= 1
      OBVIOUS
    <3> QED
      BY <3>1, <3>2, <3>3, InstantsAreNat
  <2>1. CASE UNCHANGED vars
    BY <2>1 DEF BurstInv, vars, TypeOK, BurstGuardIdle
  <2>2. CASE \E cost \in Weights : check_weight(cost)
    <3>1. TypeOK' /\ now <= now' /\ now' \in Nat
      BY <2>0, <2>2, WeightStep, InstantsAreNat DEF TypeOK
    <3>2. /\ tokens'["orderMin"] = tokens["orderMin"]
          /\ tokens'["order10s"] = tokens["order10s"]
          /\ last_refill'["orderMin"] = last_refill["orderMin"]
          /\ last_refill'["order10s"] = last_refill["order10s"]
          /\ refusedBy' # "order10s"
      BY <2>0, <2>2 DEF check_weight, WeightGranted, WeightRefused, TypeOK, Answer, Buckets
    <3> QED
      BY <2>0, <3>1, <3>2 DEF BurstInv, BurstGuardIdle
  <2>3. CASE check_order
    <3>0. TypeOK' /\ now <= now' /\ now' \in Nat
      BY <2>0, <2>3, OrderStep, InstantsAreNat DEF TypeOK
    <3>1. PICK t1 \in Instants, t2 \in Instants, t3 \in Instants :
            /\ now <= t1 /\ t1 <= t2 /\ t2 <= t3
            /\ \/ OrderRefusedByWeight(t1)
               \/ OrderRefusedByMinute(t1, t2)
               \/ OrderRefusedByTenSec(t1, t2, t3)
               \/ OrderGranted(t1, t2, t3)
      BY <2>0, <2>3, OrderInstants
    <3>2. now <= t2 /\ now <= t3 /\ t2 \in Nat /\ t3 \in Nat /\ t2 <= t3
      BY <2>0, <3>1, InstantsAreNat
    <3>3. CASE OrderRefusedByWeight(t1)
      <4>1. /\ tokens'["orderMin"] = tokens["orderMin"]
            /\ tokens'["order10s"] = tokens["order10s"]
            /\ last_refill'["orderMin"] = last_refill["orderMin"]
            /\ last_refill'["order10s"] = last_refill["order10s"]
            /\ refusedBy' # "order10s"
        BY <2>0, <3>3 DEF OrderRefusedByWeight, TypeOK, Answer, Buckets
      <4> QED
        BY <2>0, <3>0, <4>1 DEF BurstInv, BurstGuardIdle
    <3>4. CASE OrderRefusedByMinute(t1, t2)
      <4>1. /\ tokens'["orderMin"] = Available("orderMin", t2)
            /\ tokens'["order10s"] = tokens["order10s"]
            /\ last_refill'["orderMin"] = Stamp("orderMin", t2)
            /\ last_refill'["order10s"] = last_refill["order10s"]
            /\ refusedBy' # "order10s"
            /\ Available("orderMin", t2) < 1
        BY <2>0, <3>4 DEF OrderRefusedByMinute, TypeOK, Answer, Buckets
      <4>2. ~Refills("orderMin", t2)
        BY <2>0, <4>1 DEF Available, Capacity, Buckets
      <4> QED
        BY <2>0, <3>0, <4>1, <4>2 DEF BurstInv, BurstGuardIdle, Available, Stamp
    <3>5. CASE OrderRefusedByTenSec(t1, t2, t3)
      <4>1. Available("orderMin", t2) >= 1 /\ Available("order10s", t3) < 1
        BY <3>5 DEF OrderRefusedByTenSec
      <4>2. ~Refills("order10s", t3) /\ tokens["order10s"] < 1
        BY <2>0, <4>1 DEF Available, Capacity, Buckets
      <4>3. tokens["orderMin"] = 0
        BY <2>0, <4>2 DEF BurstInv
      <4>4. last_refill["order10s"] <= last_refill["orderMin"]
        BY <2>0, <4>2, <4>3 DEF BurstInv
      <4>5. t2 - last_refill["orderMin"] >= Minute
        BY <2>0, <4>1, <4>3 DEF Available, Refills, Window, Buckets
      <4>6. t3 - last_refill["order10s"] >= TenSec
        BY <2>0, <3>2, <4>4, <4>5
      <4> QED
        BY <4>2, <4>6 DEF Refills, Window, Buckets
    <3>6. CASE OrderGranted(t1, t2, t3)
      <4>1. /\ tokens'["orderMin"] = Available("orderMin", t2) - 1
            /\ tokens'["order10s"] = Available("order10s", t3) - 1
            /\ last_refill'["orderMin"] = Stamp("orderMin", t2)
            /\ last_refill'["order10s"] = Stamp("order10s", t3)
            /\ refusedBy' # "order10s"
            /\ now' = t3
        BY <2>0, <3>6 DEF OrderGranted, Consumed, TypeOK, Answer, Buckets
      <4>2. /\ Refills("orderMin", t2) <=> t2 - last_refill["orderMin"] >= Minute
            /\ Refills("order10s", t3) <=> t3 - last_refill["order10s"] >= TenSec
            /\ Capacity["orderMin"] = OrdersPerMin
            /\ Capacity["order10s"] = OrdersPer10Sec
        BY DEF Refills, Window, Capacity, Buckets
      <4>3. CASE Refills("orderMin", t2) /\ Refills("order10s", t3)
        BY <2>0, <3>0, <3>2, <4>1, <4>2, <4>3 DEF BurstInv, BurstGuardIdle, Available, Stamp
      <4>4. CASE Refills("orderMin", t2) /\ ~Refills("order10s", t3)
        BY <2>0, <3>0, <3>2, <4>1, <4>2, <4>4 DEF BurstInv, BurstGuardIdle, Available, Stamp
      <4>5. CASE ~Refills("orderMin", t2) /\ Refills("order10s", t3)
        BY <2>0, <3>0, <3>2, <4>1, <4>2, <4>5 DEF BurstInv, BurstGuardIdle, Available, Stamp
      <4>6. CASE ~Refills("orderMin", t2) /\ ~Refills("order10s", t3)
        BY <2>0, <3>0, <3>2, <4>1, <4>2, <4>6 DEF BurstInv, BurstGuardIdle, Available, Stamp
      <4> QED
        BY <4>3, <4>4, <4>5, <4>6
    <3> QED
      BY <3>1, <3>3, <3>4, <3>5, <3>6
  <2>4. CASE \E t \in Instants : Elapse(t)
    <3>1. PICK t \in Instants : Elapse(t)
      BY <2>4
    <3>2. TypeOK' /\ now <= now' /\ now' \in Nat
      BY <2>0, <3>1, ElapseStep, InstantsAreNat DEF TypeOK
    <3> QED
      BY <2>0, <3>1, <3>2 DEF BurstInv, BurstGuardIdle, Elapse
  <2> QED
    BY <2>1, <2>2, <2>3, <2>4 DEF Next
<1>3. BurstInv => BurstGuardIdle
  BY DEF BurstInv
<1> QED
  BY <1>1, <1>2, <1>3, PTL DEF Spec

=============================================================================
