------------------------------ MODULE Execution ------------------------------
(***************************************************************************)
(* The REST client (execution.rs) as the engine's blocking methods drive   *)
(* it (lib.rs:163-277): every method asks the limiter, may refuse locally, *)
(* sends one request and waits for its end.  Each acts on RateLimiter's    *)
(* variables by RateLimiter's own operations.                              *)
(*                                                                         *)
(* Binance counts a request when it arrives, which is later than when the  *)
(* limiter granted it.  The threads share the GIL, which no method gives   *)
(* up, so that one request is under way at a time.  What a request asks    *)
(* and its answer says is Trader's and RiskGate's; here it has a price.    *)
(***************************************************************************)
EXTENDS RateLimiter

CONSTANTS
  Threads,         \* the symbols' threads
  Light, Heavy,    \* the two weights that are declared: 1 and 5
  None             \* no request

ASSUME ExecutionAssumption ==
  /\ Light \in Weights
  /\ Heavy \in Weights

VARIABLES
  engine,     \* the shared engine, from its construction on
  flight,     \* the request each thread waits for
  arrived     \* history: arrived[b][u], what Binance has counted against b up to instant u

limiter_vars == vars
exec_vars == <<now, tokens, last_refill, refusedBy, lastOp, spent, engine, flight, arrived>>

\* A request, by how it is paid for.
Requests == [kind : {"order", "light", "heavy"}, there : BOOLEAN]

Weight(kind) == IF kind = "order" THEN 1 ELSE IF kind = "light" THEN Light ELSE Heavy

\* What Binance counts it as in each of its three limits.
Charge(kind, b) == IF b = "weight" THEN Weight(kind) ELSE IF kind = "order" THEN 1 ELSE 0

ASSUME NoneIsNoRequest == None \notin Requests

ExecTypeOK ==
  /\ TypeOK
  /\ engine \in {"created", "loading", "funding", "started", "failed"}
  /\ flight \in [Threads -> Requests \cup {None}]
  /\ arrived \in [Buckets -> [Instants -> Nat]]

ExecInit ==
  /\ Init
  /\ engine = "created"
  /\ flight = [t \in Threads |-> None]
  /\ arrived = [b \in Buckets |-> [u \in Instants |-> 0]]

-----------------------------------------------------------------------------
\* Mutant: the methods release the GIL while they wait.
GilReleased(t) == TRUE

GilFree(t) == \A other \in Threads \ {t} : flight[other] = None

Send(t, kind) == flight' = [flight EXCEPT ![t] = [kind |-> kind, there |-> FALSE]]

Return(t) == flight' = [flight EXCEPT ![t] = None]

\* Mutant: the limiter's refusal is ignored.
SentAnyway(t, kind) == Send(t, kind)

\* Past the limiter: the request is sent, or the call returns RateLimit.
Admitted(t, kind) == IF refusedBy' = "none" THEN Send(t, kind) ELSE Return(t)

\* A thread calls a method of an engine that has started.
MayCall(t) == engine = "started" /\ flight[t] = None /\ GilFree(t)

Weighed(t, kind) ==
  /\ MayCall(t)
  /\ check_weight(Weight(kind))
  /\ Admitted(t, kind)
  /\ UNCHANGED <<engine, arrived>>

\* The tokens are spent before the symbol's rules are looked up and, for a
\* limit order, its notional is compared: either may refuse the order here.
Ordered(t) ==
  /\ MayCall(t)
  /\ check_order
  /\ Admitted(t, "order") \/ UNCHANGED flight
  /\ UNCHANGED <<engine, arrived>>

place_limit_order(t) == Ordered(t)
place_market_order(t) == Ordered(t)
cancel_order(t) == Weighed(t, "light")
query_order_status(t) == Weighed(t, "light")
query_position_size(t) == Weighed(t, "heavy")
refresh_wallet(t) == Weighed(t, "heavy")

-----------------------------------------------------------------------------
(***************************************************************************)
(* start(): the precision rules, then the wallet; an error ends it, and    *)
(* nobody starts this engine again.                                        *)
(***************************************************************************)
load_precision_rules(t) ==
  /\ engine = "created"
  /\ check_weight(Light)
  /\ Admitted(t, "light")
  /\ engine' = IF refusedBy' = "none" THEN "loading" ELSE "failed"
  /\ UNCHANGED arrived

Answered(t) == flight[t] # None /\ flight[t].there

start_refresh_wallet(t) ==
  /\ engine = "loading" /\ Answered(t)
  /\ check_weight(Heavy)
  /\ Admitted(t, "heavy")
  /\ engine' = IF refusedBy' = "none" THEN "funding" ELSE "failed"
  /\ UNCHANGED arrived

LimiterIdle == UNCHANGED limiter_vars

started(t) ==
  /\ engine = "funding" /\ Answered(t)
  /\ engine' = "started"
  /\ Return(t)
  /\ LimiterIdle
  /\ UNCHANGED arrived

-----------------------------------------------------------------------------
\* The request reaches Binance, some time after it was sent.
Arrive(t) ==
  /\ flight[t] # None /\ ~flight[t].there
  /\ flight' = [flight EXCEPT ![t].there = TRUE]
  /\ \E u \in now .. MaxTime :
       /\ now' = u
       /\ arrived' = [b \in Buckets |-> [i \in Instants |->
                        arrived[b][i] + (IF i >= u THEN Charge(flight[t].kind, b) ELSE 0)]]
  /\ UNCHANGED <<tokens, last_refill, refusedBy, lastOp, spent, engine>>

\* The reply is read, or the call fails: no connection, an error status, a body
\* that does not parse, ten seconds gone.  What has not arrived by then never does.
CallEnds(t) ==
  /\ flight[t] # None
  /\ Return(t)
  /\ engine' = IF engine \in {"loading", "funding"} THEN "failed" ELSE engine
  /\ LimiterIdle
  /\ UNCHANGED arrived

Call(t) ==
  \/ load_precision_rules(t) \/ start_refresh_wallet(t)
  \/ place_limit_order(t) \/ place_market_order(t) \/ cancel_order(t)
  \/ query_order_status(t) \/ query_position_size(t) \/ refresh_wallet(t)

ExecNext == \E t \in Threads : Call(t) \/ started(t) \/ Arrive(t) \/ CallEnds(t)

ExecSpec == ExecInit /\ [][ExecNext]_exec_vars

-----------------------------------------------------------------------------
(***************************************************************************)
(* The bound that is worth something at Binance: whenever a request arrives*)
(* before the client gives it up, in no interval of k windows' length does *)
(* more arrive than k + 1 times the capacity, in weight or in orders.  With*)
(* requests overlapping it would be more: one granted long ago could arrive*)
(* beside the refills of the whole interval (rate_limiter.rs:42-58,        *)
(* lib.rs:213-277).                                                        *)
(***************************************************************************)
ArrivalsBounded ==
  \A b \in Buckets : RollingRate(arrived[b], Window[b], Capacity[b])

(***************************************************************************)
(* "Each REST caller declares its cost before sending" (rate_limiter.rs:10)*)
(* At every instant what has arrived was granted before, at its full price,*)
(* in each bucket, whatever was refused on the way or lost.                *)
(***************************************************************************)
EveryRequestPaid ==
  \A b \in Buckets, u \in Instants : arrived[b][u] <= spent[b][u]

=============================================================================
