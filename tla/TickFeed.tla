------------------------------ MODULE TickFeed ------------------------------
(***************************************************************************)
(* How ticks reach the symbols' threads: the WebSocket task that reconnects*)
(* with back-off and feeds a bounded channel (websocket.rs), the engine    *)
(* that the first thread creates and starts under a lock and all threads   *)
(* share (lib.rs:163-196, main.py:80-86), and the threads' loops           *)
(* (main.py:365-431).                                                      *)
(*                                                                         *)
(* The task runs beside Python.  The threads share the GIL, which start()  *)
(* and the REST methods never release: while one thread is inside one of   *)
(* them no other runs, and the channel fills.  Ticks are numbered in the   *)
(* order they arrive.                                                      *)
(***************************************************************************)
EXTENDS Integers, Sequences

CONSTANTS
  Symbols,         \* SYMBOLS: one thread each
  Capacity,        \* TICK_CHAN_CAPACITY
  ReconnectBase,   \* RECONNECT_BASE_MS
  ReconnectMax,    \* RECONNECT_MAX_MS
  MaxTicks,        \* bound: ticks that arrive in a behaviour
  Nobody           \* no thread

ASSUME FeedAssumption ==
  /\ Capacity \in Nat \ {0}
  /\ MaxTicks \in Nat
  /\ ReconnectBase \in Nat \ {0}
  /\ ReconnectMax \in Nat /\ ReconnectBase <= ReconnectMax
  /\ Nobody \notin Symbols

VARIABLES
  ws,        \* run_stream_loop: where the task is
  backoff,   \* backoff_ms
  arrived,   \* ticks received so far
  chan,      \* tick_rx: what the channel holds
  engine,    \* _engine: none, created, or created and started
  lock,      \* _engine_lock: the thread inside it
  pc,        \* where each thread is
  handled,   \* history: the last tick each thread processed
  stop       \* stop_event

vars == <<ws, backoff, arrived, chan, engine, lock, pc, handled, stop>>
ws_vars == <<ws, backoff, arrived>>

Ticks == [symbol : Symbols, number : 1 .. MaxTicks]

Places ==
  {"launching",   \* run_symbol, up to get_or_create_engine's lock
   "creating",    \* holds the lock, the engine is constructed
   "starting",    \* in engine.start()
   "first",       \* in _wait_for_first_tick
   "loop",        \* in _run_tick_loop
   "rest",        \* in a REST call of _process_tick
   "stopped",     \* has seen stop_event
   "dead"}        \* ended by an exception

Polling == {"first", "loop"}
Ended == {"stopped", "dead"}

TypeOK ==
  /\ ws \in {"absent", "connecting", "open", "backoff", "exited"}
  /\ backoff \in ReconnectBase .. ReconnectMax
  /\ arrived \in 0 .. MaxTicks
  /\ chan \in Seq(Ticks) /\ Len(chan) <= Capacity
  /\ engine \in {"absent", "created", "started"}
  /\ lock \in Symbols \cup {Nobody}
  /\ pc \in [Symbols -> Places]
  /\ handled \in [Symbols -> 0 .. MaxTicks]
  /\ stop \in BOOLEAN

Init ==
  /\ ws = "absent"
  /\ backoff = ReconnectBase
  /\ arrived = 0
  /\ chan = <<>>
  /\ engine = "absent"
  /\ lock = Nobody
  /\ pc = [s \in Symbols |-> "launching"]
  /\ handled = [s \in Symbols |-> 0]
  /\ stop = FALSE

-----------------------------------------------------------------------------
(***************************************************************************)
(* The WebSocket task.                                                     *)
(***************************************************************************)
\* Mutant: a connection that works starts the back-off afresh.
BackoffReset == backoff' = ReconnectBase

\* backoff_ms outlives the connection: run_stream_loop declares it outside the loop.
BackoffKept == UNCHANGED backoff

Connected ==
  /\ ws = "connecting"
  /\ ws' = "open"
  /\ BackoffKept
  /\ UNCHANGED <<arrived, chan, engine, lock, pc, handled, stop>>

\* The handshake fails, the stream errs, the server sends Close, a ping fails.
StreamError ==
  /\ ws \in {"connecting", "open"}
  /\ ws' = "backoff"
  /\ UNCHANGED <<backoff, arrived, chan, engine, lock, pc, handled, stop>>

Reconnect ==
  /\ ws = "backoff"
  /\ ws' = "connecting"
  /\ backoff' = IF backoff * 2 <= ReconnectMax THEN backoff * 2 ELSE ReconnectMax
  /\ UNCHANGED <<arrived, chan, engine, lock, pc, handled, stop>>

\* The stream ends without an error: the task returns and drops the sender.
StreamEnd ==
  /\ ws = "open"
  /\ ws' = "exited"
  /\ UNCHANGED <<backoff, arrived, chan, engine, lock, pc, handled, stop>>

\* Mutant: room for one more.
SendOneOver(tick) == IF Len(chan) <= Capacity THEN Append(chan, tick) ELSE chan

\* A tick that finds the channel full is dropped.
try_send(tick) == IF Len(chan) < Capacity THEN Append(chan, tick) ELSE chan

\* A message that does not parse is skipped, and no step here.
parse_combined(symbol) == [symbol |-> symbol, number |-> arrived']

Receive(symbol) ==
  /\ ws = "open"
  /\ arrived < MaxTicks
  /\ arrived' = arrived + 1
  /\ chan' = try_send(parse_combined(symbol))
  /\ UNCHANGED <<ws, backoff, engine, lock, pc, handled, stop>>

run_stream_loop ==
  \/ Connected \/ StreamError \/ Reconnect \/ StreamEnd
  \/ \E symbol \in Symbols : Receive(symbol)

-----------------------------------------------------------------------------
(***************************************************************************)
(* get_or_create_engine.                                                   *)
(***************************************************************************)
GilFree(thread) == \A other \in Symbols \ {thread} : pc[other] \notin {"starting", "rest"}

Goto(thread, place) == pc' = [pc EXCEPT ![thread] = place]

\* Mutant: get_or_create_engine without its lock.
Unlocked == TRUE

LockFree == lock = Nobody

\* The engine is there, started or not: the lock is taken and given back.
FindEngine(s) ==
  /\ pc[s] = "launching" /\ GilFree(s)
  /\ LockFree
  /\ engine # "absent"
  /\ Goto(s, "first")
  /\ UNCHANGED <<ws, backoff, arrived, chan, engine, lock, handled, stop>>

CreateEngine(s) ==
  /\ pc[s] = "launching" /\ GilFree(s)
  /\ LockFree
  /\ engine = "absent"
  /\ \/ engine' = "created" /\ lock' = s /\ Goto(s, "creating")
     \/ Goto(s, "dead") /\ UNCHANGED <<engine, lock>>     \* ScalperEngine() raises
  /\ UNCHANGED <<ws, backoff, arrived, chan, handled, stop>>

CallStart(s) ==
  /\ pc[s] = "creating" /\ GilFree(s)
  /\ Goto(s, "starting")
  /\ UNCHANGED <<ws, backoff, arrived, chan, engine, lock, handled, stop>>

\* A new channel, and a task that connects.
start_stream == ws' = "connecting" /\ backoff' = ReconnectBase /\ chan' = <<>>

\* start(): exchange info and wallet are loaded, then the stream is spawned.
\* If either load fails nobody starts the engine again.
Start(s) ==
  /\ pc[s] = "starting"
  /\ lock' = Nobody
  /\ \/ /\ engine' = "started"
        /\ start_stream
        /\ Goto(s, "first")
     \/ Goto(s, "dead") /\ UNCHANGED <<engine, ws, backoff, chan>>
  /\ UNCHANGED <<arrived, handled, stop>>

-----------------------------------------------------------------------------
(***************************************************************************)
(* _wait_for_first_tick and _run_tick_loop.                                *)
(***************************************************************************)
\* Mutant: a closed channel looks like an empty one.
PollIgnoresEnd ==
  IF engine # "started" THEN "not_started" ELSE IF chan # <<>> THEN "tick" ELSE "none"

\* Mutant: an engine not started has no tick yet.
PollIgnoresStart ==
  IF chan # <<>> THEN "tick" ELSE IF ws = "exited" THEN "disconnected" ELSE "none"

poll_tick ==
  IF engine # "started" THEN "not_started"
  ELSE IF chan # <<>> THEN "tick"
  ELSE IF ws = "exited" THEN "disconnected" ELSE "none"

\* Mutant: the wait for the first tick does not look at stop_event.
SeeStopInLoop(s) ==
  /\ pc[s] = "loop" /\ GilFree(s)
  /\ stop
  /\ Goto(s, "stopped")
  /\ UNCHANGED <<ws, backoff, arrived, chan, engine, lock, handled, stop>>

SeeStop(s) ==
  /\ pc[s] \in Polling /\ GilFree(s)
  /\ stop
  /\ Goto(s, "stopped")
  /\ UNCHANGED <<ws, backoff, arrived, chan, engine, lock, handled, stop>>

\* poll_tick raises, nothing catches it, the thread ends.
PollRaises(s) ==
  /\ pc[s] \in Polling /\ GilFree(s)
  /\ ~stop
  /\ poll_tick \in {"not_started", "disconnected"}
  /\ Goto(s, "dead")
  /\ UNCHANGED <<ws, backoff, arrived, chan, engine, lock, handled, stop>>

\* Mutant: a tick of another symbol is put back.
PutBack(s) ==
  IF Head(chan).symbol = s THEN Tail(chan) ELSE Append(Tail(chan), Head(chan))

\* What poll_tick leaves in the channel, whoever the tick was for.
Remaining(s) == Tail(chan)

\* A tick of this symbol is processed, with or without a REST call; a tick of
\* another symbol is gone.
TakeTick(s) ==
  /\ pc[s] \in Polling /\ GilFree(s)
  /\ ~stop
  /\ poll_tick = "tick"
  /\ chan' = Remaining(s)
  /\ IF Head(chan).symbol = s
       THEN /\ handled' = [handled EXCEPT ![s] = Head(chan).number]
            /\ Goto(s, "loop") \/ Goto(s, "rest")
       ELSE UNCHANGED <<handled, pc>>
  /\ UNCHANGED <<ws, backoff, arrived, engine, lock, stop>>

RestReturns(s) ==
  /\ pc[s] = "rest"
  /\ Goto(s, "loop")
  /\ UNCHANGED <<ws, backoff, arrived, chan, engine, lock, handled, stop>>

\* SIGINT or SIGTERM; the handler runs in the main thread.
Shutdown ==
  /\ ~stop
  /\ GilFree(Nobody)
  /\ stop' = TRUE
  /\ UNCHANGED <<ws, backoff, arrived, chan, engine, lock, pc, handled>>

run_symbol(s) ==
  \/ FindEngine(s) \/ CreateEngine(s) \/ CallStart(s) \/ Start(s)
  \/ SeeStop(s) \/ PollRaises(s) \/ TakeTick(s) \/ RestReturns(s)

Next ==
  \/ run_stream_loop
  \/ \E s \in Symbols : run_symbol(s)
  \/ Shutdown

Spec == Init /\ [][Next]_vars

(***************************************************************************)
(* A thread that can run does in the end: calls return (10 s timeout,      *)
(* execution.rs:87) and a thread waiting for the GIL or the lock is not    *)
(* passed over for ever.  Nothing is assumed of the stream.                *)
(***************************************************************************)
FairSpec == Spec /\ \A s \in Symbols : SF_vars(run_symbol(s))

-----------------------------------------------------------------------------
(***************************************************************************)
(* A thread processes its symbol's ticks in the order they arrived and     *)
(* none twice, across full channels, ticks taken by other threads and      *)
(* reconnections (websocket.rs:103, main.py:387-395).                      *)
(***************************************************************************)
TicksInOrder ==
  [][\A s \in Symbols : handled'[s] # handled[s] => handled'[s] > handled[s]]_vars

(***************************************************************************)
(* No thread gets hold of the engine between its construction and the end  *)
(* of its start, nor constructs a second one meanwhile: while the lock is  *)
(* held by one thread every other is before it or gone (main.py:82-86).    *)
(***************************************************************************)
EngineSeenWhole ==
  \A s, t \in Symbols :
    pc[s] \in {"creating", "starting"} /\ s # t => pc[t] \in {"launching", "dead"}

(***************************************************************************)
(* "Routing ticks by symbol" (main.py:13): a tick that leaves the channel  *)
(* is processed by the thread of its symbol.                               *)
(***************************************************************************)
TicksRouted ==
  [][Len(chan') < Len(chan) => handled'[Head(chan).symbol] = Head(chan).number]_vars

(***************************************************************************)
(* A shutdown signal ends every thread, wherever it is when it comes: in   *)
(* the lock, in a call, waiting for a first tick that never arrives        *)
(* (main.py:370, 387, 447-449).                                            *)
(***************************************************************************)
ShutdownCompletes == stop ~> \A s \in Symbols : pc[s] \in Ended

(***************************************************************************)
(* When the stream task has exited every thread ends, once the channel is  *)
(* drained: none polls a channel that can bring nothing (lib.rs:193-194).  *)
(***************************************************************************)
StreamEndNoticed == ws = "exited" ~> \A s \in Symbols : pc[s] \in Ended

(***************************************************************************)
(* A start that failed ends every thread, also those that find the engine  *)
(* constructed later (main.py:404-408, lib.rs:188-189).                    *)
(***************************************************************************)
StartFailureFatal ==
  (engine = "created" /\ LockFree) ~> \A s \in Symbols : pc[s] \in Ended

(***************************************************************************)
(* What a back-off that no good connection resets comes to: if the stream  *)
(* goes on breaking, however long each connection held, every wait is from *)
(* some time on the longest (websocket.rs:53, 61-65).                      *)
(***************************************************************************)
BackoffSaturates == []<><<Reconnect>>_vars => <>[](backoff = ReconnectMax)

=============================================================================
