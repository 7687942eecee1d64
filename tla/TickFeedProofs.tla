--------------------------- MODULE TickFeedProofs ---------------------------
(***************************************************************************)
(* Theorems about TickFeed, for any symbols, capacity and back-off.        *)
(*                                                                         *)
(* LockInv: the thread that holds the lock is the one between the engine's *)
(* construction and the end of its start, and while there is one, or no    *)
(* engine, nobody is past the lock.  ChanInv: the channel holds ticks in   *)
(* the order of arrival, all of them later than any tick processed.        *)
(* StreamInv: before the start there is no task and nothing was received.  *)
(***************************************************************************)
EXTENDS TickFeed, TLAPS

LockInv ==
  /\ \A s \in Symbols : pc[s] \in {"creating", "starting"} <=> lock = s
  /\ lock # Nobody => engine = "created"
  /\ lock # Nobody \/ engine = "absent" =>
       \A s \in Symbols : pc[s] \in {"launching", "dead"} \/ lock = s

InOrder ==
  \A i, j \in 1 .. Len(chan) : i < j => chan[i].number < chan[j].number

ChanInv ==
  /\ InOrder
  /\ \A i \in 1 .. Len(chan) : chan[i].number <= arrived
  /\ \A s \in Symbols : handled[s] <= arrived
  /\ \A s \in Symbols, i \in 1 .. Len(chan) : handled[s] < chan[i].number

IInv == TypeOK /\ LockInv /\ ChanInv

-----------------------------------------------------------------------------
LEMMA ChanNumbers ==
  ASSUME TypeOK
  PROVE  \A i \in 1 .. Len(chan) : chan[i].number \in Nat
<1>1. \A i \in 1 .. Len(chan) : chan[i] \in Ticks
  BY DEF TypeOK
<1>2. \A tick \in Ticks : tick.number \in Nat
  BY FeedAssumption DEF Ticks
<1> QED
  BY <1>1, <1>2

LEMMA InitIInv == Init => IInv
<1> SUFFICES ASSUME Init PROVE IInv
  OBVIOUS
<1>1. TypeOK
  <2>1. <<>> \in Seq(Ticks) /\ Len(<<>>) = 0
    OBVIOUS
  <2>2. /\ ReconnectBase \in ReconnectBase .. ReconnectMax /\ 0 \in 0 .. MaxTicks
        /\ 0 <= Capacity
    BY FeedAssumption
  <2> QED
    BY <2>1, <2>2 DEF Init, TypeOK, Places
<1>2. LockInv
  BY FeedAssumption DEF Init, LockInv
<1>3. ChanInv
  BY DEF Init, ChanInv, InOrder
<1> QED
  BY <1>1, <1>2, <1>3 DEF IInv

-----------------------------------------------------------------------------
\* Types.
LEMMA TypePreserved == TypeOK /\ [Next]_vars => TypeOK'
<1> SUFFICES ASSUME TypeOK, [Next]_vars PROVE TypeOK'
  OBVIOUS
<1>1. CASE Connected \/ StreamError \/ StreamEnd
  BY <1>1 DEF Connected, BackoffKept, StreamError, StreamEnd, TypeOK
<1>2. CASE Reconnect
  <2>1. backoff' \in ReconnectBase .. ReconnectMax
    BY <1>2, FeedAssumption DEF Reconnect, TypeOK
  <2> QED
    BY <1>2, <2>1 DEF Reconnect, TypeOK
<1>3. ASSUME NEW symbol \in Symbols, Receive(symbol) PROVE TypeOK'
  <2>1. arrived' \in 1 .. MaxTicks
    BY <1>3, FeedAssumption DEF Receive, parse_combined, try_send, TypeOK
  <2>2. [symbol |-> symbol, number |-> arrived'] \in Ticks
    BY <2>1 DEF Ticks
  <2>3. chan' \in Seq(Ticks) /\ Len(chan') <= Capacity
    BY <1>3, <2>2, FeedAssumption DEF Receive, parse_combined, try_send, TypeOK
  <2> QED
    BY <1>3, <2>1, <2>3 DEF Receive, parse_combined, try_send, TypeOK
<1>4. ASSUME NEW s \in Symbols, run_symbol(s) PROVE TypeOK'
  <2>1. CASE FindEngine(s) \/ CallStart(s) \/ SeeStop(s) \/ PollRaises(s) \/ RestReturns(s)
    BY <2>1 DEF FindEngine, CallStart, SeeStop, PollRaises, RestReturns, Goto, TypeOK, Places
  <2>2. CASE CreateEngine(s)
    BY <2>2 DEF CreateEngine, Goto, TypeOK, Places
  <2>3. CASE Start(s)
    <3>0. /\ ReconnectBase \in ReconnectBase .. ReconnectMax
          /\ <<>> \in Seq(Ticks) /\ Len(<<>>) <= Capacity
      BY FeedAssumption
    <3>1. /\ backoff' \in ReconnectBase .. ReconnectMax
          /\ chan' \in Seq(Ticks) /\ Len(chan') <= Capacity
      BY <2>3, <3>0 DEF Start, start_stream, TypeOK
    <3>2. pc' \in [Symbols -> Places]
      BY <2>3 DEF Start, Goto, TypeOK, Places
    <3> QED
      BY <2>3, <3>1, <3>2 DEF Start, start_stream, TypeOK
  <2>4. CASE TakeTick(s)
    <3>1. chan # <<>>
      BY <2>4 DEF TakeTick, Remaining, poll_tick
    <3>2. /\ chan' \in Seq(Ticks) /\ Len(chan') <= Capacity
          /\ Head(chan) \in Ticks
      BY <2>4, <3>1, FeedAssumption DEF TakeTick, Remaining, TypeOK
    <3>3. Head(chan).number \in 0 .. MaxTicks
      BY <3>2, FeedAssumption DEF Ticks
    <3>4. handled' \in [Symbols -> 0 .. MaxTicks]
      BY <2>4, <3>3 DEF TakeTick, Remaining, TypeOK
    <3>5. pc' \in [Symbols -> Places]
      BY <2>4 DEF TakeTick, Remaining, Goto, TypeOK, Places
    <3> QED
      BY <2>4, <3>2, <3>4, <3>5 DEF TakeTick, Remaining, TypeOK
  <2> QED
    BY <1>4, <2>1, <2>2, <2>3, <2>4 DEF run_symbol
<1>5. CASE Shutdown \/ UNCHANGED vars
  BY <1>5 DEF Shutdown, vars, TypeOK
<1> QED
  BY <1>1, <1>2, <1>3, <1>4, <1>5 DEF Next, run_stream_loop

\* The lock.
LEMMA LockPreserved == TypeOK /\ LockInv /\ [Next]_vars => LockInv'
<1> SUFFICES ASSUME TypeOK, LockInv, [Next]_vars PROVE LockInv'
  OBVIOUS
<1>1. CASE run_stream_loop \/ Shutdown \/ UNCHANGED vars
  <2>1. UNCHANGED <<pc, lock, engine>>
    BY <1>1 DEF run_stream_loop, Connected, BackoffKept, StreamError, Reconnect, StreamEnd, Receive,
       Shutdown, vars
  <2> QED
    BY <2>1 DEF LockInv
<1>2. ASSUME NEW s \in Symbols, run_symbol(s) PROVE LockInv'
  <2>0. pc \in [Symbols -> Places] /\ s # Nobody
    BY FeedAssumption DEF TypeOK
  <2>1. CASE FindEngine(s)
    BY <2>0, <2>1 DEF FindEngine, LockFree, Goto, LockInv
  <2>2. CASE CreateEngine(s)
    <3>1. lock = Nobody /\ \A t \in Symbols : pc[t] \in {"launching", "dead"}
      BY <2>2, FeedAssumption DEF CreateEngine, LockFree, LockInv
    <3> QED
      BY <2>0, <2>2, <3>1 DEF CreateEngine, Goto, LockInv
  <2>3. CASE CallStart(s)
    BY <2>0, <2>3 DEF CallStart, Goto, LockInv
  <2>4. CASE Start(s)
    <3>1. lock = s /\ lock' = Nobody /\ engine' # "absent"
      <4>1. lock = s /\ lock' = Nobody
        BY <2>4 DEF Start, LockInv
      <4>2. engine # "absent"
        BY <2>0, <4>1 DEF LockInv
      <4> QED
        BY <2>4, <4>1, <4>2 DEF Start
    <3> QED
      BY <2>0, <2>4, <3>1, FeedAssumption DEF Start, Goto, LockInv
  <2>5. CASE SeeStop(s) \/ PollRaises(s) \/ TakeTick(s) \/ RestReturns(s)
    <3>1. pc[s] \in {"first", "loop", "rest"} /\ UNCHANGED <<lock, engine>>
      BY <2>5 DEF SeeStop, PollRaises, TakeTick, RestReturns, Polling
    <3>2. \/ pc' = pc
          \/ \E place \in {"stopped", "dead", "loop", "rest"} : pc' = [pc EXCEPT ![s] = place]
      BY <2>5 DEF SeeStop, PollRaises, TakeTick, RestReturns, Goto
    <3> QED
      BY <2>0, <3>1, <3>2 DEF LockInv
  <2> QED
    BY <1>2, <2>1, <2>2, <2>3, <2>4, <2>5 DEF run_symbol
<1> QED
  BY <1>1, <1>2 DEF Next

\* The channel.
LEMMA ChanPreserved == TypeOK /\ ChanInv /\ [Next]_vars => ChanInv'
<1> SUFFICES ASSUME TypeOK, ChanInv, [Next]_vars PROVE ChanInv'
  OBVIOUS
<1>1. ASSUME NEW symbol \in Symbols, Receive(symbol) PROVE ChanInv'
  <2>0. /\ arrived \in Nat /\ arrived' = arrived + 1 /\ handled' = handled
        /\ \A s \in Symbols : handled[s] \in Nat
    BY <1>1, FeedAssumption DEF Receive, parse_combined, try_send, TypeOK
  <2>1. CASE chan' = chan
    <3>1. \A i \in 1 .. Len(chan) : chan[i].number \in Nat
      BY ChanNumbers
    <3> QED
      BY <2>0, <2>1, <3>1 DEF ChanInv, InOrder
  <2>2. CASE chan' = Append(chan, [symbol |-> symbol, number |-> arrived'])
    <3>1. chan \in Seq(Ticks) /\ Len(chan) \in Nat /\ Len(chan') = Len(chan) + 1
      BY <2>2 DEF TypeOK
    <3>2. \A i \in 1 .. Len(chan) : chan'[i] = chan[i] /\ chan[i].number \in Nat
      BY <2>2, <3>1, ChanNumbers
    <3>3. chan'[Len(chan) + 1].number = arrived'
      BY <2>2, <3>1
    <3>4. \A i \in 1 .. Len(chan') : i \in 1 .. Len(chan) \/ i = Len(chan) + 1
      BY <3>1
    <3>5. \A i \in 1 .. Len(chan) : chan'[i].number < arrived' /\ chan'[i].number \in Nat
      BY <2>0, <3>2 DEF ChanInv
    <3>6. InOrder'
      <4> SUFFICES ASSUME NEW i \in 1 .. Len(chan'), NEW j \in 1 .. Len(chan'), i < j
                   PROVE  chan'[i].number < chan'[j].number
        BY DEF InOrder
      <4>1. i \in 1 .. Len(chan)
        BY <3>1
      <4> QED
        BY <3>2, <3>3, <3>4, <3>5, <4>1 DEF ChanInv, InOrder
    <3>7. \A i \in 1 .. Len(chan') : chan'[i].number <= arrived'
      BY <2>0, <3>3, <3>4, <3>5
    <3>8. \A s \in Symbols : handled'[s] < arrived'
      BY <2>0 DEF ChanInv
    <3>9. \A s \in Symbols, i \in 1 .. Len(chan') : handled'[s] < chan'[i].number
      BY <2>0, <3>2, <3>3, <3>4, <3>8 DEF ChanInv
    <3> QED
      BY <2>0, <3>6, <3>7, <3>8, <3>9 DEF ChanInv
  <2> QED
    BY <1>1, <2>1, <2>2 DEF Receive, parse_combined, try_send
<1>2. ASSUME NEW s \in Symbols, TakeTick(s) PROVE ChanInv'
  <2>1. /\ chan \in Seq(Ticks) /\ chan # <<>> /\ chan' = Tail(chan) /\ arrived' = arrived
        /\ handled \in [Symbols -> 0 .. MaxTicks] /\ arrived \in Nat
    BY <1>2, FeedAssumption DEF TakeTick, Remaining, poll_tick, TypeOK
  <2>2. /\ Len(chan) \in Nat \ {0} /\ Len(chan') = Len(chan) - 1 /\ Head(chan) = chan[1]
        /\ \A i \in 1 .. Len(chan') : chan'[i] = chan[i + 1]
    BY <2>1
  <2>3. \A i \in 1 .. Len(chan) : chan[i].number \in Nat
    BY ChanNumbers
  <2>4. handled' = handled \/ handled' = [handled EXCEPT ![s] = chan[1].number]
    BY <1>2, <2>2 DEF TakeTick, Remaining
  <2>5. \A t \in Symbols : handled'[t] = handled[t] \/ handled'[t] = chan[1].number
    BY <2>1, <2>4
  <2>6. \A i \in 1 .. Len(chan') : i + 1 \in 1 .. Len(chan) /\ chan[1].number < chan[i + 1].number
    BY <2>2 DEF ChanInv, InOrder
  <2>7. InOrder'
    BY <2>2 DEF ChanInv, InOrder
  <2>8. \A i \in 1 .. Len(chan') : chan'[i].number <= arrived
    BY <2>2, <2>6 DEF ChanInv
  <2>9. \A t \in Symbols : handled'[t] <= arrived
    BY <2>2, <2>5 DEF ChanInv
  <2>10. \A t \in Symbols, i \in 1 .. Len(chan') : handled'[t] < chan'[i].number
    BY <2>2, <2>5, <2>6 DEF ChanInv
  <2> QED
    BY <2>1, <2>7, <2>8, <2>9, <2>10 DEF ChanInv
<1>3. ASSUME NEW s \in Symbols, Start(s) PROVE ChanInv'
  <2>1. UNCHANGED <<arrived, handled>> /\ (chan' = chan \/ chan' = <<>>)
    BY <1>3 DEF Start, start_stream
  <2> QED
    BY <2>1 DEF ChanInv, InOrder
<1>4. CASE UNCHANGED <<chan, arrived, handled>>
  BY <1>4 DEF ChanInv, InOrder
<1> QED
  BY <1>1, <1>2, <1>3, <1>4 DEF Next, run_stream_loop, run_symbol, Connected, BackoffKept, StreamError,
     Reconnect, StreamEnd, Shutdown, FindEngine, CreateEngine, CallStart, SeeStop,
     PollRaises, RestReturns, vars

LEMMA NextIInv == IInv /\ [Next]_vars => IInv'
BY TypePreserved, LockPreserved, ChanPreserved DEF IInv

-----------------------------------------------------------------------------
(***************************************************************************)
(* The task's, the channel's and the threads' state keep their types; in   *)
(* particular the channel never holds more than its capacity and the       *)
(* back-off stays between its bounds.                                      *)
(***************************************************************************)
THEOREM TypeCorrect == Spec => []TypeOK
<1>1. IInv => TypeOK
  BY DEF IInv
<1> QED
  BY InitIInv, NextIInv, <1>1, PTL DEF Spec

(***************************************************************************)
(* With any number of threads none sees the engine half started and none   *)
(* constructs a second one (get_or_create_engine).                         *)
(***************************************************************************)
THEOREM EngineWhole == Spec => []EngineSeenWhole
<1>1. IInv => EngineSeenWhole
  BY FeedAssumption DEF IInv, LockInv, EngineSeenWhole
<1> QED
  BY InitIInv, NextIInv, <1>1, PTL DEF Spec

(***************************************************************************)
(* Every thread processes its ticks in the order they arrived, none twice, *)
(* whatever was dropped, stolen or received after a reconnection.          *)
(***************************************************************************)
THEOREM OrderKept == Spec => TicksInOrder
<1> DEFINE Forward == \A s \in Symbols : handled'[s] # handled[s] => handled'[s] > handled[s]
<1>1. ASSUME IInv, Next PROVE Forward
  <2>1. ASSUME NEW s \in Symbols, TakeTick(s) PROVE Forward
    <3>1. /\ chan \in Seq(Ticks) /\ chan # <<>> /\ handled \in [Symbols -> 0 .. MaxTicks]
      BY <1>1, <2>1 DEF TakeTick, Remaining, poll_tick, IInv, TypeOK
    <3>2. Len(chan) \in Nat \ {0} /\ Head(chan) = chan[1] /\ 1 \in 1 .. Len(chan)
      BY <3>1
    <3>3. \A t \in Symbols : handled'[t] = handled[t] \/ handled'[t] = chan[1].number
      BY <2>1, <3>1, <3>2 DEF TakeTick, Remaining
    <3>4. \A t \in Symbols : handled[t] < chan[1].number
      BY <1>1, <3>2 DEF IInv, ChanInv
    <3> QED
      BY <3>3, <3>4
  <2>2. CASE UNCHANGED handled
    BY <2>2
  <2> QED
    BY <1>1, <2>1, <2>2 DEF Next, run_stream_loop, run_symbol, Connected, BackoffKept, StreamError,
       Reconnect, StreamEnd, Receive, Shutdown, FindEngine, CreateEngine, CallStart, Start,
       SeeStop, PollRaises, RestReturns
<1>2. IInv /\ [Next]_vars => [Forward]_vars
  BY <1>1
<1>3. Spec => [][Forward]_vars
  BY InitIInv, NextIInv, <1>2, PTL DEF Spec
<1> QED
  BY <1>3 DEF TicksInOrder

-----------------------------------------------------------------------------
\* Before the engine is started there is no stream task, so nothing is in the
\* channel and the back-off is where it starts.
StreamInv ==
  engine # "started" => ws = "absent" /\ chan = <<>> /\ backoff = ReconnectBase

FInv == IInv /\ StreamInv

LEMMA InitFInv == Init => FInv
BY InitIInv DEF FInv, StreamInv, Init

LEMMA StreamPreserved == IInv /\ StreamInv /\ [Next]_vars => StreamInv'
<1> SUFFICES ASSUME IInv, StreamInv, [Next]_vars PROVE StreamInv'
  OBVIOUS
<1>1. CASE run_stream_loop
  <2>1. ws # "absent" /\ engine' = engine
    BY <1>1 DEF run_stream_loop, Connected, StreamError, Reconnect, StreamEnd, Receive
  <2> QED
    BY <2>1 DEF StreamInv
<1>2. ASSUME NEW s \in Symbols, run_symbol(s) PROVE StreamInv'
  <2>1. CASE FindEngine(s) \/ CallStart(s) \/ SeeStop(s) \/ PollRaises(s) \/ RestReturns(s)
    BY <2>1 DEF FindEngine, CallStart, SeeStop, PollRaises, RestReturns, StreamInv
  <2>2. CASE CreateEngine(s)
    BY <2>2 DEF CreateEngine, StreamInv
  <2>3. CASE Start(s)
    BY <2>3 DEF Start, StreamInv
  <2>4. CASE TakeTick(s)
    BY <2>4 DEF TakeTick, poll_tick, StreamInv
  <2> QED
    BY <1>2, <2>1, <2>2, <2>3, <2>4 DEF run_symbol
<1>3. CASE Shutdown \/ UNCHANGED vars
  BY <1>3 DEF Shutdown, vars, StreamInv
<1> QED
  BY <1>1, <1>2, <1>3 DEF Next

LEMMA NextFInv == FInv /\ [Next]_vars => FInv'
BY NextIInv, StreamPreserved DEF FInv

\* A start finds the engine created: nothing was received before it.
LEMMA StartFindsNothing ==
  ASSUME FInv, NEW s \in Symbols, Start(s)
  PROVE  chan = <<>> /\ backoff = ReconnectBase
<1>1. lock = s /\ s # Nobody
  BY FeedAssumption DEF FInv, IInv, LockInv, Start
<1>2. engine = "created"
  BY <1>1 DEF FInv, IInv, LockInv
<1> QED
  BY <1>2 DEF FInv, StreamInv

\* The two ways the feed is over for good: a start that failed, a stream that ended.
StartFailed == engine = "created" /\ LockFree
StreamOver == engine = "started" /\ ws = "exited"

(***************************************************************************)
(* What the threads' end is promised on is final: after a failed start no  *)
(* thread starts the engine again (main.py:80-86, 404-408), and a stream   *)
(* that has ended is never spawned anew (websocket.rs:52-69, lib.rs:193).  *)
(***************************************************************************)
THEOREM EndOfFeedIsFinal ==
  Spec => [][(StartFailed => StartFailed') /\ (StreamOver => StreamOver')]_vars
<1> DEFINE Final == (StartFailed => StartFailed') /\ (StreamOver => StreamOver')
<1>1. FInv /\ [Next]_vars => [Final]_vars
  <2> SUFFICES ASSUME FInv, Next PROVE Final
    OBVIOUS
  <2>1. CASE run_stream_loop \/ Shutdown
    BY <2>1 DEF run_stream_loop, Connected, StreamError, Reconnect, StreamEnd, Receive, Shutdown,
       StartFailed, StreamOver, LockFree
  <2>2. ASSUME NEW s \in Symbols, run_symbol(s) PROVE Final
    <3>1. CASE FindEngine(s) \/ CallStart(s) \/ SeeStop(s) \/ PollRaises(s) \/ TakeTick(s)
               \/ RestReturns(s)
      BY <3>1 DEF FindEngine, CallStart, SeeStop, PollRaises, TakeTick, RestReturns,
         StartFailed, StreamOver, LockFree
    <3>2. CASE CreateEngine(s)
      BY <3>2 DEF CreateEngine, StartFailed, StreamOver
    <3>3. CASE Start(s)
      <4>1. lock = s /\ s # Nobody /\ engine = "created"
        BY <3>3, FeedAssumption DEF FInv, IInv, LockInv, Start
      <4> QED
        BY <4>1 DEF StartFailed, StreamOver, LockFree
    <3> QED
      BY <2>2, <3>1, <3>2, <3>3 DEF run_symbol
  <2> QED
    BY <2>1, <2>2 DEF Next
<1> QED
  BY InitFInv, NextFInv, <1>1, PTL DEF Spec

(***************************************************************************)
(* backoff_ms never falls while the program runs: no connection, however   *)
(* good, shortens the next wait, and the one start of the stream finds the *)
(* back-off still at its base (websocket.rs:53, 61-65).                    *)
(***************************************************************************)
THEOREM BackoffNeverFalls == Spec => [][backoff' >= backoff]_vars
<1>1. FInv /\ [Next]_vars => [backoff' >= backoff]_vars
  <2> SUFFICES ASSUME FInv, Next PROVE backoff' >= backoff
    OBVIOUS
  <2>1. backoff \in Nat /\ backoff <= ReconnectMax /\ ReconnectMax \in Nat
    BY FeedAssumption DEF FInv, IInv, TypeOK
  <2>2. CASE Reconnect
    BY <2>1, <2>2 DEF Reconnect
  <2>3. ASSUME NEW s \in Symbols, Start(s) PROVE backoff' >= backoff
    <3>1. backoff' = backoff
      BY <2>3, StartFindsNothing DEF Start, start_stream
    <3> QED
      BY <2>1, <3>1
  <2>4. CASE backoff' = backoff
    BY <2>1, <2>4
  <2> QED
    BY <2>2, <2>3, <2>4 DEF Next, run_stream_loop, run_symbol, Connected, BackoffKept, StreamError,
       StreamEnd, Receive, Shutdown, FindEngine, CreateEngine, CallStart, SeeStop, PollRaises,
       TakeTick, RestReturns
<1> QED
  BY InitFInv, NextFInv, <1>1, PTL DEF Spec

OneSymbol == \A s, t \in Symbols : s = t

(***************************************************************************)
(* With one symbol the documented routing (main.py:13) holds: every tick   *)
(* that leaves the channel is processed by its thread, and the start of    *)
(* the stream discards none.  It is the second consumer that breaks it.    *)
(***************************************************************************)
THEOREM RoutedWithOneSymbol == OneSymbol => (Spec => TicksRouted)
<1> SUFFICES ASSUME OneSymbol PROVE Spec => TicksRouted
  OBVIOUS
<1> DEFINE Routed == Len(chan') < Len(chan) => handled'[Head(chan).symbol] = Head(chan).number
<1>1. FInv /\ [Next]_vars => [Routed]_vars
  <2> SUFFICES ASSUME FInv, Next PROVE Routed
    OBVIOUS
  <2>0. chan \in Seq(Ticks) /\ Len(chan) \in Nat /\ handled \in [Symbols -> 0 .. MaxTicks]
    BY DEF FInv, IInv, TypeOK
  <2>1. ASSUME NEW s \in Symbols, TakeTick(s) PROVE Routed
    <3>1. chan # <<>>
      BY <2>1 DEF TakeTick, poll_tick
    <3>2. Head(chan) \in Ticks
      BY <2>0, <3>1
    <3>3. Head(chan).symbol = s
      BY <3>2 DEF OneSymbol, Ticks
    <3> QED
      BY <2>0, <2>1, <3>3 DEF TakeTick
  <2>2. ASSUME NEW s \in Symbols, Start(s) PROVE Routed
    <3>1. chan' = chan \/ (chan' = <<>> /\ chan = <<>>)
      BY <2>2, StartFindsNothing DEF Start, start_stream
    <3> QED
      BY <2>0, <3>1
  <2>3. ASSUME NEW symbol \in Symbols, Receive(symbol) PROVE Routed
    <3>1. chan' = chan \/ Len(chan') = Len(chan) + 1
      BY <2>0, <2>3 DEF Receive, try_send
    <3> QED
      BY <2>0, <3>1
  <2>4. CASE chan' = chan
    BY <2>0, <2>4
  <2> QED
    BY <2>1, <2>2, <2>3, <2>4 DEF Next, run_stream_loop, run_symbol, Connected, StreamError,
       Reconnect, StreamEnd, Shutdown, FindEngine, CreateEngine, CallStart, SeeStop, PollRaises,
       RestReturns
<1> QED
  BY InitFInv, NextFInv, <1>1, PTL DEF Spec, TicksRouted

=============================================================================
