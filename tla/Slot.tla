-------------------------------- MODULE Slot --------------------------------
(***************************************************************************)
(* What a symbol's slot promises, whoever keeps it: one entry at a time,   *)
(* none once losses reach the limit; the side it was entered on until it   *)
(* is flat again; a win or a loss counted only as a held position goes.    *)
(***************************************************************************)
EXTENDS Integers

CONSTANTS
  MaxConsecLosses,   \* RiskState.max_consec_losses
  MayRestart         \* the keeper may forget everything

VARIABLES
  phase,    \* "flat", "ordered" (an entry is awaited) or "holding" (it has filled)
  side,     \* the entry's side; "none" when flat
  losses    \* RiskState.consec_losses

vars == <<phase, side, losses>>

Init ==
  /\ phase = "flat"
  /\ side = "none"
  /\ losses = 0

\* An entry is accepted: it rests, or has filled at once.
Enter(s) ==
  /\ phase = "flat"
  /\ losses < MaxConsecLosses
  /\ phase' \in {"ordered", "holding"}
  /\ side' = s
  /\ UNCHANGED losses

Fill ==
  /\ phase = "ordered"
  /\ phase' = "holding"
  /\ UNCHANGED <<side, losses>>

\* An entry dies; a position is found gone or is given up.
Release ==
  /\ phase # "flat"
  /\ phase' = "flat"
  /\ side' = "none"
  /\ UNCHANGED losses

\* A position is closed, at its target or at its stop.
Close(won) ==
  /\ phase = "holding"
  /\ phase' = "flat"
  /\ side' = "none"
  /\ losses' = IF won THEN 0 ELSE losses + 1

Restart ==
  /\ MayRestart
  /\ phase' = "flat"
  /\ side' = "none"
  /\ losses' = 0

Next ==
  \/ \E s \in {"BUY", "SELL"} : Enter(s)
  \/ Fill
  \/ Release
  \/ \E won \in BOOLEAN : Close(won)
  \/ Restart

Spec == Init /\ [][Next]_vars

=============================================================================
