----------------------------- MODULE MCExecution -----------------------------
(***************************************************************************)
(* Execution for TLC: two threads, a start that takes most of a minute's   *)
(* weight, and a last instant at which the ten-second window has passed    *)
(* three times and the minute once.                                        *)
(***************************************************************************)
EXTENDS Execution

MCWeights == {1, 2}

=============================================================================
