----------------------------- MODULE MCBacktest -----------------------------
(***************************************************************************)
(* Backtest for TLC.  From the first two prices to each other is past any  *)
(* target or stop; at the third the spread is wide enough to widen the     *)
(* stop; at the fourth it exceeds the stop's distance.  Two stops pass     *)
(* the day's limit of 3%.                                                  *)
(***************************************************************************)
EXTENDS Backtest

MCPrices == {9960000, 10000000, 30000000, 190000000}

=============================================================================
