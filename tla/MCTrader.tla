------------------------------ MODULE MCTrader ------------------------------
(***************************************************************************)
(* Instances of Trader for TLC: what may go wrong at the exchange, and the *)
(* multiples of a lot step of 0.1 whose quotient in doubles comes out      *)
(* short.                                                                  *)
(***************************************************************************)
EXTENDS Trader

NoFaults == {}
OutsideCloses == {"liquidation"}
AllFaults == FaultKinds
PartialFills == {"partial"}

\* 3 steps come out as 2: the entry is for 2 steps, which come out right.
OneSlip == {3}

\* 0.3, 0.6 and 0.7 over 0.1 come out below 3, 6 and 7.
TenthSlips == {3, 6, 7}

=============================================================================
