--------------------------- MODULE MCRateLimiter ---------------------------
(***************************************************************************)
(* RateLimiter for TLC.  Time is long enough for each window to pass twice *)
(* and more, the heavy weight takes several tokens at once, and the        *)
(* capacities are small enough for each bucket to refuse (with the code's, *)
(* the ten-second one never does: see RateLimiterProofs).                  *)
(***************************************************************************)
EXTENDS RateLimiter

MCWeights == {2}

=============================================================================
