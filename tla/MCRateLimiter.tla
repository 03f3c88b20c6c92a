--------------------------- MODULE MCRateLimiter ---------------------------
(***************************************************************************)
(* Two processes with maxima of their own around a small budget.           *)
(***************************************************************************)
EXTENDS RateLimiter, TLC

CONSTANTS p1, p2

TwoProcs == {p1, p2}
OneLate == {p2}
TwoMaxima == (p1 :> 3) @@ (p2 :> 2)
MixedCalls == {1, 2}

=============================================================================
