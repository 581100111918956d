--------------------------- MODULE MCTokenVelocity ---------------------------
(* Two threads that share one key of the token guard.                       *)
EXTENDS TokenVelocity

CONSTANTS t1, t2

TwoThreads == {t1, t2}
SmallCosts == {-1, 0, 2, 3}
=============================================================================
