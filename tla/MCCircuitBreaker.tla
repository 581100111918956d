-------------------------- MODULE MCCircuitBreaker --------------------------
(* Instances of CircuitBreaker with two threads and with three.             *)
EXTENDS CircuitBreaker

CONSTANTS t1, t2, t3

TwoThreads == {t1, t2}
ThreeThreads == {t1, t2, t3}
=============================================================================
