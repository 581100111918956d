---------------------------- MODULE SwarmDetector ----------------------------
(***************************************************************************)
(* The per-principal detectors of AuditPipeline: a sequential probability  *)
(* ratio test over the stream of one principal's requests, each suspicious *)
(* or not.  observe() holds the detector's lock and the table of detectors *)
(* has a lock of its own, so one observation is one step.                  *)
(*                                                                         *)
(* Log-likelihoods are integers: the logarithms of the code times a scale  *)
(* of the instance's choosing.                                             *)
(***************************************************************************)
EXTENDS Integers

CONSTANTS
    Principals,
    IncPos,         \* log(p1 / p0)
    IncNeg,         \* - log((1 - p1) / (1 - p0))
    Upper,          \* log((1 - beta) / alpha)
    Lower           \* - log(beta / (1 - alpha))

\* __init__ checks 0 < p0 < p1 < 1; it does not check alpha + beta < 1, which
\* is what puts the boundaries on the two sides of zero.
ASSUME RatesAssumption ==
    /\ IncPos \in Nat \ {0} /\ IncNeg \in Nat \ {0}
    /\ Upper \in Nat \ {0} /\ Lower \in Nat \ {0}

VARIABLES
    logLR,          \* _log_lr of each principal's detector
    streak          \* suspicious requests in a row since the last request that
                    \* was not, or that was declared part of a swarm

vars == <<logLR, streak>>

Init ==
    /\ logLR = [p \in Principals |-> 0]
    /\ streak = [p \in Principals |-> 0]

\* _log_lr after one more observation, and what it says.
Evidence(p, suspicious) == logLR[p] + (IF suspicious THEN IncPos ELSE - IncNeg)

Decision_NoBenign(lr) == IF lr >= Upper THEN "swarm" ELSE "continue"
Decision(lr) ==
    IF lr >= Upper THEN "swarm" ELSE IF lr <= - Lower THEN "benign" ELSE "continue"

Observe_NoReset(p, suspicious) ==
    LET lr == Evidence(p, suspicious) IN
    /\ logLR' = [logLR EXCEPT ![p] = lr]
    /\ streak' = [streak EXCEPT ![p] =
                    IF suspicious /\ Decision(lr) # "swarm" THEN @ + 1 ELSE 0]
\* observe: a terminal decision resets the test.
Observe(p, suspicious) ==
    LET lr == Evidence(p, suspicious) IN
    /\ logLR' = [logLR EXCEPT ![p] = IF Decision(lr) = "continue" THEN lr ELSE 0]
    /\ streak' = [streak EXCEPT ![p] =
                    IF suspicious /\ Decision(lr) # "swarm" THEN @ + 1 ELSE 0]

Next == \E p \in Principals, suspicious \in BOOLEAN : Observe(p, suspicious)

Spec == Init /\ [][Next]_vars

-----------------------------------------------------------------------------
TypeOK ==
    /\ logLR \in [Principals -> Int]
    /\ streak \in [Principals -> Nat]

\* Between two requests the evidence lies strictly between the boundaries, so
\* a principal cannot bank credit beyond one benign decision (the reset).
EvidenceIsBounded == \A p \in Principals : - Lower < logLR[p] /\ logLR[p] < Upper

\* A principal whose requests are all suspicious is declared a swarm before its
\* streak has covered the distance between the boundaries, whatever it sent
\* before (test_stage6: "must eventually get BLOCKed once the same principal
\* repeats it enough times").
StreaksAreCaught == \A p \in Principals : streak[p] * IncPos < Upper + Lower
=============================================================================
