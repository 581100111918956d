--------------------------- MODULE MCReceiptLedger ---------------------------
(* Instances of ReceiptLedger: one request at a time in one process; two    *)
(* threads of one process; a service of two threads and a command-line      *)
(* process.                                                                 *)
EXTENDS ReceiptLedger

CONSTANTS w1, w2, w3, p1, p2

OneWorker == {w1}
OneProcess == {p1}
HomeOfOne == [w \in OneWorker |-> p1]

TwoWorkers == {w1, w2}
HomeOfThreads == [w \in TwoWorkers |-> p1]

ThreeWorkers == {w1, w2, w3}
HomeOfThree == [w \in ThreeWorkers |-> IF w = w3 THEN p2 ELSE p1]

TwoProcesses == {p1, p2}
=============================================================================
