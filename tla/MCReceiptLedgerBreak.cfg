CONSTANT w1 = w1
CONSTANT w2 = w2
CONSTANT w3 = w3
CONSTANT p1 = p1
CONSTANT p2 = p2
CONSTANT Workers <- TwoWorkers
CONSTANT Processes <- OneProcess
CONSTANT Home <- HomeOfThreads
CONSTANT MaxReceipts = 2
CONSTANT MaxFaults = 0
CONSTANT MaxCrashes = 0
SPECIFICATION Spec
INVARIANT UntouchedLedgerVerifies
