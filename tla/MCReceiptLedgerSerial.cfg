CONSTANT w1 = w1
CONSTANT w2 = w2
CONSTANT w3 = w3
CONSTANT p1 = p1
CONSTANT p2 = p2
CONSTANT Workers <- OneWorker
CONSTANT Processes <- OneProcess
CONSTANT Home <- HomeOfOne
CONSTANT MaxReceipts = 5
CONSTANT MaxFaults = 3
CONSTANT MaxCrashes = 2
SPECIFICATION Spec
INVARIANT BreaksBoundedByFaults
INVARIANT TamperingIsDetected
PROPERTY ImplementsHashChain
