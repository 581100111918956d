CONSTANT w1 = w1
CONSTANT w2 = w2
CONSTANT w3 = w3
CONSTANT p1 = p1
CONSTANT p2 = p2
CONSTANT Workers <- ThreeWorkers
CONSTANT Processes <- TwoProcesses
CONSTANT Home <- HomeOfThree
CONSTANT MaxReceipts = 3
CONSTANT MaxFaults = 1
CONSTANT MaxCrashes = 1
SPECIFICATION Spec
INVARIANT TypeOK
INVARIANT AnswersAreDurable
INVARIANT DecisionsAreAudited
INVARIANT NoRowTwice
INVARIANT LinksResolve
