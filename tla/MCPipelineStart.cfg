CONSTANT p1 = p1
CONSTANT p2 = p2
CONSTANT agent = agent
CONSTANT Processes <- TwoProcesses
CONSTANT Agents <- OneAgent
CONSTANT Principals <- Detectors
CONSTANT IncPos = 5
CONSTANT IncNeg = 3
CONSTANT Upper = 11
CONSTANT Lower = 11
SPECIFICATION StartSpec
INVARIANT EvidenceIsBounded
INVARIANT StreaksAreCaught
INVARIANT KeysAreFew
PROPERTY SettledKeyIsFinal
