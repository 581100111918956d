CONSTANT w1 = w1
CONSTANT w2 = w2
CONSTANT service = service
CONSTANT agent = agent
CONSTANT guest = guest
CONSTANT any = any
CONSTANT star = star
CONSTANT readFile = readFile
CONSTANT file = file
CONSTANT Service = service
CONSTANT Workers <- TwoWorkers
CONSTANT MaxFaults = 1
CONSTANT MaxCrashes = 1
CONSTANT MaxFailures = 1
CONSTANT ResetTimeout = 1
CONSTANT IncPos = 2
CONSTANT IncNeg = 1
CONSTANT Upper = 3
CONSTANT Lower = 2
CONSTANT Resources <- OneResource
CONSTANT Patterns <- TwoPatterns
CONSTANT Star = star
CONSTANT Covers <- CoverTable
CONSTANT Agents <- TwoAgents
CONSTANT AnyPrincipal = any
CONSTANT Grants <- GrantTable
CONSTANT Requests <- MixedRequests
CONSTANT MaxRequests = 2
SPECIFICATION FairSpec
INVARIANT TypeOK
INVARIANT PassesEveryGate
INVARIANT BlocksAreExplained
INVARIANT WellFormedRequestsRecorded
PROPERTY ShedsOnlyWhenTripped
PROPERTY EveryRequestEnds
