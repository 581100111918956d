CONSTANT w1 = w1
CONSTANT w2 = w2
CONSTANT service = service
CONSTANT agent = agent
CONSTANT guest = guest
CONSTANT any = any
CONSTANT star = star
CONSTANT readFile = readFile
CONSTANT file = file
CONSTANT Service = service
CONSTANT Workers <- TwoWorkers
CONSTANT MaxFaults = 0
CONSTANT MaxCrashes = 0
CONSTANT MaxFailures = 2
CONSTANT ResetTimeout = 1
CONSTANT IncPos = 2
CONSTANT IncNeg = 1
CONSTANT Upper = 4
CONSTANT Lower = 2
CONSTANT Resources <- OneResource
CONSTANT Patterns <- TwoPatterns
CONSTANT Star = star
CONSTANT Covers <- CoverTable
CONSTANT Agents <- TwoAgents
CONSTANT AnyPrincipal = any
CONSTANT Grants <- GrantTable
CONSTANT Requests <- CountedRequests
CONSTANT MaxRequests = 2
SPECIFICATION Spec
INVARIANT EveryRequestRecorded
