CONSTANT t1 = t1
CONSTANT t2 = t2
CONSTANT secret = secret
CONSTANT wrong = wrong
CONSTANT nothing = nothing
CONSTANT Threads <- TwoThreads
CONSTANT MaxRequests = 2
CONSTANT Window = 2
CONSTANT Second = 2
CONSTANT MaxTime = 3
CONSTANT Verdicts <- TwoVerdicts
CONSTANT Tokens <- TwoTokens
CONSTANT Secret = secret
CONSTANT Nothing = nothing
CONSTANT MaxDecisions = 2
SPECIFICATION DashboardSpec
INVARIANT CurrentWindowRate
INVARIANT ThroughIsNeverOverstated
INVARIANT EventsAreCounted
PROPERTY HeaderWaitIsEnough
PROPERTY TotalsNeverGoBack
PROPERTY LockIsReleased
