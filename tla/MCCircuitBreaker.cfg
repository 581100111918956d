CONSTANT t1 = t1
CONSTANT t2 = t2
CONSTANT t3 = t3
CONSTANT Callers <- ThreeThreads
CONSTANT MaxFailures = 5
CONSTANT ResetTimeout = 8
SPECIFICATION FairSpec
INVARIANT TypeOK
INVARIANT TrippedIffExhausted
PROPERTY AlwaysTriesAgain
PROPERTY ClosesAfterOutage
