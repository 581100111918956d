CONSTANT t1 = t1
CONSTANT t2 = t2
CONSTANT t3 = t3
CONSTANT Callers <- TwoThreads
CONSTANT MaxFailures = 2
CONSTANT ResetTimeout = 3
SPECIFICATION Spec
PROPERTY OpenLastsItsTimeout
