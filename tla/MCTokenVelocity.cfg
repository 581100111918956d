CONSTANT t1 = t1
CONSTANT t2 = t2
CONSTANT Threads <- TwoThreads
CONSTANT Costs <- SmallCosts
CONSTANT MaxTokens = 2
CONSTANT MaxEvents = 2
CONSTANT Window = 2
CONSTANT MaxTime = 4
SPECIFICATION Spec
INVARIANT CurrentWindowBudget
PROPERTY RejectionsAreJustified
