CONSTANTS
    NumTargets = 2
    Concurrency = 2
    Checks = {"intercept", "local"}
    Speed = TRUE
SPECIFICATION Spec
INVARIANTS IInv VerdictsFromFinalFacts SummaryComplete PrintedUncut
PROPERTIES KeepsPromise
