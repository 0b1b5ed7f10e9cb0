CONSTANTS
    NumTargets = 2
    Concurrency = 1
    Checks = {"local"}
    Speed = TRUE
SPECIFICATION HangingSpec
PROPERTIES Terminates LayersDontWait
INVARIANT ConcurrencyBound
