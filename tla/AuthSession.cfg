\* Two overlapping calls of every kind, all failures.
SPECIFICATION Spec
CONSTANTS
    p1 = p1
    p2 = p2
    Proc <- Slots
    Calls = {"login", "refresh", "logout", "deactivate", "update"}
    Passwords = {"right"}
    MaxFailedAttempts = 1
    AccessLife = 1
    MaxPairs = 3
    MaxTime = 2
    Faults = {"redis", "db", "crash"}
SYMMETRY Interchangeable
INVARIANTS TypeOK DenialOutlastsToken
PROPERTIES SpentStaysSpent OnlyAPasswordReopens InactiveGetsNothing ImplementsLedger
