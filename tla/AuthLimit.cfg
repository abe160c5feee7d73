\* Three overlapping logins with right and wrong passwords, nothing fails.
SPECIFICATION FairSpec
CONSTANTS
    p1 = p1
    p2 = p2
    Proc = {p1, p2, p3}
    Calls = {"login"}
    Passwords = {"right", "wrong"}
    MaxFailedAttempts = 3
    AccessLife = 1
    MaxPairs = 2
    MaxTime = 1
    Faults = {}
INVARIANTS LimitLocks CounterWillExpire
PROPERTY CalmForgives
