\* Two overlapping requests of every kind, capacities raised, lowered and lifted.
SPECIFICATION FairSpec
CONSTANTS
    s1 = s1
    s2 = s2
    s3 = s3
    s4 = s4
    f1 = f1
    Id <- PairAndTeacher
    Registered <- Pair
    Teacher <- Teachers
    Admin = admin
    Proc = {p1, p2}
    Requests <- Mixed
    Capacities = {1, none}
    Unlimited = none
    Faults = {"redis", "db", "crash"}
INVARIANTS TypeOK
PROPERTIES UndisturbedEnrollFits DeactivationHolds CopyConverges
