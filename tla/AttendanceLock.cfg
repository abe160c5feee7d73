\* Two teachers of one subject, one session, one student, requests of every
\* kind racing with the lock; the database and the server may fail.
SPECIFICATION Spec
CONSTANTS
    f1 = f1  f2 = f2  s1 = s1  s2 = s2
    math = math  am = am
    Faculty = {f1, f2}
    Student = {s1}
    Subject = {math}
    Session = {am}
    SubjectOf <- OneSession
    Proc = {p1, p2}
    Worker = {w1}
    Rosters <- SoloRosters
    Window = 0
    MaxTime = 1
    Faults = {"db", "crash"}
    Nobody = Nobody
SYMMETRY Symmetry
INVARIANTS
    TypeOK
    RecordsHaveSession
PROPERTIES
    LockIsFinal
    DrainedLockIsFrozen
    ImplementsLedger
