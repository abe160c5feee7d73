\* A class of two students, marked by overlapping requests with partial and
\* contradicting rosters.
SPECIFICATION Spec
CONSTANTS
    f1 = f1  f2 = f2  s1 = s1  s2 = s2
    math = math  am = am
    Faculty = {f1}
    Student = {s1, s2}
    Subject = {math}
    Session = {am}
    SubjectOf <- OneSession
    Proc = {p1, p2}
    Worker = {w1}
    Rosters <- ClassRosters
    Window = 0
    MaxTime = 1
    Faults = {"redis", "db"}
    Nobody = Nobody
SYMMETRY Symmetry
INVARIANTS
    AnsweredRowsExist
    CacheNeverAhead
CONSTRAINT SettledDay
