\* Marks, edits and percentage calculations of one session until after the
\* correction window, with failures of Redis, the database and the server.
SPECIFICATION FairSpec
CONSTANTS
    f1 = f1  f2 = f2  s1 = s1  s2 = s2
    math = math  am = am
    Faculty = {f1}
    Student = {s1}
    Subject = {math}
    Session = {am}
    SubjectOf <- OneSession
    Proc = {p1}
    Worker = {w1, w2}
    Rosters <- PresentOnly
    Window = 0
    MaxTime = 2
    Faults = {"redis", "db", "crash"}
    Nobody = Nobody
PROPERTIES
    CacheConverges
