\* Two overlapping requests of every kind on one profile, all failures.
SPECIFICATION Spec
CONSTANTS
    ann = ann
    e1 = e1  e2 = e2
    i1 = i1
    k1 = k1  k2 = k2
    Proc = {p1, p2}
    Name = {ann}
    Email = {e1, e2}
    Id = {i1}
    Photo = {k1, k2}
    Foreign = {}
    None = None
    Edits <- SomeEdits
    Calls = {"read", "update", "admin", "deactivate", "upload", "create"}
    Faults = {"redis", "db", "s3", "crash"}
    MaxVersion = 3
VIEW BesidesLog
SYMMETRY Interchangeable
INVARIANTS TypeOK ConflictIsEarned  StaleCopyHasCause
PROPERTY AuditTellsPrevious
