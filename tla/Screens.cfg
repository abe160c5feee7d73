\* The tabs of a session, the bell, the report button and the list of subjects.
SPECIFICATION ScreensSpec
CONSTANTS
    None = None
    Faults = {"redis", "db", "crash"}
    Lossy = TRUE
    Tab = {t1, t2}
    Call = {c1, c2}
    MaxTokens = 2
    Note = {n1, n2}
    MaxClicks = 1
    root = root
    cs = cs
    Role <- Roles
    Assigned <- Teaching
    User = {root, tom}
    Target = {cs, ann}
    Student = {ann}
    Ttl = 1
    Delay = 1
    MaxTime = 4
    Code = {os}
    MaxEdits = 1
    Load = {l1}
    Post = {p1, p2}
INVARIANTS ScreensTypeOK KeptIsCurrent NobodyIsForgotten RowsAreFresh TellsWhatWasDone
PROPERTY BadgeConverges
