------------------------------ MODULE Reports ------------------------------
(***************************************************************************)
(* The monthly reports (report.service.ts, report.jobs.ts) and the button  *)
(* that downloads them (reportSlice.ts, ExportButtons.tsx).                *)
(*                                                                         *)
(* What a report says is the attendance of the moment its aggregation ran, *)
(* so rows are named by that moment.  The month is fixed: other months are *)
(* other keys.  Time is counted in units of which a request in the server  *)
(* takes at most Delay and a key of Redis lives Ttl.                       *)
(***************************************************************************)
EXTENDS Integers

CONSTANTS
    User,         \* who downloads, each from one tab
    Role,         \* User -> {"student", "faculty", "admin"}
    Target,       \* the students and the subjects that reports are about
    Student,      \* the students among them
    Assigned,     \* faculty -> the subjects whose facultyIds hold it
    None,
    Ttl, Delay,   \* REPORT_CACHE_TTL; bound on a request's time in the server
    MaxTime,      \* bound: the clock stops here
    Faults        \* subset of {"redis", "db", "crash"}

ASSUME ReportsAssumption ==
    /\ Ttl \in Nat /\ Delay \in Nat /\ MaxTime \in Nat
    /\ Student \subseteq Target
    /\ Role \in [User -> {"student", "faculty", "admin"}]
    /\ Assigned \in [User -> SUBSET Target]

\* "table" is excel or csv.
Format == {"pdf", "table"}

\* The rows of an aggregation, and the key of Redis that holds them until "ends".
Rows == [known : BOOLEAN, at : Nat]
NoRows == [known |-> FALSE, at |-> 0]
Key == [rows : Rows, ends : Nat]
NoKey == [rows |-> NoRows, ends |-> 0]

VARIABLES
    now,       \* the time
    report,    \* report:student|subject:<id>:<month>:<year> in Redis
    pc,        \* per user: the next step of the request, "idle" without one
    req,       \* per user: its locals and when it began
    age        \* per user: how old the rows are in the file of its last download

vars == <<now, report, pc, req, age>>

NoRequest == [target |-> None, format |-> "pdf", rows |-> NoRows, since |-> 0]

Init ==
    /\ now = 0
    /\ report = [g \in Target |-> NoKey]
    /\ pc = [u \in User |-> "idle"]
    /\ req = [u \in User |-> NoRequest]
    /\ age = [u \in User |-> 0]

Goto(u, step) == pc' = [pc EXCEPT ![u] = step]

Refused(u) == Goto(u, "idle") /\ req' = [req EXCEPT ![u] = NoRequest]

\* The routes, generateStudentReport and generateSubjectReport: who gets what.
Permitted(u, g) ==
    \/ Role[u] = "admin"
    \/ Role[u] = "student" /\ g = u
    \/ Role[u] = "faculty" /\ g \notin Student /\ g \in Assigned[u]

\* handleExport: the button is disabled while isGenerating.
Click(u, g, format) ==
    /\ pc[u] = "idle"
    /\ req' = [req EXCEPT ![u] = [target |-> g, format |-> format,
                                  rows |-> NoRows, since |-> now]]
    /\ Goto(u, "find")
    /\ UNCHANGED <<now, report, age>>

\* findById of the student or subject, and the checks around it.
Find(u) ==
    /\ pc[u] = "find"
    /\ IF Permitted(u, req[u].target)
       THEN Goto(u, "get") /\ UNCHANGED req
       ELSE Refused(u)
    /\ UNCHANGED <<now, report, age>>

\* getCachedRows; a failure is taken for a miss.
Get(u) ==
    /\ pc[u] = "get"
    /\ \/ /\ report[req[u].target].rows.known
          /\ req' = [req EXCEPT ![u].rows = report[req[u].target].rows]
          /\ Goto(u, "build")
       \/ /\ ~report[req[u].target].rows.known \/ "redis" \in Faults
          /\ Goto(u, "aggregate") /\ UNCHANGED req
    /\ UNCHANGED <<now, report, age>>

\* The pipelines of a student and of a subject.
Aggregate(u) ==
    /\ pc[u] = "aggregate"
    /\ req' = [req EXCEPT ![u].rows = [known |-> TRUE, at |-> now]]
    /\ Goto(u, "set")
    /\ UNCHANGED <<now, report, age>>

\* Mutant: SET without EX.
CacheRowsForEver(u) ==
    /\ pc[u] = "set"
    /\ \/ report' = [report EXCEPT ![req[u].target] = [rows |-> req[u].rows, ends |-> MaxTime + 1]]
       \/ "redis" \in Faults /\ UNCHANGED report
    /\ Goto(u, "build")
    /\ UNCHANGED <<now, req, age>>

\* cacheRows: SET ... EX 3600, whose failure is swallowed.
CacheRows(u) ==
    /\ pc[u] = "set"
    /\ \/ report' = [report EXCEPT ![req[u].target] = [rows |-> req[u].rows, ends |-> now + Ttl]]
       \/ "redis" \in Faults /\ UNCHANGED report
    /\ Goto(u, "build")
    /\ UNCHANGED <<now, req, age>>

\* generateCSV and generateExcel return the rows.  generatePDF joins its chunks
\* before the document, a stream, has emitted any: its file holds none.
Written(format, rows) == IF format = "pdf" THEN NoRows ELSE rows

\* buildReportBuffer; the browser saves the file.
Build(u) ==
    /\ pc[u] = "build"
    /\ LET file == Written(req[u].format, req[u].rows)
       IN age' = [age EXCEPT ![u] = IF file.known THEN now - file.at ELSE 0]
    /\ Goto(u, "idle") /\ req' = [req EXCEPT ![u] = NoRequest]
    /\ UNCHANGED <<now, report>>

\* The database fails: downloadStudentReport.rejected.
DbError(u) ==
    /\ "db" \in Faults /\ pc[u] \in {"find", "aggregate"}
    /\ Refused(u)
    /\ UNCHANGED <<now, report, age>>

\* startReportCacheCleanupJob: KEYS report:* and one DEL of what that found;
\* a key set in between is not among them.
Cleanup(gone) ==
    /\ gone # {}
    /\ report' = [g \in Target |-> IF g \in gone THEN NoKey ELSE report[g]]
    /\ UNCHANGED <<now, pc, req, age>>

Crash ==
    /\ "crash" \in Faults
    /\ pc' = [u \in User |-> "idle"]
    /\ req' = [u \in User |-> NoRequest]
    /\ UNCHANGED <<now, report, age>>

\* Time passes; keys expire.
Tick ==
    /\ now < MaxTime
    /\ \A u \in User : pc[u] # "idle" => now < req[u].since + Delay
    /\ now' = now + 1
    /\ report' = [g \in Target |-> IF report[g].ends <= now + 1 THEN NoKey ELSE report[g]]
    /\ UNCHANGED <<pc, req, age>>

Next ==
    \/ \E u \in User :
          \/ \E g \in Target, format \in Format : Click(u, g, format)
          \/ Find(u) \/ Get(u) \/ Aggregate(u) \/ CacheRows(u) \/ Build(u) \/ DbError(u)
    \/ \E gone \in SUBSET Target : Cleanup(gone)
    \/ Tick
    \/ Crash

Spec == Init /\ [][Next]_vars

-----------------------------------------------------------------------------
(* Properties.                                                             *)

\* What a request of a user may carry.
Request == [target : Target \union {None}, format : Format, rows : Rows, since : Nat]

\* The cache, the requests and the files hold what the code can put there.
TypeOK ==
    /\ now \in Nat
    /\ report \in [Target -> Key]
    /\ pc \in [User -> {"idle", "find", "get", "aggregate", "set", "build"}]
    /\ req \in [User -> Request]
    /\ \A u \in User : pc[u] # "idle" => req[u].target \in Target
    /\ age \in [User -> Int]

\* Nothing deletes a report when attendance changes, so a file may be out of
\* date, but never by more than the life of the key and the time of two
\* requests: the one that filled the cache late and the one that answers.
RowsAreFresh ==
    \A u \in User : age[u] <= Ttl + 2 * Delay
=============================================================================
