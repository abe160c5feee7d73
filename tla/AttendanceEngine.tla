--------------------------- MODULE AttendanceEngine ---------------------------
(***************************************************************************)
(* The attendance engine: markAttendance, editAttendanceRecord,            *)
(* lockSession and calculateAndCachePercentage of                          *)
(* src/modules/attendance/attendance.service.ts, the nightly job of        *)
(* attendance.jobs.ts, and the parts of a subject (its faculty, isActive)  *)
(* the engine reads.                                                       *)
(*                                                                         *)
(* Every handler is a request process whose steps are the awaits of the    *)
(* code: between two awaits nothing else of the same Node process runs,    *)
(* but the database and Redis are shared by all requests (and by all       *)
(* instances of the server), so requests interleave at every await.        *)
(***************************************************************************)
EXTENDS Naturals, Sequences, FiniteSets

CONSTANTS
    Faculty,        \* users who may mark, edit and lock
    Student,
    Subject,
    Session,        \* session ids: subject + date + label (buildSessionId)
    SubjectOf,      \* SubjectOf[s]: the subject in the session id s
    Proc,           \* request slots: how many requests are in flight at once
    Worker,         \* slots for percentage calculations in flight
    Rosters,        \* the "records" arrays clients send to markAttendance
    Window,         \* correction window, 24 hours, in clock ticks
    MaxTime,        \* bound of the clock
    Faults,         \* which failures occur: subset of {"redis", "db", "crash"}
    Nobody          \* null, where a user id is expected

Marks == {"present", "absent"}
Row == [student : Student, status : Marks]

ASSUME EngineAssumption ==
    /\ IsFiniteSet(Session) /\ Session # {}
    /\ Student # {} /\ Subject # {}
    /\ SubjectOf \in [Session -> Subject]
    /\ Rosters \subseteq Seq(Row)
    /\ <<>> \notin Rosters
    /\ Window \in Nat
    /\ MaxTime \in Nat \ {0}
    /\ Faults \subseteq {"redis", "db", "crash"}
    /\ Nobody \notin Faculty

VARIABLES
    assigned,   \* assigned[sub]: facultyIds of the subject
    active,     \* active[sub]: isActive of the subject
    session,    \* session[s]: the AttendanceSession document of s
    record,     \* record[s][st]: the AttendanceRecord document of s and st
    pct,        \* pct[st][sub]: Redis key attendance:pct:{student}:{subject}
    pc,         \* pc[p]: the await request p is at
    job,        \* job[p]: the local variables of request p
    calc,       \* calc[w]: a running calculateAndCachePercentage
    nightly,    \* pairs the nightly job has still to recalculate
    now         \* the clock

stored == <<assigned, active, session, record>>
requests == <<pc, job>>
vars == <<assigned, active, session, record, pct, pc, job, calc, nightly, now>>

-----------------------------------------------------------------------------
(* Documents, cache entries and the locals of the handlers.  Times start   *)
(* at 1, so that 0 is the null of a date field.                            *)

Time == 0 .. MaxTime

\* state "absent": no document; "open" and "locked": isLocked false and true.
\* The counts of a session are those of one roster, the last one upserted.
SessionDoc ==
    {d \in [state : {"absent", "open", "locked"}, faculty : Faculty \union {Nobody},
            total : Nat, present : Nat, absent : Nat, version : Nat, lockedAt : Time] :
        d.present + d.absent = d.total}

NoSession == [state |-> "absent", faculty |-> Nobody, total |-> 0,
              present |-> 0, absent |-> 0, version |-> 0, lockedAt |-> 0]

RecordDoc == [status : Marks \union {"none"}, markedAt : Time,
              editedAt : Time, editedBy : Faculty \union {Nobody}]

NoRecord == [status |-> "none", markedAt |-> 0,
             editedAt |-> 0, editedBy |-> Nobody]

CacheEntry == [hit : BOOLEAN, attended : Nat, total : Nat]
Miss == [hit |-> FALSE, attended |-> 0, total |-> 0]

\* seen: the version lockSession read, or the markedAt an edit read.
\* todo: the rows not yet written, then the rows not yet invalidated.
Job == [faculty : Faculty \union {Nobody}, session : Session,
        rows : Seq(Row), todo : SUBSET Nat, seen : Nat]

Calc == [pc : {"idle", "get", "aggregate", "set"}, nightly : BOOLEAN,
         student : Student, subject : Subject, attended : Nat, total : Nat]

Locked(s) == session[s].state = "locked"
Exists(s, st) == record[s][st].status # "none"
Held(st, sub) == {s \in Session : SubjectOf[s] = sub /\ Exists(s, st)}
Attended(st, sub) == {s \in Held(st, sub) : record[s][st].status = "present"}

\* The aggregate of lines 192-224; no document gives 0 of 0.
Aggregate(st, sub) == [attended |-> Cardinality(Attended(st, sub)),
                       total |-> Cardinality(Held(st, sub))]

CountRows(rows, status) ==
    Cardinality({i \in DOMAIN rows : rows[i].status = status})

\* Mutant: the count of the present is in $inc instead of $set.
UpsertedAdds(doc, j) ==
    [doc EXCEPT !.state = IF doc.state = "absent" THEN "open" ELSE doc.state,
                !.faculty = j.faculty,
                !.total = Len(j.rows),
                !.present = doc.present + CountRows(j.rows, "present"),
                !.absent = CountRows(j.rows, "absent")]

\* What the update documents of the code make of a stored document.
Upserted(doc, j) ==
    [doc EXCEPT !.state = IF doc.state = "absent" THEN "open" ELSE doc.state,
                !.faculty = j.faculty,
                !.total = Len(j.rows),
                !.present = CountRows(j.rows, "present"),
                !.absent = CountRows(j.rows, "absent")]
WithLock(doc) ==
    [doc EXCEPT !.state = "locked", !.lockedAt = now, !.version = doc.version + 1]
Marked(doc, status) == [doc EXCEPT !.status = status, !.markedAt = now]
Edited(doc, status, f) ==
    [doc EXCEPT !.status = status, !.editedAt = now, !.editedBy = f]

\* The locals of a request with the rows still to do, those of a calculation
\* that has its result.
WithTodo(j, rows) == [j EXCEPT !.todo = rows]
WithSum(c, sum) ==
    [c EXCEPT !.pc = "set", !.attended = sum.attended, !.total = sum.total]

-----------------------------------------------------------------------------
NewJob(f, s, rows, seen) ==
    [faculty |-> f, session |-> s, rows |-> rows, todo |-> {}, seen |-> seen]
IdleJob == NewJob(Nobody, CHOOSE s \in Session : TRUE, <<>>, 0)

NewCalc(st, sub, isNightly) ==
    [pc |-> "get", nightly |-> isNightly, student |-> st, subject |-> sub,
     attended |-> 0, total |-> 0]
IdleCalc == [NewCalc(CHOOSE st \in Student : TRUE,
                     CHOOSE sub \in Subject : TRUE, FALSE) EXCEPT !.pc = "idle"]

Init ==
    /\ assigned \in [Subject -> SUBSET Faculty]
    /\ active = [sub \in Subject |-> TRUE]
    /\ session = [s \in Session |-> NoSession]
    /\ record = [s \in Session |-> [st \in Student |-> NoRecord]]
    /\ pct = [st \in Student |-> [sub \in Subject |-> Miss]]
    /\ pc = [p \in Proc |-> "idle"]
    /\ job = [p \in Proc |-> IdleJob]
    /\ calc = [w \in Worker |-> IdleCalc]
    /\ nightly = {}
    /\ now = 1

\* Request p proceeds to await l, with its locals unchanged.
Goto(p, l) == pc' = [pc EXCEPT ![p] = l] /\ UNCHANGED job

\* Request p is over: it returned or threw.
Finish(p) ==
    /\ pc' = [pc EXCEPT ![p] = "idle"]
    /\ job' = [job EXCEPT ![p] = IdleJob]

\* A call of calculateAndCachePercentage that nobody awaits takes a slot.
StartCalc(st, sub, isNightly) ==
    \E w \in Worker :
        /\ calc[w].pc = "idle"
        /\ calc' = [calc EXCEPT ![w] = NewCalc(st, sub, isNightly)]

-----------------------------------------------------------------------------
(* markAttendance                                                          *)

\* Lines 55-60: the subject is read with its faculty and isActive in the
\* filter; the request proceeds only if it is found.
MarkFindSubject(p, f, s, rows) ==
    /\ pc[p] = "idle"
    /\ f \in assigned[SubjectOf[s]] /\ active[SubjectOf[s]]
    /\ pc' = [pc EXCEPT ![p] = "markSession"]
    /\ job' = [job EXCEPT ![p] = NewJob(f, s, rows, 0)]
    /\ UNCHANGED <<stored, pct, calc, nightly, now>>

\* Mutant: the isLocked test is missing.
MarkReadSessionUnchecked(p) ==
    /\ pc[p] = "markSession"
    /\ Goto(p, "markUpsert")
    /\ UNCHANGED <<stored, pct, calc, nightly, now>>

\* Lines 65-68: SESSION_LOCKED, or on to the upsert.
MarkReadSession(p) ==
    /\ pc[p] = "markSession"
    /\ IF Locked(job[p].session) THEN Finish(p) ELSE Goto(p, "markUpsert")
    /\ UNCHANGED <<stored, pct, calc, nightly, now>>

\* Mutants: isLocked is in $set instead of $setOnInsert; "upsert" is left out.
MarkUpsertSessionUnlocks(p) ==
    LET j == job[p] IN
    /\ pc[p] = "markUpsert"
    /\ session' = [session EXCEPT ![j.session] =
                     [Upserted(@, j) EXCEPT !.state = "open"]]
    /\ pc' = [pc EXCEPT ![p] = "markWrite"]
    /\ job' = [job EXCEPT ![p] = WithTodo(@, DOMAIN j.rows)]
    /\ UNCHANGED <<assigned, active, record, pct, calc, nightly, now>>

MarkUpsertSessionNoInsert(p) ==
    /\ pc[p] = "markUpsert"
    /\ pc' = [pc EXCEPT ![p] = "markWrite"]
    /\ job' = [job EXCEPT ![p] = WithTodo(@, DOMAIN job[p].rows)]
    /\ UNCHANGED <<stored, pct, calc, nightly, now>>

\* Lines 71-83: one findOneAndUpdate; only an insert sets isLocked, and
\* neither the lock nor the version is in the filter.
MarkUpsertSession(p) ==
    LET j == job[p] IN
    /\ pc[p] = "markUpsert"
    /\ session' = [session EXCEPT ![j.session] = Upserted(@, j)]
    /\ pc' = [pc EXCEPT ![p] = "markWrite"]
    /\ job' = [job EXCEPT ![p] = WithTodo(@, DOMAIN j.rows)]
    /\ UNCHANGED <<assigned, active, record, pct, calc, nightly, now>>

\* Mutant: the bulkWrite is not awaited to its end.
MarkWriteRecordEarly(p, i) ==
    LET j == job[p] IN
    /\ pc[p] = "markWrite" /\ i \in j.todo
    /\ record' = [record EXCEPT ![j.session][j.rows[i].student] =
                    Marked(@, j.rows[i].status)]
    /\ pc' = [pc EXCEPT ![p] = "invalidate"]
    /\ job' = [job EXCEPT ![p] = WithTodo(@, DOMAIN j.rows)]
    /\ UNCHANGED <<assigned, active, session, pct, calc, nightly, now>>

\* Lines 86-101: the unordered bulkWrite upserts row by row, each row on its
\* own; a re-mark sets status and markedAt and keeps the edit fields.
MarkWriteRecord(p, i) ==
    LET j == job[p] IN
    /\ pc[p] = "markWrite" /\ i \in j.todo
    /\ record' = [record EXCEPT ![j.session][j.rows[i].student] =
                    Marked(@, j.rows[i].status)]
    /\ IF j.todo = {i}
       THEN /\ pc' = [pc EXCEPT ![p] = "invalidate"]
            /\ job' = [job EXCEPT ![p] = WithTodo(@, DOMAIN j.rows)]
       ELSE /\ job' = [job EXCEPT ![p] = WithTodo(@, j.todo \ {i})]
            /\ UNCHANGED pc
    /\ UNCHANGED <<assigned, active, session, pct, calc, nightly, now>>

\* Lines 35-39, 104-112 and 162-163: per row, DEL of the cached percentage
\* (an error is swallowed), then a recalculation that is not awaited.
Invalidate(p, i) ==
    LET j == job[p]
        st == j.rows[i].student
        sub == SubjectOf[j.session] IN
    /\ pc[p] = "invalidate" /\ i \in j.todo
    /\ \/ pct' = [pct EXCEPT ![st][sub] = Miss]
       \/ "redis" \in Faults /\ UNCHANGED pct
    /\ StartCalc(st, sub, FALSE)
    /\ IF j.todo = {i}
       THEN Finish(p)
       ELSE /\ job' = [job EXCEPT ![p] = WithTodo(@, j.todo \ {i})]
            /\ UNCHANGED pc
    /\ UNCHANGED <<stored, nightly, now>>

-----------------------------------------------------------------------------
(* editAttendanceRecord                                                    *)

\* Lines 129-130: the record is read, and with it its markedAt.
EditFindRecord(p, f, s, st, status) ==
    /\ pc[p] = "idle" /\ Exists(s, st)
    /\ pc' = [pc EXCEPT ![p] = "editSubject"]
    /\ job' = [job EXCEPT ![p] =
                 NewJob(f, s, <<[student |-> st, status |-> status]>>,
                        record[s][st].markedAt)]
    /\ UNCHANGED <<stored, pct, calc, nightly, now>>

\* Lines 133-137: unlike marking, an inactive subject may still be edited.
EditFindSubject(p) ==
    /\ pc[p] = "editSubject"
    /\ IF job[p].faculty \in assigned[SubjectOf[job[p].session]]
       THEN Goto(p, "editSession") ELSE Finish(p)
    /\ UNCHANGED <<stored, pct, calc, nightly, now>>

\* Mutant: only the correction window is checked.
EditCheckWindowOnly(p) ==
    /\ pc[p] = "editSession"
    /\ IF now > job[p].seen + Window THEN Finish(p) ELSE Goto(p, "editUpdate")
    /\ UNCHANGED <<stored, pct, calc, nightly, now>>

\* Lines 140-147: SESSION_LOCKED, then the window against the markedAt read
\* two awaits earlier.
EditCheck(p) ==
    /\ pc[p] = "editSession"
    /\ IF Locked(job[p].session) \/ now > job[p].seen + Window
       THEN Finish(p) ELSE Goto(p, "editUpdate")
    /\ UNCHANGED <<stored, pct, calc, nightly, now>>

\* Lines 149-160: the document is updated by its id alone.
EditUpdate(p) ==
    LET j == job[p] IN
    /\ pc[p] = "editUpdate"
    /\ record' = [record EXCEPT ![j.session][j.rows[1].student] =
                    Edited(@, j.rows[1].status, j.faculty)]
    /\ pc' = [pc EXCEPT ![p] = "invalidate"]
    /\ job' = [job EXCEPT ![p] = WithTodo(@, {1})]
    /\ UNCHANGED <<assigned, active, session, pct, calc, nightly, now>>

-----------------------------------------------------------------------------
(* lockSession                                                             *)

\* Lines 169-172: not found, not your session and already locked all end
\* the request without a change.
LockFindSession(p, f, s) ==
    /\ pc[p] = "idle"
    /\ session[s].state = "open" /\ session[s].faculty = f
    /\ pc' = [pc EXCEPT ![p] = "lockWrite"]
    /\ job' = [job EXCEPT ![p] = NewJob(f, s, <<>>, session[s].version)]
    /\ UNCHANGED <<stored, pct, calc, nightly, now>>

\* Lines 174-179: compare-and-set on __v and isLocked; no match is a
\* ConflictError.
LockWrite(p) ==
    LET s == job[p].session IN
    /\ pc[p] = "lockWrite"
    /\ IF session[s].version = job[p].seen /\ ~ Locked(s)
       THEN session' = [session EXCEPT ![s] = WithLock(@)]
       ELSE UNCHANGED session
    /\ Finish(p)
    /\ UNCHANGED <<assigned, active, record, pct, calc, nightly, now>>

-----------------------------------------------------------------------------
(* calculateAndCachePercentage, called by the handlers above, by            *)
(* GET .../percentage (attendance.controller.ts) and by the nightly job     *)

\* A client asks for a percentage.
ReadPercentage(st, sub) ==
    /\ StartCalc(st, sub, FALSE)
    /\ UNCHANGED <<stored, pct, requests, nightly, now>>

\* Lines 187-190: a hit ends the call; a Redis error counts as a miss.
CalcGet(w) ==
    /\ calc[w].pc = "get"
    /\ \/ /\ pct[calc[w].student][calc[w].subject].hit
          /\ calc' = [calc EXCEPT ![w] = IdleCalc]
       \/ /\ ~ pct[calc[w].student][calc[w].subject].hit \/ "redis" \in Faults
          /\ calc' = [calc EXCEPT ![w] = [@ EXCEPT !.pc = "aggregate"]]
    /\ UNCHANGED <<stored, pct, requests, nightly, now>>

\* Mutant: $match filters on the subject only.
CalcAggregateAllStudents(w) ==
    LET held(st) == Held(st, calc[w].subject) IN
    /\ calc[w].pc = "aggregate"
    /\ calc' = [calc EXCEPT ![w] = WithSum(@,
                 [attended |-> 0,
                  total |-> Cardinality({q \in Session \X Student : q[1] \in held(q[2])})])]
    /\ UNCHANGED <<stored, pct, requests, nightly, now>>

\* Lines 192-224.
CalcAggregate(w) ==
    LET sum == Aggregate(calc[w].student, calc[w].subject) IN
    /\ calc[w].pc = "aggregate"
    /\ calc' = [calc EXCEPT ![w] = WithSum(@, sum)]
    /\ UNCHANGED <<stored, pct, requests, nightly, now>>

\* Lines 226-234: SET with a 300 s expiry, whatever was written meanwhile;
\* an error is swallowed.
CalcSet(w) ==
    LET c == calc[w] IN
    /\ c.pc = "set"
    /\ \/ pct' = [pct EXCEPT ![c.student][c.subject] =
                    [hit |-> TRUE, attended |-> c.attended, total |-> c.total]]
       \/ "redis" \in Faults /\ UNCHANGED pct
    /\ calc' = [calc EXCEPT ![w] = IdleCalc]
    /\ UNCHANGED <<stored, requests, nightly, now>>

\* Mutant: SET without EX, entries never expire.
CacheExpireNever(st, sub) ==
    /\ pct[st][sub].hit /\ FALSE
    /\ UNCHANGED vars

\* Redis drops an entry whose 300 s are over: every entry was SET with EX.
CacheExpire(st, sub) ==
    /\ pct[st][sub].hit
    /\ pct' = [pct EXCEPT ![st][sub] = Miss]
    /\ UNCHANGED <<stored, requests, calc, nightly, now>>

\* attendance.jobs.ts 19-29: the pairs that have a record.
NightlyStart ==
    /\ nightly = {}
    /\ nightly' = {q \in Student \X Subject : Held(q[1], q[2]) # {}}
    /\ UNCHANGED <<stored, pct, requests, calc, now>>

\* Lines 34-49: one pair of the batch.
NightlyCalc(q) ==
    /\ q \in nightly
    /\ StartCalc(q[1], q[2], TRUE)
    /\ nightly' = nightly \ {q}
    /\ UNCHANGED <<stored, pct, requests, now>>

-----------------------------------------------------------------------------
(* The subject (subject.service.ts), the clock and failures                *)

\* assignFaculty, lines 205-224, of an active subject.
AssignFaculty(f, sub) ==
    /\ active[sub]
    /\ assigned' = [assigned EXCEPT ![sub] = @ \union {f}]
    /\ UNCHANGED <<active, session, record, pct, requests, calc, nightly, now>>

\* removeFaculty, lines 226-240.
RemoveFaculty(f, sub) ==
    /\ assigned' = [assigned EXCEPT ![sub] = @ \ {f}]
    /\ UNCHANGED <<active, session, record, pct, requests, calc, nightly, now>>

\* deactivateSubject, lines 190-203.
DeactivateSubject(sub) ==
    /\ active[sub]
    /\ active' = [active EXCEPT ![sub] = FALSE]
    /\ UNCHANGED <<assigned, session, record, pct, requests, calc, nightly, now>>

Tick ==
    /\ now < MaxTime
    /\ now' = now + 1
    /\ UNCHANGED <<stored, pct, requests, calc, nightly>>

\* An await on the database rejects: the handler throws, what it wrote stays.
\* In the write step that is a bulkWrite that applied some of its rows; before
\* the first invalidation, a write that was applied and whose reply was lost.
DbError(p) ==
    /\ "db" \in Faults /\ pc[p] # "idle"
    /\ pc[p] = "invalidate" => job[p].todo = DOMAIN job[p].rows
    /\ Finish(p)
    /\ UNCHANGED <<stored, pct, calc, nightly, now>>

\* The aggregate rejects: the error is logged or answered, nothing is set.
CalcError(w) ==
    /\ "db" \in Faults /\ calc[w].pc = "aggregate"
    /\ calc' = [calc EXCEPT ![w] = IdleCalc]
    /\ UNCHANGED <<stored, pct, requests, nightly, now>>

\* The server process dies: requests, calculations and the job are lost.
Crash ==
    /\ "crash" \in Faults
    /\ pc' = [p \in Proc |-> "idle"]
    /\ job' = [p \in Proc |-> IdleJob]
    /\ calc' = [w \in Worker |-> IdleCalc]
    /\ nightly' = {}
    /\ UNCHANGED <<stored, pct, now>>

-----------------------------------------------------------------------------
\* A new request or a change from outside; nothing makes these happen.
Arrive ==
    \/ \E p \in Proc, f \in Faculty, s \in Session :
          \/ \E rows \in Rosters : MarkFindSubject(p, f, s, rows)
          \/ \E st \in Student, status \in Marks : EditFindRecord(p, f, s, st, status)
          \/ LockFindSession(p, f, s)
    \/ \E st \in Student, sub \in Subject : ReadPercentage(st, sub)
    \/ \E f \in Faculty, sub \in Subject :
          AssignFaculty(f, sub) \/ RemoveFaculty(f, sub)
    \/ \E sub \in Subject : DeactivateSubject(sub)
    \/ NightlyStart
    \/ Tick

\* What request p does next.
Proceed(p) ==
    \/ MarkReadSession(p)
    \/ MarkUpsertSession(p)
    \/ \E i \in job[p].todo : MarkWriteRecord(p, i) \/ Invalidate(p, i)
    \/ EditFindSubject(p)
    \/ EditCheck(p)
    \/ EditUpdate(p)
    \/ LockWrite(p)

Calculate(w) == CalcGet(w) \/ CalcAggregate(w) \/ CalcSet(w)

Fault ==
    \/ \E p \in Proc : DbError(p)
    \/ \E w \in Worker : CalcError(w)
    \/ Crash

Next ==
    \/ Arrive
    \/ \E p \in Proc : Proceed(p)
    \/ \E w \in Worker : Calculate(w)
    \/ \E st \in Student, sub \in Subject : CacheExpire(st, sub)
    \/ \E q \in nightly : NightlyCalc(q)
    \/ Fault

Spec == Init /\ [][Next]_vars

\* The event loop runs what is ready, the database answers, Redis expires.
\* An Invalidate waits for a calculation slot, which others may take again
\* and again: strong fairness per request stands for the absence of slots.
Fairness ==
    /\ \A p \in Proc : SF_vars(Proceed(p))
    /\ \A w \in Worker : WF_vars(Calculate(w))
    /\ \A st \in Student, sub \in Subject : WF_vars(CacheExpire(st, sub))

FairSpec == Spec /\ Fairness

-----------------------------------------------------------------------------
(* Properties                                                              *)

MarkPc == {"markSession", "markUpsert", "markWrite"}
EditPc == {"editSubject", "editSession", "editUpdate"}

\* Type invariant; the counts of a session document stay those of one roster,
\* however often and by whomever the session is marked again.
TypeOK ==
    /\ assigned \in [Subject -> SUBSET Faculty]
    /\ active \in [Subject -> BOOLEAN]
    /\ session \in [Session -> SessionDoc]
    /\ record \in [Session -> [Student -> RecordDoc]]
    /\ pct \in [Student -> [Subject -> CacheEntry]]
    /\ pc \in [Proc -> MarkPc \union EditPc \union {"idle", "invalidate", "lockWrite"}]
    /\ job \in [Proc -> Job]
    /\ \A p \in Proc : /\ job[p].todo \subseteq DOMAIN job[p].rows
                       /\ pc[p] \in EditPc => DOMAIN job[p].rows = {1}
    /\ calc \in [Worker -> Calc]
    /\ nightly \subseteq Student \X Subject
    /\ now \in 1 .. MaxTime

\* No attendance record without its session, although the session is upserted
\* and the rows written by separate commands that can fail or crash between.
RecordsHaveSession ==
    \A s \in Session, st \in Student :
        Exists(s, st) => session[s].state # "absent"

\* A request that reaches the invalidation, after which it answers "marked",
\* has a record for every row it was sent, whatever other requests on the same
\* session, a lock or a failing request did meanwhile.
AnsweredRowsExist ==
    \A p \in Proc : pc[p] = "invalidate" =>
        \A i \in DOMAIN job[p].rows :
            Exists(job[p].session, job[p].rows[i].student)

\* A cached percentage may be out of date but is never ahead of the records:
\* it counts no session of another subject or student and no more presences
\* than sessions, so it stays within 0 and 100.
CacheNeverAhead ==
    \A st \in Student, sub \in Subject :
        pct[st][sub].hit =>
            /\ pct[st][sub].attended <= pct[st][sub].total
            /\ pct[st][sub].total <= Aggregate(st, sub).total

\* What makes the three invariants above inductive: where a request stands,
\* the session it read or upserted and the rows it has written exist.
RequestsKnowTheirRecords ==
    \A p \in Proc :
        /\ pc[p] \in {"markWrite", "lockWrite"} =>
              session[job[p].session].state # "absent"
        /\ pc[p] = "markWrite" =>
              \A i \in DOMAIN job[p].rows \ job[p].todo :
                  Exists(job[p].session, job[p].rows[i].student)
        /\ pc[p] \in EditPc => Exists(job[p].session, job[p].rows[1].student)

\* A calculation about to be stored is not ahead of the records either.
CalcNeverAhead ==
    \A w \in Worker : calc[w].pc = "set" =>
        /\ calc[w].attended <= calc[w].total
        /\ calc[w].total <= Aggregate(calc[w].student, calc[w].subject).total

\* Requests past the lock check of s that have still something to write.
Admitted(s) == {p \in Proc : /\ pc[p] \in {"markUpsert", "markWrite", "editUpdate"}
                             /\ job[p].session = s}

\* A lock is set once and never lifted: neither the upsert of a request that
\* checked before the lock nor a second locker touches isLocked, lockedAt, __v.
LockIsFinal ==
    [][\A s \in Session : Locked(s) =>
          /\ Locked(s)'
          /\ session'[s].lockedAt = session[s].lockedAt
          /\ session'[s].version = session[s].version]_vars

\* Once the requests admitted before a lock are gone, the session, its counts
\* and its records never change again, and no request is admitted any more.
DrainedLockIsFrozen ==
    [][\A s \in Session : Locked(s) /\ Admitted(s) = {} =>
          /\ Admitted(s)' = {}
          /\ session'[s] = session[s]
          /\ record'[s] = record[s]]_vars

\* The engine implements the ledger: open, then locked for good, and marks
\* written only by requests admitted while the session was not locked.
Ledger == INSTANCE AttendanceLedger WITH
    phase <- [s \in Session |-> session[s].state],
    admitted <- [s \in Session |-> Admitted(s)],
    marks <- [s \in Session |-> [st \in Student |-> record[s][st].status]]

ImplementsLedger == Ledger!LedgerSpec

\* The cached percentage, if there is one, is that of the records.
CacheTrue(st, sub) ==
    pct[st][sub].hit =>
        /\ pct[st][sub].attended = Aggregate(st, sub).attended
        /\ pct[st][sub].total = Aggregate(st, sub).total

\* If records stop changing, the cached percentages come to agree with them,
\* whatever calculation was racing with the last write and whatever DEL failed.
CacheConverges ==
    (<>[][UNCHANGED record]_vars) =>
        <>[](\A st \in Student, sub \in Subject : CacheTrue(st, sub))
===============================================================================
