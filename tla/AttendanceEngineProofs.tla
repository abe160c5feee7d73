------------------------ MODULE AttendanceEngineProofs ------------------------
(***************************************************************************)
(* Proofs about AttendanceEngine, for every value of its constants: type   *)
(* correctness, the invariants about sessions, records and cached          *)
(* percentages, and that the engine implements AttendanceLedger.           *)
(***************************************************************************)
EXTENDS AttendanceEngine, FiniteSetTheorems, TLAPS

-----------------------------------------------------------------------------
(* Helpers of the model                                                    *)

\* The values a finished request and a finished calculation are reset to.
LEMMA IdleTypes ==
    /\ IdleJob \in Job /\ IdleJob.todo = {}
    /\ IdleCalc \in Calc /\ IdleCalc.pc = "idle"
<1>1. (CHOOSE s \in Session : TRUE) \in Session
  BY EngineAssumption
<1>2. (CHOOSE st \in Student : TRUE) \in Student
  BY EngineAssumption
<1>3. (CHOOSE sub \in Subject : TRUE) \in Subject
  BY EngineAssumption
<1>4. IdleJob \in Job /\ IdleJob.todo = {}
  <2>1. <<>> \in Seq(Row)
    OBVIOUS
  <2> QED
    BY <1>1, <2>1 DEF IdleJob, NewJob, Job
<1>5. IdleCalc \in Calc /\ IdleCalc.pc = "idle"
  BY <1>2, <1>3 DEF IdleCalc, NewCalc, Calc
<1> QED
  BY <1>4, <1>5

\* A row of a roster names a student and a mark.
LEMMA RowTypes ==
    ASSUME NEW rows \in Seq(Row), NEW i \in DOMAIN rows
    PROVE  rows[i].student \in Student /\ rows[i].status \in Marks
<1>1. rows[i] \in Row
  OBVIOUS
<1> QED
  BY <1>1 DEF Row

\* A roster has no more rows of one status than rows.
LEMMA CountRowsNat ==
    ASSUME NEW rows \in Seq(Row), NEW m PROVE CountRows(rows, m) \in Nat
<1>1. IsFiniteSet(1 .. Len(rows))
  BY FS_Interval
<1>2. {i \in DOMAIN rows : rows[i].status = m} \subseteq 1 .. Len(rows)
  OBVIOUS
<1> QED
  BY <1>1, <1>2, FS_Subset, FS_CardinalityType DEF CountRows

\* The aggregate counts sessions: both counts are finite and no student has
\* been present more often than held.
LEMMA AggregateBounds ==
    ASSUME NEW st, NEW sub
    PROVE  /\ Aggregate(st, sub).attended \in Nat
           /\ Aggregate(st, sub).total \in Nat
           /\ Aggregate(st, sub).attended <= Aggregate(st, sub).total
<1>1. IsFiniteSet(Held(st, sub))
  BY FS_Subset, EngineAssumption DEF Held
<1>2. Attended(st, sub) \subseteq Held(st, sub)
  BY DEF Attended
<1> QED
  BY <1>1, <1>2, FS_Subset, FS_CardinalityType DEF Aggregate

\* The clock can be stored in a date field.
LEMMA NowIsTime == ASSUME now \in 1 .. MaxTime PROVE now \in Time
  BY EngineAssumption DEF Time

\* Every row of a roster is marked present or absent, and not both.
LEMMA CountRowsAdd ==
    ASSUME NEW rows \in Seq(Row)
    PROVE  CountRows(rows, "present") + CountRows(rows, "absent") = Len(rows)
<1> DEFINE P == {i \in DOMAIN rows : rows[i].status = "present"}
           A == {i \in DOMAIN rows : rows[i].status = "absent"}
<1>1. IsFiniteSet(1 .. Len(rows)) /\ Cardinality(1 .. Len(rows)) = Len(rows)
  <2>1. Len(rows) \in Nat
    OBVIOUS
  <2>2. /\ IsFiniteSet(1 .. Len(rows))
        /\ Cardinality(1 .. Len(rows)) = IF 1 > Len(rows) THEN 0 ELSE Len(rows) - 1 + 1
    BY <2>1, FS_Interval
  <2> QED
    BY <2>1, <2>2
<1>2. P \subseteq 1 .. Len(rows) /\ A \subseteq 1 .. Len(rows)
  OBVIOUS
<1>3. IsFiniteSet(P) /\ IsFiniteSet(A)
  BY <1>1, <1>2, FS_Subset
<1>4. P \union A = 1 .. Len(rows)
  BY RowTypes DEF Marks
<1>5. P \intersect A = {}
  OBVIOUS
<1> HIDE DEF P, A
<1>6. Cardinality(P) \in Nat /\ Cardinality(A) \in Nat
  BY <1>3, FS_CardinalityType
<1>7. Cardinality(P \union A) = Cardinality(P) + Cardinality(A) - Cardinality({})
  BY <1>3, <1>5, FS_Union
<1> QED
  <2>1. Cardinality(P) + Cardinality(A) = Len(rows)
    <3>1. Cardinality(P \union A) = Len(rows)
      BY <1>1, <1>4, Zenon
    <3>2. Cardinality({}) = 0
      BY FS_EmptySet
    <3> QED
      BY <1>6, <1>7, <3>1, <3>2
  <2>2. CountRows(rows, "present") = Cardinality(P)
    BY DEF CountRows, P
  <2>3. CountRows(rows, "absent") = Cardinality(A)
    BY DEF CountRows, A
  <2> QED
    BY <2>1, <2>2, <2>3

\* Each update of a document makes a document.
LEMMA UpsertedType ==
    ASSUME NEW doc \in SessionDoc, NEW j \in Job PROVE Upserted(doc, j) \in SessionDoc
<1>1. j.rows \in Seq(Row) /\ j.faculty \in Faculty \union {Nobody}
  BY DEF Job
<1>2. /\ Len(j.rows) \in Nat
      /\ CountRows(j.rows, "present") \in Nat
      /\ CountRows(j.rows, "absent") \in Nat
  BY <1>1, CountRowsNat
<1>3. CountRows(j.rows, "present") + CountRows(j.rows, "absent") = Len(j.rows)
  BY <1>1, CountRowsAdd
<1> QED
  BY <1>1, <1>2, <1>3 DEF Upserted, SessionDoc

LEMMA WithLockType ==
    ASSUME NEW doc \in SessionDoc, now \in Time PROVE WithLock(doc) \in SessionDoc
<1>1. doc.version + 1 \in Nat
  BY DEF SessionDoc
<1> QED
  BY <1>1 DEF WithLock, SessionDoc

LEMMA MarkedType ==
    ASSUME NEW doc \in RecordDoc, NEW m \in Marks, now \in Time
    PROVE  Marked(doc, m) \in RecordDoc
  BY DEF Marked, RecordDoc

LEMMA EditedType ==
    ASSUME NEW doc \in RecordDoc, NEW m \in Marks, now \in Time,
           NEW f \in Faculty \union {Nobody}
    PROVE  Edited(doc, m, f) \in RecordDoc
  BY DEF Edited, RecordDoc

-----------------------------------------------------------------------------
(* Requests                                                                *)

Pcs == MarkPc \union EditPc \union {"idle", "invalidate", "lockWrite"}

\* The part of TypeOK about requests.
RequestsOK ==
    /\ pc \in [Proc -> Pcs]
    /\ job \in [Proc -> Job]
    /\ \A p \in Proc : /\ job[p].todo \subseteq DOMAIN job[p].rows
                       /\ pc[p] \in EditPc => DOMAIN job[p].rows = {1}

\* One request moves to l with locals j: all that a step does to requests.
LEMMA MoveTypes ==
    ASSUME RequestsOK, NEW p \in Proc, NEW l \in Pcs, NEW j \in Job,
           j.todo \subseteq DOMAIN j.rows, l \in EditPc => DOMAIN j.rows = {1},
           pc' = [pc EXCEPT ![p] = l], job' = [job EXCEPT ![p] = j]
    PROVE  RequestsOK'
<1>1. pc' \in [Proc -> Pcs] /\ job' \in [Proc -> Job]
  BY DEF RequestsOK
<1>2. ASSUME NEW q \in Proc
      PROVE  /\ job'[q].todo \subseteq DOMAIN job'[q].rows
             /\ pc'[q] \in EditPc => DOMAIN job'[q].rows = {1}
  <2>1. CASE q = p
    BY <2>1 DEF RequestsOK
  <2>2. CASE q # p
    BY <2>2 DEF RequestsOK
  <2> QED
    BY <2>1, <2>2
<1> QED
  BY <1>1, <1>2 DEF RequestsOK

LEMMA FinishTypes ==
    ASSUME RequestsOK, NEW p \in Proc, Finish(p) PROVE RequestsOK'
<1>1. "idle" \in Pcs /\ "idle" \notin EditPc
  BY DEF Pcs, EditPc
<1> QED
  BY <1>1, IdleTypes, MoveTypes DEF Finish

LEMMA GotoTypes ==
    ASSUME RequestsOK, NEW p \in Proc, NEW l \in Pcs, Goto(p, l),
           l \in EditPc => pc[p] \in EditPc
    PROVE  RequestsOK'
  BY DEF RequestsOK, Goto

\* A request that has rows to do, and the same with other rows to do.
LEMMA TodoTypes ==
    ASSUME RequestsOK, NEW p \in Proc, NEW T \in SUBSET (DOMAIN job[p].rows)
    PROVE  /\ WithTodo(job[p], T) \in Job
           /\ WithTodo(job[p], T).todo = T
           /\ WithTodo(job[p], T).rows = job[p].rows
<1>1. job[p] \in Job /\ job[p].rows \in Seq(Row)
  BY DEF RequestsOK, Job
<1>2. T \in SUBSET Nat
  BY <1>1
<1> QED
  BY <1>1, <1>2 DEF WithTodo, Job

LEMMA NewCalcType ==
    ASSUME NEW st \in Student, NEW sub \in Subject, NEW b \in BOOLEAN
    PROVE  NewCalc(st, sub, b) \in Calc
  BY DEF NewCalc, Calc

LEMMA StartCalcTypes ==
    ASSUME calc \in [Worker -> Calc], NEW st \in Student, NEW sub \in Subject,
           NEW b \in BOOLEAN, StartCalc(st, sub, b)
    PROVE  calc' \in [Worker -> Calc]
  BY NewCalcType DEF StartCalc

\* One cached percentage is replaced by an entry.
LEMMA PctType ==
    ASSUME pct \in [Student -> [Subject -> CacheEntry]],
           NEW st \in Student, NEW sub \in Subject, NEW e \in CacheEntry,
           pct' = [pct EXCEPT ![st][sub] = e]
    PROVE  pct' \in [Student -> [Subject -> CacheEntry]]
  OBVIOUS

-----------------------------------------------------------------------------
(* Type correctness                                                        *)

LEMMA InitTypeOK == Init => TypeOK
<1> SUFFICES ASSUME Init PROVE TypeOK
  OBVIOUS
<1>1. NoSession \in SessionDoc /\ NoRecord \in RecordDoc /\ Miss \in CacheEntry
  BY EngineAssumption
  DEF NoSession, SessionDoc, NoRecord, RecordDoc, Marks, Miss, CacheEntry, Time
<1>2. \A p \in Proc : job[p].todo \subseteq DOMAIN job[p].rows /\ pc[p] \notin EditPc
  BY IdleTypes DEF Init, EditPc
<1>3. job \in [Proc -> Job] /\ calc \in [Worker -> Calc]
  BY IdleTypes DEF Init
<1>4. now \in 1 .. MaxTime
  BY EngineAssumption DEF Init
<1> QED
  BY <1>1, <1>2, <1>3, <1>4 DEF Init, TypeOK

\* The steps of the requests keep the types of the documents.
LEMMA ProceedTypeOK ==
    ASSUME TypeOK, NEW p \in Proc, Proceed(p) PROVE TypeOK'
<1> DEFINE j == job[p]
<1>0. RequestsOK
  BY DEF TypeOK, RequestsOK, Pcs
<1>a. ASSUME RequestsOK', UNCHANGED <<stored, pct, calc, nightly, now>>
      PROVE  TypeOK'
  BY <1>a DEF TypeOK, RequestsOK, Pcs, stored
<1>b. /\ j \in Job /\ j.session \in Session /\ j.rows \in Seq(Row)
      /\ j.faculty \in Faculty \union {Nobody} /\ j.todo \subseteq DOMAIN j.rows
  BY DEF TypeOK, Job
<1>c. now \in Time
  BY NowIsTime DEF TypeOK
<1>d. WithTodo(j, DOMAIN j.rows) \in Job /\ WithTodo(j, DOMAIN j.rows).rows = j.rows
      /\ WithTodo(j, DOMAIN j.rows).todo = DOMAIN j.rows
  BY <1>0, TodoTypes
<1> HIDE DEF j
<1>1. CASE MarkReadSession(p)
  <2>1. RequestsOK'
    BY <1>0, <1>1, FinishTypes, GotoTypes DEF MarkReadSession, Pcs, MarkPc, EditPc
  <2> QED
    BY <1>1, <1>a, <2>1 DEF MarkReadSession
<1>2. CASE MarkUpsertSession(p)
  <2>1. /\ session' = [session EXCEPT ![j.session] = Upserted(session[j.session], j)]
        /\ pc' = [pc EXCEPT ![p] = "markWrite"]
        /\ job' = [job EXCEPT ![p] = WithTodo(j, DOMAIN j.rows)]
    BY <1>2 DEF MarkUpsertSession, j
  <2>2. session[j.session] \in SessionDoc
    BY <1>b DEF TypeOK
  <2>3. session' \in [Session -> SessionDoc]
    BY <1>b, <2>1, <2>2, UpsertedType DEF TypeOK
  <2>4. "markWrite" \in Pcs /\ "markWrite" \notin EditPc
    BY DEF Pcs, MarkPc, EditPc
  <2>5. RequestsOK'
    BY <1>0, <1>d, <2>1, <2>4, MoveTypes
  <2> QED
    BY <1>2, <2>3, <2>5 DEF MarkUpsertSession, TypeOK, RequestsOK, Pcs
<1>3. ASSUME NEW i \in j.todo, MarkWriteRecord(p, i) PROVE TypeOK'
  <2>1. record' = [record EXCEPT ![j.session][j.rows[i].student] =
                     Marked(record[j.session][j.rows[i].student], j.rows[i].status)]
    BY <1>3 DEF MarkWriteRecord, j
  <2>2. j.rows[i].student \in Student /\ j.rows[i].status \in Marks
    BY <1>b, RowTypes
  <2>3. record[j.session][j.rows[i].student] \in RecordDoc
    BY <1>b, <2>2 DEF TypeOK
  <2>4. record' \in [Session -> [Student -> RecordDoc]]
    BY <1>b, <1>c, <2>1, <2>2, <2>3, MarkedType DEF TypeOK
  <2>5. RequestsOK'
    <3>1. CASE j.todo = {i}
      <4>1. "invalidate" \in Pcs /\ "invalidate" \notin EditPc
        BY DEF Pcs, EditPc
      <4>2. /\ pc' = [pc EXCEPT ![p] = "invalidate"]
            /\ job' = [job EXCEPT ![p] = WithTodo(j, DOMAIN j.rows)]
        BY <1>3, <3>1 DEF MarkWriteRecord, j
      <4> QED
        BY <1>0, <1>d, <4>1, <4>2, MoveTypes
    <3>2. CASE j.todo # {i}
      <4>1. job' = [job EXCEPT ![p] = WithTodo(j, j.todo \ {i})] /\ pc' = pc
        BY <1>3, <3>2 DEF MarkWriteRecord, j
      <4>2. /\ WithTodo(j, j.todo \ {i}) \in Job
            /\ WithTodo(j, j.todo \ {i}).todo = j.todo \ {i}
            /\ WithTodo(j, j.todo \ {i}).rows = j.rows
        BY <1>0, <1>b, TodoTypes DEF j
      <4> QED
        BY <1>0, <1>b, <4>1, <4>2 DEF RequestsOK, j
    <3> QED
      BY <3>1, <3>2
  <2> QED
    BY <1>3, <2>4, <2>5 DEF MarkWriteRecord, TypeOK, RequestsOK, Pcs
<1>4. ASSUME NEW i \in j.todo, Invalidate(p, i) PROVE TypeOK'
  <2>1. j.rows[i].student \in Student /\ SubjectOf[j.session] \in Subject
    BY <1>b, RowTypes, EngineAssumption
  <2>2. \/ pct' = [pct EXCEPT ![j.rows[i].student][SubjectOf[j.session]] = Miss]
        \/ pct' = pct
    BY <1>4 DEF Invalidate, j
  <2>3. Miss \in CacheEntry
    BY DEF Miss, CacheEntry
  <2>4. pct' \in [Student -> [Subject -> CacheEntry]]
    BY <2>1, <2>2, <2>3, PctType DEF TypeOK
  <2>5. StartCalc(j.rows[i].student, SubjectOf[j.session], FALSE)
    BY <1>4 DEF Invalidate, j
  <2>6. calc' \in [Worker -> Calc]
    BY <2>1, <2>5, StartCalcTypes DEF TypeOK
  <2>7. RequestsOK'
    <3>1. CASE j.todo = {i}
      BY <1>0, <1>4, <3>1, FinishTypes DEF Invalidate, j
    <3>2. CASE j.todo # {i}
      <4>1. job' = [job EXCEPT ![p] = WithTodo(j, j.todo \ {i})] /\ pc' = pc
        BY <1>4, <3>2 DEF Invalidate, j
      <4>2. /\ WithTodo(j, j.todo \ {i}) \in Job
            /\ WithTodo(j, j.todo \ {i}).todo = j.todo \ {i}
            /\ WithTodo(j, j.todo \ {i}).rows = j.rows
        BY <1>0, <1>b, TodoTypes DEF j
      <4> QED
        BY <1>0, <1>b, <4>1, <4>2 DEF RequestsOK, j
    <3> QED
      BY <3>1, <3>2
  <2> QED
    BY <1>4, <2>4, <2>6, <2>7 DEF Invalidate, TypeOK, RequestsOK, Pcs, stored
<1>5. CASE EditFindSubject(p)
  <2>1. RequestsOK'
    BY <1>0, <1>5, FinishTypes, GotoTypes DEF EditFindSubject, Pcs, EditPc
  <2> QED
    BY <1>5, <1>a, <2>1 DEF EditFindSubject
<1>6. CASE EditCheck(p)
  <2>1. RequestsOK'
    BY <1>0, <1>6, FinishTypes, GotoTypes DEF EditCheck, Pcs, EditPc
  <2> QED
    BY <1>6, <1>a, <2>1 DEF EditCheck
<1>7. CASE EditUpdate(p)
  <2>1. /\ record' = [record EXCEPT ![j.session][j.rows[1].student] =
                        Edited(record[j.session][j.rows[1].student],
                               j.rows[1].status, j.faculty)]
        /\ pc' = [pc EXCEPT ![p] = "invalidate"]
        /\ job' = [job EXCEPT ![p] = WithTodo(j, {1})]
    BY <1>7 DEF EditUpdate, j
  <2>2. DOMAIN j.rows = {1}
    BY <1>7 DEF EditUpdate, TypeOK, EditPc, j
  <2>3. j.rows[1].student \in Student /\ j.rows[1].status \in Marks
    BY <1>b, <2>2, RowTypes
  <2>4. record[j.session][j.rows[1].student] \in RecordDoc
    BY <1>b, <2>3 DEF TypeOK
  <2>5. record' \in [Session -> [Student -> RecordDoc]]
    BY <1>b, <1>c, <2>1, <2>3, <2>4, EditedType DEF TypeOK
  <2>6. "invalidate" \in Pcs /\ "invalidate" \notin EditPc
    BY DEF Pcs, EditPc
  <2>7. RequestsOK'
    BY <1>0, <1>d, <2>1, <2>2, <2>6, MoveTypes
  <2> QED
    BY <1>7, <2>5, <2>7 DEF EditUpdate, TypeOK, RequestsOK, Pcs
<1>8. CASE LockWrite(p)
  <2>1. \/ session' = [session EXCEPT ![j.session] = WithLock(session[j.session])]
        \/ session' = session
    BY <1>8 DEF LockWrite, j
  <2>2. session[j.session] \in SessionDoc
    BY <1>b DEF TypeOK
  <2>3. session' \in [Session -> SessionDoc]
    BY <1>b, <1>c, <2>1, <2>2, WithLockType DEF TypeOK
  <2>4. RequestsOK'
    BY <1>0, <1>8, FinishTypes DEF LockWrite
  <2> QED
    BY <1>8, <2>3, <2>4 DEF LockWrite, TypeOK, RequestsOK, Pcs
<1> QED
  BY <1>1, <1>2, <1>3, <1>4, <1>5, <1>6, <1>7, <1>8 DEF Proceed, j

\* New requests, and what changes the subjects and the clock.
LEMMA ArriveTypeOK ==
    ASSUME TypeOK, Arrive PROVE TypeOK'
<1>0. RequestsOK
  BY DEF TypeOK, RequestsOK, Pcs
<1>a. ASSUME RequestsOK', UNCHANGED <<stored, pct, calc, nightly, now>>
      PROVE  TypeOK'
  BY <1>a DEF TypeOK, RequestsOK, Pcs, stored
<1>b. ASSUME NEW f \in Faculty, NEW s \in Session, NEW rows \in Seq(Row), NEW n \in Nat
      PROVE  /\ NewJob(f, s, rows, n) \in Job
             /\ NewJob(f, s, rows, n).todo = {}
             /\ NewJob(f, s, rows, n).rows = rows
  BY DEF NewJob, Job
<1>1. ASSUME NEW p \in Proc, NEW f \in Faculty, NEW s \in Session,
             NEW rows \in Rosters, MarkFindSubject(p, f, s, rows)
      PROVE  TypeOK'
  <2>1. rows \in Seq(Row) /\ 0 \in Nat
    BY EngineAssumption
  <2>2. "markSession" \in Pcs /\ "markSession" \notin EditPc
    BY DEF Pcs, MarkPc, EditPc
  <2>3. RequestsOK'
    BY <1>0, <1>1, <1>b, <2>1, <2>2, MoveTypes DEF MarkFindSubject
  <2> QED
    BY <1>1, <1>a, <2>3 DEF MarkFindSubject
<1>2. ASSUME NEW p \in Proc, NEW f \in Faculty, NEW s \in Session,
             NEW st \in Student, NEW m \in Marks, EditFindRecord(p, f, s, st, m)
      PROVE  TypeOK'
  <2> DEFINE rows == <<[student |-> st, status |-> m]>>
  <2>1. rows \in Seq(Row) /\ DOMAIN rows = {1}
    <3>1. [student |-> st, status |-> m] \in Row
      BY DEF Row
    <3> QED
      BY <3>1
  <2>2. record[s][st].markedAt \in Nat
    <3>1. record[s][st] \in RecordDoc
      BY DEF TypeOK
    <3> QED
      BY <3>1, EngineAssumption DEF RecordDoc, Time
  <2>3. "editSubject" \in Pcs
    BY DEF Pcs, EditPc
  <2>4. /\ pc' = [pc EXCEPT ![p] = "editSubject"]
        /\ job' = [job EXCEPT ![p] = NewJob(f, s, rows, record[s][st].markedAt)]
    BY <1>2 DEF EditFindRecord
  <2> DEFINE new == NewJob(f, s, rows, record[s][st].markedAt)
  <2> HIDE DEF rows
  <2>5. new \in Job /\ new.todo = {} /\ DOMAIN new.rows = {1}
    BY <1>b, <2>1, <2>2
  <2>6. pc' = [pc EXCEPT ![p] = "editSubject"] /\ job' = [job EXCEPT ![p] = new]
    BY <2>4
  <2> HIDE DEF new
  <2>7. new.todo \subseteq DOMAIN new.rows
    BY <2>5
  <2>8. RequestsOK'
    BY <1>0, <2>3, <2>5, <2>6, <2>7, MoveTypes
  <2> QED
    BY <1>2, <1>a, <2>8 DEF EditFindRecord
<1>3. ASSUME NEW p \in Proc, NEW f \in Faculty, NEW s \in Session, LockFindSession(p, f, s)
      PROVE  TypeOK'
  <2>1. session[s].version \in Nat /\ <<>> \in Seq(Row)
    BY DEF TypeOK, SessionDoc
  <2>2. "lockWrite" \in Pcs /\ "lockWrite" \notin EditPc
    BY DEF Pcs, EditPc
  <2>3. RequestsOK'
    BY <1>0, <1>3, <1>b, <2>1, <2>2, MoveTypes DEF LockFindSession
  <2> QED
    BY <1>3, <1>a, <2>3 DEF LockFindSession
<1>4. ASSUME NEW st \in Student, NEW sub \in Subject, ReadPercentage(st, sub)
      PROVE  TypeOK'
  <2>1. calc' \in [Worker -> Calc]
    BY <1>4, StartCalcTypes DEF ReadPercentage, TypeOK
  <2> QED
    BY <1>4, <2>1 DEF ReadPercentage, TypeOK, stored, requests
<1>5. ASSUME NEW f \in Faculty, NEW sub \in Subject,
             AssignFaculty(f, sub) \/ RemoveFaculty(f, sub)
      PROVE  TypeOK'
  <2>1. assigned' \in [Subject -> SUBSET Faculty]
    BY <1>5 DEF AssignFaculty, RemoveFaculty, TypeOK
  <2> QED
    BY <1>5, <2>1 DEF AssignFaculty, RemoveFaculty, TypeOK, requests
<1>6. ASSUME NEW sub \in Subject, DeactivateSubject(sub) PROVE TypeOK'
  <2>1. active' \in [Subject -> BOOLEAN]
    BY <1>6 DEF DeactivateSubject, TypeOK
  <2> QED
    BY <1>6, <2>1 DEF DeactivateSubject, TypeOK, requests
<1>7. CASE NightlyStart
  <2>1. nightly' \subseteq Student \X Subject
    BY <1>7 DEF NightlyStart
  <2> QED
    BY <1>7, <2>1 DEF NightlyStart, TypeOK, stored, requests
<1>8. CASE Tick
  <2>1. now' \in 1 .. MaxTime
    BY <1>8, EngineAssumption DEF Tick, TypeOK
  <2> QED
    BY <1>8, <2>1 DEF Tick, TypeOK, stored, requests
<1> QED
  BY <1>1, <1>2, <1>3, <1>4, <1>5, <1>6, <1>7, <1>8 DEF Arrive

\* A worker's step.
LEMMA CalculateTypeOK ==
    ASSUME TypeOK, NEW w \in Worker, Calculate(w) PROVE TypeOK'
<1> DEFINE c == calc[w]
<1>0. c \in Calc /\ c.student \in Student /\ c.subject \in Subject
      /\ c.attended \in Nat /\ c.total \in Nat
  BY DEF TypeOK, Calc
<1>a. ASSUME NEW d \in Calc, calc' = [calc EXCEPT ![w] = d],
             UNCHANGED <<stored, pct, requests, nightly, now>>
      PROVE  TypeOK'
  <2>1. calc' \in [Worker -> Calc]
    BY <1>a DEF TypeOK
  <2> QED
    BY <1>a, <2>1 DEF TypeOK, stored, requests
<1> HIDE DEF c
<1>1. CASE CalcGet(w)
  <2>1. [c EXCEPT !.pc = "aggregate"] \in Calc
    BY <1>0 DEF Calc
  <2>2. \/ calc' = [calc EXCEPT ![w] = IdleCalc]
        \/ calc' = [calc EXCEPT ![w] = [c EXCEPT !.pc = "aggregate"]]
    BY <1>1 DEF CalcGet, c
  <2> QED
    BY <1>1, <1>a, <2>1, <2>2, IdleTypes DEF CalcGet
<1>2. CASE CalcAggregate(w)
  <2> DEFINE sum == Aggregate(c.student, c.subject)
  <2>1. sum.attended \in Nat /\ sum.total \in Nat
    BY AggregateBounds
  <2>2. calc' = [calc EXCEPT ![w] = WithSum(c, sum)]
    BY <1>2 DEF CalcAggregate, c
  <2> HIDE DEF sum
  <2>3. WithSum(c, sum) \in Calc
    BY <1>0, <2>1 DEF WithSum, Calc
  <2> QED
    BY <1>2, <1>a, <2>2, <2>3 DEF CalcAggregate
<1>3. CASE CalcSet(w)
  <2> DEFINE e == [hit |-> TRUE, attended |-> c.attended, total |-> c.total]
  <2>1. e \in CacheEntry
    BY <1>0 DEF CacheEntry
  <2>2. pct' = [pct EXCEPT ![c.student][c.subject] = e] \/ pct' = pct
    BY <1>3 DEF CalcSet, c
  <2> HIDE DEF e
  <2>3. pct' \in [Student -> [Subject -> CacheEntry]]
    BY <1>0, <2>1, <2>2, PctType DEF TypeOK
  <2>4. calc' \in [Worker -> Calc]
    BY <1>3, IdleTypes DEF CalcSet, TypeOK
  <2> QED
    BY <1>3, <2>3, <2>4 DEF CalcSet, TypeOK, stored, requests
<1> QED
  BY <1>1, <1>2, <1>3 DEF Calculate

LEMMA FaultTypeOK ==
    ASSUME TypeOK, Fault PROVE TypeOK'
<1>0. RequestsOK
  BY DEF TypeOK, RequestsOK, Pcs
<1>1. ASSUME NEW p \in Proc, DbError(p) PROVE TypeOK'
  <2>1. RequestsOK'
    BY <1>0, <1>1, FinishTypes DEF DbError
  <2> QED
    BY <1>1, <2>1 DEF DbError, TypeOK, RequestsOK, Pcs, stored
<1>2. ASSUME NEW w \in Worker, CalcError(w) PROVE TypeOK'
  <2>1. calc' \in [Worker -> Calc]
    BY <1>2, IdleTypes DEF CalcError, TypeOK
  <2> QED
    BY <1>2, <2>1 DEF CalcError, TypeOK, stored, requests
<1>3. CASE Crash
  <2>1. /\ pc' = [p \in Proc |-> "idle"] /\ job' = [p \in Proc |-> IdleJob]
        /\ calc' = [w \in Worker |-> IdleCalc] /\ nightly' = {}
    BY <1>3 DEF Crash
  <2>2. RequestsOK'
    BY <2>1, IdleTypes DEF RequestsOK, Pcs, EditPc
  <2>3. calc' \in [Worker -> Calc]
    BY <2>1, IdleTypes
  <2> QED
    BY <1>3, <2>1, <2>2, <2>3 DEF Crash, TypeOK, RequestsOK, Pcs, stored
<1> QED
  BY <1>1, <1>2, <1>3 DEF Fault

LEMMA NextTypeOK == TypeOK /\ [Next]_vars => TypeOK'
<1> SUFFICES ASSUME TypeOK, [Next]_vars PROVE TypeOK'
  OBVIOUS
<1>1. CASE Arrive
  BY <1>1, ArriveTypeOK
<1>2. ASSUME NEW p \in Proc, Proceed(p) PROVE TypeOK'
  BY <1>2, ProceedTypeOK
<1>3. ASSUME NEW w \in Worker, Calculate(w) PROVE TypeOK'
  BY <1>3, CalculateTypeOK
<1>4. ASSUME NEW st \in Student, NEW sub \in Subject, CacheExpire(st, sub) PROVE TypeOK'
  <2>1. Miss \in CacheEntry
    BY DEF Miss, CacheEntry
  <2>2. pct' \in [Student -> [Subject -> CacheEntry]]
    BY <1>4, <2>1, PctType DEF CacheExpire, TypeOK
  <2> QED
    BY <1>4, <2>2 DEF CacheExpire, TypeOK, stored, requests
<1>5. ASSUME NEW q \in nightly, NightlyCalc(q) PROVE TypeOK'
  <2>1. q[1] \in Student /\ q[2] \in Subject /\ nightly' \subseteq Student \X Subject
    BY <1>5 DEF NightlyCalc, TypeOK
  <2>2. calc' \in [Worker -> Calc]
    BY <1>5, <2>1, StartCalcTypes DEF NightlyCalc, TypeOK
  <2> QED
    BY <1>5, <2>1, <2>2 DEF NightlyCalc, TypeOK, stored, requests
<1>6. CASE Fault
  BY <1>6, FaultTypeOK
<1>7. CASE UNCHANGED vars
  BY <1>7 DEF vars, TypeOK
<1> QED
  BY <1>1, <1>2, <1>3, <1>4, <1>5, <1>6, <1>7 DEF Next

\* Type correctness of the engine: in particular the rows a handler has still
\* to write or invalidate are rows of the request.
THEOREM TypeCorrect == Spec => []TypeOK
  BY InitTypeOK, NextTypeOK, PTL DEF Spec

-----------------------------------------------------------------------------
(* Which steps touch sessions and records                                  *)

\* Only the upsert of a mark and a lock write sessions; only the bulkWrite of
\* a mark and an edit write records.
LEMMA Writers ==
    ASSUME [Next]_vars
    PROVE  /\ \/ session' = session
              \/ \E p \in Proc : MarkUpsertSession(p) \/ LockWrite(p)
           /\ \/ record' = record
              \/ \E p \in Proc : \/ EditUpdate(p)
                                \/ \E i \in job[p].todo : MarkWriteRecord(p, i)
<1> DEFINE Kept == session' = session /\ record' = record
<1>1. CASE Arrive
  <2>1. Kept
    BY <1>1 DEF Arrive, MarkFindSubject, EditFindRecord, LockFindSession,
                ReadPercentage, AssignFaculty, RemoveFaculty, DeactivateSubject,
                NightlyStart, Tick, stored
  <2> QED
    BY <2>1
<1>2. ASSUME NEW p \in Proc, Proceed(p)
      PROVE  /\ session' = session \/ MarkUpsertSession(p) \/ LockWrite(p)
             /\ \/ record' = record \/ EditUpdate(p)
                \/ \E i \in job[p].todo : MarkWriteRecord(p, i)
  <2>1. CASE MarkReadSession(p) \/ EditFindSubject(p) \/ EditCheck(p)
    BY <2>1 DEF MarkReadSession, EditFindSubject, EditCheck, stored
  <2>2. CASE MarkUpsertSession(p)
    BY <2>2 DEF MarkUpsertSession
  <2>3. ASSUME NEW i \in job[p].todo, MarkWriteRecord(p, i) \/ Invalidate(p, i)
        PROVE  session' = session /\ (record' = record \/ MarkWriteRecord(p, i))
    BY <2>3 DEF MarkWriteRecord, Invalidate, stored
  <2>4. CASE EditUpdate(p)
    BY <2>4 DEF EditUpdate
  <2>5. CASE LockWrite(p)
    BY <2>5 DEF LockWrite
  <2> QED
    BY <1>2, <2>1, <2>2, <2>3, <2>4, <2>5 DEF Proceed
<1>3. ASSUME NEW w \in Worker, Calculate(w) PROVE Kept
  BY <1>3 DEF Calculate, CalcGet, CalcAggregate, CalcSet, stored
<1>4. ASSUME NEW st \in Student, NEW sub \in Subject, CacheExpire(st, sub) PROVE Kept
  BY <1>4 DEF CacheExpire, stored
<1>5. ASSUME NEW q \in nightly, NightlyCalc(q) PROVE Kept
  BY <1>5 DEF NightlyCalc, stored
<1>6. CASE Fault
  <2>1. Kept
    BY <1>6 DEF Fault, DbError, CalcError, Crash, stored
  <2> QED
    BY <2>1
<1>7. CASE UNCHANGED vars
  BY <1>7 DEF vars
<1> QED
  BY <1>1, <1>2, <1>3, <1>4, <1>5, <1>6, <1>7 DEF Next

-----------------------------------------------------------------------------
(* Locks                                                                   *)

\* A lock is final: the upsert of a request that read the session before the
\* lock, and a second locker, leave isLocked, lockedAt and __v alone.
LEMMA LockStep ==
    ASSUME TypeOK, [Next]_vars, NEW s \in Session, Locked(s)
    PROVE  /\ Locked(s)'
           /\ session'[s].lockedAt = session[s].lockedAt
           /\ session'[s].version = session[s].version
<1>0. session \in [Session -> SessionDoc]
  BY DEF TypeOK
<1>1. CASE session' = session
  BY <1>1 DEF Locked
<1>2. ASSUME NEW p \in Proc, MarkUpsertSession(p)
      PROVE  session'[s] = session[s] \/ session'[s] = Upserted(session[s], job[p])
  BY <1>0, <1>2 DEF MarkUpsertSession
<1>3. ASSUME NEW p \in Proc, LockWrite(p) PROVE session'[s] = session[s]
  BY <1>0, <1>3 DEF LockWrite, Locked
<1>4. ASSUME NEW j
      PROVE  /\ Upserted(session[s], j).state = "locked"
             /\ Upserted(session[s], j).lockedAt = session[s].lockedAt
             /\ Upserted(session[s], j).version = session[s].version
  <2>1. session[s] \in SessionDoc /\ session[s].state = "locked"
    BY <1>0 DEF Locked
  <2> QED
    BY <2>1 DEF Upserted, SessionDoc
<1> QED
  BY <1>1, <1>2, <1>3, <1>4, Writers DEF Locked

THEOREM LocksAreFinal == Spec => LockIsFinal
<1>1. TypeOK /\ [Next]_vars
      => [\A s \in Session : Locked(s) =>
             /\ Locked(s)'
             /\ session'[s].lockedAt = session[s].lockedAt
             /\ session'[s].version = session[s].version]_vars
  BY LockStep
<1> QED
  BY <1>1, TypeCorrect, PTL DEF Spec, LockIsFinal

-----------------------------------------------------------------------------
(* Records                                                                 *)

\* A record changes only by a request that is writing to its session, and
\* then it has a mark.
LEMMA RecordStep ==
    ASSUME TypeOK, [Next]_vars, NEW s \in Session, NEW st \in Student,
           record'[s][st] # record[s][st]
    PROVE  /\ record'[s][st].status \in Marks
           /\ \E p \in Proc : /\ pc[p] \in {"markWrite", "editUpdate"}
                              /\ job[p].session = s
<1>0. /\ record \in [Session -> [Student -> RecordDoc]]
      /\ \A p \in Proc : job[p].session \in Session /\ job[p].rows \in Seq(Row)
      /\ \A p \in Proc : job[p].todo \subseteq DOMAIN job[p].rows
  BY DEF TypeOK, Job
<1>1. ASSUME NEW x \in Session, NEW y \in Student, NEW doc,
             record' = [record EXCEPT ![x][y] = doc]
      PROVE  x = s /\ record'[s][st] = doc
  BY <1>0, <1>1
<1>2. ASSUME NEW p \in Proc, NEW i \in job[p].todo, MarkWriteRecord(p, i)
      PROVE  /\ record'[s][st].status \in Marks
             /\ pc[p] = "markWrite" /\ job[p].session = s
  <2> DEFINE x == job[p].session
             y == job[p].rows[i].student
             m == job[p].rows[i].status
  <2>1. pc[p] = "markWrite" /\ record' = [record EXCEPT ![x][y] = Marked(record[x][y], m)]
    BY <1>2 DEF MarkWriteRecord
  <2>2. x \in Session /\ y \in Student /\ m \in Marks
    BY <1>0, RowTypes
  <2>3. record[x][y] \in RecordDoc
    BY <1>0, <2>2
  <2> HIDE DEF x, y, m
  <2>4. x = s /\ record'[s][st] = Marked(record[x][y], m)
    BY <1>1, <2>1, <2>2
  <2>5. Marked(record[x][y], m).status = m
    BY <2>3 DEF Marked, RecordDoc
  <2> QED
    BY <2>1, <2>2, <2>4, <2>5 DEF x
<1>3. ASSUME NEW p \in Proc, EditUpdate(p)
      PROVE  /\ record'[s][st].status \in Marks
             /\ pc[p] = "editUpdate" /\ job[p].session = s
  <2> DEFINE x == job[p].session
             y == job[p].rows[1].student
             m == job[p].rows[1].status
             f == job[p].faculty
  <2>1. pc[p] = "editUpdate" /\ record' = [record EXCEPT ![x][y] = Edited(record[x][y], m, f)]
    BY <1>3 DEF EditUpdate
  <2>2. x \in Session /\ y \in Student /\ m \in Marks
    <3>1. DOMAIN job[p].rows = {1}
      BY <2>1 DEF TypeOK, EditPc
    <3> QED
      BY <1>0, <3>1, RowTypes
  <2>3. record[x][y] \in RecordDoc
    BY <1>0, <2>2
  <2> HIDE DEF x, y, m, f
  <2>4. x = s /\ record'[s][st] = Edited(record[x][y], m, f)
    BY <1>1, <2>1, <2>2
  <2>5. Edited(record[x][y], m, f).status = m
    BY <2>3 DEF Edited, RecordDoc
  <2> QED
    BY <2>1, <2>2, <2>4, <2>5 DEF x
<1> QED
  BY <1>2, <1>3, Writers

\* Records and sessions are never deleted.
LEMMA NothingDeleted ==
    ASSUME TypeOK, [Next]_vars, NEW s \in Session
    PROVE  /\ \A st \in Student : Exists(s, st) => record'[s][st].status # "none"
           /\ session[s].state # "absent" => session'[s].state # "absent"
<1>1. ASSUME NEW st \in Student, Exists(s, st) PROVE record'[s][st].status # "none"
  <2>1. "none" \notin Marks
    BY DEF Marks
  <2> QED
    BY <1>1, <2>1, RecordStep DEF Exists
<1>2. ASSUME session[s].state # "absent" PROVE session'[s].state # "absent"
  <2>0. session \in [Session -> SessionDoc] /\ session[s] \in SessionDoc
    BY DEF TypeOK
  <2>1. ASSUME NEW p \in Proc, MarkUpsertSession(p)
        PROVE  session'[s] = session[s] \/ session'[s] = Upserted(session[s], job[p])
    BY <2>0, <2>1 DEF MarkUpsertSession
  <2>2. ASSUME NEW p \in Proc, LockWrite(p)
        PROVE  session'[s] = session[s] \/ session'[s] = WithLock(session[s])
    BY <2>0, <2>2 DEF LockWrite
  <2>3. WithLock(session[s]).state = "locked"
    BY <2>0 DEF WithLock, SessionDoc
  <2>4. ASSUME NEW j PROVE Upserted(session[s], j).state # "absent"
    BY <1>2, <2>0 DEF Upserted, SessionDoc
  <2> QED
    BY <1>2, <2>1, <2>2, <2>3, <2>4, Writers
<1> QED
  BY <1>1, <1>2

-----------------------------------------------------------------------------
(* Admission of requests to a session                                      *)

Still(q) == pc'[q] = pc[q] /\ job'[q] = job[q]
Over(q) == pc'[q] = "idle" /\ job'[q] = IdleJob
Arrives(q) ==
    \E f \in Faculty, s \in Session :
        \/ \E rows \in Rosters : MarkFindSubject(q, f, s, rows)
        \/ \E st \in Student, m \in Marks : EditFindRecord(q, f, s, st, m)
        \/ LockFindSession(q, f, s)

\* A step of one request leaves the others alone.
LEMMA OthersStill ==
    ASSUME TypeOK, NEW p \in Proc, Proceed(p), NEW q \in Proc, p # q
    PROVE  Still(q)
<1>0. pc \in [Proc -> Pcs] /\ job \in [Proc -> Job]
  BY DEF TypeOK, Pcs
<1>a. ASSUME NEW l, pc' = [pc EXCEPT ![p] = l] PROVE pc'[q] = pc[q]
  BY <1>0, <1>a
<1>b. ASSUME NEW j, job' = [job EXCEPT ![p] = j] PROVE job'[q] = job[q]
  BY <1>0, <1>b
<1>1. CASE MarkReadSession(p) \/ EditFindSubject(p) \/ EditCheck(p) \/ LockWrite(p)
  BY <1>1, <1>a, <1>b
  DEF MarkReadSession, EditFindSubject, EditCheck, LockWrite, Finish, Goto, Still
<1>2. CASE MarkUpsertSession(p) \/ EditUpdate(p)
  BY <1>2, <1>a, <1>b DEF MarkUpsertSession, EditUpdate, Still
<1>3. ASSUME NEW i \in job[p].todo, MarkWriteRecord(p, i) \/ Invalidate(p, i)
      PROVE  Still(q)
  <2>1. CASE job[p].todo = {i}
    BY <1>3, <2>1, <1>a, <1>b DEF MarkWriteRecord, Invalidate, Finish, Still
  <2>2. CASE job[p].todo # {i}
    BY <1>3, <2>2, <1>a, <1>b DEF MarkWriteRecord, Invalidate, Still
  <2> QED
    BY <2>1, <2>2
<1> QED
  BY <1>1, <1>2, <1>3 DEF Proceed

\* A request moves by a step of its own, or because of a failure.
LEMMA Movers ==
    ASSUME TypeOK, [Next]_vars, NEW q \in Proc
    PROVE  Still(q) \/ Over(q) \/ Arrives(q) \/ Proceed(q)
<1>0. pc \in [Proc -> Pcs] /\ job \in [Proc -> Job]
  BY DEF TypeOK, Pcs
<1>a. ASSUME NEW p \in Proc, p # q, NEW l, pc' = [pc EXCEPT ![p] = l]
      PROVE  pc'[q] = pc[q]
  BY <1>0, <1>a
<1>b. ASSUME NEW p \in Proc, p # q, NEW j, job' = [job EXCEPT ![p] = j]
      PROVE  job'[q] = job[q]
  BY <1>0, <1>b
<1>1. CASE Arrive
  <2>1. CASE requests' = requests
    BY <2>1 DEF requests, Still
  <2>2. ASSUME NEW p \in Proc, Arrives(p), p # q PROVE Still(q)
    BY <2>2, <1>a, <1>b DEF Arrives, MarkFindSubject, EditFindRecord,
       LockFindSession, Still
  <2>3. requests' = requests \/ \E p \in Proc : Arrives(p)
    BY <1>1 DEF Arrive, ReadPercentage, AssignFaculty, RemoveFaculty,
       DeactivateSubject, NightlyStart, Tick, requests, Arrives
  <2> QED
    BY <2>1, <2>2, <2>3
<1>2. ASSUME NEW p \in Proc, Proceed(p), p # q PROVE Still(q)
  BY <1>2, OthersStill
<1>3. ASSUME NEW w \in Worker, Calculate(w) PROVE Still(q)
  BY <1>3 DEF Calculate, CalcGet, CalcAggregate, CalcSet, requests, Still
<1>4. ASSUME NEW st \in Student, NEW sub \in Subject, CacheExpire(st, sub) PROVE Still(q)
  BY <1>4 DEF CacheExpire, requests, Still
<1>5. ASSUME NEW r \in nightly, NightlyCalc(r) PROVE Still(q)
  BY <1>5 DEF NightlyCalc, requests, Still
<1>6. CASE Fault
  <2>1. ASSUME NEW p \in Proc, DbError(p) PROVE Still(q) \/ Over(q)
    <3>1. CASE p = q
      BY <1>0, <2>1, <3>1 DEF DbError, Finish, Over
    <3>2. CASE p # q
      BY <2>1, <3>2, <1>a, <1>b DEF DbError, Finish, Still
    <3> QED
      BY <3>1, <3>2
  <2>2. ASSUME NEW w \in Worker, CalcError(w) PROVE Still(q)
    BY <2>2 DEF CalcError, requests, Still
  <2>3. CASE Crash
    BY <2>3 DEF Crash, Over
  <2> QED
    BY <1>6, <2>1, <2>2, <2>3 DEF Fault
<1>7. CASE UNCHANGED vars
  BY <1>7 DEF vars, Still
<1> QED
  BY <1>1, <1>2, <1>3, <1>4, <1>5, <1>6, <1>7 DEF Next

\* A request is admitted to a session only by a check that finds it unlocked.
LEMMA Admission ==
    ASSUME TypeOK, [Next]_vars, NEW s \in Session, NEW p \in Admitted(s)',
           p \notin Admitted(s)
    PROVE  /\ ~ Locked(s) /\ job[p].session = s
           /\ MarkReadSession(p) \/ EditCheck(p)
<1>0. /\ p \in Proc /\ pc'[p] \in {"markUpsert", "markWrite", "editUpdate"}
      /\ job'[p].session = s
      /\ pc \in [Proc -> Pcs] /\ job \in [Proc -> Job]
  BY DEF Admitted, TypeOK, Pcs
<1>1. CASE Still(p)
  BY <1>0, <1>1 DEF Admitted, Still
<1>2. CASE Over(p)
  BY <1>0, <1>2 DEF Over
<1>3. CASE Arrives(p)
  BY <1>0, <1>3 DEF Arrives, MarkFindSubject, EditFindRecord, LockFindSession
<1>4. CASE Proceed(p)
  <2>1. CASE MarkReadSession(p) \/ EditCheck(p)
    BY <1>0, <2>1 DEF MarkReadSession, EditCheck, Finish, Goto
  <2>2. CASE EditFindSubject(p) \/ EditUpdate(p) \/ LockWrite(p)
    BY <1>0, <2>2 DEF EditFindSubject, EditUpdate, LockWrite, Finish, Goto
  <2>3. ASSUME NEW T PROVE WithTodo(job[p], T).session = job[p].session
    BY <1>0 DEF WithTodo, Job
  <2>4. CASE MarkUpsertSession(p)
    BY <1>0, <2>3, <2>4 DEF MarkUpsertSession, Admitted
  <2>5. ASSUME NEW i \in job[p].todo, MarkWriteRecord(p, i) PROVE FALSE
    BY <1>0, <2>3, <2>5 DEF MarkWriteRecord, Admitted
  <2>6. ASSUME NEW i \in job[p].todo, Invalidate(p, i) PROVE FALSE
    BY <1>0, <2>6 DEF Invalidate, Finish
  <2> QED
    BY <1>4, <2>1, <2>2, <2>4, <2>5, <2>6 DEF Proceed
<1> QED
  BY <1>0, <1>1, <1>2, <1>3, <1>4, Movers

\* Once the admitted requests are gone a locked session is frozen.
LEMMA DrainedStep ==
    ASSUME TypeOK, [Next]_vars, NEW s \in Session, Locked(s), Admitted(s) = {}
    PROVE  /\ Admitted(s)' = {}
           /\ session'[s] = session[s]
           /\ record'[s] = record[s]
<1>1. Admitted(s)' = {}
  BY Admission
<1>2. session'[s] = session[s]
  <2>0. session \in [Session -> SessionDoc]
    BY DEF TypeOK
  <2>1. ASSUME NEW p \in Proc, MarkUpsertSession(p) PROVE session'[s] = session[s]
    BY <2>0, <2>1 DEF MarkUpsertSession, Admitted
  <2>2. ASSUME NEW p \in Proc, LockWrite(p) PROVE session'[s] = session[s]
    BY <2>0, <2>2 DEF LockWrite, Locked
  <2> QED
    BY <2>1, <2>2, Writers
<1>3. record'[s] = record[s]
  <2>1. \A st \in Student : record'[s][st] = record[s][st]
    BY RecordStep DEF Admitted
  <2>2. record[s] \in [Student -> RecordDoc] /\ record'[s] \in [Student -> RecordDoc]
    BY NextTypeOK DEF TypeOK
  <2> QED
    BY <2>1, <2>2
<1> QED
  BY <1>1, <1>2, <1>3

\* A locked session whose admitted requests are gone keeps its document and
\* its records for ever: no handler reaches them past the lock check.
THEOREM DrainedLocksAreFrozen == Spec => DrainedLockIsFrozen
<1>1. TypeOK /\ [Next]_vars
      => [\A s \in Session : Locked(s) /\ Admitted(s) = {} =>
             /\ Admitted(s)' = {}
             /\ session'[s] = session[s]
             /\ record'[s] = record[s]]_vars
  BY DrainedStep
<1> QED
  BY <1>1, TypeCorrect, PTL DEF Spec, DrainedLockIsFrozen

-----------------------------------------------------------------------------
(* Sessions and records belong together                                    *)

\* Where a request stands, what it has read and written exists.
Known(p) ==
    /\ pc[p] \in {"markWrite", "lockWrite"} =>
          session[job[p].session].state # "absent"
    /\ pc[p] = "markWrite" =>
          \A i \in DOMAIN job[p].rows \ job[p].todo :
              Exists(job[p].session, job[p].rows[i].student)
    /\ pc[p] \in EditPc => Exists(job[p].session, job[p].rows[1].student)
    /\ pc[p] = "invalidate" =>
          \A i \in DOMAIN job[p].rows :
              Exists(job[p].session, job[p].rows[i].student)

\* The inductive invariant of the three properties about records.
RecordsInv ==
    TypeOK /\ RecordsHaveSession /\ RequestsKnowTheirRecords /\ AnsweredRowsExist

LEMMA KnownParts ==
    (\A p \in Proc : Known(p)) <=> RequestsKnowTheirRecords /\ AnsweredRowsExist
  BY DEF Known, RequestsKnowTheirRecords, AnsweredRowsExist

LEMMA InitRecordsInv == Init => RecordsInv
<1> SUFFICES ASSUME Init PROVE RecordsInv
  OBVIOUS
<1>1. \A s \in Session, st \in Student : ~ Exists(s, st)
  BY DEF Init, Exists, NoRecord
<1>2. RecordsHaveSession
  BY <1>1 DEF RecordsHaveSession
<1>3. \A p \in Proc : Known(p)
  BY DEF Init, Known, EditPc
<1> QED
  BY <1>2, <1>3, InitTypeOK, KnownParts DEF RecordsInv

\* A record is created by a request that knows its session.
LEMMA RecordsHaveSessionStep ==
    ASSUME RecordsInv, [Next]_vars PROVE RecordsHaveSession'
<1>0. TypeOK /\ RecordsHaveSession /\ RequestsKnowTheirRecords
  BY DEF RecordsInv
<1> SUFFICES ASSUME NEW s \in Session, NEW st \in Student, Exists(s, st)'
             PROVE  session'[s].state # "absent"
  BY DEF RecordsHaveSession
<1>1. CASE Exists(s, st)
  BY <1>0, <1>1, NothingDeleted DEF RecordsHaveSession
<1>2. CASE ~ Exists(s, st)
  <2>1. PICK p \in Proc : pc[p] \in {"markWrite", "editUpdate"} /\ job[p].session = s
    BY <1>0, <1>2, RecordStep DEF Exists
  <2>2. CASE pc[p] = "markWrite"
    BY <1>0, <2>1, <2>2, NothingDeleted DEF RequestsKnowTheirRecords
  <2>3. CASE pc[p] = "editUpdate"
    <3>1. DOMAIN job[p].rows = {1} /\ job[p].rows \in Seq(Row)
      BY <1>0, <2>3 DEF TypeOK, EditPc, Job
    <3>2. job[p].rows[1].student \in Student
      BY <3>1, RowTypes
    <3>3. Exists(s, job[p].rows[1].student)
      BY <1>0, <2>1, <2>3 DEF RequestsKnowTheirRecords, EditPc
    <3> QED
      BY <1>0, <3>2, <3>3, NothingDeleted DEF RecordsHaveSession
  <2> QED
    BY <2>1, <2>2, <2>3
<1> QED
  BY <1>1, <1>2

\* A request whose own locals do not change keeps what it knows.
LEMMA StillKnown ==
    ASSUME TypeOK, [Next]_vars, NEW p \in Proc, Known(p), Still(p)
    PROVE  Known(p)'
<1>0. job[p].session \in Session /\ job[p].rows \in Seq(Row)
  BY DEF TypeOK, Job
<1>1. \A i \in DOMAIN job[p].rows : job[p].rows[i].student \in Student
  BY <1>0, RowTypes
<1>2. pc[p] \in EditPc => 1 \in DOMAIN job[p].rows
  BY DEF TypeOK
<1>3. ASSUME NEW st \in Student, Exists(job[p].session, st)
      PROVE  record'[job'[p].session][st].status # "none"
  BY <1>0, <1>3, NothingDeleted DEF Still
<1>4. session[job[p].session].state # "absent"
      => session'[job'[p].session].state # "absent"
  BY <1>0, NothingDeleted DEF Still
<1> QED
  BY <1>1, <1>2, <1>3, <1>4 DEF Known, Still, Exists

\* A new request knows what it has just read.
LEMMA ArrivesKnown ==
    ASSUME TypeOK, NEW p \in Proc, Arrives(p) PROVE Known(p)'
<1>0. pc \in [Proc -> Pcs] /\ job \in [Proc -> Job]
  BY DEF TypeOK, Pcs
<1> PICK f \in Faculty, s \in Session :
       \/ \E rows \in Rosters : MarkFindSubject(p, f, s, rows)
       \/ \E st \in Student, m \in Marks : EditFindRecord(p, f, s, st, m)
       \/ LockFindSession(p, f, s)
  BY DEF Arrives
<1>1. ASSUME NEW rows \in Rosters, MarkFindSubject(p, f, s, rows) PROVE Known(p)'
  <2>1. pc'[p] = "markSession"
    BY <1>0, <1>1 DEF MarkFindSubject
  <2> QED
    BY <2>1 DEF Known, EditPc
<1>2. ASSUME NEW st \in Student, NEW m \in Marks, EditFindRecord(p, f, s, st, m)
      PROVE  Known(p)'
  <2>1. /\ pc'[p] = "editSubject"
        /\ job'[p] = NewJob(f, s, <<[student |-> st, status |-> m]>>,
                            record[s][st].markedAt)
        /\ Exists(s, st) /\ record' = record
    BY <1>0, <1>2 DEF EditFindRecord, stored
  <2>2. job'[p].session = s /\ job'[p].rows[1].student = st
    BY <2>1 DEF NewJob
  <2> QED
    BY <2>1, <2>2 DEF Known, Exists
<1>3. CASE LockFindSession(p, f, s)
  <2>1. /\ pc'[p] = "lockWrite" /\ job'[p] = NewJob(f, s, <<>>, session[s].version)
        /\ session[s].state = "open" /\ session' = session
    BY <1>0, <1>3 DEF LockFindSession, stored
  <2>2. job'[p].session = s
    BY <2>1 DEF NewJob
  <2> QED
    BY <2>1, <2>2 DEF Known, EditPc
<1> QED
  BY <1>1, <1>2, <1>3

\* A request that writes learns what it has written.
LEMMA ProceedKnown ==
    ASSUME TypeOK, [Next]_vars, NEW p \in Proc, Known(p), Proceed(p)
    PROVE  Known(p)'
<1> DEFINE j == job[p]
<1>0. /\ pc \in [Proc -> Pcs] /\ job \in [Proc -> Job]
      /\ session \in [Session -> SessionDoc]
      /\ j.session \in Session /\ j.rows \in Seq(Row) /\ j.todo \subseteq DOMAIN j.rows
  BY DEF TypeOK, Pcs, Job
<1>1. ASSUME pc'[p] \in {"idle", "markSession", "markUpsert"} PROVE Known(p)'
  BY <1>1 DEF Known, EditPc
<1>2. ASSUME NEW T
      PROVE  /\ WithTodo(j, T).session = j.session
             /\ WithTodo(j, T).rows = j.rows /\ WithTodo(j, T).todo = T
  BY <1>0 DEF WithTodo, Job
<1>3. \A i \in DOMAIN j.rows : j.rows[i].student \in Student
  BY <1>0, RowTypes
<1>4. CASE MarkReadSession(p)
  BY <1>0, <1>1, <1>4 DEF MarkReadSession, Finish, Goto
<1>5. CASE MarkUpsertSession(p)
  <2>1. /\ session' = [session EXCEPT ![j.session] = Upserted(session[j.session], j)]
        /\ pc'[p] = "markWrite" /\ job'[p] = WithTodo(j, DOMAIN j.rows)
    BY <1>0, <1>5 DEF MarkUpsertSession
  <2>2. session'[j.session] = Upserted(session[j.session], j)
    BY <1>0, <2>1
  <2>3. session[j.session] \in SessionDoc
    BY <1>0
  <2>4. Upserted(session[j.session], j).state # "absent"
    BY <2>3 DEF Upserted, SessionDoc
  <2> QED
    BY <1>2, <2>1, <2>2, <2>4 DEF Known, EditPc
<1>6. ASSUME NEW i \in j.todo, MarkWriteRecord(p, i) PROVE Known(p)'
  <2>1. /\ pc[p] = "markWrite"
        /\ record' = [record EXCEPT ![j.session][j.rows[i].student] =
                        Marked(record[j.session][j.rows[i].student], j.rows[i].status)]
    BY <1>6 DEF MarkWriteRecord
  <2>2. record'[j.session][j.rows[i].student].status # "none"
    <3> DEFINE x == j.session
               y == j.rows[i].student
               m == j.rows[i].status
    <3>1. x \in Session /\ y \in Student /\ m \in Marks
      BY <1>0, RowTypes
    <3>2. record[x][y] \in RecordDoc /\ record \in [Session -> [Student -> RecordDoc]]
      BY <3>1 DEF TypeOK
    <3>3. record' = [record EXCEPT ![x][y] = Marked(record[x][y], m)]
      BY <2>1
    <3> HIDE DEF x, y, m
    <3>4. record'[x][y] = Marked(record[x][y], m)
      BY <3>1, <3>2, <3>3
    <3>5. Marked(record[x][y], m).status = m /\ m # "none"
      BY <3>1, <3>2 DEF Marked, RecordDoc, Marks
    <3> QED
      BY <3>4, <3>5 DEF x, y
  <2>3. \A k \in DOMAIN j.rows \ j.todo :
          record'[j.session][j.rows[k].student].status # "none"
    BY <1>0, <1>3, <2>1, NothingDeleted DEF Known
  <2>4. session'[j.session].state # "absent"
    BY <1>0, <2>1, NothingDeleted DEF Known
  <2>5. CASE j.todo = {i}
    <3>1. pc'[p] = "invalidate" /\ job'[p] = WithTodo(j, DOMAIN j.rows)
      BY <1>0, <1>6, <2>5 DEF MarkWriteRecord
    <3>2. job'[p].session = j.session /\ job'[p].rows = j.rows
      BY <1>2, <3>1
    <3>3. \A k \in DOMAIN j.rows : record'[j.session][j.rows[k].student].status # "none"
      BY <2>2, <2>3, <2>5
    <3> QED
      BY <3>1, <3>2, <3>3 DEF Known, EditPc, Exists
  <2>6. CASE j.todo # {i}
    <3>1. pc'[p] = "markWrite" /\ job'[p] = WithTodo(j, j.todo \ {i})
      BY <1>0, <1>6, <2>6, <2>1 DEF MarkWriteRecord
    <3>2. /\ job'[p].session = j.session /\ job'[p].rows = j.rows
          /\ job'[p].todo = j.todo \ {i}
      BY <1>2, <3>1
    <3>3. \A k \in DOMAIN j.rows \ (j.todo \ {i}) :
             record'[j.session][j.rows[k].student].status # "none"
      BY <2>2, <2>3
    <3> QED
      BY <2>4, <3>1, <3>2, <3>3 DEF Known, EditPc, Exists
  <2> QED
    BY <2>5, <2>6
<1>7. ASSUME NEW i \in j.todo, Invalidate(p, i) PROVE Known(p)'
  <2>1. CASE j.todo = {i}
    BY <1>0, <1>1, <1>7, <2>1 DEF Invalidate, Finish
  <2>2. CASE j.todo # {i}
    <3>1. /\ pc'[p] = "invalidate" /\ pc[p] = "invalidate"
          /\ job'[p] = WithTodo(j, j.todo \ {i}) /\ record' = record
      BY <1>0, <1>7, <2>2 DEF Invalidate, stored
    <3>2. job'[p].session = j.session /\ job'[p].rows = j.rows
      BY <1>2, <3>1
    <3> QED
      BY <3>1, <3>2 DEF Known, EditPc, Exists
  <2> QED
    BY <2>1, <2>2
<1>8. CASE EditFindSubject(p) \/ EditCheck(p)
  <2>1. CASE pc'[p] = "idle"
    BY <1>1, <2>1
  <2>2. CASE pc'[p] # "idle"
    BY <1>0, <1>8, <2>2 DEF EditFindSubject, EditCheck, Finish, Goto, Known,
       EditPc, Exists, stored
  <2> QED
    BY <2>1, <2>2
<1>9. CASE EditUpdate(p)
  <2>1. /\ pc[p] = "editUpdate" /\ pc'[p] = "invalidate" /\ job'[p] = WithTodo(j, {1})
    BY <1>0, <1>9 DEF EditUpdate
  <2>2. DOMAIN j.rows = {1} /\ Exists(j.session, j.rows[1].student)
    BY <2>1 DEF TypeOK, Known, EditPc
  <2>3. record'[j.session][j.rows[1].student].status # "none"
    BY <1>0, <1>3, <2>2, NothingDeleted
  <2>4. job'[p].session = j.session /\ job'[p].rows = j.rows
    BY <1>2, <2>1
  <2> QED
    BY <2>1, <2>2, <2>3, <2>4 DEF Known, EditPc, Exists
<1>10. CASE LockWrite(p)
  BY <1>0, <1>1, <1>10 DEF LockWrite, Finish
<1> QED
  BY <1>4, <1>5, <1>6, <1>7, <1>8, <1>9, <1>10 DEF Proceed

LEMMA NextRecordsInv == RecordsInv /\ [Next]_vars => RecordsInv'
<1> SUFFICES ASSUME RecordsInv, [Next]_vars PROVE RecordsInv'
  OBVIOUS
<1>1. TypeOK /\ \A p \in Proc : Known(p)
  BY KnownParts DEF RecordsInv
<1>2. ASSUME NEW p \in Proc PROVE Known(p)'
  <2>1. CASE Over(p)
    BY <2>1 DEF Over, Known, EditPc
  <2> QED
    BY <1>1, <2>1, Movers, StillKnown, ArrivesKnown, ProceedKnown
<1>3. (RequestsKnowTheirRecords /\ AnsweredRowsExist)'
  BY <1>2 DEF Known, RequestsKnowTheirRecords, AnsweredRowsExist
<1> QED
  BY <1>1, <1>3, NextTypeOK, RecordsHaveSessionStep DEF RecordsInv

\* No record without its session, although the two are written by separate
\* commands between which the handler can fail, crash or be overtaken.
THEOREM RecordsAlwaysHaveSession == Spec => []RecordsHaveSession
<1>1. RecordsInv => RecordsHaveSession
  BY DEF RecordsInv
<1> QED
  BY <1>1, InitRecordsInv, NextRecordsInv, PTL DEF Spec

\* A request that is about to answer has a record for every row it was sent.
THEOREM AnsweredRowsAlwaysExist == Spec => []AnsweredRowsExist
<1>1. RecordsInv => AnsweredRowsExist
  BY DEF RecordsInv
<1> QED
  BY <1>1, InitRecordsInv, NextRecordsInv, PTL DEF Spec

-----------------------------------------------------------------------------
(* Cached percentages                                                      *)

CacheInv == TypeOK /\ CacheNeverAhead /\ CalcNeverAhead

\* Sessions held with st in sub, as a function of the records alone.
TotalOf(records, st, sub) ==
    Cardinality({s \in Session : SubjectOf[s] = sub /\ records[s][st].status # "none"})

LEMMA InitCacheInv == Init => CacheInv
<1> SUFFICES ASSUME Init PROVE CacheInv
  OBVIOUS
<1>1. CacheNeverAhead
  BY DEF Init, CacheNeverAhead, Miss
<1>2. CalcNeverAhead
  BY IdleTypes DEF Init, CalcNeverAhead
<1> QED
  BY <1>1, <1>2, InitTypeOK DEF CacheInv

LEMMA CacheNeverAheadDef ==
    CacheNeverAhead <=>
        \A st \in Student, sub \in Subject : pct[st][sub].hit =>
            /\ pct[st][sub].attended <= pct[st][sub].total
            /\ pct[st][sub].total <= TotalOf(record, st, sub)
  BY DEF CacheNeverAhead, Aggregate, Held, Exists, TotalOf

LEMMA CalcNeverAheadDef ==
    CalcNeverAhead <=>
        \A w \in Worker : calc[w].pc = "set" =>
            /\ calc[w].attended <= calc[w].total
            /\ calc[w].total <= TotalOf(record, calc[w].student, calc[w].subject)
  BY DEF CalcNeverAhead, Aggregate, Held, Exists, TotalOf

\* Sessions held with a student never become fewer.
LEMMA TotalGrows ==
    ASSUME TypeOK, [Next]_vars, NEW st \in Student, NEW sub \in Subject
    PROVE  /\ TotalOf(record, st, sub) <= TotalOf(record', st, sub)
           /\ TotalOf(record, st, sub) \in Nat /\ TotalOf(record', st, sub) \in Nat
<1> DEFINE h == {s \in Session : SubjectOf[s] = sub /\ record[s][st].status # "none"}
           k == {s \in Session : SubjectOf[s] = sub /\ record'[s][st].status # "none"}
<1>1. h \subseteq k
  BY NothingDeleted DEF Exists
<1>2. IsFiniteSet(k)
  BY FS_Subset, EngineAssumption
<1>3. IsFiniteSet(h) /\ Cardinality(h) <= Cardinality(k)
  BY <1>1, <1>2, FS_Subset
<1>4. Cardinality(h) \in Nat /\ Cardinality(k) \in Nat
  BY <1>2, <1>3, FS_CardinalityType
<1> QED
  BY <1>3, <1>4 DEF TotalOf

\* A cache entry changes to a miss or to the result of a calculation.
LEMMA CacheStep ==
    ASSUME TypeOK, [Next]_vars, NEW st \in Student, NEW sub \in Subject
    PROVE  \/ pct'[st][sub] = pct[st][sub]
           \/ ~ pct'[st][sub].hit
           \/ \E w \in Worker :
                /\ calc[w].pc = "set" /\ calc[w].student = st /\ calc[w].subject = sub
                /\ pct'[st][sub].attended = calc[w].attended
                /\ pct'[st][sub].total = calc[w].total
<1>0. pct \in [Student -> [Subject -> CacheEntry]]
  BY DEF TypeOK
<1>a. ASSUME NEW x, NEW y, pct' = [pct EXCEPT ![x][y] = Miss]
      PROVE  pct'[st][sub] = pct[st][sub] \/ ~ pct'[st][sub].hit
  BY <1>0, <1>a DEF Miss
<1>1. CASE Arrive
  <2>1. pct' = pct
    BY <1>1 DEF Arrive, MarkFindSubject, EditFindRecord, LockFindSession,
                ReadPercentage, AssignFaculty, RemoveFaculty, DeactivateSubject,
                NightlyStart, Tick
  <2> QED
    BY <2>1
<1>2. ASSUME NEW p \in Proc, Proceed(p)
      PROVE  pct'[st][sub] = pct[st][sub] \/ ~ pct'[st][sub].hit
  <2>1. CASE \/ MarkReadSession(p) \/ MarkUpsertSession(p) \/ EditFindSubject(p)
             \/ EditCheck(p) \/ EditUpdate(p) \/ LockWrite(p)
    BY <2>1 DEF MarkReadSession, MarkUpsertSession, EditFindSubject, EditCheck,
       EditUpdate, LockWrite
  <2>2. ASSUME NEW i \in job[p].todo, MarkWriteRecord(p, i) PROVE pct' = pct
    BY <2>2 DEF MarkWriteRecord
  <2>3. ASSUME NEW i \in job[p].todo, Invalidate(p, i)
        PROVE  pct'[st][sub] = pct[st][sub] \/ ~ pct'[st][sub].hit
    BY <2>3, <1>a DEF Invalidate
  <2> QED
    BY <1>2, <2>1, <2>2, <2>3 DEF Proceed
<1>3. ASSUME NEW w \in Worker, CalcGet(w) \/ CalcAggregate(w) PROVE pct' = pct
  BY <1>3 DEF CalcGet, CalcAggregate
<1>4. ASSUME NEW w \in Worker, CalcSet(w)
      PROVE  \/ pct'[st][sub] = pct[st][sub]
             \/ /\ calc[w].pc = "set" /\ calc[w].student = st /\ calc[w].subject = sub
                /\ pct'[st][sub].attended = calc[w].attended
                /\ pct'[st][sub].total = calc[w].total
  BY <1>0, <1>4 DEF CalcSet
<1>5. ASSUME NEW x \in Student, NEW y \in Subject, CacheExpire(x, y)
      PROVE  pct'[st][sub] = pct[st][sub] \/ ~ pct'[st][sub].hit
  BY <1>5, <1>a DEF CacheExpire
<1>6. ASSUME NEW q \in nightly, NightlyCalc(q) PROVE pct' = pct
  BY <1>6 DEF NightlyCalc
<1>7. CASE Fault
  <2>1. pct' = pct
    BY <1>7 DEF Fault, DbError, CalcError, Crash
  <2> QED
    BY <2>1
<1>8. CASE UNCHANGED vars
  BY <1>8 DEF vars
<1> QED
  BY <1>1, <1>2, <1>3, <1>4, <1>5, <1>6, <1>7, <1>8 DEF Next, Calculate

\* A result about to be stored was so before, or has just been computed.
LEMMA CalcStep ==
    ASSUME TypeOK, [Next]_vars, NEW w \in Worker, calc'[w].pc = "set"
    PROVE  \/ calc'[w] = calc[w]
           \/ /\ calc'[w] = WithSum(calc[w], Aggregate(calc[w].student, calc[w].subject))
              /\ record' = record
<1>0. calc \in [Worker -> Calc]
  BY DEF TypeOK
<1>a. ASSUME NEW st, NEW sub, NEW b, StartCalc(st, sub, b) PROVE calc'[w] = calc[w]
  <2>1. NewCalc(st, sub, b).pc # "set"
    BY DEF NewCalc
  <2> QED
    BY <1>0, <1>a, <2>1 DEF StartCalc
<1>1. CASE Arrive
  <2>1. calc' = calc \/ \E st \in Student, sub \in Subject : StartCalc(st, sub, FALSE)
    BY <1>1 DEF Arrive, MarkFindSubject, EditFindRecord, LockFindSession,
                ReadPercentage, AssignFaculty, RemoveFaculty, DeactivateSubject,
                NightlyStart, Tick
  <2> QED
    BY <1>a, <2>1
<1>2. ASSUME NEW p \in Proc, Proceed(p) PROVE calc'[w] = calc[w]
  <2>1. CASE \/ MarkReadSession(p) \/ MarkUpsertSession(p) \/ EditFindSubject(p)
             \/ EditCheck(p) \/ EditUpdate(p) \/ LockWrite(p)
    BY <2>1 DEF MarkReadSession, MarkUpsertSession, EditFindSubject, EditCheck,
       EditUpdate, LockWrite
  <2>2. ASSUME NEW i \in job[p].todo, MarkWriteRecord(p, i) PROVE calc' = calc
    BY <2>2 DEF MarkWriteRecord
  <2>3. ASSUME NEW i \in job[p].todo, Invalidate(p, i) PROVE calc'[w] = calc[w]
    BY <2>3, <1>a DEF Invalidate
  <2> QED
    BY <1>2, <2>1, <2>2, <2>3 DEF Proceed
<1>3. ASSUME NEW v \in Worker, CalcGet(v) PROVE calc'[w] = calc[w]
  <2>1. calc[v] \in Calc
    BY <1>0
  <2>2. [calc[v] EXCEPT !.pc = "aggregate"].pc # "set" /\ IdleCalc.pc # "set"
    BY <2>1, IdleTypes DEF Calc
  <2> QED
    BY <1>0, <1>3, <2>2 DEF CalcGet
<1>4. ASSUME NEW v \in Worker, CalcAggregate(v)
      PROVE  \/ calc'[w] = calc[w]
             \/ /\ calc'[w] = WithSum(calc[w], Aggregate(calc[w].student, calc[w].subject))
                /\ record' = record
  BY <1>0, <1>4 DEF CalcAggregate, stored
<1>5. ASSUME NEW v \in Worker, CalcSet(v) PROVE calc'[w] = calc[w]
  BY <1>0, <1>5, IdleTypes DEF CalcSet
<1>6. ASSUME NEW x \in Student, NEW y \in Subject, CacheExpire(x, y) PROVE calc' = calc
  BY <1>6 DEF CacheExpire
<1>7. ASSUME NEW q \in nightly, NightlyCalc(q) PROVE calc'[w] = calc[w]
  BY <1>7, <1>a DEF NightlyCalc
<1>8. CASE Fault
  <2>1. ASSUME NEW p \in Proc, DbError(p) PROVE calc' = calc
    BY <2>1 DEF DbError
  <2>2. ASSUME NEW v \in Worker, CalcError(v) PROVE calc'[w] = calc[w]
    BY <1>0, <2>2, IdleTypes DEF CalcError
  <2>3. CASE Crash
    BY <2>3, IdleTypes DEF Crash
  <2> QED
    BY <1>8, <2>1, <2>2, <2>3 DEF Fault
<1>9. CASE UNCHANGED vars
  BY <1>9 DEF vars
<1> QED
  BY <1>1, <1>2, <1>3, <1>4, <1>5, <1>6, <1>7, <1>8, <1>9 DEF Next, Calculate

LEMMA NextCacheInv == CacheInv /\ [Next]_vars => CacheInv'
<1> SUFFICES ASSUME CacheInv, [Next]_vars PROVE CacheInv'
  OBVIOUS
<1>0. TypeOK /\ CacheNeverAhead /\ CalcNeverAhead /\ TypeOK'
  BY NextTypeOK DEF CacheInv
<1>a. ASSUME NEW st \in Student, NEW sub \in Subject, NEW a \in Nat, NEW t \in Nat,
             a <= t /\ t <= TotalOf(record, st, sub)
      PROVE  a <= t /\ t <= TotalOf(record', st, sub)
  BY <1>0, <1>a, TotalGrows
<1>b. ASSUME NEW w \in Worker
      PROVE  /\ calc[w].student \in Student /\ calc[w].subject \in Subject
             /\ calc[w].attended \in Nat /\ calc[w].total \in Nat /\ calc[w] \in Calc
  BY <1>0 DEF TypeOK, Calc
<1>1. ASSUME NEW st \in Student, NEW sub \in Subject, pct'[st][sub].hit
      PROVE  /\ pct'[st][sub].attended <= pct'[st][sub].total
             /\ pct'[st][sub].total <= TotalOf(record', st, sub)
  <2>1. pct[st][sub] \in CacheEntry
    BY <1>0 DEF TypeOK
  <2>2. CASE pct'[st][sub] = pct[st][sub]
    <3>1. /\ pct[st][sub].attended <= pct[st][sub].total
          /\ pct[st][sub].total <= TotalOf(record, st, sub)
      BY <1>0, <1>1, <2>2, CacheNeverAheadDef
    <3>2. pct[st][sub].attended \in Nat /\ pct[st][sub].total \in Nat
      BY <2>1 DEF CacheEntry
    <3> QED
      BY <1>a, <2>2, <3>1, <3>2
  <2>3. ASSUME NEW w \in Worker, calc[w].pc = "set",
               calc[w].student = st, calc[w].subject = sub,
               pct'[st][sub].attended = calc[w].attended,
               pct'[st][sub].total = calc[w].total
        PROVE  /\ pct'[st][sub].attended <= pct'[st][sub].total
               /\ pct'[st][sub].total <= TotalOf(record', st, sub)
    <3>1. /\ calc[w].attended <= calc[w].total
          /\ calc[w].total <= TotalOf(record, st, sub)
      BY <1>0, <2>3, CalcNeverAheadDef
    <3> QED
      BY <1>a, <1>b, <2>3, <3>1
  <2> QED
    BY <1>0, <1>1, <2>2, <2>3, CacheStep
<1>2. ASSUME NEW w \in Worker, calc'[w].pc = "set"
      PROVE  /\ calc'[w].attended <= calc'[w].total
             /\ calc'[w].total <= TotalOf(record', calc'[w].student, calc'[w].subject)
  <2>1. CASE calc'[w] = calc[w]
    <3>1. /\ calc[w].attended <= calc[w].total
          /\ calc[w].total <= TotalOf(record, calc[w].student, calc[w].subject)
      BY <1>0, <1>2, <2>1, CalcNeverAheadDef
    <3> QED
      BY <1>a, <1>b, <2>1, <3>1
  <2>2. ASSUME calc'[w] = WithSum(calc[w], Aggregate(calc[w].student, calc[w].subject)),
               record' = record
        PROVE  /\ calc'[w].attended <= calc'[w].total
               /\ calc'[w].total <= TotalOf(record', calc'[w].student, calc'[w].subject)
    <3> DEFINE st == calc[w].student
               sub == calc[w].subject
               sum == Aggregate(st, sub)
    <3>1. /\ sum.attended \in Nat /\ sum.total \in Nat /\ sum.attended <= sum.total
          /\ sum.total = TotalOf(record, st, sub)
      BY AggregateBounds DEF Aggregate, Held, Exists, TotalOf
    <3>2. calc'[w] = WithSum(calc[w], sum)
      BY <2>2
    <3> HIDE DEF sum
    <3>3. /\ calc'[w].attended = sum.attended /\ calc'[w].total = sum.total
          /\ calc'[w].student = st /\ calc'[w].subject = sub
      BY <1>b, <3>2 DEF WithSum, Calc
    <3> QED
      BY <2>2, <3>1, <3>3
  <2> QED
    BY <1>0, <1>2, <2>1, <2>2, CalcStep
<1>3. CacheNeverAhead' /\ CalcNeverAhead'
  BY <1>1, <1>2, CacheNeverAheadDef, CalcNeverAheadDef
  DEF CacheNeverAhead, CalcNeverAhead, Aggregate, Held, Exists, TotalOf
<1> QED
  BY <1>0, <1>3 DEF CacheInv

\* The cache is never ahead of the records, whatever calculations race with
\* marks, edits, expiry and each other, and whatever Redis loses.
THEOREM CacheIsNeverAhead == Spec => []CacheNeverAhead
<1>1. CacheInv => CacheNeverAhead
  BY DEF CacheInv
<1> QED
  BY <1>1, InitCacheInv, NextCacheInv, PTL DEF Spec

-----------------------------------------------------------------------------
(* The engine implements the ledger: under the refinement mapping of       *)
(* AttendanceEngine every step of a handler, a failure or a crash is a     *)
(* step of AttendanceLedger or leaves the ledger as it is.                 *)

\* The refinement mapping of AttendanceEngine, by name.
PhaseBar == [s \in Session |-> session[s].state]
AdmittedBar == [s \in Session |-> Admitted(s)]
MarksBar == [s \in Session |-> [st \in Student |-> record[s][st].status]]

AdmittedPc == {"markUpsert", "markWrite", "editUpdate"}

-----------------------------------------------------------------------------
(* How a step changes the admitted requests                                *)

\* A request stays admitted as long as it has something to write.
LEMMA StaysAdmitted ==
    ASSUME TypeOK, [Next]_vars, NEW s \in Session, NEW p \in Admitted(s),
           pc'[p] \in AdmittedPc
    PROVE  p \in Admitted(s)'
<1>0. /\ p \in Proc /\ pc[p] \in AdmittedPc /\ job[p].session = s
      /\ pc \in [Proc -> Pcs] /\ job \in [Proc -> Job]
  BY DEF Admitted, AdmittedPc, TypeOK, Pcs
<1>1. CASE Still(p)
  BY <1>0, <1>1 DEF Still, Admitted, AdmittedPc
<1>2. CASE Over(p)
  BY <1>2 DEF Over, AdmittedPc
<1>3. CASE Arrives(p)
  BY <1>0, <1>3 DEF Arrives, MarkFindSubject, EditFindRecord, LockFindSession, AdmittedPc
<1>4. CASE Proceed(p)
  <2>1. ASSUME NEW T PROVE WithTodo(job[p], T).session = job[p].session
    BY <1>0 DEF WithTodo, Job
  <2>2. CASE MarkUpsertSession(p)
    BY <1>0, <2>1, <2>2 DEF MarkUpsertSession, Admitted
  <2>3. ASSUME NEW i \in job[p].todo, MarkWriteRecord(p, i) PROVE job'[p].session = s
    BY <1>0, <2>1, <2>3 DEF MarkWriteRecord
  <2>4. ASSUME NEW i \in job[p].todo, Invalidate(p, i) PROVE FALSE
    BY <1>0, <2>4 DEF Invalidate, AdmittedPc
  <2>5. CASE EditUpdate(p)
    BY <1>0, <2>5 DEF EditUpdate, AdmittedPc
  <2>6. CASE MarkReadSession(p) \/ EditFindSubject(p) \/ EditCheck(p) \/ LockWrite(p)
    BY <1>0, <2>6 DEF MarkReadSession, EditFindSubject, EditCheck, LockWrite, AdmittedPc
  <2>7. job'[p].session = s
    BY <1>4, <2>2, <2>3, <2>4, <2>5, <2>6 DEF Proceed, Admitted
  <2> QED
    BY <1>0, <2>7 DEF Admitted, AdmittedPc
<1> QED
  BY <1>0, <1>1, <1>2, <1>3, <1>4, Movers

\* A step of a request changes its own admission only, and that of its own
\* session.
LEMMA OthersAdmitted ==
    ASSUME TypeOK, NEW p \in Proc, Proceed(p), NEW s \in Session, NEW q \in Proc, q # p
    PROVE  q \in Admitted(s)' <=> q \in Admitted(s)
  BY OthersStill DEF Still, Admitted

\* With no lock check passed, requests can only leave.
LEMMA OnlyLeave ==
    ASSUME TypeOK, [Next]_vars,
           \A p \in Proc : MarkReadSession(p) \/ EditCheck(p) => pc'[p] = "idle"
    PROVE  \A s \in Session :
              Admitted(s)' = Admitted(s) \ {p \in Proc : pc'[p] \notin AdmittedPc}
<1> SUFFICES ASSUME NEW s \in Session
             PROVE  Admitted(s)' = Admitted(s) \ {p \in Proc : pc'[p] \notin AdmittedPc}
  OBVIOUS
<1>1. ASSUME NEW p \in Admitted(s)' PROVE p \in Admitted(s) /\ pc'[p] \in AdmittedPc
  <2>1. p \in Proc /\ pc'[p] \in AdmittedPc
    BY <1>1 DEF Admitted, AdmittedPc
  <2> QED
    BY <1>1, <2>1, Admission DEF AdmittedPc
<1>2. ASSUME NEW p \in Admitted(s), pc'[p] \in AdmittedPc PROVE p \in Admitted(s)'
  BY <1>2, StaysAdmitted
<1>3. Admitted(s) \subseteq Proc
  BY DEF Admitted
<1> QED
  BY <1>1, <1>2, <1>3

\* How the admitted requests change when p takes a step.
LEMMA MoveAdmitted ==
    ASSUME TypeOK, NEW p \in Proc, Proceed(p), NEW x \in Session,
           job[p].session = x, pc'[p] \in AdmittedPc => job'[p].session = x
    PROVE  /\ (pc[p] \in AdmittedPc <=> pc'[p] \in AdmittedPc)
              => AdmittedBar' = AdmittedBar
           /\ pc[p] \in AdmittedPc /\ pc'[p] \notin AdmittedPc
              => AdmittedBar' = [AdmittedBar EXCEPT ![x] = @ \ {p}]
           /\ pc[p] \notin AdmittedPc /\ pc'[p] \in AdmittedPc
              => AdmittedBar' = [AdmittedBar EXCEPT ![x] = @ \union {p}]
<1>1. \A s \in Session : Admitted(s) \subseteq Proc /\ Admitted(s)' \subseteq Proc
  BY DEF Admitted
<1>2. \A s \in Session : p \in Admitted(s) <=> s = x /\ pc[p] \in AdmittedPc
  BY DEF Admitted, AdmittedPc
<1>3. \A s \in Session : p \in Admitted(s)' <=> s = x /\ pc'[p] \in AdmittedPc
  BY DEF Admitted, AdmittedPc
<1>4. \A s \in Session, q \in Proc : q # p => (q \in Admitted(s)' <=> q \in Admitted(s))
  BY OthersAdmitted
<1>5. ASSUME pc[p] \in AdmittedPc <=> pc'[p] \in AdmittedPc
      PROVE  \A s \in Session : Admitted(s)' = Admitted(s)
  BY <1>1, <1>2, <1>3, <1>4, <1>5
<1>6. ASSUME pc[p] \in AdmittedPc, pc'[p] \notin AdmittedPc
      PROVE  \A s \in Session :
                Admitted(s)' = IF s = x THEN Admitted(s) \ {p} ELSE Admitted(s)
  BY <1>1, <1>2, <1>3, <1>4, <1>6
<1>7. ASSUME pc[p] \notin AdmittedPc, pc'[p] \in AdmittedPc
      PROVE  \A s \in Session :
                Admitted(s)' = IF s = x THEN Admitted(s) \union {p} ELSE Admitted(s)
  <2> TAKE s \in Session
  <2>1. CASE s = x
    <3>1. p \in Admitted(s)' /\ p \notin Admitted(s)
      BY <1>2, <1>3, <1>7, <2>1
    <3>2. Admitted(s)' = Admitted(s) \union {p}
      BY <1>1, <1>4, <3>1
    <3> QED
      BY <2>1, <3>2
  <2>2. CASE s # x
    <3>1. p \notin Admitted(s)' /\ p \notin Admitted(s)
      BY <1>2, <1>3, <2>2
    <3>2. Admitted(s)' = Admitted(s)
      BY <1>1, <1>4, <3>1
    <3> QED
      BY <2>2, <3>2
  <2> QED
    BY <2>1, <2>2
<1> QED
  BY <1>5, <1>6, <1>7 DEF AdmittedBar

-----------------------------------------------------------------------------
(* The refinement                                                          *)

LEMMA LedgerInitHolds == Init => Ledger!LedgerInit
<1> SUFFICES ASSUME Init PROVE Ledger!LedgerInit
  OBVIOUS
<1>1. PhaseBar = [s \in Session |-> "absent"]
  BY DEF Init, PhaseBar, NoSession
<1>2. AdmittedBar = [s \in Session |-> {}]
  BY DEF Init, AdmittedBar, Admitted
<1>3. MarksBar = [s \in Session |-> [st \in Student |-> "none"]]
  BY DEF Init, MarksBar, NoRecord
<1> QED
  BY <1>1, <1>2, <1>3 DEF Ledger!LedgerInit, PhaseBar, AdmittedBar, MarksBar

\* The steps of the ledger in terms of the mapping.
LedgerStep == [Ledger!LedgerNext]_(Ledger!ledger)

LEMMA LedgerStutter ==
    ASSUME PhaseBar' = PhaseBar, AdmittedBar' = AdmittedBar, MarksBar' = MarksBar
    PROVE  LedgerStep
  BY DEF LedgerStep, Ledger!ledger, PhaseBar, AdmittedBar, MarksBar

LEMMA LedgerAdmit ==
    ASSUME NEW p \in Proc, NEW s \in Session, PhaseBar[s] # "locked",
           AdmittedBar' = [AdmittedBar EXCEPT ![s] = @ \union {p}],
           PhaseBar' = PhaseBar, MarksBar' = MarksBar
    PROVE  LedgerStep
<1>1. Ledger!Admit(p, s)
  BY DEF Ledger!Admit, PhaseBar, AdmittedBar, MarksBar
<1> QED
  BY <1>1 DEF LedgerStep, Ledger!LedgerNext

LEMMA LedgerOpen ==
    ASSUME NEW s \in Session, PhaseBar[s] = "absent", AdmittedBar[s] # {},
           PhaseBar' = [PhaseBar EXCEPT ![s] = "open"],
           AdmittedBar' = AdmittedBar, MarksBar' = MarksBar
    PROVE  LedgerStep
<1>1. Ledger!Open(s)
  BY DEF Ledger!Open, PhaseBar, AdmittedBar, MarksBar
<1> QED
  BY <1>1 DEF LedgerStep, Ledger!LedgerNext

LEMMA LedgerLock ==
    ASSUME NEW s \in Session, PhaseBar[s] = "open",
           PhaseBar' = [PhaseBar EXCEPT ![s] = "locked"],
           AdmittedBar' = AdmittedBar, MarksBar' = MarksBar
    PROVE  LedgerStep
<1>1. Ledger!Lock(s)
  BY DEF Ledger!Lock, PhaseBar, AdmittedBar, MarksBar
<1> QED
  BY <1>1 DEF LedgerStep, Ledger!LedgerNext

LEMMA LedgerMark ==
    ASSUME NEW p \in Proc, NEW s \in Session, NEW st \in Student, NEW m \in Marks,
           p \in AdmittedBar[s], PhaseBar[s] # "absent",
           MarksBar' = [MarksBar EXCEPT ![s][st] = m], PhaseBar' = PhaseBar,
           \/ AdmittedBar' = AdmittedBar
           \/ AdmittedBar' = [AdmittedBar EXCEPT ![s] = @ \ {p}]
    PROVE  LedgerStep
<1>1. Ledger!Mark(p, s, st, m)
  BY DEF Ledger!Mark, PhaseBar, AdmittedBar, MarksBar
<1> QED
  BY <1>1 DEF LedgerStep, Ledger!LedgerNext

LEMMA LedgerLeave ==
    ASSUME NEW gone \in SUBSET Proc,
           AdmittedBar' = [s \in Session |-> AdmittedBar[s] \ gone],
           PhaseBar' = PhaseBar, MarksBar' = MarksBar
    PROVE  LedgerStep
<1>1. Ledger!Leave(gone)
  BY DEF Ledger!Leave, PhaseBar, AdmittedBar, MarksBar
<1> QED
  BY <1>1 DEF LedgerStep, Ledger!LedgerNext

-----------------------------------------------------------------------------
(* Every step of the engine is a step of the ledger                        *)

\* Anything but a step of a handler: requests may fail, nothing is written.
LEMMA OutsideRefines ==
    ASSUME TypeOK, [Next]_vars, \A p \in Proc : ~ Proceed(p)
    PROVE  LedgerStep
<1> DEFINE gone == {p \in Proc : pc'[p] \notin AdmittedPc}
<1>1. \A p \in Proc : ~ MarkReadSession(p) /\ ~ EditCheck(p)
  BY DEF Proceed
<1>2. \A s \in Session : Admitted(s)' = Admitted(s) \ gone
  BY <1>1, OnlyLeave
<1>3. AdmittedBar' = [s \in Session |-> AdmittedBar[s] \ gone]
  BY <1>2 DEF AdmittedBar
<1>4. session' = session /\ record' = record
  BY Writers DEF Proceed
<1>5. PhaseBar' = PhaseBar /\ MarksBar' = MarksBar
  BY <1>4 DEF PhaseBar, MarksBar
<1>6. gone \in SUBSET Proc
  OBVIOUS
<1> HIDE DEF gone
<1> QED
  BY <1>3, <1>5, <1>6, LedgerLeave

\* The lock checks and the step that neither check nor write.
LEMMA ChecksRefine ==
    ASSUME TypeOK, NEW p \in Proc,
           \/ MarkReadSession(p) \/ EditFindSubject(p) \/ EditCheck(p)
           \/ \E i \in job[p].todo : Invalidate(p, i)
    PROVE  LedgerStep
<1> DEFINE x == job[p].session
<1>0. x \in Session /\ pc \in [Proc -> Pcs] /\ job \in [Proc -> Job]
  BY DEF TypeOK, Job, Pcs
<1>1. Proceed(p)
  BY DEF Proceed
<1>2. session' = session /\ record' = record
  BY DEF MarkReadSession, EditFindSubject, EditCheck, Invalidate, stored
<1>3. PhaseBar' = PhaseBar /\ MarksBar' = MarksBar
  BY <1>2 DEF PhaseBar, MarksBar
<1>4. pc[p] \notin AdmittedPc
  BY DEF MarkReadSession, EditFindSubject, EditCheck, Invalidate, AdmittedPc
<1>5. pc'[p] \in AdmittedPc => job'[p] = job[p] /\ ~ Locked(x)
  <2>1. CASE MarkReadSession(p) \/ EditFindSubject(p) \/ EditCheck(p)
    BY <1>0, <2>1 DEF MarkReadSession, EditFindSubject, EditCheck, Finish, Goto, AdmittedPc
  <2>2. ASSUME NEW i \in job[p].todo, Invalidate(p, i) PROVE pc'[p] \notin AdmittedPc
    BY <1>0, <2>2 DEF Invalidate, Finish, AdmittedPc
  <2> QED
    BY <2>1, <2>2
<1>6. pc'[p] \in AdmittedPc => job'[p].session = x
  BY <1>5
<1> HIDE DEF x
<1>7. CASE pc'[p] \in AdmittedPc
  <2>1. PhaseBar[x] # "locked"
    BY <1>0, <1>5, <1>7 DEF PhaseBar, Locked
  <2>2. AdmittedBar' = [AdmittedBar EXCEPT ![x] = @ \union {p}]
    BY <1>0, <1>1, <1>4, <1>6, <1>7, MoveAdmitted DEF x
  <2> QED
    BY <1>0, <1>3, <2>1, <2>2, LedgerAdmit
<1>8. CASE pc'[p] \notin AdmittedPc
  <2>1. AdmittedBar' = AdmittedBar
    BY <1>0, <1>1, <1>4, <1>6, <1>8, MoveAdmitted DEF x
  <2> QED
    BY <1>3, <2>1, LedgerStutter
<1> QED
  BY <1>7, <1>8

LEMMA UpsertRefines ==
    ASSUME TypeOK, NEW p \in Proc, MarkUpsertSession(p) PROVE LedgerStep
<1> DEFINE x == job[p].session
<1>0. /\ x \in Session /\ session \in [Session -> SessionDoc]
      /\ pc \in [Proc -> Pcs] /\ job \in [Proc -> Job]
  BY DEF TypeOK, Job, Pcs
<1>1. Proceed(p)
  BY DEF Proceed
<1>2. /\ pc[p] = "markUpsert" /\ pc'[p] = "markWrite" /\ record' = record
      /\ job'[p] = WithTodo(job[p], DOMAIN job[p].rows)
      /\ session' = [session EXCEPT ![x] = Upserted(session[x], job[p])]
  BY <1>0 DEF MarkUpsertSession
<1>3. job'[p].session = x
  BY <1>0, <1>2 DEF WithTodo, Job
<1>4. AdmittedBar' = AdmittedBar
  BY <1>0, <1>1, <1>2, <1>3, MoveAdmitted DEF AdmittedPc
<1>5. MarksBar' = MarksBar
  BY <1>2 DEF MarksBar
<1>6. Upserted(session[x], job[p]).state =
         IF session[x].state = "absent" THEN "open" ELSE session[x].state
  <2>1. session[x] \in SessionDoc
    BY <1>0
  <2> QED
    BY <2>1 DEF Upserted, SessionDoc
<1>7. p \in AdmittedBar[x]
  BY <1>0, <1>2 DEF AdmittedBar, Admitted
<1> HIDE DEF x
<1>8. CASE session[x].state = "absent"
  <2>1. PhaseBar[x] = "absent" /\ PhaseBar' = [PhaseBar EXCEPT ![x] = "open"]
    BY <1>0, <1>2, <1>6, <1>8 DEF PhaseBar
  <2> QED
    BY <1>0, <1>4, <1>5, <1>7, <2>1, LedgerOpen
<1>9. CASE session[x].state # "absent"
  <2>1. PhaseBar' = PhaseBar
    BY <1>0, <1>2, <1>6, <1>9 DEF PhaseBar
  <2> QED
    BY <1>4, <1>5, <2>1, LedgerStutter
<1> QED
  BY <1>8, <1>9

LEMMA LockRefines ==
    ASSUME RecordsInv, NEW p \in Proc, LockWrite(p) PROVE LedgerStep
<1> DEFINE x == job[p].session
<1>0. /\ x \in Session /\ session \in [Session -> SessionDoc] /\ TypeOK
      /\ pc \in [Proc -> Pcs] /\ job \in [Proc -> Job]
  BY DEF RecordsInv, TypeOK, Job, Pcs
<1>1. Proceed(p)
  BY DEF Proceed
<1>2. pc[p] = "lockWrite" /\ pc'[p] = "idle" /\ record' = record
  BY <1>0 DEF LockWrite, Finish
<1>3. AdmittedBar' = AdmittedBar
  BY <1>0, <1>1, <1>2, MoveAdmitted DEF AdmittedPc
<1>4. MarksBar' = MarksBar
  BY <1>2 DEF MarksBar
<1>5. session[x].state # "absent"
  BY <1>2 DEF RecordsInv, RequestsKnowTheirRecords
<1>6. CASE session[x].version = job[p].seen /\ ~ Locked(x)
  <2>1. session' = [session EXCEPT ![x] = WithLock(session[x])]
    BY <1>6 DEF LockWrite
  <2>2. session[x].state = "open" /\ WithLock(session[x]).state = "locked"
    <3>1. session[x] \in SessionDoc
      BY <1>0
    <3> QED
      BY <1>5, <1>6, <3>1 DEF Locked, WithLock, SessionDoc
  <2> HIDE DEF x
  <2>3. PhaseBar[x] = "open" /\ PhaseBar' = [PhaseBar EXCEPT ![x] = "locked"]
    BY <1>0, <2>1, <2>2 DEF PhaseBar
  <2> QED
    BY <1>0, <1>3, <1>4, <2>3, LedgerLock
<1>7. CASE ~ (session[x].version = job[p].seen /\ ~ Locked(x))
  <2>1. session' = session
    BY <1>7 DEF LockWrite
  <2>2. PhaseBar' = PhaseBar
    BY <2>1 DEF PhaseBar
  <2> QED
    BY <1>3, <1>4, <2>2, LedgerStutter
<1> QED
  BY <1>6, <1>7

\* One record is given a mark by an admitted request.
LEMMA WriteRefines ==
    ASSUME RecordsInv, NEW p \in Proc,
           EditUpdate(p) \/ \E i \in job[p].todo : MarkWriteRecord(p, i)
    PROVE  LedgerStep
<1> DEFINE x == job[p].session
<1>0. /\ x \in Session /\ TypeOK /\ job[p].rows \in Seq(Row)
      /\ pc \in [Proc -> Pcs] /\ job \in [Proc -> Job]
      /\ record \in [Session -> [Student -> RecordDoc]]
  BY DEF RecordsInv, TypeOK, Job, Pcs
<1>1. Proceed(p)
  BY DEF Proceed
<1>2. pc[p] \in AdmittedPc /\ session' = session
  BY DEF EditUpdate, MarkWriteRecord, AdmittedPc
<1>3. p \in AdmittedBar[x] /\ PhaseBar' = PhaseBar
  BY <1>0, <1>2 DEF AdmittedBar, Admitted, AdmittedPc, PhaseBar
<1>4. ASSUME NEW T PROVE WithTodo(job[p], T).session = x
  BY <1>0 DEF WithTodo, Job
<1>5. job'[p].session = x
  <2>1. CASE EditUpdate(p)
    BY <1>0, <1>4, <2>1 DEF EditUpdate
  <2>2. ASSUME NEW i \in job[p].todo, MarkWriteRecord(p, i)
        PROVE  \E T : job'[p] = WithTodo(job[p], T)
    <3>1. CASE job[p].todo = {i}
      BY <1>0, <2>2, <3>1 DEF MarkWriteRecord
    <3>2. CASE job[p].todo # {i}
      BY <1>0, <2>2, <3>2 DEF MarkWriteRecord
    <3> QED
      BY <3>1, <3>2
  <2> QED
    BY <1>4, <2>1, <2>2
<1>6. AdmittedBar' = AdmittedBar \/ AdmittedBar' = [AdmittedBar EXCEPT ![x] = @ \ {p}]
  BY <1>0, <1>1, <1>2, <1>5, MoveAdmitted
<1>7. \E st \in Student, m \in Marks :
         MarksBar' = [MarksBar EXCEPT ![x][st] = m]
  <2>1. ASSUME NEW st \in Student, NEW m \in Marks, NEW doc,
               doc.status = m, record' = [record EXCEPT ![x][st] = doc]
        PROVE  MarksBar' = [MarksBar EXCEPT ![x][st] = m]
    BY <1>0, <2>1 DEF MarksBar
  <2>2. ASSUME NEW i \in job[p].todo, MarkWriteRecord(p, i)
        PROVE  \E st \in Student, m \in Marks :
                  MarksBar' = [MarksBar EXCEPT ![x][st] = m]
    <3> DEFINE st == job[p].rows[i].student
               m == job[p].rows[i].status
    <3>1. i \in DOMAIN job[p].rows
      BY <1>0 DEF TypeOK
    <3>2. st \in Student /\ m \in Marks
      BY <1>0, <3>1, RowTypes
    <3>3. record[x][st] \in RecordDoc
      BY <1>0, <3>2
    <3>4. record' = [record EXCEPT ![x][st] = Marked(record[x][st], m)]
      BY <2>2 DEF MarkWriteRecord
    <3>5. Marked(record[x][st], m).status = m
      BY <3>3 DEF Marked, RecordDoc
    <3> HIDE DEF st, m, x
    <3>6. MarksBar' = [MarksBar EXCEPT ![x][st] = m]
      BY <2>1, <3>2, <3>4, <3>5
    <3> QED
      BY <3>2, <3>6
  <2>3. CASE EditUpdate(p)
    <3> DEFINE st == job[p].rows[1].student
               m == job[p].rows[1].status
    <3>1. 1 \in DOMAIN job[p].rows
      BY <1>0, <2>3 DEF EditUpdate, TypeOK, EditPc
    <3>2. st \in Student /\ m \in Marks
      BY <1>0, <3>1, RowTypes
    <3>3. record[x][st] \in RecordDoc
      BY <1>0, <3>2
    <3>4. record' = [record EXCEPT ![x][st] = Edited(record[x][st], m, job[p].faculty)]
      BY <2>3 DEF EditUpdate
    <3>5. Edited(record[x][st], m, job[p].faculty).status = m
      BY <3>3 DEF Edited, RecordDoc
    <3> HIDE DEF st, m, x
    <3>6. MarksBar' = [MarksBar EXCEPT ![x][st] = m]
      BY <2>1, <3>2, <3>4, <3>5
    <3> QED
      BY <3>2, <3>6
  <2> QED
    BY <2>2, <2>3
<1>8. session[x].state # "absent"
  <2>1. CASE pc[p] = "markWrite"
    BY <2>1 DEF RecordsInv, RequestsKnowTheirRecords
  <2>2. CASE pc[p] = "editUpdate"
    <3>1. 1 \in DOMAIN job[p].rows
      BY <1>0, <2>2 DEF TypeOK, EditPc
    <3>2. job[p].rows[1].student \in Student
      BY <1>0, <3>1, RowTypes
    <3>3. Exists(x, job[p].rows[1].student)
      BY <2>2 DEF RecordsInv, RequestsKnowTheirRecords, EditPc
    <3> QED
      BY <1>0, <3>2, <3>3 DEF RecordsInv, RecordsHaveSession
  <2> QED
    BY <2>1, <2>2 DEF EditUpdate, MarkWriteRecord
<1>9. PhaseBar[x] # "absent"
  BY <1>0, <1>8 DEF PhaseBar
<1> HIDE DEF x
<1> QED
  BY <1>0, <1>3, <1>6, <1>7, <1>9, LedgerMark

LEMMA NextRefines == RecordsInv /\ [Next]_vars => LedgerStep
<1> SUFFICES ASSUME RecordsInv, [Next]_vars PROVE LedgerStep
  OBVIOUS
<1>0. TypeOK
  BY DEF RecordsInv
<1>1. ASSUME NEW p \in Proc, Proceed(p) PROVE LedgerStep
  BY <1>0, <1>1, ChecksRefine, UpsertRefines, LockRefines, WriteRefines DEF Proceed
<1> QED
  BY <1>0, <1>1, OutsideRefines

\* The engine implements the ledger: whatever handlers, failures and crashes
\* interleave, sessions are opened, then locked for good, and marks are written
\* only by requests that were admitted while their session was not locked.
THEOREM EngineImplementsLedger == Spec => ImplementsLedger
<1>1. RecordsInv /\ [Next]_vars => [Ledger!LedgerNext]_(Ledger!ledger)
  BY NextRefines DEF LedgerStep
<1> QED
  BY <1>1, LedgerInitHolds, InitRecordsInv, NextRecordsInv, PTL
  DEF Spec, ImplementsLedger, Ledger!LedgerSpec
===============================================================================
