--------------------------- MODULE EnrollmentProofs ---------------------------
(***************************************************************************)
(* Theorems about Enrollment, for any users, request slots, requests,      *)
(* capacities and failures.                                                *)
(*                                                                         *)
(* The strengthening of the two invariants is that the sets are finite:    *)
(* the students of the subject, because only elements of requests are ever *)
(* added, and the lists requests hold.  Without it the seats left are not  *)
(* a number.                                                               *)
(***************************************************************************)
EXTENDS Enrollment, FunctionTheorems, FiniteSetTheorems, TLAPS

USE EnrollmentAssumption

-----------------------------------------------------------------------------
(* The lists of enrollStudents                                             *)

\* The filter of enrollStudents returns finitely many students, each at one
\* position.
LEMMA NotEnrolledType ==
  ASSUME NEW doc \in Subject, NEW ids \in Seq(Id)
  PROVE  /\ NotEnrolled(doc, ids) \in SUBSET (Nat \X Registered)
         /\ IsFiniteSet(NotEnrolled(doc, ids))
         /\ \A d, e \in NotEnrolled(doc, ids) : d[1] = e[1] => d = e
<1> DEFINE All == {<<i, ids[i]>> : i \in DOMAIN ids}
           f == [i \in DOMAIN ids |-> <<i, ids[i]>>]
<1>1. DOMAIN ids = 1 .. Len(ids) /\ Len(ids) \in Nat
  OBVIOUS
<1>2. IsFiniteSet(DOMAIN ids)
  BY <1>1, FS_Interval
<1>3. f \in Surjection(DOMAIN ids, All)
  BY Fun_IsSurj
<1>4. IsFiniteSet(All)
  BY <1>2, <1>3, FS_Surjection
<1>5. NotEnrolled(doc, ids) \in SUBSET All
  BY DEF NotEnrolled
<1>6. NotEnrolled(doc, ids) \in SUBSET (Nat \X Registered)
  BY <1>1 DEF NotEnrolled
<1>7. \A d, e \in All : d[1] = e[1] => d = e
  OBVIOUS
<1>8. QED
  BY <1>4, <1>5, <1>6, <1>7, FS_Subset

\* What splice leaves is part of the list, and within the seats if there are
\* any: two elements of the list never have the same place.
LEMMA KeptFits ==
  ASSUME NEW list \in SUBSET (Nat \X Registered), IsFiniteSet(list),
         \A d, e \in list : d[1] = e[1] => d = e,
         NEW available \in Int \union {Unlimited}
  PROVE  /\ Kept(list, available) \subseteq list
         /\ IsFiniteSet(Kept(list, available))
         /\ available # Unlimited /\ available >= 0
               => Cardinality(Kept(list, available)) <= available
<1>1. Kept(list, available) \subseteq list
  BY DEF Kept
<1>2. IsFiniteSet(Kept(list, available))
  BY <1>1, FS_Subset
<1>3. ASSUME available # Unlimited, available >= 0
      PROVE  Cardinality(Kept(list, available)) <= available
  <2> DEFINE upTo(e) == {d \in list : d[1] <= e[1]}
             kept == Kept(list, available)
             place == [e \in kept |-> Place(list, e)]
  <2>0. available \in Nat
    BY <1>3
  <2>1. \A e \in kept : e \in list /\ Place(list, e) <= available
    BY <1>3 DEF Kept
  <2>2. ASSUME NEW e \in list
        PROVE  /\ IsFiniteSet(upTo(e)) /\ e \in upTo(e)
               /\ Place(list, e) = Cardinality(upTo(e))
               /\ Place(list, e) \in Nat /\ Place(list, e) >= 1
    <3>1. IsFiniteSet(upTo(e))
      BY FS_Subset
    <3>2. e \in upTo(e)
      OBVIOUS
    <3>3. Cardinality(upTo(e)) \in Nat /\ Cardinality(upTo(e)) # 0
      BY <3>1, <3>2, FS_CardinalityType, FS_EmptySet
    <3>4. QED
      BY <3>1, <3>2, <3>3 DEF Place
  <2>3. ASSUME NEW d \in list, NEW e \in list, d[1] < e[1]
        PROVE  Place(list, d) # Place(list, e)
    <3>1. upTo(d) \in SUBSET upTo(e)
      BY <2>3
    <3>2. e \notin upTo(d)
      BY <2>3
    <3>3. upTo(d) # upTo(e)
      BY <3>2, <2>2
    <3>4. Cardinality(upTo(d)) # Cardinality(upTo(e))
      BY <3>1, <3>3, <2>2, FS_Subset
    <3>5. QED
      BY <3>4 DEF Place
  <2>4. \A d, e \in list : Place(list, d) = Place(list, e) => d = e
    BY <2>3
  <2>5. place \in [kept -> 1 .. available]
    <3>1. ASSUME NEW e \in kept
          PROVE  Place(list, e) \in 1 .. available
      <4>1. e \in list /\ Place(list, e) <= available
        BY <2>1
      <4>2. Place(list, e) \in Nat /\ Place(list, e) >= 1
        BY <4>1, <2>2
      <4>3. QED
        BY <2>0, <4>1, <4>2
    <3>2. QED
      BY <3>1
  <2>6. place \in Injection(kept, 1 .. available)
    BY <2>1, <2>4, <2>5, Fun_IsInj
  <2>7. IsFiniteSet(1 .. available) /\ Cardinality(1 .. available) = available
    BY <2>0, FS_Interval
  <2>8. Cardinality(kept) <= Cardinality(1 .. available)
    BY <2>6, <2>7, FS_Injection
  <2>9. QED
    BY <2>7, <2>8
<1>4. QED
  BY <1>1, <1>2, <1>3

-----------------------------------------------------------------------------
(* The inductive invariant                                                 *)

SubjectOK == subject \in Subject /\ IsFiniteSet(subject.students)

Copies == [hit : {FALSE}] \union [hit : {TRUE}, doc : Subject]

CacheOK == cached \in Copies

\* What a request at l may rely on of its locals j.
Ready(l, j) ==
    /\ IsFiniteSet(j.chosen)
    /\ l = "assignWrite" => j.user \in Teacher
    /\ l = "enrollWrite" /\ j.available # Unlimited /\ j.available >= 0
          => Cardinality(j.chosen) <= j.available

JobsOK ==
    /\ pc \in [Proc -> Pcs]
    /\ job \in [Proc -> Job]
    /\ \A p \in Proc : Ready(pc[p], job[p])

IInv == SubjectOK /\ CacheOK /\ JobsOK

\* The inductive invariant gives the two invariants the runs check.
LEMMA IInvImplies == IInv => TypeOK /\ ChoiceFits
BY DEF IInv, SubjectOK, CacheOK, Copies, JobsOK, Ready, TypeOK, ChoiceFits

\* What getSubjectById stores, and what remains after a DEL, are copies.
LEMMA CopyType ==
  /\ NoCopy \in Copies
  /\ \A doc \in Subject : Copy(doc) \in Copies
BY DEF NoCopy, Copy, Copies

\* The locals of a request that is not running satisfy every demand.
LEMMA IdleReady == IdleJob \in Job /\ Ready("idle", IdleJob)
<1>1. Blank \in Subject
  BY DEF Blank, Subject
<1>2. IdleJob \in Job
  BY <1>1 DEF IdleJob, Job
<1>3. IsFiniteSet(IdleJob.chosen)
  BY FS_EmptySet DEF IdleJob
<1>4. QED
  BY <1>2, <1>3 DEF Ready

\* A request that goes on with good locals disturbs no other request.
LEMMA GoKeeps ==
  ASSUME JobsOK, NEW p \in Proc, NEW l \in Pcs, NEW j \in Job, Ready(l, j), Go(p, l, j)
  PROVE  JobsOK'
<1>1. pc' \in [Proc -> Pcs] /\ job' \in [Proc -> Job]
  BY DEF JobsOK, Go
<1>2. ASSUME NEW q \in Proc
      PROVE  Ready(pc'[q], job'[q])
  <2>1. CASE q = p
    BY <2>1 DEF JobsOK, Go
  <2>2. CASE q # p
    BY <2>2 DEF JobsOK, Go
  <2>3. QED
    BY <2>1, <2>2
<1>3. QED
  BY <1>1, <1>2 DEF JobsOK

\* A request that ends, or that holds nothing any more, is always good.
LEMMA FinishKeeps ==
  ASSUME JobsOK, NEW p \in Proc, NEW l \in {"idle", "invalidate", "deactivateWrite"},
         Go(p, l, IdleJob)
  PROVE  JobsOK'
<1>1. Ready(l, IdleJob)
  BY IdleReady DEF Ready
<1>2. l \in Pcs
  BY DEF Pcs
<1>3. QED
  BY <1>1, <1>2, IdleReady, GoKeeps

\* The seats left are a number, negative or not, or there is no limit.
LEMMA RoomType ==
  ASSUME NEW doc \in Subject, IsFiniteSet(doc.students)
  PROVE  /\ Room(doc) \in Int \union {Unlimited}
         /\ doc.capacity # Unlimited => Room(doc) = doc.capacity - Cardinality(doc.students)
         /\ doc.capacity # Unlimited => Room(doc) # Unlimited
         /\ doc.capacity = Unlimited => Room(doc) = Unlimited
         /\ doc.capacity \in Nat \union {Unlimited}
BY FS_CardinalityType DEF Room, Subject

\* The students a request is about to enrol are registered students, no more
\* than its list is long.
LEMMA ChosenType ==
  ASSUME NEW j \in Job, IsFiniteSet(j.chosen)
  PROVE  /\ Chosen(j) \in SUBSET Registered
         /\ IsFiniteSet(Chosen(j))
         /\ Cardinality(Chosen(j)) <= Cardinality(j.chosen)
<1> DEFINE f == [e \in j.chosen |-> e[2]]
<1>1. f \in Surjection(j.chosen, Chosen(j))
  BY Fun_IsSurj DEF Chosen
<1>2. Chosen(j) \in SUBSET Registered
  BY DEF Chosen, Job
<1>3. QED
  BY <1>1, <1>2, FS_Surjection

LEMMA InitOK == Init => IInv
<1> SUFFICES ASSUME Init PROVE IInv
  OBVIOUS
<1>1. subject \in Subject /\ subject.students = {}
  BY DEF Init, Subject
<1>2. SubjectOK
  BY <1>1, FS_EmptySet DEF SubjectOK
<1>3. CacheOK
  BY CopyType DEF Init, CacheOK
<1>4. pc \in [Proc -> Pcs] /\ job \in [Proc -> Job]
  BY IdleReady DEF Init, Pcs
<1>5. JobsOK
  BY <1>4, IdleReady DEF JobsOK, Init
<1>6. QED
  BY <1>2, <1>3, <1>5 DEF IInv

-----------------------------------------------------------------------------
(* Every step keeps it                                                     *)

\* enrollStudents has chosen students from what it read.
LEMMA EnrollFindStep ==
  ASSUME IInv, NEW p \in Proc, NEW ids \in Requests, EnrollFind(p, ids)
  PROVE  IInv'
<1> DEFINE available == Room(subject)
           list == NotEnrolled(subject, ids)
           chosen == Kept(list, available)
           j == [IdleJob EXCEPT !.available = available, !.chosen = chosen]
           l == IF chosen = {} THEN "invalidate" ELSE "enrollWrite"
<1>1. subject \in Subject /\ IsFiniteSet(subject.students) /\ JobsOK
  BY DEF IInv, SubjectOK
<1>2. available \in Int \union {Unlimited}
  BY <1>1, RoomType
<1>3. /\ list \in SUBSET (Nat \X Registered) /\ IsFiniteSet(list)
      /\ \A d, e \in list : d[1] = e[1] => d = e
  BY <1>1, NotEnrolledType
<1>4. /\ chosen \subseteq list /\ IsFiniteSet(chosen)
      /\ available # Unlimited /\ available >= 0 => Cardinality(chosen) <= available
  BY <1>2, <1>3, KeptFits
<1>5. Go(p, l, j) /\ UNCHANGED <<subject, cached>>
  BY DEF EnrollFind
<1> HIDE DEF available, list, chosen
<1>6. j \in Job
  BY <1>2, <1>3, <1>4, IdleReady DEF Job
<1>7. j.available = available /\ j.chosen = chosen
  BY DEF IdleJob
<1>8. l \in Pcs /\ l # "assignWrite"
  BY DEF Pcs
<1>9. Ready(l, j)
  BY <1>4, <1>7, <1>8 DEF Ready
<1>10. JobsOK'
  BY <1>1, <1>5, <1>6, <1>8, <1>9, GoKeeps
<1>11. QED
  BY <1>5, <1>10 DEF IInv, SubjectOK, CacheOK

\* The write of enrollStudents adds finitely many registered students.
LEMMA EnrollWriteStep ==
  ASSUME IInv, NEW p \in Proc, EnrollWrite(p)
  PROVE  IInv'
<1>1. job[p] \in Job /\ IsFiniteSet(job[p].chosen) /\ JobsOK
  BY DEF IInv, JobsOK, Ready
<1>2. Chosen(job[p]) \in SUBSET Registered /\ IsFiniteSet(Chosen(job[p]))
  BY <1>1, ChosenType
<1>3. subject' = [subject EXCEPT !.students = @ \union Chosen(job[p])]
  BY DEF EnrollWrite
<1>4. subject' \in Subject
  BY <1>2, <1>3 DEF IInv, SubjectOK, Subject
<1>5. subject'.students = subject.students \union Chosen(job[p])
  BY <1>3 DEF IInv, SubjectOK, Subject
<1>6. IsFiniteSet(subject'.students)
  <2>1. IsFiniteSet(subject.students)
    BY DEF IInv, SubjectOK
  <2>2. IsFiniteSet(subject.students \union Chosen(job[p]))
    BY <1>2, <2>1, FS_Union
  <2>3. QED
    BY <1>5, <2>2
<1>7. JobsOK'
  BY <1>1, FinishKeeps DEF EnrollWrite
<1>8. QED
  BY <1>4, <1>6, <1>7 DEF IInv, SubjectOK, CacheOK, EnrollWrite

\* A request that changes the subject without having read it.
LEMMA ChangeStep ==
  ASSUME IInv, NEW p \in Proc, NEW doc \in Subject, Change(p, doc),
         doc.students \subseteq subject.students
  PROVE  IInv'
<1>1. JobsOK /\ IsFiniteSet(subject.students)
  BY DEF IInv, SubjectOK
<1>2. SubjectOK'
  BY <1>1, FS_Subset DEF SubjectOK, Change
<1>3. JobsOK'
  BY <1>1, FinishKeeps DEF Change
<1>4. QED
  BY <1>2, <1>3 DEF IInv, CacheOK, Change

\* The first step of a request.
LEMMA ArriveStep ==
  ASSUME IInv, NEW p \in Proc, Arrive(p)
  PROVE  IInv'
<1>1. subject \in Subject /\ JobsOK
  BY DEF IInv, SubjectOK
<1>2. ASSUME NEW ids \in Requests, EnrollFind(p, ids)
      PROVE  IInv'
  BY <1>2, EnrollFindStep
<1>3. ASSUME NEW id \in Id, Unenroll(p, id)
      PROVE  IInv'
  <2>1. [subject EXCEPT !.students = @ \ {id}] \in Subject
    BY <1>1 DEF Subject
  <2>2. [subject EXCEPT !.students = @ \ {id}].students \subseteq subject.students
    BY <1>1 DEF Subject
  <2>3. QED
    BY <1>3, <2>1, <2>2, ChangeStep DEF Unenroll
<1>4. ASSUME NEW id \in Id, RemoveFaculty(p, id)
      PROVE  IInv'
  <2>1. [subject EXCEPT !.teachers = @ \ {id}] \in Subject
    BY <1>1 DEF Subject
  <2>2. [subject EXCEPT !.teachers = @ \ {id}].students \subseteq subject.students
    BY <1>1 DEF Subject
  <2>3. QED
    BY <1>4, <2>1, <2>2, ChangeStep DEF RemoveFaculty
<1>5. ASSUME NEW c \in Capacities, UpdateSubject(p, c)
      PROVE  IInv'
  <2>1. [subject EXCEPT !.capacity = c] \in Subject
    BY <1>1 DEF Subject
  <2>2. [subject EXCEPT !.capacity = c].students \subseteq subject.students
    BY <1>1 DEF Subject
  <2>3. QED
    BY <1>5, <2>1, <2>2, ChangeStep DEF UpdateSubject
<1>6. ASSUME NEW id \in Id, AssignFind(p, id)
      PROVE  IInv'
  <2> DEFINE j == [IdleJob EXCEPT !.user = id]
  <2>1. id \in Teacher
    BY <1>6 DEF AssignFind
  <2>2. j \in Job
    BY IdleReady DEF Job
  <2>3. j.user = id /\ j.chosen = IdleJob.chosen
    BY DEF IdleJob
  <2>4. Ready("assignWrite", j)
    BY <2>1, <2>3, IdleReady DEF Ready
  <2>5. JobsOK'
    BY <1>1, <1>6, <2>2, <2>4, GoKeeps DEF AssignFind, Pcs
  <2>6. QED
    BY <1>6, <2>5 DEF IInv, SubjectOK, CacheOK, AssignFind
<1>7. CASE DeactivateFind(p)
  <2>1. JobsOK'
    BY <1>1, <1>7, FinishKeeps DEF DeactivateFind
  <2>2. QED
    BY <1>7, <2>1 DEF IInv, SubjectOK, CacheOK, DeactivateFind
<1>8. ASSUME NEW u \in Id \union {Admin}, ViewGet(p, u)
      PROVE  IInv'
  <2> DEFINE j == [IdleJob EXCEPT !.user = u]
  <2>1. j \in Job
    BY IdleReady DEF Job
  <2>2. j.chosen = IdleJob.chosen
    BY DEF IdleJob
  <2>3. Ready("viewFind", j)
    BY <2>2, IdleReady DEF Ready
  <2>4. JobsOK'
    BY <1>1, <1>8, <2>1, <2>3, GoKeeps DEF ViewGet, Pcs
  <2>5. QED
    BY <1>8, <2>4 DEF IInv, SubjectOK, CacheOK, ViewGet
<1>9. QED
  BY <1>2, <1>3, <1>4, <1>5, <1>6, <1>7, <1>8 DEF Arrive

\* The later steps of a request.
LEMMA ProceedStep ==
  ASSUME IInv, NEW p \in Proc, Proceed(p) \/ DbError(p)
  PROVE  IInv'
<1>1. subject \in Subject /\ IsFiniteSet(subject.students) /\ JobsOK /\ job[p] \in Job
  BY DEF IInv, SubjectOK, JobsOK
<1>2. CASE EnrollWrite(p)
  BY <1>2, EnrollWriteStep
<1>3. CASE DeactivateWrite(p)
  <2>1. subject' \in Subject /\ subject'.students = subject.students
    BY <1>1, <1>3 DEF DeactivateWrite, Subject
  <2>2. JobsOK'
    BY <1>1, <1>3, FinishKeeps DEF DeactivateWrite
  <2>3. QED
    BY <1>1, <1>3, <2>1, <2>2 DEF IInv, SubjectOK, CacheOK, DeactivateWrite
<1>4. CASE AssignWrite(p)
  <2>1. job[p].user \in Teacher
    BY <1>4 DEF IInv, JobsOK, Ready, AssignWrite
  <2>2. subject' \in Subject /\ subject'.students = subject.students
    BY <1>1, <1>4, <2>1 DEF AssignWrite, Subject
  <2>3. JobsOK'
    BY <1>1, <1>4, FinishKeeps DEF AssignWrite
  <2>4. QED
    BY <1>1, <1>4, <2>2, <2>3 DEF IInv, SubjectOK, CacheOK, AssignWrite
<1>5. CASE Invalidate(p)
  <2>1. JobsOK'
    BY <1>1, <1>5, FinishKeeps DEF Invalidate, Finish
  <2>2. CacheOK'
    BY <1>5, CopyType DEF IInv, CacheOK, Invalidate
  <2>3. QED
    BY <1>5, <2>1, <2>2 DEF IInv, SubjectOK, Invalidate
<1>6. CASE ViewFind(p)
  <2>1. CASE MaySee(subject, job[p].user)
    <3> DEFINE j == [IdleJob EXCEPT !.doc = subject]
    <3>1. j \in Job
      BY <1>1, IdleReady DEF Job
    <3>2. j.chosen = IdleJob.chosen
      BY DEF IdleJob
    <3>3. Ready("viewSet", j)
      BY <3>2, IdleReady DEF Ready
    <3>4. JobsOK'
      BY <1>1, <1>6, <2>1, <3>1, <3>3, GoKeeps DEF ViewFind, Pcs
    <3>5. QED
      BY <1>6, <3>4 DEF IInv, SubjectOK, CacheOK, ViewFind
  <2>2. CASE ~ MaySee(subject, job[p].user)
    <3>1. JobsOK'
      BY <1>1, <1>6, <2>2, FinishKeeps DEF ViewFind, Finish
    <3>2. QED
      BY <1>6, <3>1 DEF IInv, SubjectOK, CacheOK, ViewFind
  <2>3. QED
    BY <2>1, <2>2
<1>7. CASE ViewSet(p)
  <2>1. JobsOK'
    BY <1>1, <1>7, FinishKeeps DEF ViewSet, Finish
  <2>2. job[p].doc \in Subject
    BY <1>1 DEF Job
  <2>3. CacheOK'
    BY <1>7, <2>2, CopyType DEF IInv, CacheOK, ViewSet
  <2>4. QED
    BY <1>7, <2>1, <2>3 DEF IInv, SubjectOK, ViewSet
<1>8. CASE DbError(p)
  <2>1. JobsOK'
    BY <1>1, <1>8, FinishKeeps DEF DbError, Finish
  <2>2. QED
    BY <1>8, <2>1 DEF IInv, SubjectOK, CacheOK, DbError
<1>9. QED
  BY <1>2, <1>3, <1>4, <1>5, <1>6, <1>7, <1>8 DEF Proceed

\* Every step of the system keeps the inductive invariant.
LEMMA NextKeeps == IInv /\ [Next]_vars => IInv'
<1> SUFFICES ASSUME IInv, [Next]_vars PROVE IInv'
  OBVIOUS
<1>1. CASE UNCHANGED vars
  BY <1>1 DEF vars, IInv, SubjectOK, CacheOK, JobsOK
<1>2. CASE CopyExpires
  BY <1>2, CopyType DEF CopyExpires, IInv, SubjectOK, CacheOK, JobsOK
<1>3. CASE Crash
  <2>1. pc' \in [Proc -> Pcs] /\ job' \in [Proc -> Job]
    BY <1>3, IdleReady DEF Crash, Pcs
  <2>2. JobsOK'
    BY <1>3, <2>1, IdleReady DEF Crash, JobsOK
  <2>3. QED
    BY <1>3, <2>2 DEF Crash, IInv, SubjectOK, CacheOK
<1>4. ASSUME NEW p \in Proc, Arrive(p) \/ Proceed(p) \/ DbError(p)
      PROVE  IInv'
  BY <1>4, ArriveStep, ProceedStep
<1>5. QED
  BY <1>1, <1>2, <1>3, <1>4 DEF Next

\* The inductive invariant holds in every reachable state.
THEOREM EnrollmentInvariant == Spec => []IInv
BY InitOK, NextKeeps, PTL DEF Spec

\* Only registered students are ever enrolled and only teachers assigned,
\* whatever ids requests name and however requests overlap.
THEOREM EnrollmentTypeCorrect == Spec => []TypeOK
BY EnrollmentInvariant, IInvImplies, PTL

\* A request about to enrol never holds more students than the seats it counted.
THEOREM ChoicesFit == Spec => []ChoiceFits
BY EnrollmentInvariant, IInvImplies, PTL

-----------------------------------------------------------------------------
(* Enrolments that nobody disturbed, and deactivated subjects              *)

\* The write of enrollStudents leaves no subject with more students than its
\* capacity if there is still room for as many as were counted.
LEMMA WriteFits ==
  ASSUME IInv, NEW p \in Proc, EnrollWrite(p),
         job[p].available # Unlimited, job[p].available >= 0,
         Room(subject) # Unlimited, Room(subject) >= job[p].available
  PROVE  Room(subject') >= 0
<1> DEFINE new == Chosen(job[p])
           both == subject.students \union new
<1>1. subject \in Subject /\ IsFiniteSet(subject.students)
  BY DEF IInv, SubjectOK
<1>2. job[p] \in Job /\ IsFiniteSet(job[p].chosen)
      /\ Cardinality(job[p].chosen) <= job[p].available
  BY DEF IInv, JobsOK, Ready, EnrollWrite
<1>3. job[p].available \in Int
  BY <1>2 DEF Job
<1>4. IsFiniteSet(new) /\ Cardinality(new) <= Cardinality(job[p].chosen)
  BY <1>2, ChosenType
<1>5. Cardinality(job[p].chosen) \in Nat /\ Cardinality(new) \in Nat
      /\ Cardinality(subject.students) \in Nat
  BY <1>1, <1>2, <1>4, FS_CardinalityType
<1>6. Cardinality(new) <= job[p].available
  BY <1>2, <1>3, <1>4, <1>5
<1>7. Cardinality(subject.students \intersect new) \in Nat
  <2>1. IsFiniteSet(subject.students \intersect new)
    BY <1>1, FS_Subset
  <2>2. QED
    BY <2>1, FS_CardinalityType
<1>8. IsFiniteSet(both) /\ Cardinality(both) \in Nat
  BY <1>1, <1>4, FS_Union, FS_CardinalityType
<1>9. Cardinality(both) <= Cardinality(subject.students) + Cardinality(new)
  <2>1. Cardinality(both) = Cardinality(subject.students) + Cardinality(new)
                            - Cardinality(subject.students \intersect new)
    BY <1>1, <1>4, FS_Union
  <2> HIDE DEF new, both
  <2>2. QED
    BY <1>5, <1>7, <2>1
<1>10. subject.capacity # Unlimited /\ subject.capacity \in Nat
       /\ Room(subject) = subject.capacity - Cardinality(subject.students)
  BY <1>1, RoomType
<1>11. subject' = [subject EXCEPT !.students = both]
  BY DEF EnrollWrite
<1>12. subject'.capacity = subject.capacity /\ subject'.students = both
  BY <1>1, <1>11 DEF Subject
<1>13. Room(subject') = subject.capacity - Cardinality(both)
  BY <1>10, <1>12 DEF Room
<1> HIDE DEF new, both
<1>14. QED
  BY <1>3, <1>5, <1>6, <1>8, <1>9, <1>10, <1>13

\* Only the write takes a request from "enrollWrite" to "invalidate".
LEMMA OnlyWrite ==
  ASSUME IInv, Next, NEW p \in Proc, pc[p] = "enrollWrite", pc'[p] = "invalidate"
  PROVE  EnrollWrite(p)
<1>1. pc \in [Proc -> Pcs]
  BY DEF IInv, JobsOK
<1>2. ~ CopyExpires /\ ~ Crash
  BY <1>1 DEF CopyExpires, Crash
<1>3. PICK q \in Proc : Arrive(q) \/ Proceed(q) \/ DbError(q)
  BY <1>2 DEF Next
<1>4. CASE q # p
  <2>1. \E l \in Pcs : \E j : Go(q, l, j)
    BY <1>3 DEF Arrive, Proceed, DbError, EnrollFind, Unenroll, AssignFind, RemoveFaculty,
                UpdateSubject, DeactivateFind, ViewGet, Change, EnrollWrite, DeactivateWrite,
                AssignWrite, Invalidate, ViewFind, ViewSet, Finish, Pcs
  <2>2. pc'[p] = pc[p]
    BY <1>1, <1>4, <2>1 DEF Go
  <2>3. QED
    BY <2>2
<1>5. CASE q = p
  <2>1. ~ Arrive(p)
    BY DEF Arrive, EnrollFind, Unenroll, AssignFind, RemoveFaculty, UpdateSubject, Change,
           DeactivateFind, ViewGet
  <2>2. ~ DbError(p)
    BY <1>1 DEF DbError, Finish, Go
  <2>3. QED
    BY <1>3, <1>5, <2>1, <2>2 DEF Proceed, DeactivateWrite, AssignWrite, Invalidate, ViewFind,
                                  ViewSet
<1>6. QED
  BY <1>4, <1>5

\* An enrolment whose counted seats nobody took does not overfill the subject.
THEOREM UndisturbedEnrollmentsFit == Spec => UndisturbedEnrollFits
<1> DEFINE Fits ==
        \A p \in Proc :
          /\ pc[p] = "enrollWrite" /\ pc'[p] = "invalidate"
          /\ job[p].available # Unlimited /\ job[p].available >= 0
          /\ Room(subject) # Unlimited /\ Room(subject) >= job[p].available
          => Room(subject') >= 0
<1>1. IInv /\ [Next]_vars => [Fits]_vars
  <2>1. ASSUME IInv, Next PROVE Fits
    BY <2>1, OnlyWrite, WriteFits
  <2>2. QED
    BY <2>1
<1>2. QED
  BY <1>1, EnrollmentInvariant, PTL DEF Spec, UndisturbedEnrollFits

\* What a step may do to a deactivated subject whose admitted requests are gone.
Held ==
    ~ subject.active /\ Admitted = {} =>
        /\ ~ subject'.active
        /\ Admitted' = {}
        /\ subject'.students \subseteq subject.students
        /\ subject'.teachers \subseteq subject.teachers

\* A request that goes on to l, not one of the two writes, admits nobody.
LEMMA GoAdmitsNobody ==
  ASSUME IInv, Admitted = {}, NEW p \in Proc, NEW l, NEW j, Go(p, l, j),
         l \notin {"enrollWrite", "assignWrite"}
  PROVE  Admitted' = {}
<1>1. pc \in [Proc -> Pcs]
  BY DEF IInv, JobsOK
<1>2. \A q \in Proc : pc'[q] = IF q = p THEN l ELSE pc[q]
  BY <1>1 DEF Go
<1>3. \A q \in Proc : pc'[q] \notin {"enrollWrite", "assignWrite"}
  BY <1>2 DEF Admitted
<1>4. QED
  BY <1>3 DEF Admitted

\* One step of one request leaves a deactivated subject as it should.
LEMMA RequestHolds ==
  ASSUME IInv, ~ subject.active, Admitted = {},
         NEW p \in Proc, Arrive(p) \/ Proceed(p) \/ DbError(p)
  PROVE  /\ ~ subject'.active
         /\ Admitted' = {}
         /\ subject'.students \subseteq subject.students
         /\ subject'.teachers \subseteq subject.teachers
<1>1. subject \in Subject
  BY DEF IInv, SubjectOK
<1>2. pc[p] \notin {"enrollWrite", "assignWrite"}
  BY DEF Admitted
<1>3. ~ \E ids \in Requests : EnrollFind(p, ids)
  BY DEF EnrollFind
<1>4. ~ DeactivateFind(p) /\ ~ \E id \in Id : AssignFind(p, id)
  BY DEF DeactivateFind, AssignFind
<1>5. ~ EnrollWrite(p) /\ ~ AssignWrite(p)
  BY <1>2 DEF EnrollWrite, AssignWrite
<1>6. ASSUME NEW doc \in Subject, Change(p, doc), ~ doc.active,
             doc.students \subseteq subject.students,
             doc.teachers \subseteq subject.teachers
      PROVE  /\ ~ subject'.active
             /\ Admitted' = {}
             /\ subject'.students \subseteq subject.students
             /\ subject'.teachers \subseteq subject.teachers
  BY <1>6, GoAdmitsNobody DEF Change
<1>7. ASSUME NEW id \in Id, Unenroll(p, id) \/ RemoveFaculty(p, id)
      PROVE  \E doc \in Subject : /\ Change(p, doc) /\ ~ doc.active
                                  /\ doc.students \subseteq subject.students
                                  /\ doc.teachers \subseteq subject.teachers
  BY <1>1, <1>7 DEF Unenroll, RemoveFaculty, Subject
<1>8. ASSUME NEW c \in Capacities, UpdateSubject(p, c)
      PROVE  \E doc \in Subject : /\ Change(p, doc) /\ ~ doc.active
                                  /\ doc.students \subseteq subject.students
                                  /\ doc.teachers \subseteq subject.teachers
  BY <1>1, <1>8 DEF UpdateSubject, Subject
<1>9. ASSUME UNCHANGED subject, NEW l, NEW j, Go(p, l, j),
             l \notin {"enrollWrite", "assignWrite"}
      PROVE  /\ ~ subject'.active
             /\ Admitted' = {}
             /\ subject'.students \subseteq subject.students
             /\ subject'.teachers \subseteq subject.teachers
  BY <1>9, GoAdmitsNobody
<1>10. CASE \/ \E u \in Id \union {Admin} : ViewGet(p, u)
            \/ Invalidate(p) \/ ViewFind(p) \/ ViewSet(p) \/ DbError(p)
  <2>1. UNCHANGED subject
    BY <1>10 DEF ViewGet, Invalidate, ViewFind, ViewSet, DbError
  <2>2. \E l, j : Go(p, l, j) /\ l \notin {"enrollWrite", "assignWrite"}
    <3>1. CASE \E u \in Id \union {Admin} : ViewGet(p, u)
      BY <3>1 DEF ViewGet
    <3>2. CASE ViewFind(p)
      BY <3>2 DEF ViewFind, Finish
    <3>3. CASE Invalidate(p) \/ ViewSet(p) \/ DbError(p)
      <4>1. Go(p, "idle", IdleJob)
        BY <3>3 DEF Invalidate, ViewSet, DbError, Finish
      <4>2. QED
        BY <4>1
    <3>4. QED
      BY <1>10, <3>1, <3>2, <3>3
  <2>3. QED
    BY <1>9, <2>1, <2>2
<1>11. CASE DeactivateWrite(p)
  <2>1. ~ subject'.active /\ subject'.students = subject.students
        /\ subject'.teachers = subject.teachers
    BY <1>1, <1>11 DEF DeactivateWrite, Subject
  <2>2. Admitted' = {}
    BY <1>11, GoAdmitsNobody DEF DeactivateWrite
  <2>3. QED
    BY <2>1, <2>2
<1>12. QED
  BY <1>3, <1>4, <1>5, <1>6, <1>7, <1>8, <1>10, <1>11 DEF Arrive, Proceed

\* A deactivated subject whose admitted requests are gone stays deactivated,
\* takes no student and no teacher, and admits no request.
THEOREM DeactivationsHold == Spec => DeactivationHolds
<1>1. IInv /\ [Next]_vars => [Held]_vars
  <2>1. ASSUME IInv, Next, ~ subject.active, Admitted = {}
        PROVE  /\ ~ subject'.active
               /\ Admitted' = {}
               /\ subject'.students \subseteq subject.students
               /\ subject'.teachers \subseteq subject.teachers
    <3>1. CASE CopyExpires
      BY <2>1, <3>1 DEF CopyExpires, Admitted
    <3>2. CASE Crash
      BY <2>1, <3>2 DEF Crash, Admitted
    <3>3. ASSUME NEW p \in Proc, Arrive(p) \/ Proceed(p) \/ DbError(p)
          PROVE  /\ ~ subject'.active
                 /\ Admitted' = {}
                 /\ subject'.students \subseteq subject.students
                 /\ subject'.teachers \subseteq subject.teachers
      BY <2>1, <3>3, RequestHolds
    <3>4. QED
      BY <2>1, <3>1, <3>2, <3>3 DEF Next
  <2>2. QED
    BY <2>1 DEF Held
<1>2. QED
  BY <1>1, EnrollmentInvariant, PTL DEF Spec, DeactivationHolds, Held

===============================================================================
