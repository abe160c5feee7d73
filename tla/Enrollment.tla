------------------------------ MODULE Enrollment ------------------------------
(***************************************************************************)
(* One subject and the requests of administrators and readers on it:       *)
(* enrollStudents (also called by bulkEnrollCSV), unenrollStudent,         *)
(* updateSubject, deactivateSubject, assignFaculty, removeFaculty and      *)
(* getSubjectById of src/modules/subjects/subject.service.ts, with the     *)
(* Redis copy of the subject (subjects:{id}, 300 s).                       *)
(*                                                                         *)
(* A change of the subject is one update of one document and therefore     *)
(* atomic; what was read to decide on it is one await, or more, older.     *)
(* The audit entry is pushed by the same update and left out.              *)
(***************************************************************************)
EXTENDS Integers, Sequences, FiniteSets

CONSTANTS
    Id,             \* user ids that requests name
    Registered,     \* those of users with role "student"
    Teacher,        \* those of users with role "faculty"
    Admin,          \* an administrator, who may read every subject
    Proc,           \* request slots: how many requests are in flight at once
    Requests,       \* the studentIds arrays sent to enrollStudents
    Capacities,     \* the capacities a subject is created with or updated to
    Unlimited,      \* a capacity of null
    Faults          \* which failures occur: subset of {"redis", "db", "crash"}

ASSUME EnrollmentAssumption ==
    /\ Registered \subseteq Id /\ Teacher \subseteq Id
    /\ Admin \notin Id
    /\ Requests \subseteq Seq(Id)
    /\ Capacities \subseteq (Nat \ {0}) \union {Unlimited}
    /\ Capacities # {}
    /\ Unlimited \notin Int
    /\ Faults \subseteq {"redis", "db", "crash"}

VARIABLES
    subject,    \* the Subject document
    cached,     \* Redis key subjects:{id}: no copy, or a copy of the document
    pc,         \* pc[p]: the await request p is at
    job         \* job[p]: the local variables of request p

vars == <<subject, cached, pc, job>>

-----------------------------------------------------------------------------
Subject == [capacity : Nat \union {Unlimited}, active : BOOLEAN,
            teachers : SUBSET Teacher, students : SUBSET Registered]

NoCopy == [hit |-> FALSE]
Copy(doc) == [hit |-> TRUE, doc |-> doc]

\* available and chosen: those of enrollStudents; doc: the document
\* getSubjectById read; user: the faculty to assign, or the reader.
Job == [available : Int \union {Unlimited}, chosen : SUBSET (Nat \X Registered),
        doc : Subject, user : Id \union {Admin}]

Blank == [capacity |-> Unlimited, active |-> FALSE, teachers |-> {}, students |-> {}]
IdleJob == [available |-> Unlimited, chosen |-> {}, doc |-> Blank, user |-> Admin]

Init ==
    /\ subject \in [capacity : Capacities, active : {TRUE},
                    teachers : {{}}, students : {{}}]
    /\ cached = NoCopy
    /\ pc = [p \in Proc |-> "idle"]
    /\ job = [p \in Proc |-> IdleJob]

\* Request p goes on to await l with locals j.
Go(p, l, j) ==
    /\ pc' = [pc EXCEPT ![p] = l]
    /\ job' = [job EXCEPT ![p] = j]

\* Request p is over: it returned or threw.
Finish(p) == Go(p, "idle", IdleJob)

-----------------------------------------------------------------------------
(* enrollStudents                                                          *)

\* The seats left, as line 276 counts them: negative if there are too many
\* students already.
Room(doc) == IF doc.capacity = Unlimited THEN Unlimited
             ELSE doc.capacity - Cardinality(doc.students)

\* Lines 259-272: the ids that are students and not enrolled, in the order of
\* the request, duplicates kept: a list is the set of its <<position, id>>.
NotEnrolled(doc, ids) ==
    {e \in {<<i, ids[i]>> : i \in DOMAIN ids} : e[2] \in Registered \ doc.students}

\* How many elements of the list are not after e.
Place(list, e) == Cardinality({d \in list : d[1] <= e[1]})

\* Mutant: the excess is not cut off.
KeptAll(list, available) == list

\* What splice(available) leaves in the list: its first available elements,
\* but all except its last |available| ones if available is negative.
Kept(list, available) ==
    IF available = Unlimited THEN list
    ELSE {e \in list : Place(list, e) <=
              IF available >= 0 THEN available ELSE Cardinality(list) + available}

\* Lines 247-280: the subject is read and must be active; the seats and the
\* students are those of this reading.
EnrollFind(p, ids) ==
    LET available == Room(subject)
        chosen == Kept(NotEnrolled(subject, ids), available) IN
    /\ pc[p] = "idle" /\ subject.active
    /\ Go(p, IF chosen = {} THEN "invalidate" ELSE "enrollWrite",
          [IdleJob EXCEPT !.available = available, !.chosen = chosen])
    /\ UNCHANGED <<subject, cached>>

Chosen(j) == {e[2] : e \in j.chosen}

\* Lines 282-293: $addToSet with $each, by the id alone.
EnrollWrite(p) ==
    /\ pc[p] = "enrollWrite"
    /\ subject' = [subject EXCEPT !.students = @ \union Chosen(job[p])]
    /\ Go(p, "invalidate", IdleJob)
    /\ UNCHANGED cached

-----------------------------------------------------------------------------
(* The other changes                                                       *)

\* A request whose reading only tests that the subject exists: the change
\* does not depend on what was read.
Change(p, doc) ==
    /\ pc[p] = "idle"
    /\ subject' = doc
    /\ Go(p, "invalidate", IdleJob)
    /\ UNCHANGED cached

\* unenrollStudent, lines 299-312.
Unenroll(p, id) ==
    Change(p, [subject EXCEPT !.students = @ \ {id}])

\* removeFaculty, lines 226-239.
RemoveFaculty(p, id) ==
    Change(p, [subject EXCEPT !.teachers = @ \ {id}])

\* updateSubject, lines 168-188; of the fields only the capacity matters here,
\* and nothing compares it with the number of students.
UpdateSubject(p, c) ==
    Change(p, [subject EXCEPT !.capacity = c])

\* deactivateSubject, lines 190-198.  Nothing activates a subject again.
DeactivateFind(p) ==
    /\ pc[p] = "idle" /\ subject.active
    /\ Go(p, "deactivateWrite", IdleJob)
    /\ UNCHANGED <<subject, cached>>

DeactivateWrite(p) ==
    /\ pc[p] = "deactivateWrite"
    /\ subject' = [subject EXCEPT !.active = FALSE]
    /\ Go(p, "invalidate", IdleJob)
    /\ UNCHANGED cached

\* Mutant: isActive is not tested.
AssignFindInactive(p, id) ==
    /\ pc[p] = "idle" /\ id \in Teacher
    /\ Go(p, "assignWrite", [IdleJob EXCEPT !.user = id])
    /\ UNCHANGED <<subject, cached>>

\* assignFaculty, lines 205-216: the subject is active, the user a teacher.
AssignFind(p, id) ==
    /\ pc[p] = "idle" /\ subject.active /\ id \in Teacher
    /\ Go(p, "assignWrite", [IdleJob EXCEPT !.user = id])
    /\ UNCHANGED <<subject, cached>>

\* Mutant: the id is pushed to the wrong array.
AssignWriteStudents(p) ==
    /\ pc[p] = "assignWrite"
    /\ subject' = [subject EXCEPT !.students = @ \union {job[p].user}]
    /\ Go(p, "invalidate", IdleJob)
    /\ UNCHANGED cached

\* Lines 218-221: $addToSet.
AssignWrite(p) ==
    /\ pc[p] = "assignWrite"
    /\ subject' = [subject EXCEPT !.teachers = @ \union {job[p].user}]
    /\ Go(p, "invalidate", IdleJob)
    /\ UNCHANGED cached

\* invalidateSubjectCache, lines 51-55: DEL, an error is swallowed.
Invalidate(p) ==
    /\ pc[p] = "invalidate"
    /\ \/ cached' = NoCopy
       \/ "redis" \in Faults /\ UNCHANGED cached
    /\ Finish(p)
    /\ UNCHANGED subject

-----------------------------------------------------------------------------
(* getSubjectById                                                          *)

\* validateSubjectAccess, lines 157-166.
MaySee(doc, u) == u = Admin \/ u \in doc.teachers \/ u \in doc.students

\* Lines 143-147: a copy ends the request either way, a Redis error is a miss.
ViewGet(p, u) ==
    /\ pc[p] = "idle"
    /\ ~ cached.hit \/ "redis" \in Faults
    /\ Go(p, "viewFind", [IdleJob EXCEPT !.user = u])
    /\ UNCHANGED <<subject, cached>>

\* Lines 149-152: the document is read; no access ends the request.
ViewFind(p) ==
    /\ pc[p] = "viewFind"
    /\ IF MaySee(subject, job[p].user)
       THEN Go(p, "viewSet", [IdleJob EXCEPT !.doc = subject])
       ELSE Finish(p)
    /\ UNCHANGED <<subject, cached>>

\* Lines 153 and 45-49: SET with a 300 s expiry; an error is swallowed.
ViewSet(p) ==
    /\ pc[p] = "viewSet"
    /\ \/ cached' = Copy(job[p].doc)
       \/ "redis" \in Faults /\ UNCHANGED cached
    /\ Finish(p)
    /\ UNCHANGED subject

\* Mutant: SET without EX.
CopyExpiresNever == cached.hit /\ FALSE /\ UNCHANGED vars

\* Redis drops the copy when its 300 s are over.
CopyExpires ==
    /\ cached.hit
    /\ cached' = NoCopy
    /\ UNCHANGED <<subject, pc, job>>

-----------------------------------------------------------------------------
\* An await on the database rejects: the handler throws.  The update may have
\* been applied and only its reply lost: then nothing is invalidated.
DbError(p) ==
    /\ "db" \in Faults
    /\ pc[p] \in {"enrollWrite", "deactivateWrite", "assignWrite", "viewFind",
                  "invalidate"}
    /\ Finish(p)
    /\ UNCHANGED <<subject, cached>>

\* The server process dies.
Crash ==
    /\ "crash" \in Faults
    /\ pc' = [p \in Proc |-> "idle"]
    /\ job' = [p \in Proc |-> IdleJob]
    /\ UNCHANGED <<subject, cached>>

Arrive(p) ==
    \/ \E ids \in Requests : EnrollFind(p, ids)
    \/ \E id \in Id : Unenroll(p, id) \/ AssignFind(p, id) \/ RemoveFaculty(p, id)
    \/ \E c \in Capacities : UpdateSubject(p, c)
    \/ DeactivateFind(p)
    \/ \E u \in Id \union {Admin} : ViewGet(p, u)

Proceed(p) ==
    \/ EnrollWrite(p)
    \/ DeactivateWrite(p)
    \/ AssignWrite(p)
    \/ Invalidate(p)
    \/ ViewFind(p)
    \/ ViewSet(p)

Next ==
    \/ \E p \in Proc : Arrive(p) \/ Proceed(p) \/ DbError(p)
    \/ CopyExpires
    \/ Crash

Spec == Init /\ [][Next]_vars

\* The event loop runs what is ready, the database answers, Redis expires.
Fairness == (\A p \in Proc : WF_vars(Proceed(p))) /\ WF_vars(CopyExpires)

FairSpec == Spec /\ Fairness

-----------------------------------------------------------------------------
(* Properties                                                              *)

Pcs == {"idle", "enrollWrite", "deactivateWrite", "assignWrite", "invalidate",
        "viewFind", "viewSet"}

\* Type invariant.  Only registered students are ever enrolled and only
\* teachers assigned, whatever ids requests name.
TypeOK ==
    /\ subject \in Subject
    /\ cached \in [hit : {FALSE}] \union [hit : {TRUE}, doc : Subject]
    /\ pc \in [Proc -> Pcs]
    /\ job \in [Proc -> Job]
    /\ \A p \in Proc : pc[p] = "assignWrite" => job[p].user \in Teacher

\* A request about to enrol has no more students than the seats it counted.
ChoiceFits ==
    \A p \in Proc :
        /\ pc[p] = "enrollWrite"
        /\ job[p].available # Unlimited /\ job[p].available >= 0
        => Cardinality(job[p].chosen) <= job[p].available

\* An enrolment whose seats have not been taken since it counted them does not
\* overfill the subject, whatever else happened to the subject in between.
UndisturbedEnrollFits ==
    [][\A p \in Proc :
          /\ pc[p] = "enrollWrite" /\ pc'[p] = "invalidate"
          /\ job[p].available # Unlimited /\ job[p].available >= 0
          /\ Room(subject) # Unlimited /\ Room(subject) >= job[p].available
          => Room(subject') >= 0]_vars

\* Requests past the test of isActive that have still to write.
Admitted == {p \in Proc : pc[p] \in {"enrollWrite", "assignWrite"}}

\* A deactivated subject whose admitted requests are gone stays deactivated,
\* takes no student and no teacher, and admits no request.
DeactivationHolds ==
    [][~ subject.active /\ Admitted = {} =>
          /\ ~ subject'.active
          /\ Admitted' = {}
          /\ subject'.students \subseteq subject.students
          /\ subject'.teachers \subseteq subject.teachers]_vars

\* If the subject stops changing, a copy in Redis comes to equal it, whatever
\* reader was between its reading and its SET and whatever DEL failed.
CopyConverges ==
    (<>[][UNCHANGED subject]_vars) =>
        <>[](cached.hit => cached.doc = subject)

-----------------------------------------------------------------------------
(* What the documents say and the code does not do                         *)

\* business-rules.md, BR-SUBJ-15: "Enrollment beyond capacity is rejected": a
\* subject that is full takes nobody.
FullSubjectTakesNobody ==
    [][Room(subject) # Unlimited /\ Room(subject) <= 0 =>
          subject'.students \subseteq subject.students]_vars
===============================================================================
