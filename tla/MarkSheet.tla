------------------------------- MODULE MarkSheet -------------------------------
(***************************************************************************)
(* The page on which a faculty member marks a class (AttendancePage of     *)
(* frontend/src/App.tsx) and what POST /attendance does with its sheet.    *)
(* Choosing a subject changes the selection at once, while the students    *)
(* shown stay those of the subject before until the list arrives; lists    *)
(* arrive in any order, or never.  The server writes whatever it is sent.  *)
(* AttendanceEngine models markAttendance step by step; here it is one     *)
(* step, of one faculty member, date and label.                            *)
(***************************************************************************)
EXTENDS Naturals, FiniteSets

CONSTANTS
    Subject,    \* the subjects of the drop-down list
    Student,    \* the students of the college
    None,       \* no subject selected
    MaxLoads    \* bound: lists and sheets under way at once

VARIABLES
    roster,     \* [Subject -> SUBSET Student]: studentIds, at the server
    assigned,   \* the active subjects this faculty member teaches
    locked,     \* the subjects whose session of the day is locked
    marks,      \* the records: [subject, student, status]
    selected,   \* the subject of the drop-down list, or None
    sheet,      \* the students shown with their marks: students and statuses
    loads,      \* the lists asked for and not yet shown
    posts,      \* the sheets sent and not yet served
    strangers   \* records that were written for a student not enrolled

vars == <<roster, assigned, locked, marks, selected, sheet, loads, posts, strangers>>

Status == {"present", "absent"}
Sheet == UNION {[S -> Status] : S \in SUBSET Student}
Record == [subject: Subject, student: Student, status: Status]
Blank == [x \in {} |-> "present"]

TypeOK ==
    /\ roster \in [Subject -> SUBSET Student]
    /\ assigned \subseteq Subject /\ locked \subseteq Subject
    /\ marks \subseteq Record /\ strangers \subseteq Record
    /\ selected \in Subject \cup {None}
    /\ sheet \in Sheet
    /\ loads \subseteq Subject
    /\ posts \subseteq [subject: Subject, sheet: Sheet]

Init ==
    /\ roster \in [Subject -> SUBSET Student]
    /\ assigned = Subject /\ locked = {} /\ marks = {} /\ strangers = {}
    /\ selected = None /\ sheet = Blank /\ loads = {} /\ posts = {}

server == <<roster, assigned, locked, marks, strangers>>

-----------------------------------------------------------------------------
(* The page *)

\* handleSubjectChange: the selection changes now, the list is only asked for.
Choose(s) ==
    /\ Cardinality(loads) < MaxLoads
    /\ selected' = s
    /\ loads' = loads \cup {s}
    /\ UNCHANGED <<server, sheet, posts>>

\* The empty entry of the list: nothing is asked for, and the sheet stays.
Unchoose == selected' = None /\ UNCHANGED <<server, sheet, loads, posts>>

\* loadStudents: a list arrives, whatever is selected by now; everyone present.
Listed(s) ==
    /\ s \in loads /\ s \in assigned
    /\ sheet' = [x \in roster[s] |-> "present"]
    /\ loads' = loads \ {s}
    /\ UNCHANGED <<server, selected, posts>>

\* A list fails to load; handleSubjectChange does not look.
ListFails(s) ==
    /\ s \in loads
    /\ loads' = loads \ {s}
    /\ UNCHANGED <<server, selected, sheet, posts>>

\* The button of one student, and "All Present", "All Absent".
Toggle(x) ==
    /\ x \in DOMAIN sheet
    /\ sheet' = [sheet EXCEPT ![x] = IF @ = "present" THEN "absent" ELSE "present"]
    /\ UNCHANGED <<server, selected, loads, posts>>

All(status) ==
    /\ DOMAIN sheet # {}
    /\ sheet' = [x \in DOMAIN sheet |-> status]
    /\ UNCHANGED <<server, selected, loads, posts>>

\* handleSubmit: the selected subject with the students shown.  Without a
\* selection the validation refuses it; without students there is no button.
Submit ==
    /\ selected # None /\ DOMAIN sheet # {}
    /\ Cardinality(posts) < MaxLoads
    /\ posts' = posts \cup {[subject |-> selected, sheet |-> sheet]}
    /\ UNCHANGED <<server, selected, sheet, loads>>

-----------------------------------------------------------------------------
(* The server *)

\* markAttendance: the faculty member must teach the subject and the session
\* be unlocked; each student's record is then inserted or overwritten.
Mark(p) ==
    LET given == {[subject |-> p.subject, student |-> x, status |-> p.sheet[x]] : x \in DOMAIN p.sheet}
        before == {r \in marks : r.subject = p.subject /\ r.student \in DOMAIN p.sheet}
    IN /\ p.subject \in assigned /\ p.subject \notin locked
       /\ marks' = (marks \ before) \cup given
       /\ strangers' = strangers \cup {r \in given : r.student \notin roster[p.subject]}
       /\ posts' = posts \ {p}
       /\ UNCHANGED <<roster, assigned, locked, selected, sheet, loads>>

Refuse(p) ==
    /\ p.subject \notin assigned \/ p.subject \in locked
    /\ posts' = posts \ {p}
    /\ UNCHANGED <<server, selected, sheet, loads>>

\* Others' requests: enrolStudents, unenrollStudent, removeFaculty, lockSession
\* of a session that marking has created.
Enrol(s, x) ==
    /\ roster' = [roster EXCEPT ![s] = @ \cup {x}]
    /\ UNCHANGED <<assigned, locked, marks, strangers, selected, sheet, loads, posts>>

Unenrol(s, x) ==
    /\ roster' = [roster EXCEPT ![s] = @ \ {x}]
    /\ UNCHANGED <<assigned, locked, marks, strangers, selected, sheet, loads, posts>>

RemoveFaculty(s) ==
    /\ assigned' = assigned \ {s}
    /\ UNCHANGED <<roster, locked, marks, strangers, selected, sheet, loads, posts>>

Lock(s) ==
    /\ \E r \in marks : r.subject = s
    /\ locked' = locked \cup {s}
    /\ UNCHANGED <<roster, assigned, marks, strangers, selected, sheet, loads, posts>>

-----------------------------------------------------------------------------
Page ==
    \/ \E s \in Subject : Choose(s) \/ Listed(s) \/ ListFails(s)
    \/ Unchoose
    \/ \E x \in Student : Toggle(x)
    \/ \E status \in Status : All(status)
    \/ Submit

Server ==
    \/ \E p \in posts : Mark(p) \/ Refuse(p)
    \/ \E s \in Subject : RemoveFaculty(s) \/ Lock(s)
    \/ \E s \in Subject, x \in Student : Enrol(s, x) \/ Unenrol(s, x)

Next == Page \/ Server
Spec == Init /\ [][Next]_vars

\* Only students who are enrolled in a subject when it is marked get a record of
\* it, as step 2 of the documented marking flow has it.  markAttendance does not
\* look, and the page sends one subject's students under another's name.
OnlyEnrolledMarked == strangers = {}
===============================================================================
