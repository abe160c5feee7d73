-------------------------- MODULE MCAttendanceEngine --------------------------
(***************************************************************************)
(* Small instances of AttendanceEngine for TLC.                            *)
(***************************************************************************)
EXTENDS AttendanceEngine, TLC

CONSTANTS f1, f2, s1, s2, math, am

P(st) == [student |-> st, status |-> "present"]
A(st) == [student |-> st, status |-> "absent"]

OneSession == am :> math

\* One student; two students with a partial re-mark; one student listed twice
\* with contradicting marks, which the Joi schema lets through.
SoloRosters == {<<P(s1)>>, <<A(s1)>>}
ClassRosters == {<<P(s1), A(s2)>>, <<A(s1)>>, <<P(s1), A(s1)>>}
PresentOnly == {<<P(s1)>>}

\* Bound of the runs about records and caches: no change to the subjects.
SubjectsSettled == \A sub \in Subject : active[sub] /\ assigned[sub] = Faculty

\* The same, and the nightly job, whose calls are those of a client, is off.
SettledDay == SubjectsSettled /\ nightly = {}

Symmetry == Permutations(Proc) \union Permutations(Worker) \union Permutations(Faculty)
===============================================================================
