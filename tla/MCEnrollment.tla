----------------------------- MODULE MCEnrollment -----------------------------
(* Values of the constants of Enrollment for TLC. *)
EXTENDS Enrollment

CONSTANTS s1, s2, s3, s4, f1

Pair == {s1, s2}
Class == {s1, s2, s3, s4}
Teachers == {f1}
PairAndTeacher == Pair \union Teachers
ClassAndTeacher == Class \union Teachers

\* One student and a teacher who is not one; two students.
Mixed == {<<s1, f1>>, <<s1, s2>>}
Lectures == {<<s1, s2>>, <<s1, s2, s3, s4>>}
===============================================================================
