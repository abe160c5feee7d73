----------------------------- MODULE MCAlertEmail -----------------------------
(* Values of the constants of AlertEmail for TLC. *)
EXTENDS AlertEmail, TLC

CONSTANTS adaMath, bobMath, ada, bob

Students == [p \in Pair |-> IF p = adaMath THEN ada ELSE bob]

\* Each pair has a student of its own, so that pairs are interchangeable; the
\* pair of a weekly job that is at no pair (IdleWeekly) is chosen, never read.
Symmetry == Permutations(Pair)
===============================================================================
