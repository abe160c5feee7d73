---------------------------- MODULE MCAuthSession ----------------------------
(* Values of the constants of AuthSession for TLC. *)
EXTENDS AuthSession, TLC

CONSTANTS p1, p2

Slots == {p1, p2}
Interchangeable == Permutations(Slots)
===============================================================================
