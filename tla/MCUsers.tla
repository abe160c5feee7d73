------------------------------- MODULE MCUsers -------------------------------
(***************************************************************************)
(* A small instance of Users for TLC.                                      *)
(***************************************************************************)
EXTENDS Users, TLC

CONSTANTS ann, e1, e2, i1, k1, k2

\* The address of a future account with reactivation; no photo and any of those
\* that were uploaded.
SomeEdits == {[email |-> e2, active |-> TRUE]} \union [photo : Photo \union {None}]

\* No action reads the audit log, so two states that differ only in its newest
\* entry have the same successors.  So have two that differ only in what a
\* lapsed copy says: actions ask only whether there is a copy, and the property
\* about its content asks nothing of a lapsed one.
BesidesLog == <<fields, version, given, IF lapsed THEN None ELSE copy,
                bucket, accounts, pc, req, history>>

Interchangeable == Permutations(Proc) \union Permutations(Photo)
===============================================================================
