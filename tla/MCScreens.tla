------------------------------ MODULE MCScreens ------------------------------
(***************************************************************************)
(* Screens for TLC: one admin, every other user teaches the subject cs.    *)
(***************************************************************************)
EXTENDS Screens

CONSTANTS root, cs

Roles == [u \in User |-> IF u = root THEN "admin" ELSE "faculty"]
Teaching == [u \in User |-> IF u = root THEN {} ELSE {cs}]
==============================================================================
