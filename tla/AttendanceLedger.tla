--------------------------- MODULE AttendanceLedger ---------------------------
(***************************************************************************)
(* What the attendance engine promises about sessions and marks, without   *)
(* documents, awaits, caches or clocks: a session is opened, then locked   *)
(* for good; a mark changes only at the hand of a request that was         *)
(* admitted; and a locked session admits nobody.  A request admitted       *)
(* before the lock may still write after it.                               *)
(***************************************************************************)
EXTENDS Naturals

CONSTANTS Session, Student, Proc, Marks

VARIABLES
    phase,      \* phase[s]: "absent", "open" or "locked"
    admitted,   \* admitted[s]: requests past the lock check of s
    marks       \* marks[s][st]: "none" or the mark of st in s

ledger == <<phase, admitted, marks>>

LedgerInit ==
    /\ phase = [s \in Session |-> "absent"]
    /\ admitted = [s \in Session |-> {}]
    /\ marks = [s \in Session |-> [st \in Student |-> "none"]]

\* A request passes the lock check of s.
Admit(p, s) ==
    /\ phase[s] # "locked"
    /\ admitted' = [admitted EXCEPT ![s] = @ \union {p}]
    /\ UNCHANGED <<phase, marks>>

\* An admitted request opens the session it is about to fill.
Open(s) ==
    /\ admitted[s] # {} /\ phase[s] = "absent"
    /\ phase' = [phase EXCEPT ![s] = "open"]
    /\ UNCHANGED <<admitted, marks>>

\* An admitted request writes one mark; with its last one it leaves.
Mark(p, s, st, m) ==
    /\ p \in admitted[s] /\ phase[s] # "absent"
    /\ marks' = [marks EXCEPT ![s][st] = m]
    /\ admitted' \in {admitted, [admitted EXCEPT ![s] = @ \ {p}]}
    /\ UNCHANGED phase

\* Admitted requests fail before they are done.
Leave(gone) ==
    /\ admitted' = [s \in Session |-> admitted[s] \ gone]
    /\ UNCHANGED <<phase, marks>>

Lock(s) ==
    /\ phase[s] = "open"
    /\ phase' = [phase EXCEPT ![s] = "locked"]
    /\ UNCHANGED <<admitted, marks>>

LedgerNext ==
    \/ \E s \in Session, p \in Proc :
          Admit(p, s) \/ (\E st \in Student, m \in Marks : Mark(p, s, st, m))
    \/ \E s \in Session : Open(s) \/ Lock(s)
    \/ \E gone \in SUBSET Proc : Leave(gone)

LedgerSpec == LedgerInit /\ [][LedgerNext]_ledger
===============================================================================
