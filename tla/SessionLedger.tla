---------------------------- MODULE SessionLedger ----------------------------
(***************************************************************************)
(* What the authentication service promises about the session of a user,   *)
(* without requests' locals, expiry, counters or deny lists: one token at  *)
(* a time is usable; it is made usable by a request that saw the user      *)
(* active, and was never handed out before; a refresh begins only where a  *)
(* token is usable.  So a closed session without refreshes is reopened by  *)
(* a login, and an inactive user gets nothing once those admitted are gone.*)
(***************************************************************************)
CONSTANTS Proc, Token, None

VARIABLES
    active,      \* whether the user is active
    usable,      \* the token that may be used, or None
    handed,      \* the tokens the user was given
    refreshing,  \* refreshes under way
    admitted     \* requests that saw the user active, with a token to come

ledger == <<active, usable, handed, refreshing, admitted>>

LedgerInit ==
    /\ active = TRUE /\ usable = None /\ handed = {}
    /\ refreshing = {} /\ admitted = {}

\* A refresh presents the usable token.
Begin(p) ==
    /\ usable # None
    /\ refreshing' = refreshing \union {p}
    /\ UNCHANGED <<active, usable, handed, admitted>>

\* A login or a refresh finds the user active.
Admit(p) ==
    /\ active
    /\ admitted' = admitted \union {p}
    /\ UNCHANGED <<active, usable, handed, refreshing>>

\* An admitted request makes a new token usable; the answer may be lost.
Open(p) ==
    /\ p \in admitted
    /\ usable' \in Token \ handed
    /\ handed' \in {handed, handed \union {usable'}}
    /\ refreshing' = refreshing \ {p} /\ admitted' = admitted \ {p}
    /\ UNCHANGED active

\* The usable token is deleted, requests end, or both.
Close(gone) ==
    /\ usable' \in {usable, None}
    /\ refreshing' = refreshing \ gone /\ admitted' = admitted \ gone
    /\ UNCHANGED <<active, handed>>

\* An administrator activates or deactivates the user.
Switch ==
    /\ active' \in BOOLEAN
    /\ UNCHANGED <<usable, handed, refreshing, admitted>>

LedgerNext ==
    \/ \E p \in Proc : Begin(p) \/ Admit(p) \/ Open(p)
    \/ \E gone \in SUBSET Proc : Close(gone)
    \/ Switch

LedgerSpec == LedgerInit /\ [][LedgerNext]_ledger
==============================================================================
