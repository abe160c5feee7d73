---------------------------- MODULE RefreshClient ----------------------------
(***************************************************************************)
(* The tabs of one browser that share a session (axiosInstance.ts and      *)
(* authSlice.ts).  Each tab has its Redux store, its calls in flight and   *)
(* its refresh; localStorage is common.  A token pair is the number of its *)
(* issue.  The server side is one step for each call: what can happen      *)
(* within a rotation is the subject of AuthSession.  Two more steps of the *)
(* server concern the session without a call of this browser.              *)
(*                                                                         *)
(* A call to /auth/login or /auth/logout is the tab's "gate": the form is  *)
(* disabled while it runs.                                                 *)
(***************************************************************************)
EXTENDS Naturals

CONSTANTS Tab, Call,   \* the tabs; the calls a tab may have under way
          MaxTokens,   \* bound: the server issues no more pairs
          Lossy        \* whether the network may lose requests and answers

NoToken == 0

VARIABLES
    store,         \* per tab: isAuthenticated and accessToken
    isRefreshing,  \* per tab
    refresh,       \* per tab: the call to /auth/refresh
    gate,          \* per tab: the call to /auth/login or /auth/logout
    call,          \* per tab and call: where it is, its token, its _retry
    kept,          \* sat_refresh_token in localStorage
    valid,         \* refresh:<user> on the server
    live,          \* access tokens neither expired nor blacklisted
    issued,        \* the last pair issued
    disturbed      \* history: since the last login that ran alone, session calls
                   \* overlapped, an answer was lost, or refresh:<user> was
                   \* ended or replaced from outside

vars == <<store, isRefreshing, refresh, gate, call, kept, valid, live, issued, disturbed>>
server == <<valid, live, issued>>

SignedOut == [auth |-> FALSE, access |-> NoToken]
NoCall == [at |-> "idle", token |-> NoToken, retry |-> FALSE]
\* A session call: "sent" until the server has it, then "back" with the pair
\* it got, NoToken for an error.
NoSession == [at |-> "none", token |-> NoToken]

Init ==
    /\ store = [t \in Tab |-> SignedOut]
    /\ isRefreshing = [t \in Tab |-> FALSE]
    /\ refresh = [t \in Tab |-> NoSession]
    /\ gate = [t \in Tab |-> NoSession]
    /\ call = [t \in Tab |-> [c \in Call |-> NoCall]]
    /\ kept = NoToken
    /\ valid = NoToken /\ live = {} /\ issued = 0
    /\ disturbed = FALSE

\* No session call is under way in any tab.
Quiet == \A t \in Tab : refresh[t].at = "none" /\ gate[t].at = "none"

\* The session call of t is the only one.
OnlyCall(t) == \A u \in Tab : refresh[u].at = "none" /\ (gate[u].at # "none" => u = t)

\* A session call starts.
Starts == disturbed' = (disturbed \/ ~Quiet)

Issue ==
    /\ issued < MaxTokens
    /\ issued' = issued + 1
    /\ valid' = issued + 1
    /\ live' = live \union {issued + 1}

-----------------------------------------------------------------------------
(* Calls of the pages.                                                     *)

\* The request interceptor attaches the access token of the store.
Send(t, c) ==
    /\ store[t].auth /\ call[t][c].at = "idle"
    /\ call' = [call EXCEPT ![t][c] = [at |-> "sent", token |-> store[t].access, retry |-> FALSE]]
    /\ UNCHANGED <<store, isRefreshing, refresh, gate, kept, server, disturbed>>

\* Any answer but a 401 ends the call; so does the timeout.
Answer(t, c) ==
    /\ call[t][c].at = "sent"
    /\ call[t][c].token \in live \/ Lossy
    /\ call' = [call EXCEPT ![t][c] = NoCall]
    /\ UNCHANGED <<store, isRefreshing, refresh, gate, kept, server, disturbed>>

Deny(t, c) ==
    /\ call[t][c].at = "sent" /\ call[t][c].token \notin live
    /\ call' = [call EXCEPT ![t][c].at = "denied"]
    /\ UNCHANGED <<store, isRefreshing, refresh, gate, kept, server, disturbed>>

\* The 401 of a call that was already repeated.
GiveUp(t, c) ==
    /\ call[t][c].at = "denied" /\ call[t][c].retry
    /\ call' = [call EXCEPT ![t][c] = NoCall]
    /\ UNCHANGED <<store, isRefreshing, refresh, gate, kept, server, disturbed>>

\* Another call is refreshing: wait in failedQueue.
Queue(t, c) ==
    /\ call[t][c].at = "denied" /\ ~call[t][c].retry /\ isRefreshing[t]
    /\ call' = [call EXCEPT ![t][c].at = "queued"]
    /\ UNCHANGED <<store, isRefreshing, refresh, gate, kept, server, disturbed>>

\* This call refreshes, by a bare axios.post without timeout.
Lead(t, c) ==
    /\ call[t][c].at = "denied" /\ ~call[t][c].retry /\ ~isRefreshing[t]
    /\ kept # NoToken
    /\ call' = [call EXCEPT ![t][c] = [@ EXCEPT !.at = "leading", !.retry = TRUE]]
    /\ isRefreshing' = [isRefreshing EXCEPT ![t] = TRUE]
    /\ refresh' = [refresh EXCEPT ![t] = [at |-> "sent", token |-> kept]]
    /\ Starts
    /\ UNCHANGED <<store, gate, kept, server>>

\* Nothing to refresh with: logout(), and the queue is rejected.
Stranded(t, c) ==
    /\ call[t][c].at = "denied" /\ ~call[t][c].retry /\ ~isRefreshing[t]
    /\ kept = NoToken
    /\ store' = [store EXCEPT ![t] = SignedOut]
    /\ call' = [call EXCEPT ![t] = [d \in Call |->
                    IF d = c \/ @[d].at = "queued" THEN NoCall ELSE @[d]]]
    /\ UNCHANGED <<isRefreshing, refresh, gate, kept, server, disturbed>>

-----------------------------------------------------------------------------
(* The refresh.                                                            *)

\* A refresh that was admitted deletes the stored token before it looks the
\* user up, who may be inactive or not be found for a failure.
RefreshServe(t) ==
    /\ refresh[t].at = "sent"
    /\ \/ /\ refresh[t].token = valid /\ Issue
          /\ \/ /\ refresh' = [refresh EXCEPT ![t] = [at |-> "back", token |-> issued + 1]]
                /\ UNCHANGED disturbed
             \/ /\ Lossy
                /\ refresh' = [refresh EXCEPT ![t] = [at |-> "back", token |-> NoToken]]
                /\ disturbed' = TRUE
       \/ /\ refresh' = [refresh EXCEPT ![t] = [at |-> "back", token |-> NoToken]]
          /\ \/ refresh[t].token = valid /\ valid' = NoToken
             \/ (refresh[t].token # valid \/ Lossy) /\ UNCHANGED valid
          /\ UNCHANGED <<live, issued, disturbed>>
    /\ UNCHANGED <<store, isRefreshing, gate, call, kept>>

\* Mutant: the new refresh token is stored in Redux only.
RefreshDoneNoKeep(t) ==
    /\ refresh[t].at = "back" /\ refresh[t].token # NoToken
    /\ store' = [store EXCEPT ![t].access = refresh[t].token]
    /\ call' = [call EXCEPT ![t] = [c \in Call |->
                    IF @[c].at \in {"queued", "leading"}
                    THEN [@[c] EXCEPT !.at = "sent", !.token = refresh[t].token]
                    ELSE @[c]]]
    /\ isRefreshing' = [isRefreshing EXCEPT ![t] = FALSE]
    /\ refresh' = [refresh EXCEPT ![t] = NoSession]
    /\ UNCHANGED <<gate, kept, server, disturbed>>

\* tokenRefreshed (which leaves isAuthenticated alone), setItem, then the
\* queue and the leader are sent again.
RefreshDone(t) ==
    /\ refresh[t].at = "back" /\ refresh[t].token # NoToken
    /\ store' = [store EXCEPT ![t].access = refresh[t].token]
    /\ kept' = refresh[t].token
    /\ call' = [call EXCEPT ![t] = [c \in Call |->
                    IF @[c].at \in {"queued", "leading"}
                    THEN [@[c] EXCEPT !.at = "sent", !.token = refresh[t].token]
                    ELSE @[c]]]
    /\ isRefreshing' = [isRefreshing EXCEPT ![t] = FALSE]
    /\ refresh' = [refresh EXCEPT ![t] = NoSession]
    /\ UNCHANGED <<gate, server, disturbed>>

\* Mutant: the failure is not passed on to the queue.
RefreshFailedAlone(t) ==
    /\ refresh[t].at = "back" /\ refresh[t].token = NoToken
    /\ store' = [store EXCEPT ![t] = SignedOut]
    /\ kept' = NoToken
    /\ call' = [call EXCEPT ![t] = [c \in Call |->
                    IF @[c].at = "leading" THEN NoCall ELSE @[c]]]
    /\ isRefreshing' = [isRefreshing EXCEPT ![t] = FALSE]
    /\ refresh' = [refresh EXCEPT ![t] = NoSession]
    /\ UNCHANGED <<gate, server, disturbed>>

\* catch and finally: logout(), removeItem, the queue is rejected.
RefreshFailed(t) ==
    /\ refresh[t].at = "back" /\ refresh[t].token = NoToken
    /\ store' = [store EXCEPT ![t] = SignedOut]
    /\ kept' = NoToken
    /\ call' = [call EXCEPT ![t] = [c \in Call |->
                    IF @[c].at \in {"queued", "leading"} THEN NoCall ELSE @[c]]]
    /\ isRefreshing' = [isRefreshing EXCEPT ![t] = FALSE]
    /\ refresh' = [refresh EXCEPT ![t] = NoSession]
    /\ UNCHANGED <<gate, server, disturbed>>

-----------------------------------------------------------------------------
(* Login and logout.  Their 401 never refreshes.                           *)

LoginSend(t) ==
    /\ ~store[t].auth /\ gate[t].at = "none"
    /\ gate' = [gate EXCEPT ![t] = [at |-> "login", token |-> NoToken]]
    /\ Starts
    /\ UNCHANGED <<store, isRefreshing, refresh, call, kept, server>>

\* The pair that is answered replaces whatever was stored before.
LoginServe(t) ==
    /\ gate[t].at = "login"
    /\ \/ /\ Issue
          /\ \/ /\ gate' = [gate EXCEPT ![t] = [at |-> "loginBack", token |-> issued + 1]]
                /\ disturbed' = (disturbed /\ ~OnlyCall(t))
             \/ /\ Lossy
                /\ gate' = [gate EXCEPT ![t] = [at |-> "loginBack", token |-> NoToken]]
                /\ disturbed' = TRUE
       \/ /\ gate' = [gate EXCEPT ![t] = [at |-> "loginBack", token |-> NoToken]]
          /\ UNCHANGED <<server, disturbed>>
    /\ UNCHANGED <<store, isRefreshing, refresh, call, kept>>

LoginDone(t) ==
    /\ gate[t].at = "loginBack"
    /\ IF gate[t].token # NoToken
       THEN /\ store' = [store EXCEPT ![t] = [auth |-> TRUE, access |-> gate[t].token]]
            /\ kept' = gate[t].token
       ELSE /\ store' = [store EXCEPT ![t].auth = FALSE]
            /\ UNCHANGED kept
    /\ gate' = [gate EXCEPT ![t] = NoSession]
    /\ UNCHANGED <<isRefreshing, refresh, call, server, disturbed>>

LogoutSend(t) ==
    /\ store[t].auth /\ gate[t].at = "none"
    /\ gate' = [gate EXCEPT ![t] = [at |-> "logout", token |-> store[t].access]]
    /\ Starts
    /\ UNCHANGED <<store, isRefreshing, refresh, call, kept, server>>

\* authenticate lets only a live access token through; without one, or when
\* the request is lost, the session on the server stays.
LogoutServe(t) ==
    /\ gate[t].at = "logout"
    /\ \/ /\ gate[t].token \in live
          /\ live' = live \ {gate[t].token}
          /\ valid' = NoToken
       \/ /\ gate[t].token \notin live \/ Lossy
          /\ UNCHANGED <<live, valid>>
    /\ gate' = [gate EXCEPT ![t].at = "logoutBack"]
    /\ UNCHANGED <<store, isRefreshing, refresh, call, kept, issued, disturbed>>

\* "Logout always succeeds client-side even if server call fails."
LogoutDone(t) ==
    /\ gate[t].at = "logoutBack"
    /\ kept' = NoToken
    /\ store' = [store EXCEPT ![t] = SignedOut]
    /\ gate' = [gate EXCEPT ![t] = NoSession]
    /\ UNCHANGED <<isRefreshing, refresh, call, server, disturbed>>

-----------------------------------------------------------------------------
(* The world outside the calls of this browser.                            *)

\* An access token runs out (15 minutes).
Expire(n) ==
    /\ n \in live
    /\ live' = live \ {n}
    /\ UNCHANGED <<store, isRefreshing, refresh, gate, call, kept, valid, issued, disturbed>>

\* refresh:<user> runs out (7 days) or is deleted: by a deactivation, or by a
\* logout or a failed rotation in another browser or of a call that no tab
\* waits for any more.
StoredEnds ==
    /\ valid # NoToken
    /\ valid' = NoToken
    /\ disturbed' = TRUE
    /\ UNCHANGED <<store, isRefreshing, refresh, gate, call, kept, live, issued>>

\* The user logs in, or refreshes, in another browser, or a call that no tab
\* waits for any more is served late: a user has one stored token.
LoginElsewhere ==
    /\ Issue
    /\ disturbed' = TRUE
    /\ UNCHANGED <<store, isRefreshing, refresh, gate, call, kept>>

\* The page is loaded anew: its store starts empty, its calls are dropped.
Reload(t) ==
    /\ store' = [store EXCEPT ![t] = SignedOut]
    /\ isRefreshing' = [isRefreshing EXCEPT ![t] = FALSE]
    /\ refresh' = [refresh EXCEPT ![t] = NoSession]
    /\ gate' = [gate EXCEPT ![t] = NoSession]
    /\ call' = [call EXCEPT ![t] = [c \in Call |-> NoCall]]
    /\ disturbed' = (disturbed \/ refresh[t].at # "none" \/ gate[t].at # "none")
    /\ UNCHANGED <<kept, server>>

Next ==
    \/ \E t \in Tab :
          \/ \E c \in Call : \/ Send(t, c) \/ Answer(t, c) \/ Deny(t, c)
                            \/ GiveUp(t, c) \/ Queue(t, c) \/ Lead(t, c) \/ Stranded(t, c)
          \/ RefreshServe(t) \/ RefreshDone(t) \/ RefreshFailed(t)
          \/ LoginSend(t) \/ LoginServe(t) \/ LoginDone(t)
          \/ LogoutSend(t) \/ LogoutServe(t) \/ LogoutDone(t)
          \/ Reload(t)
    \/ \E n \in live : Expire(n)
    \/ StoredEnds
    \/ LoginElsewhere

Spec == Init /\ [][Next]_vars

-----------------------------------------------------------------------------
(* Properties.                                                             *)

\* The session calls that a state allows.
SessionCall == [at : {"none", "sent", "back"}, token : Nat]
GateCall == [at : {"none", "login", "loginBack", "logout", "logoutBack"}, token : Nat]

\* Stores, calls and tokens hold what the code can put there.
TypeOK ==
    /\ store \in [Tab -> [auth : BOOLEAN, access : Nat]]
    /\ isRefreshing \in [Tab -> BOOLEAN]
    /\ refresh \in [Tab -> SessionCall]
    /\ gate \in [Tab -> GateCall]
    /\ call \in [Tab -> [Call -> [at : {"idle", "sent", "denied", "queued", "leading"},
                                 token : Nat, retry : BOOLEAN]]]
    /\ kept \in Nat /\ valid \in Nat /\ issued \in Nat
    /\ live \subseteq 1..issued
    /\ disturbed \in BOOLEAN

\* The refresh token in localStorage is the one the server will take, and so
\* is the one a refresh presents: a token is spent only for a newer one that
\* reaches localStorage.  What can break it: two session calls at a time, of
\* one tab or of two, a lost answer, and a stored token that ends or is
\* replaced from outside.  The next login that runs alone mends it, whatever
\* tokens and calls the tabs still have from before.
KeptIsCurrent ==
    ~disturbed => /\ Quiet => kept \in {NoToken, valid}
                  /\ \A t \in Tab : refresh[t].at = "sent" => refresh[t].token = valid

\* A call that waits is woken: while there are calls in failedQueue or a call
\* that leads, their tab has a refresh under way that will answer them.
NobodyIsForgotten ==
    \A t \in Tab : \A c \in Call :
        call[t][c].at \in {"queued", "leading"} => isRefreshing[t] /\ refresh[t].at # "none"
=============================================================================
