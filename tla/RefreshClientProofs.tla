-------------------------- MODULE RefreshClientProofs --------------------------
(***************************************************************************)
(* Theorems about RefreshClient, for any number of tabs, calls and tokens, *)
(* with or without losses.                                                 *)
(*                                                                         *)
(* NobodyIsForgotten rests on the flag isRefreshing being true exactly     *)
(* while the tab has a refresh under way.  KeptIsCurrent rests on there    *)
(* being at most one session call under way while the history is not       *)
(* disturbed, and on what each kind of call leaves in localStorage; a      *)
(* login that ends a disturbance is itself the one call under way.         *)
(***************************************************************************)
EXTENDS RefreshClient, TLAPS

\* The flag tells whether the tab refreshes.
FlagIsRefresh == \A t \in Tab : isRefreshing[t] <=> refresh[t].at # "none"

\* A tab with a session call under way.
Busy(t) == refresh[t].at # "none" \/ gate[t].at # "none"

\* One session call at a time.
Alone ==
    \A t \in Tab : /\ refresh[t].at = "none" \/ gate[t].at = "none"
                   /\ \A u \in Tab : Busy(t) /\ Busy(u) => t = u

\* What may be in localStorage while nothing or a login is under way, and what
\* the answers of a refresh and a login bring.
Current ==
    /\ Quiet => kept \in {NoToken, valid}
    /\ \A t \in Tab :
          /\ refresh[t].at = "sent" => refresh[t].token = valid
          /\ refresh[t].at = "back" => refresh[t].token \in {NoToken, valid}
          /\ gate[t].at = "login" => kept \in {NoToken, valid}
          /\ gate[t].at = "loginBack" /\ gate[t].token = NoToken => kept \in {NoToken, valid}
          /\ gate[t].at = "loginBack" /\ gate[t].token # NoToken => gate[t].token = valid

Calm == ~disturbed => Alone /\ Current

IInv == TypeOK /\ FlagIsRefresh /\ NobodyIsForgotten /\ Calm

\* Browsers start signed out with nothing under way.
LEMMA InitOK == Init => IInv
<1> SUFFICES ASSUME Init PROVE IInv
  OBVIOUS
<1> USE DEF Init, SignedOut, NoCall, NoSession, NoToken, SessionCall, GateCall
<1>1. TypeOK
  BY DEF TypeOK
<1>2. FlagIsRefresh /\ NobodyIsForgotten
  BY DEF FlagIsRefresh, NobodyIsForgotten
<1>3. Calm
  BY DEF Calm, Alone, Busy, Current, Quiet
<1> QED
  BY <1>1, <1>2, <1>3 DEF IInv

-----------------------------------------------------------------------------
(* The types of records with a changed field.                              *)

At == {"idle", "sent", "denied", "queued", "leading"}
CallState == [at : At, token : Nat, retry : BOOLEAN]

\* A call stays a call when it moves, and when it moves with another token.
LEMMA CallMoves ==
  ASSUME NEW r \in CallState, NEW at \in At, NEW token \in Nat
  PROVE  /\ [r EXCEPT !.at = at] \in CallState
         /\ [r EXCEPT !.at = at, !.token = token] \in CallState
         /\ [r EXCEPT !.at = at, !.retry = TRUE] \in CallState
  BY DEF CallState

\* One call of one tab changes.
LEMMA OneCallChanges ==
  ASSUME NEW f \in [Tab -> [Call -> CallState]], NEW t \in Tab, NEW c \in Call, NEW r \in CallState
  PROVE  [f EXCEPT ![t] = [f[t] EXCEPT ![c] = r]] \in [Tab -> [Call -> CallState]]
  OBVIOUS

\* The calls of one tab change.
LEMMA OneTabChanges ==
  ASSUME NEW f \in [Tab -> [Call -> CallState]], NEW t \in Tab, NEW g \in [Call -> CallState]
  PROVE  [f EXCEPT ![t] = g] \in [Tab -> [Call -> CallState]]
  OBVIOUS

\* A call is sent with the token of the store.
LEMMA SendKeeps == ASSUME IInv, NEW t \in Tab, NEW c \in Call, Send(t, c) PROVE IInv'
<1> USE DEF IInv, Send
<1>1. TypeOK'
  BY DEF TypeOK, SessionCall, GateCall, NoToken, server
<1>2. FlagIsRefresh'
  BY DEF TypeOK, SessionCall, GateCall, FlagIsRefresh, server
<1>3. NobodyIsForgotten'
  BY DEF TypeOK, SessionCall, FlagIsRefresh, NobodyIsForgotten
<1>4. Calm'
  BY DEF TypeOK, SessionCall, GateCall, Calm, Alone, Busy, Current, Quiet, NoToken, server
<1> QED
  BY <1>1, <1>2, <1>3, <1>4

\* A call is answered.
LEMMA AnswerKeeps == ASSUME IInv, NEW t \in Tab, NEW c \in Call, Answer(t, c) PROVE IInv'
<1> USE DEF IInv, Answer
<1>1. TypeOK'
  BY DEF TypeOK, SessionCall, GateCall, NoCall, NoToken, server
<1>2. FlagIsRefresh'
  BY DEF TypeOK, SessionCall, GateCall, FlagIsRefresh, server
<1>3. NobodyIsForgotten'
  BY DEF TypeOK, SessionCall, FlagIsRefresh, NobodyIsForgotten, NoCall
<1>4. Calm'
  BY DEF TypeOK, SessionCall, GateCall, Calm, Alone, Busy, Current, Quiet, NoToken, server
<1> QED
  BY <1>1, <1>2, <1>3, <1>4

\* A call is denied.
LEMMA DenyKeeps == ASSUME IInv, NEW t \in Tab, NEW c \in Call, Deny(t, c) PROVE IInv'
<1> USE DEF IInv, Deny
<1>1. TypeOK'
  <2> DEFINE r == [call[t][c] EXCEPT !.at = "denied"]
  <2>1. call \in [Tab -> [Call -> CallState]]
    BY DEF TypeOK, CallState, At
  <2>2. r \in CallState
    <3>1. call[t][c] \in CallState
      BY <2>1
    <3> QED
      BY <3>1, CallMoves, 0 \in Nat DEF At
  <2>3. call' = [call EXCEPT ![t] = [call[t] EXCEPT ![c] = r]]
    OBVIOUS
  <2>4. call' \in [Tab -> [Call -> CallState]]
    BY <2>1, <2>2, <2>3, OneCallChanges
  <2> QED
    BY <2>4 DEF TypeOK, SessionCall, GateCall, server, CallState, At
<1>2. FlagIsRefresh'
  BY DEF TypeOK, SessionCall, GateCall, FlagIsRefresh, server
<1>3. NobodyIsForgotten'
  BY DEF TypeOK, SessionCall, FlagIsRefresh, NobodyIsForgotten
<1>4. Calm'
  BY DEF TypeOK, SessionCall, GateCall, Calm, Alone, Busy, Current, Quiet, NoToken, server
<1> QED
  BY <1>1, <1>2, <1>3, <1>4

\* A repeated call gives up.
LEMMA GiveUpKeeps == ASSUME IInv, NEW t \in Tab, NEW c \in Call, GiveUp(t, c) PROVE IInv'
<1> USE DEF IInv, GiveUp
<1>1. TypeOK'
  BY DEF TypeOK, SessionCall, GateCall, NoCall, NoToken, server
<1>2. FlagIsRefresh'
  BY DEF TypeOK, SessionCall, GateCall, FlagIsRefresh, server
<1>3. NobodyIsForgotten'
  BY DEF TypeOK, SessionCall, FlagIsRefresh, NobodyIsForgotten, NoCall
<1>4. Calm'
  BY DEF TypeOK, SessionCall, GateCall, Calm, Alone, Busy, Current, Quiet, NoToken, server
<1> QED
  BY <1>1, <1>2, <1>3, <1>4

\* A call waits only while its tab refreshes.
LEMMA QueueKeeps == ASSUME IInv, NEW t \in Tab, NEW c \in Call, Queue(t, c) PROVE IInv'
<1> USE DEF IInv, Queue
<1>1. TypeOK'
  <2> DEFINE r == [call[t][c] EXCEPT !.at = "queued"]
  <2>1. call \in [Tab -> [Call -> CallState]]
    BY DEF TypeOK, CallState, At
  <2>2. r \in CallState
    <3>1. call[t][c] \in CallState
      BY <2>1
    <3> QED
      BY <3>1, CallMoves, 0 \in Nat DEF At
  <2>3. call' = [call EXCEPT ![t] = [call[t] EXCEPT ![c] = r]]
    OBVIOUS
  <2>4. call' \in [Tab -> [Call -> CallState]]
    BY <2>1, <2>2, <2>3, OneCallChanges
  <2> QED
    BY <2>4 DEF TypeOK, SessionCall, GateCall, server, CallState, At
<1>2. FlagIsRefresh'
  BY DEF TypeOK, SessionCall, GateCall, FlagIsRefresh, server
<1>3. NobodyIsForgotten'
  BY DEF TypeOK, SessionCall, FlagIsRefresh, NobodyIsForgotten
<1>4. Calm'
  BY DEF TypeOK, SessionCall, GateCall, Calm, Alone, Busy, Current, Quiet, NoToken, server
<1> QED
  BY <1>1, <1>2, <1>3, <1>4

\* A call leads a refresh with the token of localStorage.
LEMMA LeadKeeps == ASSUME IInv, NEW t \in Tab, NEW c \in Call, Lead(t, c) PROVE IInv'
<1> USE DEF IInv, Lead
<1>1. TypeOK'
  <2> DEFINE r == [call[t][c] EXCEPT !.at = "leading", !.retry = TRUE]
  <2>1. call \in [Tab -> [Call -> CallState]]
    BY DEF TypeOK, CallState, At
  <2>2. r \in CallState
    <3>1. call[t][c] \in CallState
      BY <2>1
    <3> QED
      BY <3>1, CallMoves, 0 \in Nat DEF At
  <2>3. call' = [call EXCEPT ![t] = [call[t] EXCEPT ![c] = r]]
    OBVIOUS
  <2>4. call' \in [Tab -> [Call -> CallState]]
    BY <2>1, <2>2, <2>3, OneCallChanges
  <2> QED
    BY <2>4 DEF TypeOK, SessionCall, GateCall, Starts, server, CallState, At
<1>2. FlagIsRefresh'
  BY DEF TypeOK, SessionCall, GateCall, FlagIsRefresh, server
<1>3. NobodyIsForgotten'
  BY DEF TypeOK, SessionCall, FlagIsRefresh, NobodyIsForgotten
<1>4. Calm'
  BY DEF TypeOK, SessionCall, GateCall, Calm, Alone, Busy, Current, Quiet, Starts, NoToken, server
<1> QED
  BY <1>1, <1>2, <1>3, <1>4

\* Without a refresh nobody waits, so none is forgotten.
LEMMA StrandedKeeps == ASSUME IInv, NEW t \in Tab, NEW c \in Call, Stranded(t, c) PROVE IInv'
<1> USE DEF IInv, Stranded
<1>1. TypeOK'
  BY DEF TypeOK, SessionCall, GateCall, NoCall, SignedOut, NoToken, server
<1>2. FlagIsRefresh'
  BY DEF TypeOK, SessionCall, GateCall, FlagIsRefresh, server
<1>3. NobodyIsForgotten'
  BY DEF TypeOK, SessionCall, FlagIsRefresh, NobodyIsForgotten, NoCall
<1>4. Calm'
  BY DEF TypeOK, SessionCall, GateCall, Calm, Alone, Busy, Current, Quiet, NoToken, server
<1> QED
  BY <1>1, <1>2, <1>3, <1>4

\* The server takes a refresh.
LEMMA RefreshServeKeeps == ASSUME IInv, NEW t \in Tab, RefreshServe(t) PROVE IInv'
<1> DEFINE Back(k) == [at |-> "back", token |-> k]
<1>1. gate' = gate /\ store' = store /\ isRefreshing' = isRefreshing /\ call' = call /\ kept' = kept
  BY DEF RefreshServe
<1>2. refresh[t].at = "sent"
  BY DEF RefreshServe
<1>3. PICK k \in Nat :
         /\ refresh' = [refresh EXCEPT ![t] = Back(k)]
         /\ \/ /\ k = NoToken /\ valid' \in {valid, NoToken}
               /\ UNCHANGED <<live, issued, disturbed>>
            \/ /\ issued' = issued + 1 /\ valid' = issued + 1
               /\ live' = live \union {issued + 1}
               /\ disturbed' = TRUE \/ (k = valid' /\ k # NoToken /\ disturbed' = disturbed)
  <2>1. issued \in Nat /\ issued + 1 \in Nat /\ 0 \in Nat /\ issued + 1 # 0
    BY DEF IInv, TypeOK
  <2>2. CASE refresh' = [refresh EXCEPT ![t] = Back(issued + 1)] /\ Issue /\ disturbed' = disturbed
    BY <2>1, <2>2 DEF Issue, NoToken
  <2>3. CASE refresh' = [refresh EXCEPT ![t] = Back(NoToken)] /\ Issue /\ disturbed' = TRUE
    BY <2>1, <2>3 DEF Issue, NoToken
  <2>4. CASE refresh' = [refresh EXCEPT ![t] = Back(NoToken)] /\ valid' \in {valid, NoToken}
             /\ UNCHANGED <<live, issued, disturbed>>
    BY <2>1, <2>4 DEF NoToken
  <2> QED
    BY <2>2, <2>3, <2>4 DEF RefreshServe
<1>4. refresh \in [Tab -> SessionCall] /\ issued \in Nat /\ live \subseteq 1..issued
  BY DEF IInv, TypeOK
<1>5. refresh'[t] = Back(k) /\ \A u \in Tab \ {t} : refresh'[u] = refresh[u]
  BY <1>3, <1>4
<1>6. TypeOK'
  <2>1. Back(k) \in SessionCall
    BY DEF SessionCall
  <2>2. refresh' \in [Tab -> SessionCall]
    <3> HIDE DEF Back
    <3> QED
      BY <1>3, <1>4, <2>1
  <2>3. issued' \in Nat /\ valid' \in Nat /\ live' \subseteq 1..issued'
    <3>1. valid \in Nat
      BY DEF IInv, TypeOK
    <3>2. CASE valid' \in {valid, NoToken} /\ UNCHANGED <<live, issued, disturbed>>
      BY <3>1, <3>2, <1>4 DEF NoToken
    <3>3. CASE issued' = issued + 1 /\ valid' = issued + 1 /\ live' = live \union {issued + 1}
      BY <3>3, <1>4
    <3> QED
      BY <1>3, <3>2, <3>3
  <2>4. disturbed' \in BOOLEAN
    BY <1>3, Zenon DEF IInv, TypeOK
  <2> QED
    BY <1>1, <2>2, <2>3, <2>4 DEF IInv, TypeOK
<1>7. FlagIsRefresh' /\ NobodyIsForgotten'
  BY <1>1, <1>2, <1>5 DEF IInv, FlagIsRefresh, NobodyIsForgotten
<1>8. Calm'
  <2> SUFFICES ASSUME ~disturbed' PROVE Alone' /\ Current'
    BY DEF Calm
  <2>1. Alone /\ Current
    BY <1>3 DEF IInv, Calm, TypeOK
  <2>2. k \in {NoToken, valid'}
    BY <1>3
  <2>3. \A u \in Tab \ {t} : ~Busy(u) /\ ~Busy(u)'
    BY <1>1, <1>2, <1>5, <2>1 DEF Alone, Busy
  <2>4. gate[t].at = "none" /\ gate'[t].at = "none"
    BY <1>1, <1>2, <2>1 DEF Alone
  <2>5. Alone'
    BY <2>3, <2>4 DEF Alone, Busy
  <2>6. ~Quiet'
    BY <1>5 DEF Quiet
  <2>7. Current'
    BY <1>1, <1>2, <1>5, <2>1, <2>2, <2>3, <2>4, <2>6 DEF Current, Busy
  <2> QED
    BY <2>5, <2>7
<1> QED
  BY <1>6, <1>7, <1>8 DEF IInv

\* A refresh brings a pair and wakes everyone who waits.
LEMMA RefreshDoneKeeps == ASSUME IInv, NEW t \in Tab, RefreshDone(t) PROVE IInv'
<1> USE DEF IInv, RefreshDone
<1>1. TypeOK'
  <2> DEFINE g == [c \in Call |-> IF call[t][c].at \in {"queued", "leading"}
                                  THEN [call[t][c] EXCEPT !.at = "sent", !.token = refresh[t].token]
                                  ELSE call[t][c]]
  <2>1. call \in [Tab -> [Call -> CallState]] /\ refresh[t].token \in Nat
    BY DEF TypeOK, CallState, At, SessionCall
  <2>2. g \in [Call -> CallState]
    <3> SUFFICES ASSUME NEW c \in Call PROVE g[c] \in CallState
      OBVIOUS
    <3>1. call[t][c] \in CallState
      BY <2>1
    <3> QED
      BY <2>1, <3>1, CallMoves DEF At
  <2>3. call' = [call EXCEPT ![t] = g]
    BY <2>1
  <2>4. call' \in [Tab -> [Call -> CallState]]
    <3> HIDE DEF g
    <3> QED
      BY <2>1, <2>2, <2>3, OneTabChanges
  <2>5. /\ store' \in [Tab -> [auth : BOOLEAN, access : Nat]]
        /\ refresh' \in [Tab -> SessionCall] /\ kept' \in Nat
    BY <2>1 DEF TypeOK, SessionCall, NoSession, NoToken
  <2>6. isRefreshing' \in [Tab -> BOOLEAN] /\ gate' = gate /\ UNCHANGED <<server, disturbed>>
    BY DEF TypeOK
  <2> HIDE DEF g, RefreshDone
  <2> QED
    BY <2>4, <2>5, <2>6 DEF TypeOK, server, CallState, At
<1>2. FlagIsRefresh'
  BY DEF TypeOK, SessionCall, GateCall, FlagIsRefresh, NoSession, server
<1>3. NobodyIsForgotten'
  <2> SUFFICES ASSUME NEW u \in Tab, NEW c \in Call, call'[u][c].at \in {"queued", "leading"}
               PROVE  isRefreshing'[u] /\ refresh'[u].at # "none"
    BY DEF NobodyIsForgotten
  <2>1. u # t
    <3> SUFFICES ASSUME u = t PROVE FALSE
      OBVIOUS
    <3>1. call'[t][c] = IF call[t][c].at \in {"queued", "leading"}
                        THEN [call[t][c] EXCEPT !.at = "sent", !.token = refresh[t].token]
                        ELSE call[t][c]
      BY DEF TypeOK
    <3>2. call[t][c] \in CallState
      BY DEF TypeOK, CallState, At
    <3>3. call[t][c].at \in {"queued", "leading"} => call'[t][c].at = "sent"
      <4> HIDE DEF IInv, RefreshDone
      <4> QED
        BY <3>1, <3>2 DEF CallState
    <3> QED
      BY <3>1, <3>3
  <2> QED
    BY <2>1 DEF TypeOK, SessionCall, NobodyIsForgotten, NoSession
<1>4. Calm'
  BY DEF TypeOK, SessionCall, GateCall, Calm, Alone, Busy, Current, Quiet, NoSession, NoToken, server
<1> QED
  BY <1>1, <1>2, <1>3, <1>4

\* A failed refresh wakes everyone who waits.
LEMMA RefreshFailedKeeps == ASSUME IInv, NEW t \in Tab, RefreshFailed(t) PROVE IInv'
<1> USE DEF IInv, RefreshFailed
<1>1. TypeOK'
  BY DEF TypeOK, SessionCall, GateCall, NoCall, NoSession, SignedOut, NoToken, server
<1>2. FlagIsRefresh'
  BY DEF TypeOK, SessionCall, GateCall, FlagIsRefresh, NoSession, server
<1>3. NobodyIsForgotten'
  BY DEF TypeOK, SessionCall, FlagIsRefresh, NobodyIsForgotten, NoCall, NoSession
<1>4. Calm'
  BY DEF TypeOK, SessionCall, GateCall, Calm, Alone, Busy, Current, Quiet, NoSession, NoToken, server
<1> QED
  BY <1>1, <1>2, <1>3, <1>4

\* A login is sent.
LEMMA LoginSendKeeps == ASSUME IInv, NEW t \in Tab, LoginSend(t) PROVE IInv'
<1> USE DEF IInv, LoginSend
<1>1. TypeOK'
  BY DEF TypeOK, SessionCall, GateCall, NoToken, Starts, server
<1>2. FlagIsRefresh'
  BY DEF TypeOK, SessionCall, GateCall, FlagIsRefresh, server
<1>3. NobodyIsForgotten'
  BY DEF TypeOK, SessionCall, FlagIsRefresh, NobodyIsForgotten
<1>4. Calm'
  BY DEF TypeOK, SessionCall, GateCall, Calm, Alone, Busy, Current, Quiet, Starts, NoToken, server
<1> QED
  BY <1>1, <1>2, <1>3, <1>4

\* The server takes a login.
LEMMA LoginServeKeeps == ASSUME IInv, NEW t \in Tab, LoginServe(t) PROVE IInv'
<1> DEFINE Back(k) == [at |-> "loginBack", token |-> k]
<1>1. refresh' = refresh /\ store' = store /\ isRefreshing' = isRefreshing /\ call' = call /\ kept' = kept
  BY DEF LoginServe
<1>2. gate[t].at = "login"
  BY DEF LoginServe
<1>3. PICK k \in Nat :
         /\ gate' = [gate EXCEPT ![t] = Back(k)]
         /\ \/ k = NoToken /\ UNCHANGED <<valid, live, issued, disturbed>>
            \/ /\ issued' = issued + 1 /\ valid' = issued + 1
               /\ live' = live \union {issued + 1}
               /\ \/ disturbed' = TRUE
                  \/ /\ k = valid' /\ k # NoToken
                     /\ disturbed' = (disturbed /\ ~OnlyCall(t))
  <2>1. issued \in Nat /\ issued + 1 \in Nat /\ 0 \in Nat /\ issued + 1 # 0
    BY DEF IInv, TypeOK
  <2>2. CASE gate' = [gate EXCEPT ![t] = Back(issued + 1)] /\ Issue
             /\ disturbed' = (disturbed /\ ~OnlyCall(t))
    BY <2>1, <2>2 DEF Issue, NoToken
  <2>3. CASE gate' = [gate EXCEPT ![t] = Back(NoToken)] /\ Issue /\ disturbed' = TRUE
    BY <2>1, <2>3 DEF Issue, NoToken
  <2>4. CASE gate' = [gate EXCEPT ![t] = Back(NoToken)] /\ UNCHANGED <<server, disturbed>>
    BY <2>1, <2>4 DEF server, NoToken
  <2> QED
    BY <2>2, <2>3, <2>4 DEF LoginServe
<1>4. gate \in [Tab -> GateCall] /\ issued \in Nat /\ live \subseteq 1..issued
  BY DEF IInv, TypeOK
<1>5. gate'[t] = Back(k) /\ \A u \in Tab \ {t} : gate'[u] = gate[u]
  BY <1>3, <1>4
<1>6. TypeOK'
  <2>1. Back(k) \in GateCall
    BY DEF GateCall
  <2>2. gate' \in [Tab -> GateCall]
    <3> HIDE DEF Back
    <3> QED
      BY <1>3, <1>4, <2>1
  <2>3. issued' \in Nat /\ valid' \in Nat /\ live' \subseteq 1..issued'
    <3>1. valid \in Nat
      BY DEF IInv, TypeOK
    <3>2. CASE UNCHANGED <<valid, live, issued, disturbed>>
      BY <3>1, <3>2, <1>4
    <3>3. CASE issued' = issued + 1 /\ valid' = issued + 1 /\ live' = live \union {issued + 1}
      BY <3>3, <1>4
    <3> QED
      BY <1>3, <3>2, <3>3
  <2>4. disturbed' \in BOOLEAN
    <3>1. (disturbed /\ ~OnlyCall(t)) \in BOOLEAN
      OBVIOUS
    <3> QED
      BY <1>3, <3>1, Zenon DEF IInv, TypeOK
  <2> QED
    BY <1>1, <2>2, <2>3, <2>4 DEF IInv, TypeOK
<1>7. FlagIsRefresh' /\ NobodyIsForgotten'
  BY <1>1, <1>2, <1>5 DEF IInv, FlagIsRefresh, NobodyIsForgotten
<1>8. Calm'
  <2> SUFFICES ASSUME ~disturbed' PROVE Alone' /\ Current'
    BY DEF Calm
  <2>1. (Alone /\ Current) \/ (OnlyCall(t) /\ k = valid' /\ k # NoToken)
    <3>1. CASE ~disturbed
      BY <3>1 DEF IInv, Calm
    <3>2. CASE disturbed
      BY <1>3, <3>2 DEF IInv, TypeOK
    <3> QED
      BY <3>1, <3>2
  <2>2. k \in {NoToken, valid'} /\ (k = NoToken => valid' = valid)
    BY <1>3
  <2>3. \A u \in Tab \ {t} : ~Busy(u) /\ ~Busy(u)'
    BY <1>1, <1>2, <1>5, <2>1 DEF Alone, OnlyCall, Busy
  <2>4. refresh[t].at = "none" /\ refresh'[t].at = "none"
    BY <1>1, <1>2, <2>1 DEF Alone, OnlyCall
  <2>5. Alone'
    BY <2>3, <2>4 DEF Alone, Busy
  <2>6. ~Quiet'
    BY <1>5 DEF Quiet
  <2>7. k = NoToken => kept \in {NoToken, valid'}
    BY <1>2, <2>1, <2>2 DEF Current
  <2>8. Current'
    BY <1>1, <1>5, <2>2, <2>3, <2>4, <2>6, <2>7 DEF Current, Busy
  <2> QED
    BY <2>5, <2>8
<1> QED
  BY <1>6, <1>7, <1>8 DEF IInv

\* A login is answered.
LEMMA LoginDoneKeeps == ASSUME IInv, NEW t \in Tab, LoginDone(t) PROVE IInv'
<1> USE DEF IInv, LoginDone
<1>1. TypeOK'
  <2>1. gate[t].token \in Nat /\ kept \in Nat
    BY DEF TypeOK, GateCall
  <2>2. CASE gate[t].token # NoToken
    <3>1. store' \in [Tab -> [auth : BOOLEAN, access : Nat]] /\ kept' \in Nat
      <4> DEFINE signedIn == [auth |-> TRUE, access |-> gate[t].token]
      <4>1. signedIn \in [auth : BOOLEAN, access : Nat]
        BY <2>1
      <4>2. store' = [store EXCEPT ![t] = signedIn] /\ kept' = gate[t].token
        BY <2>2
      <4>3. store \in [Tab -> [auth : BOOLEAN, access : Nat]]
        BY DEF TypeOK
      <4> HIDE DEF signedIn, IInv, LoginDone
      <4> QED
        BY <2>1, <4>1, <4>2, <4>3
    <3>2. gate' \in [Tab -> GateCall]
      BY DEF TypeOK, GateCall, NoSession, NoToken
    <3>3. UNCHANGED <<isRefreshing, refresh, call, server, disturbed>>
      OBVIOUS
    <3> HIDE DEF LoginDone
    <3> QED
      BY <3>1, <3>2, <3>3 DEF TypeOK, server
  <2>3. CASE gate[t].token = NoToken
    <3>1. store' = [store EXCEPT ![t] = [store[t] EXCEPT !.auth = FALSE]]
      BY <2>3
    <3>2. [store[t] EXCEPT !.auth = FALSE] \in [auth : BOOLEAN, access : Nat]
      <4>1. store[t] \in [auth : BOOLEAN, access : Nat]
        BY DEF TypeOK
      <4> HIDE DEF IInv, LoginDone
      <4> QED
        BY <4>1
    <3>3. store' \in [Tab -> [auth : BOOLEAN, access : Nat]]
      BY <3>1, <3>2, Zenon DEF TypeOK
    <3>4. gate' \in [Tab -> GateCall] /\ kept' = kept
      BY <2>3 DEF TypeOK, GateCall, NoSession, NoToken
    <3>5. UNCHANGED <<isRefreshing, refresh, call, server, disturbed>>
      OBVIOUS
    <3> HIDE DEF LoginDone
    <3> QED
      BY <3>3, <3>4, <3>5 DEF TypeOK, server
  <2> QED
    BY <2>2, <2>3
<1>2. FlagIsRefresh'
  BY DEF TypeOK, SessionCall, GateCall, FlagIsRefresh, NoSession, server
<1>3. NobodyIsForgotten'
  BY DEF TypeOK, SessionCall, FlagIsRefresh, NobodyIsForgotten, NoSession
<1>4. Calm'
  BY DEF TypeOK, SessionCall, GateCall, Calm, Alone, Busy, Current, Quiet, NoSession, NoToken, server
<1> QED
  BY <1>1, <1>2, <1>3, <1>4

\* A logout is sent.
LEMMA LogoutSendKeeps == ASSUME IInv, NEW t \in Tab, LogoutSend(t) PROVE IInv'
<1> USE DEF IInv, LogoutSend
<1>1. TypeOK'
  BY DEF TypeOK, SessionCall, GateCall, NoToken, Starts, server
<1>2. FlagIsRefresh'
  BY DEF TypeOK, SessionCall, GateCall, FlagIsRefresh, server
<1>3. NobodyIsForgotten'
  BY DEF TypeOK, SessionCall, FlagIsRefresh, NobodyIsForgotten
<1>4. Calm'
  BY DEF TypeOK, SessionCall, GateCall, Calm, Alone, Busy, Current, Quiet, Starts, NoToken, server
<1> QED
  BY <1>1, <1>2, <1>3, <1>4

\* The server takes a logout.
LEMMA LogoutServeKeeps == ASSUME IInv, NEW t \in Tab, LogoutServe(t) PROVE IInv'
<1> USE DEF IInv, LogoutServe
<1>1. TypeOK'
  <2>1. [gate[t] EXCEPT !.at = "logoutBack"] \in GateCall
    BY DEF TypeOK, GateCall
  <2>2. gate' \in [Tab -> GateCall]
    <3>1. gate' = [gate EXCEPT ![t] = [gate[t] EXCEPT !.at = "logoutBack"]]
      OBVIOUS
    <3> QED
      BY <2>1, <3>1, Zenon DEF TypeOK
  <2>3. valid' \in Nat /\ live' \subseteq 1..issued'
    BY DEF TypeOK, NoToken
  <2>4. UNCHANGED <<store, isRefreshing, refresh, call, kept, issued, disturbed>>
    OBVIOUS
  <2> HIDE DEF LogoutServe
  <2> QED
    BY <2>2, <2>3, <2>4 DEF TypeOK
<1>2. FlagIsRefresh'
  BY DEF TypeOK, SessionCall, GateCall, FlagIsRefresh
<1>3. NobodyIsForgotten'
  BY DEF TypeOK, SessionCall, FlagIsRefresh, NobodyIsForgotten
<1>4. Calm'
  <2> SUFFICES ASSUME ~disturbed' PROVE Alone' /\ Current'
    BY DEF Calm
  <2>1. Alone /\ Current
    BY DEF Calm
  <2>2. gate[t].at = "logout" /\ gate'[t].at = "logoutBack" /\ refresh' = refresh
    BY DEF TypeOK, GateCall
  <2>3. \A u \in Tab \ {t} : gate'[u] = gate[u]
    BY DEF TypeOK
  <2>4. \A u \in Tab \ {t} : ~Busy(u) /\ ~Busy(u)'
    BY <2>1, <2>2, <2>3 DEF Alone, Busy
  <2>5. refresh[t].at = "none"
    BY <2>1, <2>2 DEF Alone
  <2> HIDE DEF LogoutServe
  <2>6. Alone'
    BY <2>2, <2>4, <2>5 DEF Alone, Busy
  <2>7. Current'
    BY <2>2, <2>4, <2>5 DEF Current, Busy, Quiet
  <2> QED
    BY <2>6, <2>7
<1> QED
  BY <1>1, <1>2, <1>3, <1>4

\* A logout ends in the browser.
LEMMA LogoutDoneKeeps == ASSUME IInv, NEW t \in Tab, LogoutDone(t) PROVE IInv'
<1> USE DEF IInv, LogoutDone
<1>1. TypeOK'
  BY DEF TypeOK, SessionCall, GateCall, NoSession, SignedOut, NoToken, server
<1>2. FlagIsRefresh'
  BY DEF TypeOK, SessionCall, GateCall, FlagIsRefresh, NoSession, server
<1>3. NobodyIsForgotten'
  BY DEF TypeOK, SessionCall, FlagIsRefresh, NobodyIsForgotten, NoSession
<1>4. Calm'
  BY DEF TypeOK, SessionCall, GateCall, Calm, Alone, Busy, Current, Quiet, NoSession, NoToken, server
<1> QED
  BY <1>1, <1>2, <1>3, <1>4

\* A page is loaded anew.
LEMMA ReloadKeeps == ASSUME IInv, NEW t \in Tab, Reload(t) PROVE IInv'
<1> USE DEF IInv, Reload
<1>1. TypeOK'
  BY DEF TypeOK, SessionCall, GateCall, NoCall, NoSession, SignedOut, NoToken, server
<1>2. FlagIsRefresh'
  BY DEF TypeOK, SessionCall, GateCall, FlagIsRefresh, NoSession, server
<1>3. NobodyIsForgotten'
  BY DEF TypeOK, SessionCall, FlagIsRefresh, NobodyIsForgotten, NoCall, NoSession
<1>4. Calm'
  BY DEF TypeOK, SessionCall, GateCall, Calm, Alone, Busy, Current, Quiet, NoSession, NoToken, server
<1> QED
  BY <1>1, <1>2, <1>3, <1>4

\* The server's token ends, and the history says so.
LEMMA StoredEndsKeeps == ASSUME IInv, StoredEnds PROVE IInv'
  BY DEF IInv, StoredEnds, TypeOK, FlagIsRefresh, NobodyIsForgotten, Calm, NoToken

\* The server's token is replaced, and the history says so.
LEMMA LoginElsewhereKeeps == ASSUME IInv, LoginElsewhere PROVE IInv'
  BY DEF IInv, LoginElsewhere, Issue, TypeOK, FlagIsRefresh, NobodyIsForgotten, Calm

\* An access token runs out, which no session call notices here.
LEMMA ExpireKeeps == ASSUME IInv, NEW n \in live, Expire(n) PROVE IInv'
  BY DEF IInv, Expire, TypeOK, FlagIsRefresh, NobodyIsForgotten, Calm, Alone, Busy, Current, Quiet

\* Every step keeps the invariant.
LEMMA NextKeeps == IInv /\ [Next]_vars => IInv'
<1> SUFFICES ASSUME IInv, [Next]_vars PROVE IInv'
  OBVIOUS
<1>1. CASE UNCHANGED vars
  BY <1>1 DEF vars, IInv, TypeOK, FlagIsRefresh, NobodyIsForgotten, Calm, Alone, Busy, Current, Quiet
<1>2. ASSUME NEW t \in Tab, NEW c \in Call,
             \/ Send(t, c) \/ Answer(t, c) \/ Deny(t, c) \/ GiveUp(t, c)
             \/ Queue(t, c) \/ Lead(t, c) \/ Stranded(t, c)
      PROVE  IInv'
  BY <1>2, SendKeeps, AnswerKeeps, DenyKeeps, GiveUpKeeps, QueueKeeps, LeadKeeps, StrandedKeeps
<1>3. ASSUME NEW t \in Tab, RefreshServe(t) \/ RefreshDone(t) \/ RefreshFailed(t) \/ Reload(t)
      PROVE  IInv'
  BY <1>3, RefreshServeKeeps, RefreshDoneKeeps, RefreshFailedKeeps, ReloadKeeps
<1>4. ASSUME NEW t \in Tab, LoginSend(t) \/ LoginServe(t) \/ LoginDone(t)
      PROVE  IInv'
  BY <1>4, LoginSendKeeps, LoginServeKeeps, LoginDoneKeeps
<1>5. ASSUME NEW t \in Tab, LogoutSend(t) \/ LogoutServe(t) \/ LogoutDone(t)
      PROVE  IInv'
  BY <1>5, LogoutSendKeeps, LogoutServeKeeps, LogoutDoneKeeps
<1>6. ASSUME NEW n \in live, Expire(n) PROVE IInv'
  BY <1>6, ExpireKeeps
<1>7. CASE StoredEnds \/ LoginElsewhere
  BY <1>7, StoredEndsKeeps, LoginElsewhereKeeps
<1> QED
  BY <1>1, <1>2, <1>3, <1>4, <1>5, <1>6, <1>7 DEF Next

\* Stores, calls and tokens hold what the code can put there.
THEOREM RefreshTypeCorrect == Spec => []TypeOK
<1>1. IInv => TypeOK
  BY DEF IInv
<1> QED
  BY InitOK, NextKeeps, <1>1, PTL DEF Spec

\* A call in failedQueue, and the call that leads, have a refresh under way.
THEOREM NobodyIsEverForgotten == Spec => []NobodyIsForgotten
<1>1. IInv => NobodyIsForgotten
  BY DEF IInv
<1> QED
  BY InitOK, NextKeeps, <1>1, PTL DEF Spec

\* Since a login that ran alone, and until session calls overlap, an answer is
\* lost, or the server's token is ended or replaced from outside, localStorage
\* has the token that the server will take, and a refresh presents it.
THEOREM KeptStaysCurrent == Spec => []KeptIsCurrent
<1>1. IInv => KeptIsCurrent
  BY DEF IInv, Calm, Current, KeptIsCurrent
<1> QED
  BY InitOK, NextKeeps, <1>1, PTL DEF Spec
=============================================================================
