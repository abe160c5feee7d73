----------------------------- MODULE ScreensProofs -----------------------------
(***************************************************************************)
(* Theorems about Screens, for any users, tabs, notes, codes and faults:   *)
(* those about the report button and the bell are proved here, those about *)
(* the tabs and the list of subjects in their own modules, and a step of   *)
(* the composition is a step of one screen that leaves the others.         *)
(*                                                                         *)
(* A file's rows are of a bounded age because three waits are bounded: that*)
(* of the request that aggregated them, the key's life, and that of the    *)
(* request that read the key.                                              *)
(***************************************************************************)
EXTENDS Screens, FiniteSetTheorems, TLAPS

TabsP == INSTANCE RefreshClientProofs
DeskP == INSTANCE SubjectDeskProofs

USE ReportsAssumption

\* A request is in the server no longer than Delay.
Timely == \A u \in User : pc[u] # "idle" =>
             /\ req[u].since <= now
             /\ now <= req[u].since + Delay

\* A key is not past its end, which is soon after its rows.
KeysEnd == \A g \in Target : report[g].rows.known =>
              /\ report[g].rows.at <= now
              /\ now <= report[g].ends
              /\ report[g].ends <= report[g].rows.at + Delay + Ttl

\* What a request knows of its rows: its own are no older than itself, those of
\* a key were not past the key's end when it began.
Carried == \A u \in User :
              /\ pc[u] = "set" => /\ req[u].rows.known
                                  /\ req[u].since <= req[u].rows.at
                                  /\ req[u].rows.at <= now
              /\ pc[u] = "build" => /\ req[u].rows.at <= now
                                    /\ req[u].rows.known => req[u].since <= req[u].rows.at + Delay + Ttl

IInv == TypeOK /\ Timely /\ KeysEnd /\ Carried /\ RowsAreFresh

\* Nothing is cached, requested or downloaded at the start.
LEMMA InitOK == Init => IInv
  BY DEF Init, IInv, TypeOK, Timely, KeysEnd, Carried, RowsAreFresh, NoKey, NoRows,
         NoRequest, Key, Rows, Request, Format

\* A request stays a request when it ends and when it is given rows.
LEMMA EndedIsRequest == NoRequest \in Request
  BY DEF NoRequest, Request, Rows, NoRows, Format

\* A request keeps its type when it gets its rows.
LEMMA RowsGiven == ASSUME NEW r \in Request, NEW given \in Rows
                   PROVE  [r EXCEPT !.rows = given] \in Request
  BY DEF Request

\* A click begins a request.
LEMMA ClickKeeps == ASSUME IInv, NEW u \in User, NEW g \in Target, NEW format \in Format, Click(u, g, format) PROVE IInv'
  BY DEF IInv, TypeOK, Timely, KeysEnd, Carried, RowsAreFresh, NoRows, Key, Rows, Request,
         Format, Click, Goto

\* A refusal or a failure of the database ends a request; a permitted one goes on.
LEMMA FindKeeps == ASSUME IInv, NEW u \in User, Find(u) \/ DbError(u) PROVE IInv'
<1> USE DEF IInv, TypeOK, Key, Rows, Request, Format, NoRows, NoRequest, Find, DbError, Refused, Goto
<1>1. TypeOK'
  <2>1. req' \in [User -> Request]
    BY EndedIsRequest, Zenon
  <2> QED
    BY <2>1
<1>2. Timely'
  BY DEF Timely
<1>3. KeysEnd'
  BY DEF KeysEnd, Timely, Carried
<1>4. Carried'
  BY DEF Carried, Timely, KeysEnd
<1>5. RowsAreFresh'
  BY DEF RowsAreFresh
<1> QED
  BY <1>1, <1>2, <1>3, <1>4, <1>5

\* Rows taken from the key are as old as the key allows.
LEMMA GetKeeps == ASSUME IInv, NEW u \in User, Get(u) PROVE IInv'
<1> USE DEF IInv, TypeOK, Key, Rows, Request, Format, Get, Goto
<1>1. TypeOK'
  <2>1. report[req[u].target].rows \in Rows
    OBVIOUS
  <2>2. req' \in [User -> Request]
    <3>1. CASE req' = req
      BY <3>1
    <3>2. CASE req' = [req EXCEPT ![u].rows = report[req[u].target].rows]
      <4>1. [req[u] EXCEPT !.rows = report[req[u].target].rows] \in Request
        BY <2>1, RowsGiven
      <4> HIDE DEF Request
      <4> QED
        BY <3>2, <4>1
    <3> QED
      BY <3>1, <3>2
  <2>3. \A w \in User : req'[w].target = req[w].target
    OBVIOUS
  <2> HIDE DEF Request
  <2> QED
    BY <2>2, <2>3
<1>2. Timely'
  BY DEF Timely
<1>3. KeysEnd'
  BY DEF KeysEnd, Timely, Carried
<1>4. Carried'
  <2> SUFFICES ASSUME NEW w \in User PROVE Carried!(w)'
    BY DEF Carried
  <2>1. CASE w # u
    BY <2>1 DEF Carried
  <2>2. CASE w = u /\ pc'[u] = "aggregate"
    BY <2>2
  <2>3. CASE w = u /\ pc'[u] = "build"
    <3>1. LET key == report[req[u].target]
          IN  key.rows.known /\ req'[u].rows = key.rows /\ req'[u].since = req[u].since
      BY <2>3
    <3>2. req[u].since <= now /\ req[u].since \in Nat /\ now' = now
      BY DEF Timely
    <3> QED
      BY <2>3, <3>1, <3>2 DEF KeysEnd
  <2> QED
    BY <2>1, <2>2, <2>3
<1>5. RowsAreFresh'
  BY DEF RowsAreFresh
<1> QED
  BY <1>1, <1>2, <1>3, <1>4, <1>5

\* Rows aggregated now are younger than the request.
LEMMA AggregateKeeps == ASSUME IInv, NEW u \in User, Aggregate(u) PROVE IInv'
<1> USE DEF IInv, TypeOK, Key, Rows, Request, Format, Aggregate, Goto
<1>1. TypeOK'
  <2>1. [known |-> TRUE, at |-> now] \in Rows
    OBVIOUS
  <2> DEFINE r == [req[u] EXCEPT !.rows = [known |-> TRUE, at |-> now]]
  <2>2. r \in Request /\ req' = [req EXCEPT ![u] = r]
    BY <2>1, RowsGiven
  <2>3. req' \in [User -> Request]
    <3> HIDE DEF Request, r
    <3> QED
      BY <2>2
  <2>4. \A w \in User : req'[w].target = req[w].target
    OBVIOUS
  <2> HIDE DEF Request
  <2> QED
    BY <2>3, <2>4
<1>2. Timely'
  BY DEF Timely
<1>3. KeysEnd'
  BY DEF KeysEnd, Timely, Carried
<1>4. Carried'
  BY DEF Carried, Timely, KeysEnd
<1>5. RowsAreFresh'
  BY DEF RowsAreFresh
<1> QED
  BY <1>1, <1>2, <1>3, <1>4, <1>5

\* The key set now ends a life later, which is soon after its rows.
LEMMA CacheKeeps == ASSUME IInv, NEW u \in User, CacheRows(u) PROVE IInv'
<1> USE DEF IInv, TypeOK, Key, Rows, Request, Format, CacheRows, Goto
<1>1. TypeOK'
  OBVIOUS
<1>2. Timely'
  BY DEF Timely
<1>3. KeysEnd'
  BY DEF KeysEnd, Timely, Carried
<1>4. Carried'
  BY DEF Carried, Timely, KeysEnd
<1>5. RowsAreFresh'
  BY DEF RowsAreFresh
<1> QED
  BY <1>1, <1>2, <1>3, <1>4, <1>5

\* The age of a file is that of its rows.
LEMMA BuildKeeps == ASSUME IInv, NEW u \in User, Build(u) PROVE IInv'
  BY DEF IInv, TypeOK, Timely, KeysEnd, Carried, RowsAreFresh, NoRows, NoRequest, Key, Rows, Request,
         Format, Build, Written, Goto

\* The nightly job only removes keys.
LEMMA CleanupKeeps == ASSUME IInv, NEW gone \in SUBSET Target, Cleanup(gone) PROVE IInv'
  BY DEF IInv, TypeOK, Timely, KeysEnd, Carried, RowsAreFresh, NoKey, NoRows, Key, Rows, Request,
         Format, Cleanup

\* Time does not pass a request's limit, and removes the keys it ends.
LEMMA TickKeeps == ASSUME IInv, Tick PROVE IInv'
  BY DEF IInv, TypeOK, Timely, KeysEnd, Carried, RowsAreFresh, NoKey, NoRows, Key, Rows, Request,
         Format, Tick

\* A crash leaves the keys and the files.
LEMMA CrashKeeps == ASSUME IInv, Crash PROVE IInv'
  BY DEF IInv, TypeOK, Timely, KeysEnd, Carried, RowsAreFresh, NoRequest, NoRows, Key, Rows, Request,
         Format, Crash

\* Every step keeps the invariant.
LEMMA NextKeeps == IInv /\ [Next]_vars => IInv'
<1> SUFFICES ASSUME IInv, [Next]_vars PROVE IInv'
  OBVIOUS
<1>1. CASE UNCHANGED vars
  BY <1>1 DEF vars, IInv, TypeOK, Timely, KeysEnd, Carried, RowsAreFresh
<1>2. ASSUME NEW u \in User, NEW g \in Target, NEW format \in Format, Click(u, g, format) PROVE IInv'
  BY <1>2, ClickKeeps
<1>3. ASSUME NEW u \in User, Find(u) \/ Get(u) \/ Aggregate(u) \/ CacheRows(u) \/ Build(u) \/ DbError(u) PROVE IInv'
  BY <1>3, FindKeeps, GetKeeps, AggregateKeeps, CacheKeeps, BuildKeeps
<1>4. ASSUME NEW gone \in SUBSET Target, Cleanup(gone) PROVE IInv'
  BY <1>4, CleanupKeeps
<1>5. CASE Tick
  BY <1>5, TickKeeps
<1>6. CASE Crash
  BY <1>6, CrashKeeps
<1> QED
  BY <1>1, <1>2, <1>3, <1>4, <1>5, <1>6 DEF Next

\* The cache, the requests and the files hold what the code can put there.
THEOREM ReportsTypeCorrect == Spec => []TypeOK
<1>1. IInv => TypeOK
  BY DEF IInv
<1> QED
  BY InitOK, NextKeeps, <1>1, PTL DEF Spec

\* No file is older than the key's life and the time of two requests: the
\* one that cached its rows and the one that answered.
THEOREM FilesAreFresh == Spec => []RowsAreFresh
<1>1. IInv => RowsAreFresh
  BY DEF IInv
<1> QED
  BY InitOK, NextKeeps, <1>1, PTL DEF Spec

-----------------------------------------------------------------------------
(* The screens together: a step of the composition is a step of one screen *)
(* and leaves the others, so each screen behaves as it does alone.         *)

\* The tabs, as the theorems of RefreshClientProofs name them.
LEMMA TabsStep == Tabs!Next => TabsP!Next
  BY Zenon DEF Tabs!NoToken, Tabs!SignedOut, Tabs!NoCall, Tabs!NoSession, Tabs!Quiet,
     Tabs!OnlyCall, Tabs!Starts, Tabs!Issue, Tabs!Send, Tabs!Answer, Tabs!Deny, Tabs!GiveUp,
     Tabs!Queue, Tabs!Lead, Tabs!Stranded, Tabs!RefreshServe, Tabs!RefreshDone,
     Tabs!RefreshFailed, Tabs!LoginSend, Tabs!LoginServe, Tabs!LoginDone,
     Tabs!LogoutSend, Tabs!LogoutServe, Tabs!LogoutDone, Tabs!Expire, Tabs!StoredEnds,
     Tabs!LoginElsewhere, Tabs!Reload, Tabs!Next, Tabs!server, TabsP!NoToken, TabsP!SignedOut, TabsP!NoCall,
     TabsP!NoSession, TabsP!Quiet, TabsP!OnlyCall, TabsP!Starts, TabsP!Issue, TabsP!Send,
     TabsP!Answer, TabsP!Deny, TabsP!GiveUp, TabsP!Queue, TabsP!Lead,
     TabsP!Stranded, TabsP!RefreshServe, TabsP!RefreshDone, TabsP!RefreshFailed,
     TabsP!LoginSend, TabsP!LoginServe, TabsP!LoginDone, TabsP!LogoutSend,
     TabsP!LogoutServe, TabsP!LogoutDone, TabsP!Expire, TabsP!StoredEnds,
     TabsP!LoginElsewhere, TabsP!Reload, TabsP!Next,
     TabsP!server

\* The list of subjects, as the theorems of SubjectDeskProofs name it.
LEMMA DeskStep == Desk!Next => DeskP!Next
<1>1. ASSUME NEW l \in Load, Desk!Fetch(l) PROVE DeskP!Fetch(l)
  BY <1>1, Zenon DEF Desk!Fetch, Desk!NoLoad, DeskP!Fetch, DeskP!NoLoad
<1>2. ASSUME NEW l \in Load, Desk!ListHit(l) PROVE DeskP!ListHit(l)
  BY <1>2, Zenon DEF Desk!ListHit, DeskP!ListHit
<1>3. ASSUME NEW l \in Load, Desk!ListMiss(l) PROVE DeskP!ListMiss(l)
  BY <1>3, Zenon DEF Desk!ListMiss, DeskP!ListMiss
<1>4. ASSUME NEW l \in Load, Desk!ListFind(l) PROVE DeskP!ListFind(l)
  BY <1>4, Zenon DEF Desk!ListFind, DeskP!ListFind
<1>5. ASSUME NEW l \in Load, Desk!ListSet(l) PROVE DeskP!ListSet(l)
  BY <1>5, Zenon DEF Desk!ListSet, DeskP!ListSet
<1>6. ASSUME NEW l \in Load, Desk!Fetched(l) PROVE DeskP!Fetched(l)
  BY <1>6, Zenon DEF Desk!Fetched, Desk!Rows, Desk!NoLoad, DeskP!Fetched, DeskP!Rows, DeskP!NoLoad,
      Desk!SetToSeq, DeskP!SetToSeq, Desk!IsInjective, DeskP!IsInjective,
      Desk!Cardinality, DeskP!Cardinality, Desk!IsFiniteSet, DeskP!IsFiniteSet
<1>7. ASSUME NEW l \in Load, Desk!FetchFails(l) PROVE DeskP!FetchFails(l)
  BY <1>7, Zenon DEF Desk!FetchFails, Desk!NoLoad, DeskP!FetchFails, DeskP!NoLoad
<1>8. ASSUME NEW p \in Post, Desk!Check(p) PROVE DeskP!Check(p)
  BY <1>8, Zenon DEF Desk!Check, Desk!Admits, DeskP!Check, DeskP!Admits
<1>9. ASSUME NEW p \in Post, Desk!Write(p) PROVE DeskP!Write(p)
  BY <1>9, Zenon DEF Desk!Write, Desk!Written, Desk!New, DeskP!Write, DeskP!Written, DeskP!New
<1>10. ASSUME NEW p \in Post, Desk!Keys(p) PROVE DeskP!Keys(p)
  BY <1>10, Zenon DEF Desk!Keys, DeskP!Keys
<1>11. ASSUME NEW p \in Post, Desk!Del(p) PROVE DeskP!Del(p)
  BY <1>11, Zenon DEF Desk!Del, DeskP!Del
<1>12. ASSUME NEW p \in Post, Desk!Acked(p) PROVE DeskP!Acked(p)
  BY <1>12, Zenon
  DEF Desk!Acked, Desk!Answered, Desk!RowSays, Desk!Listed, Desk!Level, Desk!NoPost,
      DeskP!Acked, DeskP!Answered, DeskP!RowSays, DeskP!Listed, DeskP!Level, DeskP!NoPost
<1>13. ASSUME NEW p \in Post, Desk!Refused(p) PROVE DeskP!Refused(p)
  BY <1>13, Zenon DEF Desk!Refused, Desk!NoPost, DeskP!Refused, DeskP!NoPost
<1>14. ASSUME NEW p \in Post, NEW c \in Code,
             Desk!ClickCreate(p, c) \/ Desk!ClickEdit(p, c) \/ Desk!ClickDeactivate(p, c)
      PROVE  DeskP!ClickCreate(p, c) \/ DeskP!ClickEdit(p, c) \/ DeskP!ClickDeactivate(p, c)
  BY <1>14, Zenon
  DEF Desk!ClickCreate, Desk!ClickEdit, Desk!ClickDeactivate,
      DeskP!ClickCreate, DeskP!ClickEdit, DeskP!ClickDeactivate,
      Desk!Begin, Desk!NoPost, Desk!Listed, DeskP!Begin, DeskP!NoPost, DeskP!Listed
<1>15. Desk!CopyExpires => DeskP!CopyExpires
  BY DEF Desk!CopyExpires, DeskP!CopyExpires
<1> QED
  BY <1>1, <1>2, <1>3, <1>4, <1>5, <1>6, <1>7, <1>8, <1>9, <1>10, <1>11, <1>12,
     <1>13, <1>14, <1>15, Zenon
  DEF Desk!Next, DeskP!Next

\* A behaviour of the screens is one of the report button.
LEMMA ButtonAlone == ScreensSpec => Spec
<1>1. ScreensInit => Init
  BY DEF ScreensInit
<1>2. [ScreensNext]_screens => [Next]_vars
  BY DEF ScreensNext, On, screens, button
<1> QED
  BY <1>1, <1>2, PTL DEF ScreensSpec, Spec

\* A behaviour of the screens is one of the tabs.
LEMMA TabsAlone == ScreensSpec => TabsP!Spec
<1>1. ScreensInit => TabsP!Init
  BY DEF ScreensInit, Tabs!Init, TabsP!Init, Tabs!SignedOut, TabsP!SignedOut, Tabs!NoCall, TabsP!NoCall,
         Tabs!NoSession, TabsP!NoSession, Tabs!NoToken, TabsP!NoToken
<1>2. [ScreensNext]_screens => [TabsP!Next]_TabsP!vars
  BY TabsStep DEF ScreensNext, On, screens, tabs, TabsP!vars
<1> QED
  BY <1>1, <1>2, PTL DEF ScreensSpec, TabsP!Spec

\* A behaviour of the screens is one of the list of subjects.
LEMMA DeskAlone == ScreensSpec => DeskP!Spec
<1>1. ScreensInit => DeskP!Init
  BY DEF ScreensInit, Desk!Init, DeskP!Init, Desk!NoLoad, DeskP!NoLoad, Desk!NoPost, DeskP!NoPost
<1>2. [ScreensNext]_screens => [DeskP!Next]_DeskP!vars
  BY DeskStep DEF ScreensNext, On, screens, desk, DeskP!vars
<1> QED
  BY <1>1, <1>2, PTL DEF ScreensSpec, DeskP!Spec

\* What the theorems about the list of subjects ask of its constants.
LEMMA DeskAssumed == DeskP!DeskConstants
  BY ScreensAssumption
  DEF Desk!DeskConstants, DeskP!DeskConstants, Desk!Subject, DeskP!Subject,
      Desk!IsFiniteSet, DeskP!IsFiniteSet

\* A behaviour of the screens is one of the bell.
LEMMA BellAlone == ScreensSpec => Bell!Spec
<1>1. ScreensInit => Bell!Init
  BY DEF ScreensInit
<1>2. [ScreensNext]_screens => [Bell!Next]_Bell!vars
  BY DEF ScreensNext, On, screens, bell, Bell!vars
<1> QED
  BY <1>1, <1>2, PTL DEF ScreensSpec, Bell!Spec

\* Whatever the other screens do, localStorage has the token that the server
\* will take, and a refresh presents it, since a login that ran alone and until
\* session calls overlap, an answer is lost, or the server's token is ended or
\* replaced from outside (axiosInstance.ts, authSlice.ts, auth.service.ts).
THEOREM KeptIsCurrentOnScreens == ScreensSpec => []KeptIsCurrent
<1>1. TabsP!KeptIsCurrent => KeptIsCurrent
  BY DEF KeptIsCurrent, Tabs!KeptIsCurrent, TabsP!KeptIsCurrent, Tabs!Quiet, TabsP!Quiet,
         Tabs!NoToken, TabsP!NoToken
<1> QED
  BY <1>1, TabsAlone, TabsP!KeptStaysCurrent, PTL

\* Whatever the other screens do, a call in failedQueue and the call that leads
\* have a refresh under way in their tab that will answer them.
THEOREM NobodyIsForgottenOnScreens == ScreensSpec => []NobodyIsForgotten
<1>1. TabsP!NobodyIsForgotten => NobodyIsForgotten
  BY DEF NobodyIsForgotten, Tabs!NobodyIsForgotten, TabsP!NobodyIsForgotten
<1> QED
  BY <1>1, TabsAlone, TabsP!NobodyIsEverForgotten, PTL

\* Whatever the other screens do, a list of subjects asked for after a change
\* was confirmed tells the change or a later one, unless its copy was filled
\* late or outlived a lost DEL (listSubjects and the three changes).
THEOREM ListTellsOnScreens == ScreensSpec => []TellsWhatWasDone
<1>1. DeskP!TellsWhatWasDone => TellsWhatWasDone
  BY DEF TellsWhatWasDone, Desk!TellsWhatWasDone, DeskP!TellsWhatWasDone, Desk!Level, DeskP!Level
<1> QED
  BY <1>1, DeskAssumed, DeskAlone, DeskP!ListsTellWhatWasDone, PTL

-----------------------------------------------------------------------------
(* The bell: its badge counts notes, never fewer than none or more than    *)
(* there are, though clicks count it down that a poll has counted already. *)

\* A count of notes is between none and all of them.
LEMMA CountsAreBounded ==
    /\ Bell!Cardinality(Note) \in Nat
    /\ \A S \in SUBSET Note : Bell!Cardinality(S) \in 0..Bell!Cardinality(Note)
<1>1. \A S : Bell!Cardinality(S) = Cardinality(S)
  BY DEF Cardinality, Bell!Cardinality, IsFiniteSet, Bell!IsFiniteSet
<1>2. Cardinality(Note) \in Nat
  BY ScreensAssumption, FS_CardinalityType
<1>3. ASSUME NEW S \in SUBSET Note PROVE Cardinality(S) \in 0..Cardinality(Note)
  <2>1. IsFiniteSet(S) /\ Cardinality(S) <= Cardinality(Note)
    BY ScreensAssumption, FS_Subset
  <2>2. Cardinality(S) \in Nat
    BY <2>1, FS_CardinalityType
  <2> QED
    BY <1>2, <2>1, <2>2
<1> QED
  BY <1>1, <1>2, <1>3

Count == 0..Bell!Cardinality(Note)
BellPoll == [on : BOOLEAN, data : [Note -> Bell!State] \union {None}, count : Count \union {None}]
BellClick == [op : {"read", "delete"}, note : Note] \union [op : {"readAll"}, note : {None}]

\* A poll stays one when its queries answer.
LEMMA PollsAreTyped ==
    /\ Bell!NoFetch \in BellPoll /\ Bell!Begun \in BellPoll
    /\ \A f \in BellPoll, data \in [Note -> Bell!State] : [f EXCEPT !.data = data] \in BellPoll
    /\ \A f \in BellPoll, count \in Count : [f EXCEPT !.count = count] \in BellPoll
<1>1. Bell!NoFetch \in BellPoll /\ Bell!Begun \in BellPoll
  BY DEF Bell!NoFetch, Bell!Begun, BellPoll
<1>2. ASSUME NEW f \in BellPoll, NEW data \in [Note -> Bell!State] PROVE [f EXCEPT !.data = data] \in BellPoll
  BY DEF BellPoll
<1>3. ASSUME NEW f \in BellPoll, NEW count \in Count PROVE [f EXCEPT !.count = count] \in BellPoll
  BY DEF BellPoll
<1> QED
  BY <1>1, <1>2, <1>3

BellTyped ==
    /\ notes \in [Note -> Bell!State] /\ unborn \in SUBSET Note
    /\ list \in [Note -> Bell!State] /\ unread \in Count
    /\ fetch \in [Bell!Loader -> BellPoll] /\ sent \in SUBSET BellClick /\ done \in SUBSET BellClick

\* The list and the badge are loaded together, and clicks keep their types.
LEMMA BellKeeps == BellTyped /\ [Bell!Next]_Bell!vars => BellTyped'
<1> SUFFICES ASSUME BellTyped, [Bell!Next]_Bell!vars PROVE BellTyped'
  OBVIOUS
<1> USE DEF BellTyped
<1>1. CASE UNCHANGED Bell!vars
  BY <1>1 DEF Bell!vars
<1>2. ASSUME NEW n \in Note, Bell!Create(n) \/ Bell!ClickRead(n) \/ Bell!ClickDelete(n) PROVE BellTyped'
  BY <1>2 DEF Bell!Create, Bell!ClickRead, Bell!ClickDelete, Bell!State, BellClick
<1>3. CASE Bell!ClickReadAll
  BY <1>3 DEF Bell!ClickReadAll, BellClick
<1>4. CASE Bell!Poll \/ Bell!OpenAlerts
  BY <1>4, PollsAreTyped DEF Bell!Poll, Bell!OpenAlerts, Bell!Loader
<1>5. ASSUME NEW k \in Bell!Loader, Bell!FindNotes(k) PROVE BellTyped'
  <2> DEFINE data == [n \in Note |-> IF k = "alerts" /\ notes[n] = "read" THEN "gone" ELSE notes[n]]
             r == [fetch[k] EXCEPT !.data = data]
  <2>1. data \in [Note -> Bell!State]
    BY DEF Bell!State
  <2>2. fetch' = [fetch EXCEPT ![k] = r] /\ UNCHANGED <<notes, unborn, list, unread, sent, done>>
    BY <1>5 DEF Bell!FindNotes
  <2> HIDE DEF data
  <2>3. r \in BellPoll
    BY <2>1, PollsAreTyped
  <2> HIDE DEF r
  <2> QED
    BY <2>2, <2>3
<1>6. ASSUME NEW k \in Bell!Loader, Bell!CountUnread(k) PROVE BellTyped'
  <2> DEFINE count == Bell!Cardinality({n \in Note : notes[n] = "unread"})
             r == [fetch[k] EXCEPT !.count = count]
  <2>1. count \in Count
    BY CountsAreBounded DEF Count
  <2>2. fetch' = [fetch EXCEPT ![k] = r] /\ UNCHANGED <<notes, unborn, list, unread, sent, done>>
    BY <1>6 DEF Bell!CountUnread
  <2> HIDE DEF count
  <2>3. r \in BellPoll
    BY <2>1, PollsAreTyped
  <2> HIDE DEF r
  <2> QED
    BY <2>2, <2>3
<1>7. ASSUME NEW k \in Bell!Loader, Bell!Loaded(k) \/ Bell!LoadFails(k) PROVE BellTyped'
  <2>1. fetch[k] \in BellPoll /\ fetch' \in [Bell!Loader -> BellPoll]
    BY <1>7, PollsAreTyped DEF Bell!Loaded, Bell!LoadFails
  <2>2. fetch[k].data # None => fetch[k].data \in [Note -> Bell!State]
    BY <2>1 DEF BellPoll
  <2>3. fetch[k].count # None => fetch[k].count \in Count
    BY <2>1 DEF BellPoll
  <2> QED
    BY <1>7, <2>1, <2>2, <2>3 DEF Bell!Loaded, Bell!LoadFails, Bell!Answered
<1>8. ASSUME NEW c \in sent, Bell!Serve(c) PROVE BellTyped'
  <2>1. Bell!After(c) \in [Note -> Bell!State]
    BY DEF Bell!After, Bell!State
  <2> QED
    BY <1>8, <2>1 DEF Bell!Serve
<1>9. ASSUME NEW c \in done, Bell!OneDone(c) PROVE BellTyped'
  <2>1. unread' \in Count
    BY <1>9, CountsAreBounded DEF Bell!OneDone, Bell!Less, Count
  <2>2. list' \in [Note -> Bell!State]
    BY <1>9 DEF Bell!OneDone, Bell!State
  <2> QED
    BY <1>9, <2>1, <2>2 DEF Bell!OneDone
<1>10. ASSUME NEW c \in done, Bell!AllDone(c) PROVE BellTyped'
  <2>1. unread' \in Count
    BY <1>10, CountsAreBounded DEF Bell!AllDone, Count
  <2>2. list' \in [Note -> Bell!State]
    BY <1>10 DEF Bell!AllDone, Bell!State
  <2> QED
    BY <1>10, <2>1, <2>2 DEF Bell!AllDone
<1> QED
  BY <1>1, <1>2, <1>3, <1>4, <1>5, <1>6, <1>7, <1>8, <1>9, <1>10 DEF Bell!Next

\* The collection, the slice and the calls of the bell hold what the code can
\* put there; the badge counts between none and all notes.
LEMMA BellTypeCorrect == Bell!Spec => []Bell!TypeOK
<1>1. Bell!Init => BellTyped
  BY PollsAreTyped, CountsAreBounded DEF Bell!Init, BellTyped, Bell!State, Count
<1>2. BellTyped => Bell!TypeOK
  BY DEF BellTyped, Bell!TypeOK, BellPoll, BellClick, Count
<1> QED
  BY <1>1, <1>2, BellKeeps, PTL DEF Bell!Spec

\* The four screens hold what the code can put there, however clicks, polls,
\* refreshes and changes overlap; the badge never counts below zero.
THEOREM ScreensTypeCorrect == ScreensSpec => []ScreensTypeOK
<1>1. TabsP!TypeOK => Tabs!TypeOK
  BY DEF Tabs!TypeOK, TabsP!TypeOK, Tabs!SessionCall, TabsP!SessionCall, Tabs!GateCall, TabsP!GateCall
<1>2. DeskP!TypeOK => Desk!TypeOK
  BY DEF Desk!TypeOK, DeskP!TypeOK, Desk!Collection, DeskP!Collection, Desk!Subject, DeskP!Subject,
         Desk!Row, DeskP!Row
<1>3. ScreensSpec => []Tabs!TypeOK
  BY <1>1, TabsAlone, TabsP!RefreshTypeCorrect, PTL
<1>4. ScreensSpec => []Desk!TypeOK
  BY <1>2, DeskAssumed, DeskAlone, DeskP!DeskTypeCorrect, PTL
<1>5. ScreensSpec => []Bell!TypeOK
  BY BellAlone, BellTypeCorrect, PTL
<1>6. ScreensSpec => []TypeOK
  BY ButtonAlone, ReportsTypeCorrect, PTL
<1>7. TypeOK /\ Tabs!TypeOK /\ Bell!TypeOK /\ Desk!TypeOK => ScreensTypeOK
  BY DEF ScreensTypeOK
<1> QED
  BY <1>3, <1>4, <1>5, <1>6, <1>7, PTL
===============================================================================
