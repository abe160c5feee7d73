-------------------------- MODULE SubjectDeskProofs --------------------------
(***************************************************************************)
(* Theorems about SubjectDesk, for any codes, fetches, changes under way   *)
(* and failures.  A list tells what the admin was told because a subject   *)
(* only ever gets further: the copy in Redis, as long as no fill was late  *)
(* and no DEL was lost, is at least as far as every answer.                *)
(***************************************************************************)
EXTENDS SubjectDesk, FiniteSetTheorems, TLAPS

Answering == {"keys", "del", "acked"}

\* What there is of a fetch and of a change under way.
Fetching == [at : {"none", "get", "find", "set", "back"}, data : Collection \union {None},
             due : [Code -> Nat], late : BOOLEAN, excused : BOOLEAN]
Changing == [at : {"none", "check", "write", "keys", "del", "acked", "refused"},
             op : {"create", "update", "deactivate"}, code : Code \union {None},
             got : Subject \union {None}]

\* The types, but for the rows of the list, on which only clicks depend.
Stores ==
    /\ subjects \in Collection /\ copy \in Collection \union {None}
    /\ load \in [Load -> Fetching] /\ post \in [Post -> Changing]
    /\ told \in [Code -> Nat] /\ lapsed \in BOOLEAN

\* The admin was told nothing that is not so.
ToldIsTrue == \A c \in Code : told[c] <= Level(subjects[c])

\* What a change knows: its subject exists once that was checked, and its
\* answer tells nothing the subject has not reached.
PostsKnow ==
    \A p \in Post :
        /\ post[p].at # "none" => post[p].code \in Code
        /\ post[p].at = "write" /\ post[p].op # "create" => subjects[post[p].code] # None
        /\ post[p].at \in Answering =>
              post[p].got \in Subject /\ Level(post[p].got) <= Level(subjects[post[p].code])

\* A copy that has not lapsed is as far as every answer given or on its way.
CopyTells ==
    copy # None /\ ~lapsed =>
        /\ \A c \in Code : told[c] <= Level(copy[c])
        /\ \A p \in Post : post[p].at = "acked" => Level(post[p].got) <= Level(copy[post[p].code])

\* What a fetch knows: what it read is as far as what the admin had been told
\* when it began, and is the collection unless a change came in between.
LoadsKnow ==
    \A l \in Load :
        /\ load[l].at \in {"get", "find"} => \A c \in Code : load[l].due[c] <= told[c]
        /\ load[l].at \in {"set", "back"} => load[l].data \in Collection
        /\ load[l].at = "set" => /\ \A c \in Code : load[l].due[c] <= Level(load[l].data[c])
                                 /\ ~load[l].late => load[l].data = subjects

IInv == Stores /\ ToldIsTrue /\ PostsKnow /\ CopyTells /\ LoadsKnow /\ TellsWhatWasDone

-----------------------------------------------------------------------------
(* How far a subject got.                                                  *)

\* A level is a number, 0 for a subject that does not exist.
LEMMA LevelIsNat ==
    ASSUME DeskConstants
    PROVE  Level(None) = 0 /\ \A s \in Subject \union {None} : Level(s) \in Nat
  BY DEF DeskConstants, Level, Subject

\* The three writes leave a subject, and none takes it back.
LEMMA WritesGoForward ==
    ASSUME DeskConstants, NEW op \in {"create", "update", "deactivate"},
           NEW s \in Subject \union {None},
           op = "create" <=> s = None, op = "update" => s.edits < MaxEdits
    PROVE  Written(op, s) \in Subject /\ Level(s) <= Level(Written(op, s))
<1>1. CASE op = "create"
  <2>1. s = None /\ Written(op, s) = [edits |-> 0, active |-> TRUE]
    BY <1>1 DEF Written, New
  <2>2. Written(op, s) \in Subject
    BY <2>1 DEF DeskConstants, Subject
  <2>3. Level(s) = 0 /\ Level(Written(op, s)) \in Nat
    BY <2>1, <2>2, LevelIsNat
  <2> QED
    BY <2>2, <2>3
<1>2. CASE op = "update"
  <2>1. s \in Subject /\ Written(op, s) = [edits |-> s.edits + 1, active |-> s.active]
    BY <1>2 DEF Written, Subject
  <2>2. Written(op, s) \in Subject
    BY <1>2, <2>1 DEF DeskConstants, Subject
  <2> QED
    BY <2>1, <2>2 DEF DeskConstants, Level, Subject
<1>3. CASE op = "deactivate"
  <2>1. s \in Subject /\ Written(op, s) = [edits |-> s.edits, active |-> FALSE]
    BY <1>3 DEF Written, Subject
  <2>2. Written(op, s) \in Subject
    BY <2>1 DEF DeskConstants, Subject
  <2>3. s.edits \in 0..MaxEdits /\ s # None /\ Written(op, s) # None
    BY <2>1, <2>2 DEF DeskConstants, Subject
  <2>4. Level(Written(op, s)) = MaxEdits + 2
    BY <2>1, <2>3 DEF Level
  <2>5. Level(s) = s.edits + 1 \/ Level(s) = MaxEdits + 2
    BY <2>3 DEF Level
  <2> QED
    BY <2>2, <2>3, <2>4, <2>5 DEF DeskConstants
<1> QED
  BY <1>1, <1>2, <1>3

\* A fetch and a change stay such with new values in their fields.
LEMMA FetchingGiven ==
    ASSUME NEW r \in Fetching, NEW at \in {"none", "get", "find", "set", "back"},
           NEW data \in Collection \union {None}, NEW late \in BOOLEAN, NEW excused \in BOOLEAN
    PROVE  /\ [r EXCEPT !.at = at, !.data = data, !.excused = excused] \in Fetching
           /\ [r EXCEPT !.late = late] \in Fetching
  BY DEF Fetching

LEMMA ChangingGiven ==
    ASSUME NEW r \in Changing,
           NEW at \in {"none", "check", "write", "keys", "del", "acked", "refused"},
           NEW got \in Subject \union {None}
    PROVE  [r EXCEPT !.at = at, !.got = got] \in Changing
  BY DEF Changing

\* A fetch and a change that are over.
LEMMA RestIsTyped == NoLoad \in Fetching /\ NoPost \in Changing
  BY DEF NoLoad, NoPost, Fetching, Changing

-----------------------------------------------------------------------------
(* The invariant.                                                          *)

\* One fetch, or one change, goes on; the others stay.
LEMMA OneFetch ==
    ASSUME Stores, NEW l \in Load, NEW r \in Fetching, load' = [load EXCEPT ![l] = r]
    PROVE  load' \in [Load -> Fetching] /\ load'[l] = r /\ \A k \in Load : k # l => load'[k] = load[k]
  BY DEF Stores

LEMMA OneChange ==
    ASSUME Stores, NEW p \in Post, NEW r \in Changing, post' = [post EXCEPT ![p] = r]
    PROVE  post' \in [Post -> Changing] /\ post'[p] = r /\ \A q \in Post : q # p => post'[q] = post[q]
  BY DEF Stores

\* What was told, what is due and how far subjects got are numbers.
LEMMA Numbers ==
    ASSUME DeskConstants, Stores, NEW c \in Code
    PROVE  /\ told[c] \in Nat /\ Level(subjects[c]) \in Nat
           /\ copy # None => Level(copy[c]) \in Nat
           /\ \A l \in Load : load[l].due[c] \in Nat
<1>1. subjects[c] \in Subject \union {None} /\ (copy # None => copy[c] \in Subject \union {None})
  BY DEF Stores, Collection
<1>2. told[c] \in Nat
  BY DEF Stores
<1>3. \A l \in Load : load[l].due[c] \in Nat
  BY DEF Stores, Fetching
<1> QED
  BY <1>1, <1>2, <1>3, LevelIsNat

\* Nothing is stored, asked for or told at the start.
LEMMA InitOK == ASSUME DeskConstants, Init PROVE IInv
<1>1. subjects \in Collection /\ told \in [Code -> Nat]
  BY DEF Init, Collection
<1>2. Stores
  BY <1>1, RestIsTyped DEF Init, Stores
<1>3. \A c \in Code : told[c] = 0 /\ Level(subjects[c]) = 0
  BY LevelIsNat DEF Init
<1>4. \A l \in Load : load[l].at = "none"
  BY DEF Init, NoLoad
<1>5. \A p \in Post : post[p].at = "none"
  BY DEF Init, NoPost
<1>6. ToldIsTrue
  BY <1>3 DEF ToldIsTrue
<1>7. LoadsKnow /\ TellsWhatWasDone
  BY <1>4 DEF LoadsKnow, TellsWhatWasDone
<1>8. PostsKnow /\ CopyTells
  BY <1>5 DEF Init, PostsKnow, CopyTells, Answering
<1> QED
  BY <1>2, <1>6, <1>7, <1>8 DEF IInv

\* A fetch is due what the admin has been told by now.
LEMMA FetchKeeps == ASSUME DeskConstants, IInv, NEW l \in Load, Fetch(l) PROVE IInv'
<1> DEFINE r == [NoLoad EXCEPT !.at = "get", !.due = told]
<1> USE DEF IInv
<1>1. r \in Fetching /\ r.at = "get" /\ r.due = told
  BY RestIsTyped DEF Stores, NoLoad, Fetching
<1>2. load' = [load EXCEPT ![l] = r] /\ UNCHANGED <<subjects, copy, post, rows, told, lapsed>>
  BY DEF Fetch
<1> HIDE DEF r
<1>3. Stores' /\ load'[l] = r /\ \A k \in Load : k # l => load'[k] = load[k]
  BY <1>1, <1>2, OneFetch DEF Stores
<1>4. ToldIsTrue' /\ PostsKnow' /\ CopyTells'
  BY <1>2 DEF ToldIsTrue, PostsKnow, CopyTells
<1>5. \A c \in Code : r.due[c] <= told[c]
  BY <1>1, Numbers
<1>6. LoadsKnow' /\ TellsWhatWasDone'
  BY <1>1, <1>2, <1>3, <1>5 DEF LoadsKnow, TellsWhatWasDone
<1> QED
  BY <1>3, <1>4, <1>6

\* A copy that has not lapsed tells what the fetch is due.
LEMMA ListHitKeeps == ASSUME DeskConstants, IInv, NEW l \in Load, ListHit(l) PROVE IInv'
<1> DEFINE r == [load[l] EXCEPT !.at = "back", !.data = copy, !.excused = lapsed]
<1> USE DEF IInv
<1>1. r \in Fetching /\ r.at = "back" /\ r.data = copy /\ r.excused = lapsed /\ r.due = load[l].due
      /\ load[l].at = "get"
  <2>1. load[l] \in Fetching /\ copy \in Collection \union {None} /\ lapsed \in BOOLEAN
    BY DEF Stores
  <2>2. r \in Fetching
    BY <2>1, FetchingGiven
  <2>3. r.at = "back" /\ r.data = copy /\ r.excused = lapsed /\ r.due = load[l].due
    BY <2>1 DEF Fetching
  <2>4. load[l].at = "get"
    BY DEF ListHit
  <2> QED
    BY <2>2, <2>3, <2>4
<1>2. load' = [load EXCEPT ![l] = r] /\ UNCHANGED <<subjects, copy, post, rows, told, lapsed>>
  BY DEF Stores, Fetching, ListHit
<1> HIDE DEF r
<1>3. Stores' /\ load'[l] = r /\ \A k \in Load : k # l => load'[k] = load[k]
  BY <1>1, <1>2, OneFetch DEF Stores
<1>4. ToldIsTrue' /\ PostsKnow' /\ CopyTells'
  BY <1>2 DEF ToldIsTrue, PostsKnow, CopyTells
<1>5. copy \in Collection /\ copy # None
  BY DEF Stores, ListHit
<1>6. ~lapsed => \A c \in Code : Level(copy[c]) >= load[l].due[c]
  <2> SUFFICES ASSUME ~lapsed, NEW c \in Code PROVE Level(copy[c]) >= load[l].due[c]
    OBVIOUS
  <2>1. load[l].due[c] <= told[c] /\ told[c] <= Level(copy[c])
    BY <1>1, <1>5 DEF LoadsKnow, CopyTells
  <2> QED
    BY <1>5, <2>1, Numbers
<1>7. LoadsKnow'
  BY <1>1, <1>2, <1>3, <1>5 DEF LoadsKnow
<1>8. TellsWhatWasDone'
  BY <1>1, <1>2, <1>3, <1>6 DEF TellsWhatWasDone
<1> QED
  BY <1>3, <1>4, <1>7, <1>8

\* A miss goes on with what it is due.
LEMMA ListMissKeeps == ASSUME DeskConstants, IInv, NEW l \in Load, ListMiss(l) PROVE IInv'
<1> DEFINE r == [load[l] EXCEPT !.at = "find"]
<1> USE DEF IInv
<1>1. r \in Fetching /\ r.at = "find" /\ r.due = load[l].due /\ load[l].at = "get"
  <2>1. load[l] \in Fetching
    BY DEF Stores
  <2>2. r \in Fetching /\ r.at = "find" /\ r.due = load[l].due
    BY <2>1 DEF Fetching
  <2>3. load[l].at = "get"
    BY DEF ListMiss
  <2> QED
    BY <2>2, <2>3
<1>2. load' = [load EXCEPT ![l] = r] /\ UNCHANGED <<subjects, copy, post, rows, told, lapsed>>
  BY DEF Stores, Fetching, ListMiss
<1> HIDE DEF r
<1>3. Stores' /\ load'[l] = r /\ \A k \in Load : k # l => load'[k] = load[k]
  BY <1>1, <1>2, OneFetch DEF Stores
<1>4. ToldIsTrue' /\ PostsKnow' /\ CopyTells'
  BY <1>2 DEF ToldIsTrue, PostsKnow, CopyTells
<1>5. LoadsKnow' /\ TellsWhatWasDone'
  BY <1>1, <1>2, <1>3 DEF LoadsKnow, TellsWhatWasDone
<1> QED
  BY <1>3, <1>4, <1>5

\* An answer that arrives and a failure leave nothing to know.
LEMMA FetchEndsKeeps ==
    ASSUME DeskConstants, IInv, NEW l \in Load, Fetched(l) \/ FetchFails(l)
    PROVE  IInv'
<1> USE DEF IInv
<1>1. load' = [load EXCEPT ![l] = NoLoad] /\ UNCHANGED <<subjects, copy, post, told, lapsed>>
  BY DEF Fetched, FetchFails
<1>2. Stores' /\ load'[l] = NoLoad /\ \A k \in Load : k # l => load'[k] = load[k]
  BY <1>1, OneFetch, RestIsTyped DEF Stores
<1>3. NoLoad.at = "none"
  BY DEF NoLoad
<1>4. ToldIsTrue' /\ PostsKnow' /\ CopyTells'
  BY <1>1 DEF ToldIsTrue, PostsKnow, CopyTells
<1>5. LoadsKnow' /\ TellsWhatWasDone'
  BY <1>1, <1>2, <1>3 DEF LoadsKnow, TellsWhatWasDone
<1> QED
  BY <1>2, <1>4, <1>5

\* The collection itself is as far as anything told.
LEMMA ListFindKeeps == ASSUME DeskConstants, IInv, NEW l \in Load, ListFind(l) PROVE IInv'
<1> DEFINE r == [load[l] EXCEPT !.at = "set", !.data = subjects]
<1> USE DEF IInv
<1>1. r \in Fetching /\ r.at = "set" /\ r.due = load[l].due /\ r.data = subjects
      /\ load[l].at = "find"
  <2>1. load[l] \in Fetching /\ subjects \in Collection
    BY DEF Stores
  <2>2. r \in Fetching /\ r.at = "set" /\ r.due = load[l].due /\ r.data = subjects
    BY <2>1 DEF Fetching
  <2>3. load[l].at = "find"
    BY DEF ListFind
  <2> QED
    BY <2>2, <2>3
<1>2. load' = [load EXCEPT ![l] = r] /\ UNCHANGED <<subjects, copy, post, rows, told, lapsed>>
  BY DEF Stores, Fetching, ListFind
<1> HIDE DEF r
<1>3. Stores' /\ load'[l] = r /\ \A k \in Load : k # l => load'[k] = load[k]
  BY <1>1, <1>2, OneFetch DEF Stores
<1>4. ToldIsTrue' /\ PostsKnow' /\ CopyTells'
  BY <1>2 DEF ToldIsTrue, PostsKnow, CopyTells
<1>5. \A c \in Code : load[l].due[c] <= Level(subjects[c])
  <2> SUFFICES ASSUME NEW c \in Code PROVE load[l].due[c] <= Level(subjects[c])
    OBVIOUS
  <2>1. load[l].due[c] <= told[c] /\ told[c] <= Level(subjects[c])
    BY <1>1 DEF LoadsKnow, ToldIsTrue
  <2> QED
    BY <2>1, Numbers
<1>6. subjects \in Collection
  BY DEF Stores
<1>7. LoadsKnow' /\ TellsWhatWasDone'
  BY <1>1, <1>2, <1>3, <1>5, <1>6 DEF LoadsKnow, TellsWhatWasDone
<1> QED
  BY <1>3, <1>4, <1>7

\* A fill that no change overtook caches the collection; any other has lapsed.
LEMMA ListSetKeeps == ASSUME DeskConstants, IInv, NEW l \in Load, ListSet(l) PROVE IInv'
<1> DEFINE r == [load[l] EXCEPT !.at = "back", !.late = FALSE]
<1> USE DEF IInv
<1>1. r \in Fetching /\ r.at = "back" /\ r.due = load[l].due /\ r.data = load[l].data
      /\ load[l].at = "set"
  <2>1. load[l] \in Fetching
    BY DEF Stores
  <2>2. r \in Fetching /\ r.at = "back" /\ r.due = load[l].due /\ r.data = load[l].data
    BY <2>1 DEF Fetching
  <2>3. load[l].at = "set"
    BY DEF ListSet
  <2> QED
    BY <2>2, <2>3
<1>2. load' = [load EXCEPT ![l] = r] /\ UNCHANGED <<subjects, post, rows, told>>
  BY DEF Stores, Fetching, ListSet
<1>3. (copy' = load[l].data /\ lapsed' = load[l].late) \/ UNCHANGED <<copy, lapsed>>
  BY DEF ListSet
<1> HIDE DEF r
<1>4. load' \in [Load -> Fetching] /\ load'[l] = r /\ \A k \in Load : k # l => load'[k] = load[k]
  BY <1>1, <1>2, OneFetch
<1>5. load[l].data \in Collection /\ load[l].late \in BOOLEAN
  BY <1>1 DEF Stores, Fetching, LoadsKnow
<1>6. Stores'
  BY <1>2, <1>3, <1>4, <1>5 DEF Stores
<1>7. ToldIsTrue' /\ PostsKnow'
  BY <1>2 DEF ToldIsTrue, PostsKnow
<1>8. CopyTells'
  <2>1. CASE copy' = load[l].data /\ lapsed' = load[l].late
    <3>1. ~lapsed' => copy' = subjects
      BY <1>1, <2>1 DEF LoadsKnow
    <3> QED
      BY <1>2, <3>1 DEF CopyTells, ToldIsTrue, PostsKnow, Answering
  <2>2. CASE UNCHANGED <<copy, lapsed>>
    BY <1>2, <2>2 DEF CopyTells
  <2> QED
    BY <1>3, <2>1, <2>2
<1>9. \A c \in Code : Level(load[l].data[c]) >= load[l].due[c]
  <2> SUFFICES ASSUME NEW c \in Code PROVE Level(load[l].data[c]) >= load[l].due[c]
    OBVIOUS
  <2>1. load[l].due[c] <= Level(load[l].data[c])
    BY <1>1 DEF LoadsKnow
  <2>2. Level(load[l].data[c]) \in Nat
    BY <1>5, LevelIsNat DEF Collection
  <2> QED
    BY <2>1, <2>2, Numbers
<1>10. LoadsKnow' /\ TellsWhatWasDone'
  BY <1>1, <1>2, <1>4, <1>5, <1>9 DEF LoadsKnow, TellsWhatWasDone
<1> QED
  BY <1>6, <1>7, <1>8, <1>10

\* Without a copy there is nothing that could be behind.
LEMMA CopyExpiresKeeps == ASSUME DeskConstants, IInv, CopyExpires PROVE IInv'
  BY DEF IInv, CopyExpires, Stores, ToldIsTrue, PostsKnow, CopyTells, LoadsKnow, TellsWhatWasDone

\* A change that begins is for some code.
LEMMA BeginKeeps ==
    ASSUME DeskConstants, IInv, NEW p \in Post, NEW op \in {"create", "update", "deactivate"},
           NEW c \in Code, Begin(p, op, c)
    PROVE  IInv'
<1> DEFINE r == [NoPost EXCEPT !.at = "check", !.op = op, !.code = c]
<1> USE DEF IInv
<1>1. r \in Changing /\ r.at = "check" /\ r.code = c
  BY DEF NoPost, Changing
<1>2. post' = [post EXCEPT ![p] = r] /\ UNCHANGED <<subjects, copy, load, rows, told, lapsed>>
  BY DEF Begin
<1> HIDE DEF r
<1>3. Stores' /\ post'[p] = r /\ \A q \in Post : q # p => post'[q] = post[q]
  BY <1>1, <1>2, OneChange DEF Stores
<1>4. ToldIsTrue' /\ LoadsKnow' /\ TellsWhatWasDone'
  BY <1>2 DEF ToldIsTrue, LoadsKnow, TellsWhatWasDone
<1>5. PostsKnow' /\ CopyTells'
  BY <1>1, <1>2, <1>3 DEF PostsKnow, CopyTells, Answering
<1> QED
  BY <1>3, <1>4, <1>5

\* A change is checked: unless it creates, its subject exists.
LEMMA CheckKeeps == ASSUME DeskConstants, IInv, NEW p \in Post, Check(p) PROVE IInv'
<1> DEFINE at == IF Admits(post[p].op, subjects[post[p].code]) THEN "write" ELSE "refused"
           r == [post[p] EXCEPT !.at = at]
<1> USE DEF IInv
<1>1. at = "write" /\ post[p].op # "create" => subjects[post[p].code] # None
  BY DEF Admits
<1>2. at \in {"write", "refused"} /\ post[p].at = "check"
  BY DEF Check
<1>3. post' = [post EXCEPT ![p].at = at] /\ UNCHANGED <<subjects, copy, load, rows, told, lapsed>>
  BY DEF Check
<1> HIDE DEF at
<1>4. r \in Changing /\ r.at = at /\ r.op = post[p].op /\ r.code = post[p].code
      /\ post' = [post EXCEPT ![p] = r]
  <2>1. post[p] \in Changing
    BY DEF Stores
  <2>2. r \in Changing /\ r.at = at /\ r.op = post[p].op /\ r.code = post[p].code
    BY <1>2, <2>1 DEF Changing
  <2>3. post' = [post EXCEPT ![p] = r]
    BY <1>3
  <2> QED
    BY <2>2, <2>3
<1> HIDE DEF r
<1>5. Stores' /\ post'[p] = r /\ \A q \in Post : q # p => post'[q] = post[q]
  BY <1>3, <1>4, OneChange DEF Stores
<1>6. ToldIsTrue' /\ LoadsKnow' /\ TellsWhatWasDone'
  BY <1>3 DEF ToldIsTrue, LoadsKnow, TellsWhatWasDone
<1>7. PostsKnow' /\ CopyTells'
  BY <1>1, <1>2, <1>3, <1>4, <1>5 DEF PostsKnow, CopyTells, Answering
<1> QED
  BY <1>5, <1>6, <1>7

\* A change that is refused or fails leaves nothing to know.
LEMMA RefusedKeeps == ASSUME DeskConstants, IInv, NEW p \in Post, Refused(p) PROVE IInv'
<1> USE DEF IInv
<1>1. post' = [post EXCEPT ![p] = NoPost] /\ UNCHANGED <<subjects, copy, load, rows, told, lapsed>>
  BY DEF Refused
<1>2. Stores' /\ post'[p] = NoPost /\ \A q \in Post : q # p => post'[q] = post[q]
  BY <1>1, OneChange, RestIsTyped DEF Stores
<1>3. NoPost.at = "none"
  BY DEF NoPost
<1>4. ToldIsTrue' /\ LoadsKnow' /\ TellsWhatWasDone'
  BY <1>1 DEF ToldIsTrue, LoadsKnow, TellsWhatWasDone
<1>5. PostsKnow' /\ CopyTells'
  BY <1>1, <1>2, <1>3 DEF PostsKnow, CopyTells, Answering
<1> QED
  BY <1>2, <1>4, <1>5

\* A write takes its subject further, so what others know of it stays true.
LEMMA WriteKeeps == ASSUME DeskConstants, IInv, NEW p \in Post, Write(p) PROVE IInv'
<1> DEFINE c == post[p].code
           s == Written(post[p].op, subjects[c])
<1> USE DEF IInv
<1>1. c \in Code /\ subjects[c] \in Subject \union {None} /\ post[p].at = "write"
      /\ post[p].op \in {"create", "update", "deactivate"}
  BY DEF Stores, Changing, PostsKnow, Collection, Write
<1>2. CASE post[p].op = "create" /\ subjects[c] # None
  <2>1. /\ post' = [post EXCEPT ![p].at = "refused"]
        /\ UNCHANGED <<subjects, copy, load, rows, told, lapsed>>
    BY <1>2 DEF Write
  <2> DEFINE r == [post[p] EXCEPT !.at = "refused"]
  <2>2. post[p] \in Changing
    BY DEF Stores
  <2>3. post' = [post EXCEPT ![p] = r]
    BY <2>1
  <2>4. r \in Changing /\ r.at = "refused" /\ r.code = post[p].code
    BY <2>2 DEF Changing
  <2> HIDE DEF r
  <2>5. /\ Stores' /\ post'[p].at = "refused" /\ post'[p].code = post[p].code
        /\ \A q \in Post : q # p => post'[q] = post[q]
    BY <2>1, <2>4, <2>3, OneChange DEF Stores
  <2>6. ToldIsTrue' /\ LoadsKnow' /\ TellsWhatWasDone'
    BY <2>1 DEF ToldIsTrue, LoadsKnow, TellsWhatWasDone
  <2>7. PostsKnow' /\ CopyTells'
    BY <1>1, <2>1, <2>5 DEF PostsKnow, CopyTells, Answering
  <2> QED
    BY <2>5, <2>6, <2>7
<1>3. CASE ~(post[p].op = "create" /\ subjects[c] # None)
  <2>1. /\ subjects' = [subjects EXCEPT ![c] = s]
        /\ load' = [l \in Load |-> [load[l] EXCEPT !.late = @ \/ load[l].at = "set"]]
        /\ post' = [post EXCEPT ![p].at = "keys", ![p].got = s]
        /\ UNCHANGED <<copy, rows, told, lapsed>>
    BY <1>3 DEF Write
  <2>2. post[p].op = "create" <=> subjects[c] = None
    BY <1>1, <1>3 DEF PostsKnow
  <2>3. post[p].op = "update" => subjects[c].edits < MaxEdits
    BY DEF Write
  <2>4. s \in Subject /\ Level(subjects[c]) <= Level(s)
    BY <1>1, <2>2, <2>3, WritesGoForward, Zenon
  <2> HIDE DEF s
  <2>5. Stores'
    <3>1. subjects' \in Collection
      BY <1>1, <2>1, <2>4 DEF Stores, Collection
    <3>2. \A l \in Load : [load[l] EXCEPT !.late = @ \/ load[l].at = "set"] \in Fetching
      BY FetchingGiven DEF Stores
    <3>3. load' \in [Load -> Fetching]
      BY <2>1, <3>2
    <3>4. post[p] \in Changing
      BY DEF Stores
    <3>5. post' \in [Post -> Changing]
      BY <2>1, <2>4, <3>4, ChangingGiven DEF Stores
    <3> QED
      BY <2>1, <3>1, <3>5, <3>3 DEF Stores
  <2>6. \A d \in Code : /\ Level(subjects[d]) \in Nat /\ Level(subjects'[d]) \in Nat
                         /\ Level(subjects[d]) <= Level(subjects'[d])
    <3> SUFFICES ASSUME NEW d \in Code
                 PROVE  /\ Level(subjects[d]) \in Nat /\ Level(subjects'[d]) \in Nat
                        /\ Level(subjects[d]) <= Level(subjects'[d])
      OBVIOUS
    <3>1. Level(subjects[d]) \in Nat /\ Level(subjects'[d]) \in Nat
      BY <2>5, LevelIsNat DEF Stores, Collection
    <3>2. CASE d = c
      BY <1>1, <2>1, <2>4, <3>1, <3>2 DEF Stores, Collection
    <3>3. CASE d # c
      BY <2>1, <3>1, <3>3 DEF Stores, Collection
    <3> QED
      BY <3>1, <3>2, <3>3
  <2>7. ToldIsTrue'
    BY <2>1, <2>6 DEF ToldIsTrue, Stores
  <2>8. PostsKnow'
    <3> SUFFICES ASSUME NEW q \in Post
                 PROVE  /\ post'[q].at # "none" => post'[q].code \in Code
                        /\ post'[q].at = "write" /\ post'[q].op # "create"
                              => subjects'[post'[q].code] # None
                        /\ post'[q].at \in Answering =>
                              /\ post'[q].got \in Subject
                              /\ Level(post'[q].got) <= Level(subjects'[post'[q].code])
      BY DEF PostsKnow
    <3>1. CASE q = p
      <4>1. post'[p].at = "keys" /\ post'[p].got = s /\ post'[p].code = c /\ subjects'[c] = s
        BY <1>1, <2>1 DEF Stores, Collection
      <4> QED
        BY <1>1, <2>4, <2>6, <3>1, <4>1
    <3>2. CASE q # p
      <4>1. post'[q] = post[q]
        BY <2>1, <3>2 DEF Stores
      <4>2. subjects'[post[q].code] # subjects[post[q].code] => subjects'[post[q].code] = s
        BY <2>1 DEF Stores, Collection
      <4>3. s # None
        BY <2>4 DEF DeskConstants
      <4>4. post[q].at \in Answering => Level(post[q].got) \in Nat
        BY LevelIsNat DEF PostsKnow
      <4>5. post[q].at \in Answering =>
              post[q].code \in Code /\ Level(post[q].got) <= Level(subjects[post[q].code])
        BY DEF PostsKnow, Answering
      <4>6. post[q].at \in Answering => Level(post[q].got) <= Level(subjects'[post[q].code])
        BY <2>6, <4>4, <4>5
      <4> QED
        BY <4>1, <4>2, <4>3, <4>6 DEF PostsKnow
    <3> QED
      BY <3>1, <3>2
  <2>9. CopyTells'
    <3>1. \A q \in Post : post'[q].at = "acked" => q # p /\ post'[q] = post[q]
      BY <2>1 DEF Stores
    <3> QED
      BY <2>1, <3>1 DEF CopyTells
  <2>10. LoadsKnow' /\ TellsWhatWasDone'
    <3>1. \A l \in Load : load'[l] = [load[l] EXCEPT !.late = @ \/ load[l].at = "set"]
      BY <2>1
    <3>2. \A l \in Load : /\ load'[l].at = load[l].at /\ load'[l].due = load[l].due
                           /\ load'[l].data = load[l].data /\ load'[l].excused = load[l].excused
                           /\ load'[l].late = (load[l].late \/ load[l].at = "set")
      <4> SUFFICES ASSUME NEW l \in Load
                   PROVE  /\ load'[l].at = load[l].at /\ load'[l].due = load[l].due
                          /\ load'[l].data = load[l].data /\ load'[l].excused = load[l].excused
                          /\ load'[l].late = (load[l].late \/ load[l].at = "set")
        OBVIOUS
      <4>1. load[l] \in Fetching
        BY DEF Stores
      <4> QED
        BY <3>1, <4>1 DEF Fetching
    <3>3. LoadsKnow'
      BY <2>1, <3>2 DEF LoadsKnow
    <3>4. TellsWhatWasDone'
      BY <3>2 DEF TellsWhatWasDone
    <3> QED
      BY <3>3, <3>4
  <2> QED
    BY <2>5, <2>7, <2>8, <2>9, <2>10
<1> QED
  BY <1>2, <1>3

\* A change gets to its answer only when no copy is left, or the copy lapses.
LEMMA InvalidationKeeps == ASSUME DeskConstants, IInv, NEW p \in Post, Keys(p) \/ Del(p) PROVE IInv'
<1> USE DEF IInv
<1>1. PICK at \in {"del", "acked"} : post' = [post EXCEPT ![p].at = at]
  BY DEF Keys, Del
<1>2. /\ UNCHANGED <<subjects, load, rows, told>>
      /\ copy' \in {copy, None} /\ lapsed' \in BOOLEAN
      /\ at = "acked" => copy' = None \/ lapsed'
      /\ post[p].at \in Answering
      /\ copy' # None /\ ~lapsed' => ~lapsed
  <2>1. CASE Keys(p)
    <3>1. copy # None => post'[p].at = "del" \/ lapsed'
      BY <2>1 DEF Keys, Stores, Changing
    <3>2. post'[p].at = at
      BY <1>1 DEF Stores, Changing
    <3> QED
      BY <2>1, <3>1, <3>2 DEF Keys, Stores, Answering
  <2>2. CASE Del(p)
    BY <2>2 DEF Del, Stores, Answering
  <2> QED
    BY <2>1, <2>2
<1> DEFINE r == [post[p] EXCEPT !.at = at]
<1>3. post[p] \in Changing
  BY DEF Stores
<1>4. post' = [post EXCEPT ![p] = r]
  BY <1>1
<1>5. r \in Changing /\ r.at = at /\ r.code = post[p].code /\ r.got = post[p].got
  BY <1>3 DEF Changing
<1> HIDE DEF r
<1>6. /\ post' \in [Post -> Changing] /\ post'[p].at = at /\ post'[p].code = post[p].code
      /\ post'[p].got = post[p].got
      /\ \A q \in Post : q # p => post'[q] = post[q]
  BY <1>5, <1>4, OneChange
<1>7. Stores'
  BY <1>2, <1>6 DEF Stores
<1>8. ToldIsTrue' /\ LoadsKnow' /\ TellsWhatWasDone'
  BY <1>2 DEF ToldIsTrue, LoadsKnow, TellsWhatWasDone
<1>9. PostsKnow'
  BY <1>2, <1>6 DEF PostsKnow, Answering
<1>10. CopyTells'
  BY <1>2, <1>6 DEF CopyTells
<1> QED
  BY <1>7, <1>8, <1>9, <1>10

\* What the admin is told is what the answer knew.
LEMMA AckedKeeps == ASSUME DeskConstants, IInv, NEW p \in Post, Acked(p) PROVE IInv'
<1> DEFINE c == post[p].code
           n == Level(post[p].got)
           m == IF n > told[c] THEN n ELSE told[c]
<1> USE DEF IInv
<1>1. post[p].at = "acked" /\ c \in Code /\ post[p].got \in Subject /\ n \in Nat
      /\ n <= Level(subjects[c]) /\ told[c] \in Nat
  BY LevelIsNat DEF Stores, PostsKnow, Acked, Answering
<1>2. /\ told' = [told EXCEPT ![c] = m]
      /\ post' = [post EXCEPT ![p] = NoPost]
      /\ UNCHANGED <<subjects, copy, load, lapsed>>
  BY DEF Acked
<1> HIDE DEF n
<1>3. m \in Nat /\ told[c] <= m /\ (m = told[c] \/ m = n)
  BY <1>1
<1> HIDE DEF m, c
<1>4. told'[c] = m /\ \A d \in Code : d # c => told'[d] = told[d]
  BY <1>1, <1>2 DEF Stores
<1>5. \A d \in Code : /\ told[d] \in Nat /\ told'[d] \in Nat /\ told[d] <= told'[d]
                      /\ told'[d] = told[d] \/ (d = c /\ told'[d] = n)
  <2> SUFFICES ASSUME NEW d \in Code
               PROVE  /\ told[d] \in Nat /\ told'[d] \in Nat /\ told[d] <= told'[d]
                      /\ told'[d] = told[d] \/ (d = c /\ told'[d] = n)
    OBVIOUS
  <2>1. told[d] \in Nat
    BY DEF Stores
  <2>2. CASE d = c
    <3>1. told'[d] = m /\ told[d] = told[c]
      BY <1>4, <2>2
    <3> QED
      BY <1>3, <2>1, <2>2, <3>1
  <2>3. CASE d # c
    <3>1. told'[d] = told[d]
      BY <1>4, <2>3
    <3> QED
      BY <2>1, <3>1
  <2> QED
    BY <2>2, <2>3
<1>6. /\ post' \in [Post -> Changing] /\ post'[p].at = "none"
      /\ \A q \in Post : q # p => post'[q] = post[q]
  BY <1>2, OneChange, RestIsTyped DEF NoPost
<1>7. told' \in [Code -> Nat]
  BY <1>1, <1>2, <1>3 DEF Stores
<1>8. Stores'
  BY <1>2, <1>6, <1>7 DEF Stores
<1>9. ToldIsTrue'
  BY <1>1, <1>2, <1>5 DEF ToldIsTrue
<1>10. PostsKnow'
  BY <1>2, <1>6 DEF PostsKnow, Answering
<1>11. CopyTells'
  <2>1. copy # None /\ ~lapsed => n <= Level(copy[c])
    BY <1>1 DEF CopyTells, n, c
  <2> QED
    BY <1>2, <1>5, <1>6, <2>1 DEF CopyTells
<1>12. LoadsKnow'
  <2> SUFFICES ASSUME NEW l \in Load, load[l].at \in {"get", "find"}, NEW d \in Code
               PROVE  load[l].due[d] <= told'[d]
    BY <1>2 DEF LoadsKnow
  <2>1. load[l].due[d] \in Nat
    BY Numbers
  <2>2. load[l].due[d] <= told[d]
    BY DEF LoadsKnow
  <2>3. told[d] \in Nat /\ told'[d] \in Nat /\ told[d] <= told'[d]
    BY <1>5
  <2> QED
    BY <2>1, <2>2, <2>3
<1>13. TellsWhatWasDone'
  BY <1>2 DEF TellsWhatWasDone
<1> QED
  BY <1>8, <1>10, <1>11, <1>12, <1>13, <1>9

\* Every step keeps the invariant.
LEMMA NextKeeps == ASSUME DeskConstants, IInv, [Next]_vars PROVE IInv'
<1>1. CASE UNCHANGED vars
  BY <1>1 DEF vars, IInv, Stores, ToldIsTrue, PostsKnow, CopyTells, LoadsKnow, TellsWhatWasDone
<1>2. ASSUME NEW l \in Load, \/ Fetch(l) \/ ListHit(l) \/ ListMiss(l) \/ ListFind(l)
                             \/ ListSet(l) \/ Fetched(l) \/ FetchFails(l)
      PROVE  IInv'
  BY <1>2, FetchKeeps, ListHitKeeps, ListMissKeeps, ListFindKeeps, ListSetKeeps, FetchEndsKeeps
<1>3. ASSUME NEW p \in Post, NEW c \in Code, ClickCreate(p, c) \/ ClickEdit(p, c) \/ ClickDeactivate(p, c)
      PROVE  IInv'
  <2>1. \E op \in {"create", "update", "deactivate"} : Begin(p, op, c)
    BY <1>3 DEF ClickCreate, ClickEdit, ClickDeactivate
  <2> QED
    BY <2>1, BeginKeeps
<1>4. ASSUME NEW p \in Post, Check(p) \/ Write(p) \/ Keys(p) \/ Del(p) \/ Acked(p) \/ Refused(p)
      PROVE  IInv'
  BY <1>4, CheckKeeps, RefusedKeeps, WriteKeeps, InvalidationKeeps, AckedKeeps
<1>5. CASE CopyExpires
  BY <1>5, CopyExpiresKeeps
<1> QED
  BY <1>1, <1>2, <1>3, <1>4, <1>5 DEF Next

\* The invariant holds throughout.
LEMMA Invariant == ASSUME DeskConstants PROVE Spec => []IInv
<1>1. Init => IInv
  BY InitOK
<1>2. IInv /\ [Next]_vars => IInv'
  BY NextKeeps
<1> QED
  BY <1>1, <1>2, PTL DEF Spec

-----------------------------------------------------------------------------
(* The rows of the list.                                                   *)

\* A sequence of all elements of a finite set is a sequence of elements of any
\* set around it.
LEMMA SetToSeqIsSeq ==
    ASSUME NEW R, NEW S \in SUBSET R, IsFiniteSet(S)
    PROVE  SetToSeq(S) \in Seq(R)
<1> DEFINE n == Cardinality(S)
<1>1. n \in Nat /\ ExistsBijection(1..n, S)
  BY FS_CardinalityType
<1>2. \E f \in [1..n -> S] : IsInjective(f)
  BY <1>1 DEF ExistsBijection, Bijection, Injection
<1>3. SetToSeq(S) \in [1..n -> S]
  BY <1>2 DEF SetToSeq
<1> HIDE DEF n
<1> QED
  BY <1>1, <1>3

RowsAreTyped == rows \in Seq(Row)

\* What the filter lets through is a list of rows.
LEMMA RowsAreRows ==
    ASSUME DeskConstants, NEW data
    PROVE  Rows(data) \in Seq(Row)
<1> DEFINE L == {c \in Code : data[c] # None /\ data[c].active}
           R == {[code |-> c, active |-> TRUE] : c \in L}
           f == [c \in L |-> [code |-> c, active |-> TRUE]]
<1>1. IsFiniteSet(L)
  BY FS_Subset DEF DeskConstants
<1>2. f \in Surjection(L, R)
  BY DEF Surjection
<1>3. IsFiniteSet(R)
  BY <1>1, <1>2, FS_Surjection
<1>4. R \in SUBSET Row
  <2>1. \A c \in Code : [code |-> c, active |-> TRUE] \in Row
    BY DEF Row
  <2>2. L \subseteq Code
    OBVIOUS
  <2> HIDE DEF L
  <2> QED
    BY <2>1, <2>2
<1>5. SetToSeq(R) \in Seq(Row)
  BY <1>3, <1>4, SetToSeqIsSeq
<1> QED
  BY <1>5 DEF Rows

\* An answer puts a row on top or changes what one of them says.
LEMMA AnsweredIsRows ==
    ASSUME RowsAreTyped, NEW q \in Changing, q.code \in Code, q.got \in Subject
    PROVE  Answered(q) \in Seq(Row)
<1> USE DEF RowsAreTyped
<1>1. CASE q.op = "create"
  <2>1. [code |-> q.code, active |-> TRUE] \in Row
    BY DEF Row
  <2> QED
    BY <1>1, <2>1 DEF Answered
<1>2. CASE q.op # "create"
  <2> DEFINE c == q.code
             a == q.got.active
  <2>1. a \in BOOLEAN
    BY DEF Subject
  <2>2. Answered(q) = RowSays(c, a)
    BY <1>2 DEF Answered
  <2> HIDE DEF a, c
  <2>3. CASE Listed(c) = {}
    BY <2>2, <2>3 DEF RowSays
  <2>4. CASE Listed(c) # {}
    <3> DEFINE first == CHOOSE i \in Listed(c) : \A j \in Listed(c) : i <= j
    <3>1. Answered(q) = [rows EXCEPT ![first].active = a]
      BY <2>2, <2>4 DEF RowSays
    <3> HIDE DEF first
    <3>2. CASE first \in DOMAIN rows
      <4> DEFINE r == [rows[first] EXCEPT !.active = a]
      <4>1. Answered(q) = [rows EXCEPT ![first] = r]
        BY <3>1
      <4>2. rows[first] \in Row
        BY <3>2
      <4>3. r \in Row
        BY <2>1, <4>2 DEF Row
      <4> HIDE DEF r
      <4> QED
        BY <3>2, <4>1, <4>3
    <3>3. CASE first \notin DOMAIN rows
      <4>1. Answered(q) = rows
        BY <3>1, <3>3
      <4> QED
        BY <4>1
    <3> QED
      BY <3>2, <3>3
  <2> QED
    BY <2>3, <2>4
<1> QED
  BY <1>1, <1>2

\* The rows are rows throughout.
LEMMA RowsKept == ASSUME DeskConstants, IInv, RowsAreTyped, [Next]_vars PROVE RowsAreTyped'
<1> USE DEF RowsAreTyped
<1>1. CASE UNCHANGED rows
  BY <1>1
<1>2. ASSUME NEW l \in Load, Fetched(l)
      PROVE  RowsAreTyped'
  BY <1>2, RowsAreRows DEF Fetched
<1>3. ASSUME NEW p \in Post, Acked(p)
      PROVE  RowsAreTyped'
  <2>1. post[p] \in Changing /\ post[p].code \in Code /\ post[p].got \in Subject
    BY <1>3 DEF IInv, Stores, PostsKnow, Acked, Answering
  <2> QED
    BY <1>3, <2>1, AnsweredIsRows DEF Acked
<1> QED
  BY <1>1, <1>2, <1>3
  DEF vars, Next, Fetch, ListHit, ListMiss, ListFind, ListSet, FetchFails, ClickCreate, ClickEdit,
      ClickDeactivate, Begin, Check, Write, Keys, Del, Refused, CopyExpires

-----------------------------------------------------------------------------
(* The theorems.                                                           *)

\* The stores and the requests hold what the code can put there; the list is
\* one of rows of subjects, whatever answers are put on it.
THEOREM DeskTypeCorrect == ASSUME DeskConstants PROVE Spec => []TypeOK
<1>1. Init => RowsAreTyped
  BY DEF Init, RowsAreTyped
<1>2. IInv /\ RowsAreTyped => TypeOK
  BY DEF IInv, Stores, TypeOK, Fetching, Changing, RowsAreTyped
<1>3. IInv /\ RowsAreTyped /\ [Next]_vars => RowsAreTyped'
  BY RowsKept
<1> QED
  BY <1>1, <1>2, <1>3, Invariant, PTL DEF Spec

\* A list that is asked for after a change was confirmed tells the change or a
\* later one (listSubjects against createSubject, updateSubject and
\* deactivateSubject), unless its copy was filled late or outlived a lost DEL.
THEOREM ListsTellWhatWasDone == ASSUME DeskConstants PROVE Spec => []TellsWhatWasDone
<1>1. IInv => TellsWhatWasDone
  BY DEF IInv
<1> QED
  BY <1>1, Invariant, PTL
=============================================================================
