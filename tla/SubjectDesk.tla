---------------------------- MODULE SubjectDesk ----------------------------
(***************************************************************************)
(* The list on which an admin creates, edits and deactivates subjects      *)
(* (SubjectList, SubjectForm and the subjects slice of the store) with the *)
(* service behind it: createSubject, updateSubject, deactivateSubject, and *)
(* listSubjects with its 60 s copy in Redis.                               *)
(*                                                                         *)
(* A subject is the number of its edits and whether it is active.  Who is  *)
(* enrolled or assigned is in module Enrollment.  The list is asked for    *)
(* with one set of filters, so Redis has one copy of it.                   *)
(***************************************************************************)
EXTENDS Naturals, Sequences, FiniteSets, SequencesExt

CONSTANTS
    Code,          \* codes of an academic year
    None,
    Load, Post,    \* fetches under way at a time; changes under way at a time
    MaxEdits,      \* bound: edits of a subject
    Faults         \* subset of {"redis", "db", "crash"}

Subject == [edits : 0..MaxEdits, active : BOOLEAN]

\* What a module that uses this one assumes of its constants.
DeskConstants == MaxEdits \in Nat /\ None \notin Subject /\ IsFiniteSet(Code)

New == [edits |-> 0, active |-> TRUE]
Collection == [Code -> Subject \union {None}]
\* A row of the list: the subject and whether it says Active.
Row == [code : Code, active : BOOLEAN]

\* How far a subject got: created, edited once and so on, deactivated.
Level(s) ==
    CASE s = None -> 0
      [] s # None /\ s.active -> s.edits + 1
      [] OTHER -> MaxEdits + 2

VARIABLES
    subjects,  \* the collection
    copy,      \* subjects:list:<query> in Redis, None if there is none
    load,      \* fetchSubjects under way
    post,      \* createSubject, updateSubject and deactivateSubject under way
    rows,      \* list of the store
    told,      \* history: how far the admin was told each subject got
    lapsed     \* history: the copy was filled late or a DEL was lost

vars == <<subjects, copy, load, post, rows, told, lapsed>>

\* data: the collection as the list was taken from it; due: what the admin had
\* been told when it was asked for; late: a subject changed since it was read;
\* excused: it came from a copy that had lapsed.
NoLoad == [at |-> "none", data |-> None, due |-> [c \in Code |-> 0], late |-> FALSE, excused |-> FALSE]
\* got: the subject as the answer tells it.
NoPost == [at |-> "none", op |-> "create", code |-> None, got |-> None]

Init ==
    /\ subjects = [c \in Code |-> None] /\ copy = None
    /\ load = [l \in Load |-> NoLoad] /\ post = [p \in Post |-> NoPost]
    /\ rows = <<>>
    /\ told = [c \in Code |-> 0] /\ lapsed = FALSE

-----------------------------------------------------------------------------
(* listSubjects, and the store around it.                                  *)

\* SubjectList is mounted or its filters are set again.
Fetch(l) ==
    /\ load[l].at = "none"
    /\ load' = [load EXCEPT ![l] = [NoLoad EXCEPT !.at = "get", !.due = told]]
    /\ UNCHANGED <<subjects, copy, post, rows, told, lapsed>>

ListHit(l) ==
    /\ load[l].at = "get" /\ copy # None
    /\ load' = [load EXCEPT ![l].at = "back", ![l].data = copy, ![l].excused = lapsed]
    /\ UNCHANGED <<subjects, copy, post, rows, told, lapsed>>

ListMiss(l) ==
    /\ load[l].at = "get" /\ (copy = None \/ "redis" \in Faults)
    /\ load' = [load EXCEPT ![l].at = "find"]
    /\ UNCHANGED <<subjects, copy, post, rows, told, lapsed>>

ListFind(l) ==
    /\ load[l].at = "find"
    /\ load' = [load EXCEPT ![l].at = "set", ![l].data = subjects]
    /\ UNCHANGED <<subjects, copy, post, rows, told, lapsed>>

ListSet(l) ==
    /\ load[l].at = "set"
    /\ \/ copy' = load[l].data /\ lapsed' = load[l].late
       \/ "redis" \in Faults /\ UNCHANGED <<copy, lapsed>>
    /\ load' = [load EXCEPT ![l].at = "back", ![l].late = FALSE]
    /\ UNCHANGED <<subjects, post, rows, told>>

CopyExpires ==
    /\ copy # None
    /\ copy' = None /\ lapsed' = FALSE
    /\ UNCHANGED <<subjects, load, post, rows, told>>

\* What the filter isActive: true lets through.
Rows(data) ==
    LET Listed == {c \in Code : data[c] # None /\ data[c].active}
    IN  SetToSeq({[code |-> c, active |-> TRUE] : c \in Listed})

\* fetchSubjects.fulfilled: the last answer stays, not the last question.
Fetched(l) ==
    /\ load[l].at = "back"
    /\ rows' = Rows(load[l].data)
    /\ load' = [load EXCEPT ![l] = NoLoad]
    /\ UNCHANGED <<subjects, copy, post, told, lapsed>>

\* fetchSubjects.rejected: the list stays as it was.
FetchFails(l) ==
    /\ \/ "db" \in Faults /\ load[l].at = "find"
       \/ "crash" \in Faults /\ load[l].at # "none"
    /\ load' = [load EXCEPT ![l] = NoLoad]
    /\ UNCHANGED <<subjects, copy, post, rows, told, lapsed>>

-----------------------------------------------------------------------------
(* createSubject, updateSubject, deactivateSubject.                        *)

Begin(p, op, c) ==
    /\ post[p].at = "none"
    /\ post' = [post EXCEPT ![p] = [NoPost EXCEPT !.at = "check", !.op = op, !.code = c]]
    /\ UNCHANGED <<subjects, copy, load, rows, told, lapsed>>

Listed(c) == {i \in DOMAIN rows : rows[i].code = c}

ClickCreate(p, c) == Begin(p, "create", c)
ClickEdit(p, c) == Listed(c) # {} /\ Begin(p, "update", c)
ClickDeactivate(p, c) == (\E i \in Listed(c) : rows[i].active) /\ Begin(p, "deactivate", c)

\* What the handler reads first: a code that is taken answers 409, a subject
\* that is inactive cannot be deactivated again.
Admits(op, s) ==
    CASE op = "create" -> s = None
      [] op = "update" -> s # None
      [] OTHER -> s # None /\ s.active

Check(p) ==
    /\ post[p].at = "check"
    /\ post' = [post EXCEPT ![p].at = IF Admits(post[p].op, subjects[post[p].code])
                                      THEN "write" ELSE "refused"]
    /\ UNCHANGED <<subjects, copy, load, rows, told, lapsed>>

\* What is written, whatever happened since the handler read the subject.
Written(op, s) ==
    CASE op = "create" -> New
      [] op = "update" -> [s EXCEPT !.edits = @ + 1]
      [] OTHER -> [s EXCEPT !.active = FALSE]

\* The write; the unique index refuses a code that was taken since the check.
Write(p) ==
    LET c == post[p].code
        s == Written(post[p].op, subjects[c])
    IN  /\ post[p].at = "write"
        /\ post[p].op = "update" => subjects[c].edits < MaxEdits
        /\ IF post[p].op = "create" /\ subjects[c] # None
           THEN /\ post' = [post EXCEPT ![p].at = "refused"]
                /\ UNCHANGED <<subjects, load>>
           ELSE /\ subjects' = [subjects EXCEPT ![c] = s]
                /\ load' = [l \in Load |-> [load[l] EXCEPT !.late = @ \/ load[l].at = "set"]]
                /\ post' = [post EXCEPT ![p].at = "keys", ![p].got = s]
        /\ UNCHANGED <<copy, rows, told, lapsed>>

\* Mutant: the handlers without invalidateListCache.
KeysNever(p) ==
    /\ post[p].at = "keys"
    /\ post' = [post EXCEPT ![p].at = "acked"]
    /\ UNCHANGED <<subjects, copy, load, rows, told, lapsed>>

\* invalidateListCache: KEYS subjects:list:*, then DEL of what it found.
Keys(p) ==
    /\ post[p].at = "keys"
    /\ \/ /\ post' = [post EXCEPT ![p].at = IF copy # None THEN "del" ELSE "acked"]
          /\ UNCHANGED lapsed
       \/ /\ "redis" \in Faults
          /\ post' = [post EXCEPT ![p].at = "acked"]
          /\ lapsed' = (lapsed \/ copy # None)
    /\ UNCHANGED <<subjects, copy, load, rows, told>>

Del(p) ==
    /\ post[p].at = "del"
    /\ \/ copy' = None /\ lapsed' = FALSE
       \/ "redis" \in Faults /\ lapsed' = (lapsed \/ copy # None) /\ UNCHANGED copy
    /\ post' = [post EXCEPT ![p].at = "acked"]
    /\ UNCHANGED <<subjects, load, rows, told>>

\* The first row of a subject, if the list has one, says what the answer says.
RowSays(c, active) ==
    IF Listed(c) = {} THEN rows
    ELSE LET first == CHOOSE i \in Listed(c) : \A j \in Listed(c) : i <= j
         IN  [rows EXCEPT ![first].active = active]

\* What the store does with the answer: createSubject.fulfilled puts the
\* subject on top, even of a list that has it; the two others change its row.
Answered(q) ==
    IF q.op = "create" THEN <<[code |-> q.code, active |-> TRUE]>> \o rows
    ELSE RowSays(q.code, q.got.active)

Acked(p) ==
    LET c == post[p].code IN
    /\ post[p].at = "acked"
    /\ rows' = Answered(post[p])
    /\ told' = [told EXCEPT ![c] = IF Level(post[p].got) > @ THEN Level(post[p].got) ELSE @]
    /\ post' = [post EXCEPT ![p] = NoPost]
    /\ UNCHANGED <<subjects, copy, load, lapsed>>

\* The admin is told that the change failed, which it need not have.
Refused(p) ==
    /\ \/ post[p].at = "refused"
       \/ "db" \in Faults /\ post[p].at \in {"check", "write"}
       \/ "crash" \in Faults /\ post[p].at # "none"
    /\ post' = [post EXCEPT ![p] = NoPost]
    /\ UNCHANGED <<subjects, copy, load, rows, told, lapsed>>

Next ==
    \/ \E l \in Load : \/ Fetch(l) \/ ListHit(l) \/ ListMiss(l) \/ ListFind(l) \/ ListSet(l)
                       \/ Fetched(l) \/ FetchFails(l)
    \/ \E p \in Post : \/ \E c \in Code : ClickCreate(p, c) \/ ClickEdit(p, c) \/ ClickDeactivate(p, c)
                       \/ Check(p) \/ Write(p) \/ Keys(p) \/ Del(p) \/ Acked(p) \/ Refused(p)
    \/ CopyExpires

Spec == Init /\ [][Next]_vars

-----------------------------------------------------------------------------
(* Properties.                                                             *)

\* The stores and the requests hold what the code can put there.
TypeOK ==
    /\ subjects \in Collection /\ copy \in Collection \union {None}
    /\ load \in [Load -> [at : {"none", "get", "find", "set", "back"},
                          data : Collection \union {None},
                          due : [Code -> Nat], late : BOOLEAN, excused : BOOLEAN]]
    /\ post \in [Post -> [at : {"none", "check", "write", "keys", "del", "acked", "refused"},
                          op : {"create", "update", "deactivate"}, code : Code \union {None},
                          got : Subject \union {None}]]
    /\ rows \in Seq(Row)
    /\ told \in [Code -> Nat] /\ lapsed \in BOOLEAN

\* A list that is asked for after the admin was told that a subject was
\* created, edited or deactivated tells that change or a later one, however
\* requests overlap, unless it is served from a copy that was filled late or
\* outlived a lost KEYS or DEL.
TellsWhatWasDone ==
    \A l \in Load : load[l].at = "back" /\ ~load[l].excused =>
        \A c \in Code : Level(load[l].data[c]) >= load[l].due[c]
=============================================================================
