-------------------------------- MODULE Users --------------------------------
(***************************************************************************)
(* The profile of one user (user.service.ts): the MongoDB document with    *)
(* its version key __v and its audit log, the profile:<id> copy in Redis   *)
(* and the photo objects in S3.  A request is a sequence of steps, one for *)
(* each await; the steps of different requests interleave, and the retry   *)
(* pause of updateWithConcurrency is just such a gap.                      *)
(*                                                                         *)
(* "photo" stands for profilePhotoKey, "name" for every field that nothing *)
(* but updates reads, such as the URL signed for the photo.  The audit log *)
(* only ever gets entries pushed, so its newest entry is enough here.  The *)
(* refresh token that deactivateUser deletes belongs to AuthSession.       *)
(***************************************************************************)
EXTENDS Naturals

CONSTANTS
    Proc,        \* requests the server works on at the same time
    Name, Email, Id,
    Photo,       \* keys profiles/<id>/<uuid>.webp that uploads may draw
    Foreign,     \* other strings that a body may give as a photo key: the
                 \* keys of other users' photos, or of nothing
    None,        \* null in the document, a missing key in Redis
    Edits,       \* bodies that validation lets through: field -> value
    Calls,       \* the kinds of request of this instance
    Faults,      \* subset of {"redis", "db", "s3", "crash"}
    MaxVersion   \* bound: no update begins at this version

Field == {"name", "email", "active", "photo"}
Key == Photo \union Foreign
Profile == [name : Name, email : Email, active : BOOLEAN, photo : Key \union {None}]

\* updateStudentProfileSchema, updateFacultyProfileSchema; adminUpdateUserSchema.
SelfFields == {"name", "photo"}
AdminFields == {"name", "email", "active"}

\* The validators take any string for a photo key.
ASSUME EditsAssumption ==
    /\ Photo \intersect Foreign = {} /\ None \notin Key
    /\ \A e \in Edits : /\ DOMAIN e \subseteq SelfFields \/ DOMAIN e \subseteq AdminFields
                        /\ "name" \in DOMAIN e => e["name"] \in Name
                        /\ "email" \in DOMAIN e => e["email"] \in Email
                        /\ "active" \in DOMAIN e => e["active"] \in BOOLEAN
                        /\ "photo" \in DOMAIN e => e["photo"] \in Key \union {None}

MaxRetries == 3

VARIABLES
    fields,     \* the document's fields
    version,    \* its __v
    entry,      \* the newest entry of auditLog: field -> previous value
    given,      \* history: the key of the photo came with a profile update
    copy,       \* profile:<id> in Redis
    objects,    \* photos in the bucket, those of other users included
    minted,     \* photo keys drawn so far
    doomed,     \* deletions of old photos sent and not awaited
    accounts,   \* [email, id] of the other users
    pc,         \* next step of each request
    req,        \* locals of each request
    overtaken,  \* history: fields of a request that others wrote since it read them
    lapsed      \* history: the copy was filled late or its DEL was lost or never sent

vars == <<fields, version, entry, given, copy, objects, minted, doomed, accounts,
          pc, req, overtaken, lapsed>>

Account == [email : Email, id : Id]

\* previousValues of an audit entry.
Previous == {[f \in D |-> q[f]] : D \in SUBSET Field, q \in Profile}

\* What a request carries: an edit, a deactivation, a new photo, an account.
Bodies == Edits \union {[active |-> FALSE]} \union [photo : Photo] \union Account
Request == [body : Bodies \union {None}, seen : Profile \union {None} \union Previous,
            tries : 0..MaxRetries, at : Nat, first : Nat]
NoRequest == [body |-> None, seen |-> None, tries |-> 0, at |-> 0, first |-> 0]

Resting == {"idle", "conflict"}
\* Steps at which a request holds what it read of the document.
Holding == {"fill", "attempt", "write", "deactivate", "uploadWrite"}

Init ==
    /\ fields \in {f \in Profile : f.active /\ f.photo = None}
    /\ version = 0
    /\ entry = [f \in {} |-> None]
    /\ given = FALSE
    /\ copy = None
    /\ objects \in SUBSET Foreign /\ minted = {} /\ doomed = {}
    /\ accounts = {}
    /\ pc = [p \in Proc |-> "idle"]
    /\ req = [p \in Proc |-> NoRequest]
    /\ overtaken = [p \in Proc |-> {}]
    /\ lapsed = FALSE

stores == <<fields, version, entry, given, copy, objects, minted, doomed, accounts>>
document == <<fields, version, entry, given>>
bucket == <<objects, minted, doomed>>
history == <<overtaken, lapsed>>

Goto(p, step) == pc' = [pc EXCEPT ![p] = step]

\* The request has no more use for its locals.
GoesOn(p, step) ==
    /\ Goto(p, step)
    /\ req' = [req EXCEPT ![p] = NoRequest]

Answered(p) == GoesOn(p, "idle")

\* The request reads the document: from here on others may overtake it.
Reads(p, changes) ==
    /\ req' = [req EXCEPT ![p] = changes]
    /\ overtaken' = [overtaken EXCEPT ![p] = {}]

\* What a write of the fields D takes from request q of what it read: those of
\* its body, or, of a profile that is to be cached, all.
Takes(D, q) == IF req[q].body = None THEN Field ELSE D \intersect DOMAIN req[q].body

\* $set body and $push an audit entry, in one command.
Set(p, body, previous) ==
    /\ fields' = [f \in Field |-> IF f \in DOMAIN body THEN body[f] ELSE fields[f]]
    /\ entry' = previous
    /\ overtaken' = [q \in Proc |-> IF q # p /\ pc[q] \in Holding
                                    THEN overtaken[q] \union Takes(DOMAIN body, q)
                                    ELSE {}]

-----------------------------------------------------------------------------
(* getMyProfile and getUserById.  A hit changes nothing.                   *)

\* The GET misses, or fails and is taken for a miss.
ReadMiss(p) ==
    /\ "read" \in Calls /\ pc[p] \in Resting
    /\ copy = None \/ "redis" \in Faults
    /\ GoesOn(p, "readFind")
    /\ UNCHANGED <<stores, history>>

ReadFind(p) ==
    /\ pc[p] = "readFind"
    /\ Reads(p, [req[p] EXCEPT !.seen = fields])
    /\ Goto(p, "fill")
    /\ UNCHANGED <<stores, lapsed>>

\* SET ... EX 300; its failure is swallowed.
Fill(p) ==
    /\ pc[p] = "fill"
    /\ \/ copy' = req[p].seen /\ lapsed' = (overtaken[p] # {})
       \/ "redis" \in Faults /\ UNCHANGED <<copy, lapsed>>
    /\ Answered(p)
    /\ overtaken' = [overtaken EXCEPT ![p] = {}]
    /\ UNCHANGED <<document, bucket, accounts>>

CopyExpires ==
    /\ copy # None
    /\ copy' = None /\ lapsed' = FALSE
    /\ UNCHANGED <<document, bucket, accounts, pc, req, overtaken>>

\* invalidateProfileCache, the last await of every change.
Invalidate(p) ==
    /\ pc[p] = "del"
    /\ \/ copy' = None /\ lapsed' = FALSE
       \/ "redis" \in Faults /\ UNCHANGED copy /\ lapsed' = (copy # None)
    /\ Answered(p)
    /\ UNCHANGED <<document, bucket, accounts, overtaken>>

-----------------------------------------------------------------------------
(* updateMyProfile and adminUpdateUser, through updateWithConcurrency.     *)

\* Mutant: the previous values come from the Redis copy if there is one.
SeenCached(body) == [f \in DOMAIN body |-> IF copy = None THEN fields[f] ELSE copy[f]]

\* The values that the audit entry of a body will call the previous ones.
Seen(body) == [f \in DOMAIN body |-> fields[f]]

Finds(p, body) ==
    /\ pc[p] \in Resting
    /\ version < MaxVersion
    /\ Reads(p, [NoRequest EXCEPT !.body = body, !.seen = Seen(body)])
    /\ Goto(p, "attempt")
    /\ UNCHANGED <<stores, lapsed>>

\* A client cannot tell the key of a new photo before the upload has entered
\* it in the document.
Published(k) ==
    /\ k \in minted \union Foreign \union {None}
    /\ \A q \in Proc : pc[q] \in {"uploadFind", "uploadWrite"} => req[q].body.photo # k

\* updateMyProfile and adminUpdateUser: findById.
EditFind(p, body) ==
    /\ "update" \in Calls /\ DOMAIN body \subseteq SelfFields
    /\ "photo" \in DOMAIN body => Published(body["photo"])
    /\ Finds(p, body)

AdminFind(p, body) ==
    "admin" \in Calls /\ DOMAIN body \subseteq AdminFields /\ Finds(p, body)

\* Mutant: retries compare with the version of the first attempt.
AttemptOnce(p) ==
    /\ pc[p] = "attempt"
    /\ req' = [req EXCEPT ![p].at = IF req[p].tries = 0 THEN version ELSE req[p].first,
                          ![p].first = IF req[p].tries = 0 THEN version ELSE req[p].first]
    /\ Goto(p, "write")
    /\ UNCHANGED <<stores, history>>

\* Each attempt reads the version again, and only the version.
Attempt(p) ==
    /\ pc[p] = "attempt"
    /\ req' = [req EXCEPT ![p].at = version,
                          ![p].first = IF req[p].tries = 0 THEN version ELSE req[p].first]
    /\ Goto(p, "write")
    /\ UNCHANGED <<stores, history>>

EmailFree(p) == "email" \in DOMAIN req[p].body =>
                    \A a \in accounts : a.email # req[p].body["email"]

\* findOneAndUpdate({_id, __v}, {$set, $inc, $push}).
EditUpdate(p) ==
    /\ pc[p] = "write"
    /\ version = req[p].at /\ EmailFree(p)
    /\ Set(p, req[p].body, req[p].seen)
    /\ version' = version + 1
    /\ given' = IF "photo" \in DOMAIN req[p].body THEN req[p].body["photo"] # None ELSE given

EditWrite(p) ==
    /\ EditUpdate(p)
    /\ GoesOn(p, "del")
    /\ UNCHANGED <<copy, bucket, accounts, lapsed>>

\* Another update came first: try again, 409 after the third attempt.
EditMissed(p) ==
    /\ pc[p] = "write" /\ version # req[p].at
    /\ IF req[p].tries + 1 < MaxRetries
       THEN /\ req' = [req EXCEPT ![p].tries = @ + 1, ![p].at = 0]
            /\ Goto(p, "attempt") /\ UNCHANGED overtaken
       ELSE /\ req' = [req EXCEPT ![p] = [NoRequest EXCEPT !.first = req[p].first]]
            /\ Goto(p, "conflict") /\ overtaken' = [overtaken EXCEPT ![p] = {}]
    /\ UNCHANGED <<stores, lapsed>>

\* The unique index refuses the email: a 500 without effect.
EditDuplicate(p) ==
    /\ pc[p] = "write" /\ version = req[p].at /\ ~EmailFree(p)
    /\ Answered(p)
    /\ overtaken' = [overtaken EXCEPT ![p] = {}]
    /\ UNCHANGED <<stores, lapsed>>

-----------------------------------------------------------------------------
(* deactivateUser.                                                         *)

DeactivateFind(p) ==
    /\ "deactivate" \in Calls /\ pc[p] \in Resting
    /\ fields.active
    /\ Reads(p, [NoRequest EXCEPT !.body = [active |-> FALSE]])
    /\ Goto(p, "deactivate")
    /\ UNCHANGED <<stores, lapsed>>

DeactivateUpdate(p) ==
    /\ pc[p] = "deactivate"
    /\ Set(p, req[p].body, [active |-> TRUE])
    /\ UNCHANGED <<version, given>>

DeactivateWrite(p) ==
    /\ DeactivateUpdate(p)
    /\ GoesOn(p, "del")
    /\ UNCHANGED <<copy, bucket, accounts, lapsed>>

-----------------------------------------------------------------------------
(* uploadProfilePhoto.                                                     *)

\* (A PUT that fails stores the photo or not; no document names it, as after
\* a failure at the next step.)
UploadPut(p, k) ==
    /\ "upload" \in Calls /\ pc[p] \in Resting
    /\ k \notin minted
    /\ minted' = minted \union {k}
    /\ objects' = objects \union {k}
    /\ req' = [req EXCEPT ![p] = [NoRequest EXCEPT !.body = [photo |-> k]]]
    /\ Goto(p, "uploadFind")
    /\ UNCHANGED <<document, copy, doomed, accounts, history>>

\* Mutant: the old photo is deleted before the document is updated.
UploadFindDeletes(p) ==
    /\ pc[p] = "uploadFind"
    /\ Reads(p, [req[p] EXCEPT !.seen = Seen(req[p].body)])
    /\ doomed' = doomed \union ({fields.photo} \ {None})
    /\ Goto(p, "uploadWrite")
    /\ UNCHANGED <<document, copy, objects, minted, accounts, lapsed>>

UploadFind(p) ==
    /\ pc[p] = "uploadFind"
    /\ Reads(p, [req[p] EXCEPT !.seen = Seen(req[p].body)])
    /\ Goto(p, "uploadWrite")
    /\ UNCHANGED <<stores, lapsed>>

UploadUpdate(p) ==
    /\ pc[p] = "uploadWrite"
    /\ Set(p, req[p].body, req[p].seen)
    /\ given' = FALSE
    /\ UNCHANGED version

\* Mutant: the upload answers without its DEL.
UploadWriteNoDel(p) ==
    /\ UploadUpdate(p)
    /\ doomed' = doomed \union ({req[p].seen.photo} \ {None})
    /\ Answered(p)
    /\ UNCHANGED <<copy, objects, minted, accounts, lapsed>>

\* Mutant: the deletion is sent without a look at whether there was a photo.
UploadWriteUnguarded(p) ==
    /\ UploadUpdate(p)
    /\ doomed' = doomed \union {req[p].seen.photo}
    /\ GoesOn(p, "del")
    /\ UNCHANGED <<copy, objects, minted, accounts, lapsed>>

\* The update, and the deletion of the old photo that nobody waits for.
UploadWrite(p) ==
    /\ UploadUpdate(p)
    /\ doomed' = doomed \union ({req[p].seen.photo} \ {None})
    /\ GoesOn(p, "del")
    /\ UNCHANGED <<copy, objects, minted, accounts, lapsed>>

\* The deletion arrives, or fails and is only logged.
DeletePhoto(k) ==
    /\ k \in doomed
    /\ doomed' = doomed \ {k}
    /\ \/ objects' = objects \ {k}
       \/ "s3" \in Faults /\ UNCHANGED objects
    /\ UNCHANGED <<document, copy, minted, accounts, pc, req, history>>

-----------------------------------------------------------------------------
(* createUser, for other users.                                            *)

CreateFindEmail(p, a) ==
    /\ "create" \in Calls /\ pc[p] \in Resting
    /\ a.email # fields.email /\ \A b \in accounts : b.email # a.email
    /\ req' = [req EXCEPT ![p] = [NoRequest EXCEPT !.body = a]]
    /\ Goto(p, "createId")
    /\ UNCHANGED <<stores, history>>

\* The roll number of a student, the employee id of a teacher.
CreateFindId(p) ==
    /\ pc[p] = "createId"
    /\ IF \E b \in accounts : b.id = req[p].body.id
       THEN Answered(p)
       ELSE Goto(p, "createInsert") /\ UNCHANGED req
    /\ UNCHANGED <<stores, history>>

\* The unique indexes refuse what another creation took since the checks.
CreateInsert(p) ==
    /\ pc[p] = "createInsert"
    /\ LET a == req[p].body
           free == a.email # fields.email /\ \A b \in accounts : b.email # a.email /\ b.id # a.id
       IN accounts' = IF free THEN accounts \union {a} ELSE accounts
    /\ Answered(p)
    /\ UNCHANGED <<document, copy, bucket, history>>

-----------------------------------------------------------------------------
(* Failures.                                                               *)

\* A MongoDB command fails without effect; the request answers 500.  (That of
\* a creation answers alike whether its insertion was applied or refused.)
DbError(p) ==
    /\ "db" \in Faults
    /\ pc[p] \notin Resting \union {"fill", "del"}
    /\ Answered(p)
    /\ overtaken' = [overtaken EXCEPT ![p] = {}]
    /\ UNCHANGED <<stores, lapsed>>

\* An update is applied and its reply is lost: the request answers 500 and does
\* neither the DEL nor the deletion that were to follow.
ReplyLost(p) ==
    /\ "db" \in Faults
    /\ EditUpdate(p) \/ DeactivateUpdate(p) \/ UploadUpdate(p)
    /\ Answered(p)
    /\ lapsed' = (lapsed \/ copy # None)
    /\ UNCHANGED <<copy, bucket, accounts>>

\* The process dies; requests and unawaited deletions die with it.
Crash ==
    /\ "crash" \in Faults
    /\ \E p \in Proc : pc[p] \notin Resting
    /\ pc' = [p \in Proc |-> "idle"]
    /\ req' = [p \in Proc |-> NoRequest]
    /\ overtaken' = [p \in Proc |-> {}]
    /\ doomed' = {}
    /\ lapsed' = (lapsed \/ (copy # None /\ \E p \in Proc : pc[p] = "del"))
    /\ UNCHANGED <<document, copy, objects, minted, accounts>>

Next ==
    \/ \E p \in Proc :
          \/ ReadMiss(p) \/ ReadFind(p) \/ Fill(p) \/ Invalidate(p)
          \/ \E body \in Edits : EditFind(p, body) \/ AdminFind(p, body)
          \/ Attempt(p) \/ EditWrite(p) \/ EditMissed(p) \/ EditDuplicate(p)
          \/ DeactivateFind(p) \/ DeactivateWrite(p)
          \/ \E k \in Photo : UploadPut(p, k)
          \/ UploadFind(p) \/ UploadWrite(p)
          \/ \E a \in Account : CreateFindEmail(p, a)
          \/ CreateFindId(p) \/ CreateInsert(p)
          \/ DbError(p) \/ ReplyLost(p)
    \/ \E k \in Key : DeletePhoto(k)
    \/ CopyExpires
    \/ Crash

Spec == Init /\ [][Next]_vars

-----------------------------------------------------------------------------
(* Properties.                                                             *)

\* The stores and the locals hold what the code can put there.
TypeOK ==
    /\ fields \in Profile /\ version \in Nat
    /\ copy \in Profile \union {None}
    /\ DOMAIN entry \subseteq Field
    /\ given \in BOOLEAN
    /\ objects \union doomed \subseteq minted \union Foreign /\ minted \subseteq Photo
    /\ accounts \subseteq Account
    /\ pc \in [Proc -> Resting \union Holding \union
                 {"readFind", "del", "uploadFind", "createId", "createInsert"}]
    /\ req \in [Proc -> Request]
    /\ overtaken \in [Proc -> SUBSET Field] /\ lapsed \in BOOLEAN

\* A 409 is earned: between the first attempt and the answer at least three
\* other updates of the document went through, one for each failed attempt of
\* updateWithConcurrency.
ConflictIsEarned ==
    \A p \in Proc : pc[p] = "conflict" => version >= req[p].first + MaxRetries

\* A request pushes its entry, whether or not it learns of it.
Pushes(p) ==
    /\ pc[p] \in {"write", "deactivate", "uploadWrite"} /\ pc'[p] # pc[p]
    /\ pc'[p] = "del" \/ document' # document

\* The previous values in an audit entry are the values the command replaces,
\* except those of the fields that others wrote since the request read the
\* document: the version check of the retries does not protect them.
AuditTellsPrevious ==
    [][\A p \in Proc : Pushes(p) =>
          \A f \in DOMAIN entry' \ overtaken[p] : entry'[f] = fields[f]]_vars

\* The photo that an upload entered in the document is in the bucket, whatever
\* uploads race, fail or delete old photos late, and whatever keys profile
\* updates wrote before or request meanwhile.  Of a key that came with a profile
\* update this cannot be said: nothing tests that it names a photo.
PhotoExists == ~given => fields.photo \in objects \union {None}

\* A cached profile is out of date only while the request that changed the
\* document has not come to its DEL, or after a fill that was overtaken by a
\* change, or after a DEL that was lost or, the reply of the update being lost,
\* never sent (then for at most the 300 s of its life).
StaleCopyHasCause ==
    copy \notin {None, fields} => lapsed \/ \E p \in Proc : pc[p] = "del"
=============================================================================
