------------------------------ MODULE UsersProofs ------------------------------
(***************************************************************************)
(* Theorems about Users, for any bodies, requests, photos, accounts and    *)
(* failures.                                                               *)
(*                                                                         *)
(* The inductive invariant says what a request knows at each of its steps  *)
(* (HeldBy), how many updates it has seen go by (TriesBy), where the       *)
(* photos are and that nobody names one before it is published             *)
(* (PhotosKept).  What a request knows is said of the step, the locals and *)
(* the document alone, so that a step of one request leaves it alone for   *)
(* all others.                                                             *)
(***************************************************************************)
EXTENDS Users, TLAPS

USE EditsAssumption

Step == Resting \union Holding \union {"readFind", "del", "uploadFind", "createId", "createInsert"}
Uploading == {"uploadFind", "uploadWrite"}

\* What a request with locals r at a step knows of the document doc, if others
\* have since written the fields o.
HeldBy(step, r, o, doc) ==
  /\ step \in {"attempt", "write"} =>
        /\ r.body \in Edits /\ DOMAIN r.seen = DOMAIN r.body
        /\ \A f \in DOMAIN r.body \ o : r.seen[f] = doc[f]
  /\ step \in {"readFind", "fill"} => r.body = None
  /\ step = "fill" =>
        /\ r.seen \in Profile
        /\ \A f \in Field \ o : r.seen[f] = doc[f]
  /\ step = "deactivate" =>
        /\ r.body = [active |-> FALSE]
        /\ "active" \notin o => doc["active"] = TRUE
  /\ step \in Uploading => r.body \in [photo : Photo]
  /\ step = "uploadWrite" =>
        /\ r.seen \in Previous /\ DOMAIN r.seen = {"photo"}
        /\ "photo" \notin o => r.seen["photo"] = doc["photo"]
  /\ step \in {"createId", "createInsert"} => r.body \in Account

Held == \A p \in Proc : HeldBy(pc[p], req[p], overtaken[p], fields)

\* Each failed attempt of a request was overtaken by an update of its own.
TriesBy(step, r, v) ==
  /\ step = "attempt" => /\ r.tries < MaxRetries
                         /\ r.tries = 0 \/ v >= r.first + r.tries
  /\ step = "write" => /\ r.tries < MaxRetries
                       /\ r.at >= r.first + r.tries
                       /\ v >= r.at
  /\ step = "conflict" => v >= r.first + MaxRetries

Tried == \A p \in Proc : TriesBy(pc[p], req[p], version)

\* The photos that a request may enter in the document or delete, besides the
\* one that it uploads.
Named(step, r) ==
  {k \in {r.body["photo"]} : step \in {"attempt", "write"} /\ "photo" \in DOMAIN r.body}
    \union {k \in {r.seen["photo"]} : step = "uploadWrite"}

\* Every photo that is named is published; one that an upload is about to enter
\* or has entered is in the bucket and not to be deleted.
PhotosKept ==
  /\ Published(fields.photo)
  /\ ~given => fields.photo \in (objects \ doomed) \union {None}
  /\ \A p \in Proc : \A k \in Named(pc[p], req[p]) : Published(k)
  /\ \A p \in Proc : pc[p] \in Uploading =>
        /\ req[p].body.photo \in objects \ doomed
        /\ \A q \in Proc : pc[q] \in Uploading /\ q # p => req[q].body.photo # req[p].body.photo

IInv == TypeOK /\ Held /\ Tried /\ PhotosKept /\ StaleCopyHasCause

-----------------------------------------------------------------------------
(* Documents and locals.                                                   *)

\* The document after $set body.
Updated(q, body) == [f \in Field |-> IF f \in DOMAIN body THEN body[f] ELSE q[f]]

\* A profile has the four fields, and no other value has the same four.
LEMMA ProfileFields ==
  /\ \A q \in Profile : /\ DOMAIN q = Field
                        /\ q["photo"] = q.photo /\ q.photo \in Key \union {None}
  /\ \A q, r \in Profile : (\A f \in Field : q[f] = r[f]) => q = r
  BY DEF Profile, Field

\* Every body that is written leaves a profile.
LEMMA EditUpdates ==
  ASSUME NEW q \in Profile, NEW body \in Edits
  PROVE  /\ Updated(q, body) \in Profile
         /\ Updated(q, body).photo = IF "photo" \in DOMAIN body THEN body["photo"] ELSE q.photo
         /\ DOMAIN body \subseteq Field
  BY DEF Profile, Field, Updated, Key, SelfFields, AdminFields

\* So does the body of a deactivation, and it leaves the photo alone.
LEMMA DeactivationUpdates ==
  ASSUME NEW q \in Profile
  PROVE  /\ Updated(q, [active |-> FALSE]) \in Profile
         /\ Updated(q, [active |-> FALSE]).photo = q.photo
         /\ DOMAIN [active |-> FALSE] = {"active"}
  BY DEF Profile, Field, Updated

\* So does a new photo.
LEMMA UploadUpdates ==
  ASSUME NEW q \in Profile, NEW body \in [photo : Photo]
  PROVE  /\ Updated(q, body) \in Profile
         /\ Updated(q, body).photo = body.photo
         /\ DOMAIN body = {"photo"}
  BY DEF Profile, Field, Updated, Key

\* What a request takes of the document for its audit entry.
LEMMA SeenType ==
  ASSUME fields \in Profile, NEW body, DOMAIN body \subseteq Field
  PROVE  /\ Seen(body) \in Previous
         /\ DOMAIN Seen(body) = DOMAIN body
         /\ \A f \in DOMAIN body : Seen(body)[f] = fields[f]
  BY DEF Previous, Seen

\* A request stays a request when its locals change.
LEMMA RequestType ==
  /\ NoRequest \in Request
  /\ \A b \in Bodies : [NoRequest EXCEPT !.body = b] \in Request
  /\ \A b \in Bodies, s \in Previous : [NoRequest EXCEPT !.body = b, !.seen = s] \in Request
<1>1. 0 \in Nat /\ 0 \in 0..MaxRetries
  BY DEF MaxRetries
<1>2. ASSUME NEW b \in Bodies \union {None}, NEW s \in Profile \union {None} \union Previous
      PROVE  [body |-> b, seen |-> s, tries |-> 0, at |-> 0, first |-> 0] \in Request
  BY <1>1 DEF Request
<1>3. NoRequest \in Request
  BY <1>2 DEF NoRequest
<1>4. ASSUME NEW b \in Bodies PROVE [NoRequest EXCEPT !.body = b] \in Request
  <2>1. [NoRequest EXCEPT !.body = b] = [body |-> b, seen |-> None, tries |-> 0, at |-> 0, first |-> 0]
    BY DEF NoRequest
  <2> QED
    BY <1>2, <2>1
<1>5. ASSUME NEW b \in Bodies, NEW s \in Previous
      PROVE  [NoRequest EXCEPT !.body = b, !.seen = s] \in Request
  <2> HIDE DEF NoRequest
  <2>1. ASSUME NEW r \in Request PROVE [r EXCEPT !.body = b, !.seen = s] \in Request
    BY DEF Request
  <2> QED
    BY <1>3, <2>1
<1> QED
  BY <1>3, <1>4, <1>5

\* The same for the changes between its steps.
LEMMA RequestChanges ==
  ASSUME NEW r \in Request
  PROVE  /\ \A s \in Profile \union {None} \union Previous :
               /\ [r EXCEPT !.seen = s] \in Request
               /\ [r EXCEPT !.seen = s].seen = s /\ [r EXCEPT !.seen = s].body = r.body
         /\ \A a, f \in Nat : [r EXCEPT !.at = a, !.first = f] \in Request
         /\ r.tries + 1 \in 0..MaxRetries => [r EXCEPT !.tries = @ + 1, !.at = 0] \in Request
         /\ [NoRequest EXCEPT !.first = r.first] \in Request
         /\ [NoRequest EXCEPT !.first = r.first].first = r.first
<1>1. \A s \in Profile \union {None} \union Previous :
         /\ [r EXCEPT !.seen = s] \in Request
         /\ [r EXCEPT !.seen = s].seen = s /\ [r EXCEPT !.seen = s].body = r.body
  BY DEF Request
<1>2. 0 \in Nat /\ r.first \in Nat
  BY DEF Request
<1>3. \A a, f \in Nat : [r EXCEPT !.at = a, !.first = f] \in Request
  BY DEF Request
<1>4. r.tries + 1 \in 0..MaxRetries => [r EXCEPT !.tries = @ + 1, !.at = 0] \in Request
  BY <1>2 DEF Request
<1>5. ASSUME NEW q \in Request, NEW n \in Nat
      PROVE  [q EXCEPT !.first = n] \in Request /\ [q EXCEPT !.first = n].first = n
  BY DEF Request
<1> QED
  BY <1>1, <1>2, <1>3, <1>4, <1>5, RequestType

\* What a request carries and counts.
LEMMA RequestParts ==
  ASSUME NEW r \in Request
  PROVE  r.tries \in Nat /\ r.at \in Nat /\ r.first \in Nat
  BY DEF Request, MaxRetries

\* One cell of an array over the requests changes.
LEMMA OneCell ==
  ASSUME NEW S, NEW f \in [Proc -> S], NEW p \in Proc, NEW v \in S
  PROVE  /\ [f EXCEPT ![p] = v] \in [Proc -> S]
         /\ [f EXCEPT ![p] = v][p] = v
         /\ \A q \in Proc : q # p => [f EXCEPT ![p] = v][q] = f[q]
         /\ [f EXCEPT ![p] = f[p]] = f
  OBVIOUS

\* The invariant holds at the start.
LEMMA InitOK == Init => IInv
<1> SUFFICES ASSUME Init PROVE IInv
  OBVIOUS
<1>1. TypeOK
  BY RequestType DEF Init, TypeOK, Resting
<1>2. Held /\ Tried
  BY DEF Init, Held, HeldBy, Tried, TriesBy, Uploading
<1>3. PhotosKept
  BY DEF Init, PhotosKept, Published, Named, Uploading
<1>4. StaleCopyHasCause
  BY DEF Init, StaleCopyHasCause
<1> QED
  BY <1>1, <1>2, <1>3, <1>4 DEF IInv

-----------------------------------------------------------------------------
(* A request moves and leaves the document and the bucket alone.           *)

\* A request that knows enough at its next step, and enters no photo, keeps the
\* invariant.
LEMMA MoveKeeps ==
  ASSUME IInv, NEW p \in Proc, NEW step \in Step, NEW r \in Request, NEW o \in SUBSET Field,
         pc' = [pc EXCEPT ![p] = step], req' = [req EXCEPT ![p] = r],
         overtaken' = [overtaken EXCEPT ![p] = o],
         UNCHANGED <<document, bucket>>, accounts' \subseteq Account,
         copy' \in Profile \union {None}, lapsed' \in BOOLEAN,
         HeldBy(step, r, o, fields), TriesBy(step, r, version),
         step \in Uploading => pc[p] \in Uploading /\ r.body = req[p].body,
         \A k \in Named(step, r) : Published(k),
         StaleCopyHasCause'
  PROVE  IInv'
<1>1. pc \in [Proc -> Step] /\ req \in [Proc -> Request] /\ overtaken \in [Proc -> SUBSET Field]
  BY DEF IInv, TypeOK, Step
<1>2. /\ pc' \in [Proc -> Step] /\ pc'[p] = step
      /\ \A q \in Proc : q # p => pc'[q] = pc[q]
  BY <1>1, OneCell
<1>3. /\ req' \in [Proc -> Request] /\ req'[p] = r
      /\ \A q \in Proc : q # p => req'[q] = req[q]
  BY <1>1, OneCell
<1>4. /\ overtaken' \in [Proc -> SUBSET Field] /\ overtaken'[p] = o
      /\ \A q \in Proc : q # p => overtaken'[q] = overtaken[q]
  BY <1>1, OneCell
<1>5. fields' = fields /\ version' = version /\ entry' = entry /\ given' = given
  BY DEF document
<1>6. objects' = objects /\ minted' = minted /\ doomed' = doomed
  BY DEF bucket
<1>7. TypeOK'
  BY <1>2, <1>3, <1>4, <1>5, <1>6 DEF IInv, TypeOK, Step
<1>8. Held'
  <2> SUFFICES ASSUME NEW q \in Proc
               PROVE  HeldBy(pc'[q], req'[q], overtaken'[q], fields')
    BY DEF Held
  <2>1. CASE q = p
    BY <2>1, <1>2, <1>3, <1>4, <1>5
  <2>2. CASE q # p
    BY <2>2, <1>2, <1>3, <1>4, <1>5 DEF IInv, Held
  <2> QED
    BY <2>1, <2>2
<1>9. Tried'
  <2> SUFFICES ASSUME NEW q \in Proc PROVE TriesBy(pc'[q], req'[q], version')
    BY DEF Tried
  <2>1. CASE q = p
    BY <2>1, <1>2, <1>3, <1>5
  <2>2. CASE q # p
    BY <2>2, <1>2, <1>3, <1>5 DEF IInv, Tried
  <2> QED
    BY <2>1, <2>2
<1>10. PhotosKept'
  <2>1. \A q \in Proc : pc'[q] \in Uploading => pc[q] \in Uploading /\ req'[q].body = req[q].body
    BY <1>2, <1>3
  <2>2. ASSUME NEW k, Published(k) PROVE Published(k)'
    BY <2>1, <2>2, <1>6 DEF Published, Uploading
  <2>3. Published(fields.photo)'
    BY <2>2, <1>5 DEF IInv, PhotosKept
  <2>4. ASSUME NEW q \in Proc, NEW k \in Named(pc'[q], req'[q]) PROVE Published(k)'
    <3>1. Published(k)
      BY <2>4, <1>2, <1>3 DEF IInv, PhotosKept
    <3> QED
      BY <2>2, <3>1
  <2> QED
    BY <2>1, <2>3, <2>4, <1>5, <1>6 DEF IInv, PhotosKept, Named
<1> QED
  BY <1>7, <1>8, <1>9, <1>10 DEF IInv

\* As long as the copy, the document and the request's DEL are not concerned,
\* a stale copy keeps its cause.
LEMMA CauseKeeps ==
  ASSUME IInv, NEW p \in Proc, NEW step,
         pc' = [pc EXCEPT ![p] = step], pc[p] # "del",
         fields' = fields, copy' = copy, lapsed' = lapsed
  PROVE  StaleCopyHasCause'
<1>1. \A q \in Proc : pc[q] = "del" => pc'[q] = "del"
  BY DEF IInv, TypeOK
<1> QED
  BY <1>1 DEF IInv, StaleCopyHasCause

\* The same for a request that leaves all stores alone.
LEMMA QuietMoveKeeps ==
  ASSUME IInv, NEW p \in Proc, NEW step \in Step, NEW r \in Request, NEW o \in SUBSET Field,
         pc' = [pc EXCEPT ![p] = step], req' = [req EXCEPT ![p] = r],
         overtaken' = [overtaken EXCEPT ![p] = o],
         UNCHANGED <<stores, lapsed>>, pc[p] # "del",
         HeldBy(step, r, o, fields), TriesBy(step, r, version),
         step \in Uploading => pc[p] \in Uploading /\ r.body = req[p].body,
         \A k \in Named(step, r) : Published(k)
  PROVE  IInv'
<1>1. UNCHANGED <<document, bucket>> /\ fields' = fields /\ copy' = copy /\ accounts' = accounts /\ lapsed' = lapsed
  BY DEF stores, document, bucket
<1>2. StaleCopyHasCause'
  BY <1>1, CauseKeeps
<1>3. accounts' \subseteq Account /\ copy' \in Profile \union {None} /\ lapsed' \in BOOLEAN
  BY <1>1 DEF IInv, TypeOK
<1> QED
  BY <1>1, <1>2, <1>3, MoveKeeps

-----------------------------------------------------------------------------
(* The steps that move one request.                                        *)

\* Cells that an action does not name keep their value.
LEMMA Same ==
  ASSUME IInv, NEW p \in Proc
  PROVE  /\ pc = [pc EXCEPT ![p] = pc[p]]
         /\ req = [req EXCEPT ![p] = req[p]]
         /\ overtaken = [overtaken EXCEPT ![p] = overtaken[p]]
  BY OneCell DEF IInv, TypeOK

\* The invariant, for one request.
LEMMA Knows ==
  ASSUME IInv, NEW p \in Proc
  PROVE  /\ pc[p] \in Step /\ req[p] \in Request /\ overtaken[p] \in SUBSET Field
         /\ fields \in Profile /\ version \in Nat /\ copy \in Profile \union {None}
         /\ accounts \subseteq Account /\ lapsed \in BOOLEAN
         /\ HeldBy(pc[p], req[p], overtaken[p], fields) /\ TriesBy(pc[p], req[p], version)
  BY DEF IInv, TypeOK, Held, Tried, Step

\* A request whose answer is out knows nothing.
LEMMA IdleKnowsNothing ==
  ASSUME NEW step \in {"idle", "del"}
  PROVE  /\ step \in Step /\ step \notin Uploading
         /\ \A r : Named(step, r) = {}
         /\ \A r, o, doc : HeldBy(step, r, o, doc)
         /\ \A r, v : TriesBy(step, r, v)
  BY DEF HeldBy, TriesBy, Uploading, Step, Resting, Named

\* A request that neither updates nor uploads names no photo.
LEMMA NamesNothing ==
  ASSUME NEW step, step \notin {"attempt", "write", "uploadWrite"}
  PROVE  \A r : Named(step, r) = {}
  BY DEF Named

\* What the document and the requests name is published.
LEMMA NamesPublished ==
  ASSUME IInv
  PROVE  /\ Published(fields.photo)
         /\ \A p \in Proc : \A k \in Named(pc[p], req[p]) : Published(k)
  BY DEF IInv, PhotosKept

\* Between attempts a request knows what it knew.
LEMMA AttemptsKnow ==
  ASSUME NEW a \in {"attempt", "write"}, NEW b \in {"attempt", "write"},
         NEW r, NEW q, NEW o, NEW doc, q.body = r.body, q.seen = r.seen, HeldBy(a, r, o, doc)
  PROVE  HeldBy(b, q, o, doc) /\ Named(b, q) = Named(a, r)
  BY DEF HeldBy, Uploading, Named

\* Reads for a miss: the GET found nothing.
LEMMA ReadMissKeeps == ASSUME IInv, NEW p \in Proc, ReadMiss(p) PROVE IInv'
<1>1. /\ pc' = [pc EXCEPT ![p] = "readFind"] /\ req' = [req EXCEPT ![p] = NoRequest]
      /\ UNCHANGED <<stores, history>> /\ pc[p] # "del"
  BY DEF ReadMiss, GoesOn, Goto, Resting
<1>2. overtaken' = [overtaken EXCEPT ![p] = overtaken[p]] /\ overtaken[p] \in SUBSET Field /\ UNCHANGED <<stores, lapsed>>
  BY <1>1, Same, Knows DEF history
<1>3. HeldBy("readFind", NoRequest, overtaken[p], fields) /\ TriesBy("readFind", NoRequest, version)
  BY DEF HeldBy, TriesBy, Uploading, NoRequest
<1>4. "readFind" \in Step /\ "readFind" \notin Uploading
  BY DEF Step, Uploading
<1> QED
  BY <1>1, <1>2, <1>3, <1>4, RequestType, NamesNothing, QuietMoveKeeps

\* The request holds the document as it is.
LEMMA ReadFindKeeps == ASSUME IInv, NEW p \in Proc, ReadFind(p) PROVE IInv'
<1> DEFINE r == [req[p] EXCEPT !.seen = fields]
<1>1. /\ pc' = [pc EXCEPT ![p] = "fill"] /\ req' = [req EXCEPT ![p] = r]
      /\ overtaken' = [overtaken EXCEPT ![p] = {}]
      /\ UNCHANGED <<stores, lapsed>> /\ pc[p] = "readFind"
  BY DEF ReadFind, Reads, Goto
<1>2. r \in Request /\ r.seen = fields /\ fields \in Profile /\ r.body = None
  <2>1. req[p].body = None
    BY <1>1, Knows DEF HeldBy
  <2> QED
    BY <2>1, Knows, RequestChanges
<1>3. HeldBy("fill", r, {}, fields) /\ TriesBy("fill", r, version) /\ "fill" \notin Uploading
  BY <1>2 DEF HeldBy, TriesBy, Uploading
<1>4. {} \in SUBSET Field /\ "fill" \in Step
  BY DEF Step, Holding
<1> HIDE DEF r
<1> QED
  BY <1>1, <1>2, <1>3, <1>4, NamesNothing, QuietMoveKeeps

\* What is filled is the document unless the request was overtaken.
LEMMA FillKeeps == ASSUME IInv, NEW p \in Proc, Fill(p) PROVE IInv'
<1>1. /\ pc' = [pc EXCEPT ![p] = "idle"] /\ req' = [req EXCEPT ![p] = NoRequest]
      /\ overtaken' = [overtaken EXCEPT ![p] = {}]
      /\ UNCHANGED <<document, bucket, accounts>> /\ pc[p] = "fill"
  BY DEF Fill, Answered, GoesOn, Goto
<1>2. req[p].seen \in Profile /\ \A f \in Field \ overtaken[p] : req[p].seen[f] = fields[f]
  BY <1>1, Knows DEF HeldBy
<1>3. overtaken[p] = {} => req[p].seen = fields
  BY <1>2, Knows, ProfileFields
<1>4. {} \in SUBSET Field /\ accounts' \subseteq Account
  BY <1>1, Knows
<1>5. StaleCopyHasCause' /\ copy' \in Profile \union {None} /\ lapsed' \in BOOLEAN
  <2>1. CASE copy' = req[p].seen /\ lapsed' = (overtaken[p] # {})
    BY <1>1, <1>2, <1>3, <2>1 DEF StaleCopyHasCause, document
  <2>2. CASE UNCHANGED <<copy, lapsed>>
    BY <1>1, <2>2, CauseKeeps, Knows DEF document
  <2> QED
    BY <2>1, <2>2 DEF Fill
<1> QED
  BY <1>1, <1>4, <1>5, RequestType, IdleKnowsNothing, MoveKeeps

\* A DEL removes the copy, or is lost and lapses.
LEMMA InvalidateKeeps == ASSUME IInv, NEW p \in Proc, Invalidate(p) PROVE IInv'
<1>1. /\ pc' = [pc EXCEPT ![p] = "idle"] /\ req' = [req EXCEPT ![p] = NoRequest]
      /\ UNCHANGED <<document, bucket, accounts, overtaken>>
  BY DEF Invalidate, Answered, GoesOn, Goto
<1>2. copy' \in {None, copy} /\ lapsed' \in BOOLEAN /\ (copy' # None => lapsed')
  BY DEF Invalidate
<1>3. StaleCopyHasCause'
  BY <1>2 DEF StaleCopyHasCause
<1>4. copy' \in Profile \union {None} /\ accounts' \subseteq Account
  BY <1>1, <1>2, Knows
<1>5. overtaken' = [overtaken EXCEPT ![p] = overtaken[p]] /\ overtaken[p] \in SUBSET Field
  BY <1>1, Same, Knows
<1>6. UNCHANGED <<document, bucket>>
  BY <1>1
<1> QED
  BY <1>1, <1>2, <1>3, <1>4, <1>5, <1>6, RequestType, IdleKnowsNothing, MoveKeeps

\* An edit takes the previous values of the document as it is.
LEMMA FindsKeeps ==
  ASSUME IInv, NEW p \in Proc, NEW body \in Edits, Finds(p, body),
         "photo" \in DOMAIN body => Published(body["photo"])
  PROVE  IInv'
<1> DEFINE r == [NoRequest EXCEPT !.body = body, !.seen = Seen(body)]
<1>1. /\ pc' = [pc EXCEPT ![p] = "attempt"] /\ req' = [req EXCEPT ![p] = r]
      /\ overtaken' = [overtaken EXCEPT ![p] = {}]
      /\ UNCHANGED <<stores, lapsed>> /\ pc[p] # "del"
  BY DEF Finds, Reads, Goto, Resting
<1>2. DOMAIN body \subseteq Field /\ body \in Bodies /\ fields \in Profile
  BY Knows, EditUpdates DEF Bodies
<1>3. /\ Seen(body) \in Previous /\ DOMAIN Seen(body) = DOMAIN body
      /\ \A f \in DOMAIN body : Seen(body)[f] = fields[f]
  BY <1>2, SeenType
<1>4. r \in Request
  BY <1>2, <1>3, RequestType
<1>5. r.body = body /\ r.seen = Seen(body) /\ r.tries = 0
  BY DEF NoRequest
<1> HIDE DEF r
<1>6. HeldBy("attempt", r, {}, fields)
  BY <1>2, <1>3, <1>5 DEF HeldBy, Uploading
<1>7. TriesBy("attempt", r, version) /\ "attempt" \notin Uploading /\ "attempt" \in Step /\ {} \in SUBSET Field
  BY <1>5 DEF TriesBy, Uploading, MaxRetries, Step, Holding
<1>8. \A k \in Named("attempt", r) : Published(k)
  BY <1>5 DEF Named
<1> QED
  BY <1>1, <1>4, <1>6, <1>7, <1>8, QuietMoveKeeps

\* An attempt compares with the version it reads.
LEMMA AttemptKeeps == ASSUME IInv, NEW p \in Proc, Attempt(p) PROVE IInv'
<1> DEFINE first == IF req[p].tries = 0 THEN version ELSE req[p].first
           r == [req[p] EXCEPT !.at = version, !.first = first]
<1>1. /\ pc' = [pc EXCEPT ![p] = "write"]
      /\ UNCHANGED <<stores, history>> /\ pc[p] = "attempt"
  BY DEF Attempt, Goto
<1>2. req' = [req EXCEPT ![p] = r]
  BY DEF Attempt
<1>3. version \in Nat /\ req[p].first \in Nat /\ req[p].tries \in Nat /\ req[p] \in Request
  BY Knows, RequestParts
<1>4. first \in Nat /\ r \in Request
  BY <1>3, RequestChanges
<1>5. /\ r.at = version /\ r.first = first /\ r.tries = req[p].tries
      /\ r.body = req[p].body /\ r.seen = req[p].seen
  BY <1>3 DEF Request
<1>6. HeldBy("write", r, overtaken[p], fields) /\ \A k \in Named("write", r) : Published(k)
  <2> HIDE DEF r
  <2>1. HeldBy("attempt", req[p], overtaken[p], fields)
    BY <1>1, Knows
  <2>2. \A k \in Named("attempt", req[p]) : Published(k)
    BY <1>1, NamesPublished
  <2> QED
    BY <1>5, <2>1, <2>2, AttemptsKnow
<1>7. TriesBy("write", r, version)
  <2>1. req[p].tries < MaxRetries /\ (req[p].tries = 0 \/ version >= req[p].first + req[p].tries)
    BY <1>1, Knows DEF TriesBy
  <2>2. version >= first + req[p].tries
    BY <1>3, <2>1
  <2> HIDE DEF first, r
  <2> QED
    BY <1>3, <1>4, <1>5, <2>1, <2>2 DEF TriesBy
<1>8. overtaken' = [overtaken EXCEPT ![p] = overtaken[p]] /\ overtaken[p] \in SUBSET Field /\ UNCHANGED <<stores, lapsed>>
  BY <1>1, Same, Knows DEF history
<1>9. "write" \in Step /\ "write" \notin Uploading /\ pc[p] # "del"
  BY <1>1 DEF Step, Holding, Uploading
<1> HIDE DEF r
<1> QED
  BY <1>1, <1>2, <1>4, <1>6, <1>7, <1>8, <1>9, QuietMoveKeeps

\* A failed attempt was overtaken by one more update than those before.
LEMMA EditMissedKeeps == ASSUME IInv, NEW p \in Proc, EditMissed(p) PROVE IInv'
<1>1. UNCHANGED <<stores, lapsed>> /\ pc[p] = "write" /\ version # req[p].at
  BY DEF EditMissed
<1>2. /\ req[p].tries \in Nat /\ req[p].at \in Nat /\ req[p].first \in Nat /\ version \in Nat
      /\ req[p] \in Request
  BY Knows, RequestParts
<1>3. req[p].tries < MaxRetries /\ req[p].at >= req[p].first + req[p].tries /\ version >= req[p].at
  BY <1>1, Knows DEF TriesBy
<1>4. version >= req[p].first + (req[p].tries + 1) /\ req[p].tries + 1 \in 0..MaxRetries
  BY <1>1, <1>2, <1>3 DEF MaxRetries
<1>5. CASE req[p].tries + 1 < MaxRetries
  <2> DEFINE r == [req[p] EXCEPT !.tries = @ + 1, !.at = 0]
  <2>1. /\ pc' = [pc EXCEPT ![p] = "attempt"] /\ req' = [req EXCEPT ![p] = r]
        /\ overtaken' = overtaken
    BY <1>5 DEF EditMissed, Goto
  <2>2. r \in Request
    BY <1>2, <1>4, RequestChanges
  <2>3. r.tries = req[p].tries + 1 /\ r.first = req[p].first /\ r.body = req[p].body /\ r.seen = req[p].seen
    BY <1>2 DEF Request
  <2> HIDE DEF r
  <2>4. HeldBy("attempt", r, overtaken[p], fields) /\ \A k \in Named("attempt", r) : Published(k)
    <3>1. HeldBy("write", req[p], overtaken[p], fields) /\ \A k \in Named("write", req[p]) : Published(k)
      BY <1>1, Knows, NamesPublished
    <3> QED
      BY <2>3, <3>1, AttemptsKnow
  <2>5. TriesBy("attempt", r, version)
    BY <1>4, <1>5, <2>3 DEF TriesBy
  <2>6. overtaken' = [overtaken EXCEPT ![p] = overtaken[p]] /\ overtaken[p] \in SUBSET Field
    BY <2>1, Same, Knows
  <2>7. "attempt" \in Step /\ "attempt" \notin Uploading
    BY DEF Step, Holding, Uploading
  <2> QED
    BY <1>1, <2>1, <2>2, <2>4, <2>5, <2>6, <2>7, QuietMoveKeeps
<1>6. CASE ~(req[p].tries + 1 < MaxRetries)
  <2> DEFINE r == [NoRequest EXCEPT !.first = req[p].first]
  <2>1. /\ pc' = [pc EXCEPT ![p] = "conflict"] /\ req' = [req EXCEPT ![p] = r]
        /\ overtaken' = [overtaken EXCEPT ![p] = {}]
    BY <1>6 DEF EditMissed, Goto
  <2>2. r \in Request /\ r.first = req[p].first
    BY <1>2, RequestChanges
  <2>3. req[p].tries + 1 = MaxRetries
    BY <1>2, <1>3, <1>6 DEF MaxRetries
  <2> HIDE DEF r
  <2>4. HeldBy("conflict", r, {}, fields) /\ TriesBy("conflict", r, version)
    BY <1>4, <2>2, <2>3 DEF HeldBy, TriesBy, Uploading
  <2>5. "conflict" \in Step /\ "conflict" \notin Uploading /\ {} \in SUBSET Field
    BY DEF Step, Resting, Uploading
  <2> QED
    BY <1>1, <2>1, <2>2, <2>4, <2>5, NamesNothing, QuietMoveKeeps
<1> QED
  BY <1>5, <1>6

\* A refused email and a failure of the database end a request.
LEMMA EndsKeeps == ASSUME IInv, NEW p \in Proc, EditDuplicate(p) \/ DbError(p) PROVE IInv'
<1>1. /\ pc' = [pc EXCEPT ![p] = "idle"] /\ req' = [req EXCEPT ![p] = NoRequest]
      /\ overtaken' = [overtaken EXCEPT ![p] = {}]
      /\ UNCHANGED <<stores, lapsed>> /\ pc[p] # "del" /\ {} \in SUBSET Field
  BY DEF EditDuplicate, DbError, Answered, GoesOn, Goto
<1> QED
  BY <1>1, RequestType, IdleKnowsNothing, QuietMoveKeeps

\* A deactivation knows that the user is active.
LEMMA DeactivateFindKeeps == ASSUME IInv, NEW p \in Proc, DeactivateFind(p) PROVE IInv'
<1> DEFINE r == [NoRequest EXCEPT !.body = [active |-> FALSE]]
<1>1. /\ pc' = [pc EXCEPT ![p] = "deactivate"] /\ req' = [req EXCEPT ![p] = r]
      /\ overtaken' = [overtaken EXCEPT ![p] = {}]
      /\ UNCHANGED <<stores, lapsed>> /\ pc[p] # "del" /\ fields.active
  BY DEF DeactivateFind, Reads, Goto, Resting
<1>2. r \in Request
  BY RequestType DEF Bodies
<1>3. r.body = [active |-> FALSE] /\ fields["active"] = TRUE
  BY <1>1, Knows DEF NoRequest, Profile
<1> HIDE DEF r
<1>4. HeldBy("deactivate", r, {}, fields) /\ TriesBy("deactivate", r, version)
  BY <1>3 DEF HeldBy, TriesBy, Uploading
<1>5. "deactivate" \in Step /\ "deactivate" \notin Uploading /\ {} \in SUBSET Field
  BY DEF Step, Holding, Uploading
<1> QED
  BY <1>1, <1>2, <1>4, <1>5, NamesNothing, QuietMoveKeeps

\* An upload knows the photo it will replace.
LEMMA UploadFindKeeps == ASSUME IInv, NEW p \in Proc, UploadFind(p) PROVE IInv'
<1> DEFINE r == [req[p] EXCEPT !.seen = Seen(req[p].body)]
<1>1. /\ pc' = [pc EXCEPT ![p] = "uploadWrite"] /\ req' = [req EXCEPT ![p] = r]
      /\ overtaken' = [overtaken EXCEPT ![p] = {}]
      /\ UNCHANGED <<stores, lapsed>> /\ pc[p] = "uploadFind"
  BY DEF UploadFind, Reads, Goto
<1>2. req[p].body \in [photo : Photo] /\ fields \in Profile /\ req[p] \in Request
  BY <1>1, Knows DEF HeldBy, Uploading
<1>3. DOMAIN req[p].body = {"photo"} /\ {"photo"} \subseteq Field
  BY <1>2, UploadUpdates DEF Field
<1>4. /\ Seen(req[p].body) \in Previous /\ DOMAIN Seen(req[p].body) = {"photo"}
      /\ Seen(req[p].body)["photo"] = fields["photo"]
  BY <1>2, <1>3, SeenType
<1>5. r \in Request /\ r.body = req[p].body /\ r.seen = Seen(req[p].body)
  BY <1>2, <1>4, RequestChanges
<1>6. HeldBy("uploadWrite", r, {}, fields) /\ TriesBy("uploadWrite", r, version)
  BY <1>2, <1>4, <1>5 DEF HeldBy, TriesBy, Uploading
<1>7. "uploadWrite" \in Step /\ pc[p] \in Uploading /\ {} \in SUBSET Field /\ pc[p] # "del"
  BY <1>1 DEF Step, Holding, Uploading
<1>8. \A k \in Named("uploadWrite", r) : Published(k)
  BY <1>2, <1>4, <1>5, ProfileFields, NamesPublished DEF Named
<1> HIDE DEF r
<1> QED
  BY <1>1, <1>5, <1>6, <1>7, <1>8, QuietMoveKeeps

\* A creation carries its account.
LEMMA CreateFindEmailKeeps ==
  ASSUME IInv, NEW p \in Proc, NEW a \in Account, CreateFindEmail(p, a)
  PROVE  IInv'
<1> DEFINE r == [NoRequest EXCEPT !.body = a]
<1>1. /\ pc' = [pc EXCEPT ![p] = "createId"] /\ req' = [req EXCEPT ![p] = r]
      /\ UNCHANGED <<stores, history>> /\ pc[p] # "del"
  BY DEF CreateFindEmail, Goto, Resting
<1>2. r \in Request /\ r.body = a
  BY RequestType DEF Bodies, NoRequest
<1> HIDE DEF r
<1>3. HeldBy("createId", r, overtaken[p], fields) /\ TriesBy("createId", r, version)
  BY <1>2 DEF HeldBy, TriesBy, Uploading
<1>4. overtaken' = [overtaken EXCEPT ![p] = overtaken[p]] /\ overtaken[p] \in SUBSET Field /\ UNCHANGED <<stores, lapsed>>
  BY <1>1, Same, Knows DEF history
<1>5. "createId" \in Step /\ "createId" \notin Uploading
  BY DEF Step, Uploading
<1> QED
  BY <1>1, <1>2, <1>3, <1>4, <1>5, NamesNothing, QuietMoveKeeps

\* Its second check refuses it or lets it on.
LEMMA CreateFindIdKeeps == ASSUME IInv, NEW p \in Proc, CreateFindId(p) PROVE IInv'
<1>1. UNCHANGED <<stores, history>> /\ pc[p] = "createId"
  BY DEF CreateFindId
<1>2. overtaken' = [overtaken EXCEPT ![p] = overtaken[p]] /\ overtaken[p] \in SUBSET Field /\ UNCHANGED <<stores, lapsed>>
  BY <1>1, Same, Knows DEF history
<1>3. CASE Answered(p)
  <2>1. pc' = [pc EXCEPT ![p] = "idle"] /\ req' = [req EXCEPT ![p] = NoRequest] /\ pc[p] # "del"
    BY <1>1, <1>3 DEF Answered, GoesOn, Goto
  <2> QED
    BY <1>2, <2>1, RequestType, IdleKnowsNothing, QuietMoveKeeps
<1>4. CASE pc' = [pc EXCEPT ![p] = "createInsert"] /\ req' = req
  <2>1. /\ HeldBy("createInsert", req[p], overtaken[p], fields)
        /\ TriesBy("createInsert", req[p], version)
    BY <1>1, Knows DEF HeldBy, TriesBy, Uploading
  <2>2. "createInsert" \in Step /\ "createInsert" \notin Uploading /\ pc[p] # "del"
    BY <1>1 DEF Step, Uploading
  <2>3. req' = [req EXCEPT ![p] = req[p]] /\ req[p] \in Request
    BY <1>4, Same, Knows
  <2> QED
    BY <1>2, <1>4, <2>1, <2>2, <2>3, NamesNothing, QuietMoveKeeps
<1> QED
  BY <1>3, <1>4 DEF CreateFindId, Goto

\* What is inserted is an account.
LEMMA CreateInsertKeeps == ASSUME IInv, NEW p \in Proc, CreateInsert(p) PROVE IInv'
<1>1. /\ pc' = [pc EXCEPT ![p] = "idle"] /\ req' = [req EXCEPT ![p] = NoRequest]
      /\ UNCHANGED <<document, copy, bucket, history>> /\ pc[p] = "createInsert"
  BY DEF CreateInsert, Answered, GoesOn, Goto
<1>2. StaleCopyHasCause'
  BY <1>1, CauseKeeps DEF document, history
<1>3. req[p].body \in Account
  BY <1>1, Knows DEF HeldBy
<1>4. accounts' \subseteq Account /\ copy' \in Profile \union {None} /\ lapsed' \in BOOLEAN
  BY <1>1, <1>3, Knows DEF CreateInsert, history
<1>5. overtaken' = [overtaken EXCEPT ![p] = overtaken[p]] /\ overtaken[p] \in SUBSET Field /\ UNCHANGED <<document, bucket>>
  BY <1>1, Same, Knows DEF history
<1> QED
  BY <1>1, <1>2, <1>4, <1>5, RequestType, IdleKnowsNothing, MoveKeeps

-----------------------------------------------------------------------------
(* The steps that write the document.                                      *)

\* When a body is set, a request that others have overtaken knows what it knew
\* of the other fields.
LEMMA HeldGrows ==
  ASSUME NEW step, NEW r, NEW o \in SUBSET Field, NEW doc \in Profile, NEW body, NEW now,
         DOMAIN body \subseteq Field, HeldBy(step, r, o, doc),
         now = o \union (IF r.body = None THEN Field ELSE DOMAIN body \intersect DOMAIN r.body)
  PROVE  HeldBy(step, r, now, Updated(doc, body))
<1> DEFINE new == Updated(doc, body)
<1>1. \A f \in Field \ now : /\ f \notin o
                             /\ f \in DOMAIN r.body => new[f] = doc[f]
  BY DEF Updated
<1> HIDE DEF new
<1>2. "active" \in Field /\ "photo" \in Field
  BY DEF Field
<1>3. step \in {"attempt", "write"} => DOMAIN r.body \subseteq Field
  BY EditUpdates DEF HeldBy
<1>4. step \in {"attempt", "write"} =>
        /\ r.body \in Edits /\ DOMAIN r.seen = DOMAIN r.body
        /\ \A f \in DOMAIN r.body \ now : r.seen[f] = new[f]
  BY <1>1, <1>3 DEF HeldBy
<1>5. step \in {"readFind", "fill"} => r.body = None
  BY DEF HeldBy
<1>6. step = "fill" =>
        /\ r.seen \in Profile
        /\ \A f \in Field \ now : r.seen[f] = new[f]
  BY <1>5 DEF HeldBy
<1>7. step = "deactivate" =>
        /\ r.body = [active |-> FALSE]
        /\ "active" \notin now => new["active"] = TRUE
  BY <1>1, <1>2 DEF HeldBy
<1>8. step = "uploadWrite" =>
        /\ r.seen \in Previous /\ DOMAIN r.seen = {"photo"}
        /\ "photo" \notin now => r.seen["photo"] = new["photo"]
  <2>1. step = "uploadWrite" => "photo" \in DOMAIN r.body
    BY UploadUpdates DEF HeldBy, Uploading
  <2> QED
    BY <1>1, <1>2, <2>1 DEF HeldBy
<1>9. /\ step \in Uploading => r.body \in [photo : Photo]
      /\ step \in {"createId", "createInsert"} => r.body \in Account
  BY DEF HeldBy
<1>10. HeldBy(step, r, now, new)
  BY <1>4, <1>5, <1>6, <1>7, <1>8, <1>9 DEF HeldBy
<1> QED
  BY <1>10 DEF new

\* A request that holds nothing of the document knows no less after a change.
LEMMA HeldElsewhere ==
  ASSUME NEW step, NEW r, NEW o, NEW doc, NEW now, NEW new, step \notin Holding, HeldBy(step, r, o, doc)
  PROVE  HeldBy(step, r, now, new)
  BY DEF HeldBy, Holding, Uploading

\* Versions only grow, so failed attempts stay accounted for.
LEMMA TriesGrow ==
  ASSUME NEW step, NEW r \in Request, NEW v \in Nat, NEW w \in {v, v + 1}, TriesBy(step, r, v)
  PROVE  TriesBy(step, r, w)
<1>1. r.tries \in Nat /\ r.at \in Nat /\ r.first \in Nat
  BY RequestParts
<1>2. w \in Nat /\ w >= v
  OBVIOUS
<1>3. \A n \in Nat : v >= n => w >= n
  BY <1>2
<1>4. r.first + r.tries \in Nat /\ r.first + MaxRetries \in Nat
  BY <1>1 DEF MaxRetries
<1> QED
  BY <1>1, <1>3, <1>4 DEF TriesBy

\* A command that sets a body keeps the invariant if it keeps the photos, and
\* if the request goes on to its DEL or leaves no copy uncaused.
LEMMA SetKeeps ==
  ASSUME IInv, NEW p \in Proc, NEW step \in {"idle", "del"}, NEW body, NEW previous,
         Set(p, body, previous),
         DOMAIN body \subseteq Field, DOMAIN previous \subseteq Field,
         Updated(fields, body) \in Profile, version' \in {version, version + 1},
         given' \in BOOLEAN,
         pc' = [pc EXCEPT ![p] = step], req' = [req EXCEPT ![p] = NoRequest],
         UNCHANGED <<copy, objects, minted, accounts>>, lapsed' \in BOOLEAN,
         step = "del" \/ (copy # None => lapsed'),
         doomed' \subseteq minted \union Foreign, PhotosKept'
  PROVE  IInv'
<1>1. /\ fields' = Updated(fields, body) /\ entry' = previous
      /\ overtaken' = [q \in Proc |-> IF q # p /\ pc[q] \in Holding
                                      THEN overtaken[q] \union Takes(DOMAIN body, q) ELSE {}]
  BY DEF Set, Updated
<1>2. /\ pc \in [Proc -> Step] /\ req \in [Proc -> Request] /\ overtaken \in [Proc -> SUBSET Field]
      /\ version \in Nat /\ step \in Step
  BY IdleKnowsNothing DEF IInv, TypeOK, Step
<1>3. /\ pc' \in [Proc -> Step] /\ pc'[p] = step
      /\ \A q \in Proc : q # p => pc'[q] = pc[q]
  BY <1>2, OneCell
<1>4. /\ req' \in [Proc -> Request] /\ req'[p] = NoRequest
      /\ \A q \in Proc : q # p => req'[q] = req[q]
  BY <1>2, RequestType, OneCell
<1>5. overtaken' \in [Proc -> SUBSET Field] /\ version' \in Nat
  BY <1>1, <1>2 DEF Takes
<1>6. TypeOK'
  BY <1>1, <1>3, <1>4, <1>5 DEF IInv, TypeOK, Step
<1>7. Held'
  <2> SUFFICES ASSUME NEW q \in Proc
               PROVE  HeldBy(pc'[q], req'[q], overtaken'[q], fields')
    BY DEF Held
  <2>1. CASE q = p
    BY <2>1, <1>3, IdleKnowsNothing
  <2>2. CASE q # p /\ pc[q] \in Holding
    <3>1. overtaken'[q] = overtaken[q] \union Takes(DOMAIN body, q) /\ pc'[q] = pc[q] /\ req'[q] = req[q]
      BY <2>2, <1>1, <1>3, <1>4
    <3>2. HeldBy(pc[q], req[q], overtaken[q], fields) /\ fields \in Profile /\ overtaken[q] \in SUBSET Field
      BY Knows
    <3>3. overtaken'[q] = overtaken[q] \union (IF req[q].body = None THEN Field
                                              ELSE DOMAIN body \intersect DOMAIN req[q].body)
      BY <3>1 DEF Takes
    <3> QED
      BY <3>1, <3>2, <3>3, <1>1, HeldGrows
  <2>3. CASE q # p /\ pc[q] \notin Holding
    <3>1. pc'[q] = pc[q] /\ req'[q] = req[q] /\ HeldBy(pc[q], req[q], overtaken[q], fields)
      BY <2>3, <1>3, <1>4, Knows
    <3> QED
      BY <3>1, <2>3, HeldElsewhere
  <2> QED
    BY <2>1, <2>2, <2>3
<1>8. Tried'
  <2> SUFFICES ASSUME NEW q \in Proc PROVE TriesBy(pc'[q], req'[q], version')
    BY DEF Tried
  <2>1. CASE q = p
    BY <2>1, <1>3, IdleKnowsNothing
  <2>2. CASE q # p
    <3>1. /\ pc'[q] = pc[q] /\ req'[q] = req[q] /\ TriesBy(pc[q], req[q], version)
          /\ req[q] \in Request /\ version \in Nat
      BY <2>2, <1>3, <1>4, Knows
    <3> QED
      BY <3>1, TriesGrow
  <2> QED
    BY <2>1, <2>2
<1>9. StaleCopyHasCause'
  BY <1>3 DEF StaleCopyHasCause
<1> QED
  BY <1>6, <1>7, <1>8, <1>9 DEF IInv

\* What was published stays so when a request ends with its locals gone.
LEMMA PublishedStays ==
  ASSUME IInv, NEW p \in Proc, NEW step \in {"idle", "del"},
         pc' = [pc EXCEPT ![p] = step], req' = [req EXCEPT ![p] = NoRequest], minted' = minted
  PROVE  /\ \A q \in Proc : pc'[q] \in Uploading =>
               q # p /\ pc[q] \in Uploading /\ req'[q] = req[q]
         /\ \A k : Published(k) => Published(k)'
         /\ \A q \in Proc : \A k \in Named(pc'[q], req'[q]) : Published(k)'
<1>1. pc \in [Proc -> Step] /\ req \in [Proc -> Request] /\ step \in Step
  BY IdleKnowsNothing DEF IInv, TypeOK, Step
<1>2. pc'[p] = step /\ \A q \in Proc : q # p => pc'[q] = pc[q]
  BY <1>1, OneCell
<1>3. \A q \in Proc : q # p => req'[q] = req[q]
  BY <1>1
<1>4. \A q \in Proc : pc'[q] \in Uploading => q # p /\ pc[q] \in Uploading /\ req'[q] = req[q]
  BY <1>2, <1>3 DEF Uploading
<1>5. ASSUME NEW k, Published(k) PROVE Published(k)'
  BY <1>4, <1>5 DEF Published, Uploading
<1>6. ASSUME NEW q \in Proc, NEW k \in Named(pc'[q], req'[q]) PROVE Published(k)'
  <2>1. q # p
    BY <1>2, <1>6, IdleKnowsNothing
  <2> QED
    BY <2>1, <1>2, <1>3, <1>5, <1>6, NamesPublished
<1> QED
  BY <1>4, <1>5, <1>6

\* The update of an edit, whether the request goes on to its DEL or not.
LEMMA EditUpdateKeeps ==
  ASSUME IInv, NEW p \in Proc, EditUpdate(p), NEW step \in {"idle", "del"},
         pc' = [pc EXCEPT ![p] = step], req' = [req EXCEPT ![p] = NoRequest],
         UNCHANGED <<copy, bucket, accounts>>, lapsed' \in BOOLEAN,
         step = "del" \/ (copy # None => lapsed')
  PROVE  IInv'
<1> DEFINE body == req[p].body
           previous == req[p].seen
<1>1. /\ Set(p, body, previous) /\ version' = version + 1 /\ pc[p] = "write"
      /\ given' = IF "photo" \in DOMAIN body THEN body["photo"] # None ELSE given
  BY DEF EditUpdate
<1>2. body \in Edits /\ DOMAIN previous = DOMAIN body /\ fields \in Profile
  BY <1>1, Knows DEF HeldBy
<1>3. "photo" \in DOMAIN body => Published(body["photo"])
  BY <1>1, NamesPublished DEF Named
<1> HIDE DEF body, previous
<1>4. /\ Updated(fields, body) \in Profile /\ DOMAIN body \subseteq Field
      /\ Updated(fields, body).photo = IF "photo" \in DOMAIN body THEN body["photo"] ELSE fields.photo
  BY <1>2, EditUpdates
<1>5. fields' = Updated(fields, body)
  BY <1>1 DEF Set, Updated
<1>6. objects' = objects /\ minted' = minted /\ doomed' = doomed
  BY DEF bucket
<1>7. given' \in BOOLEAN
  BY <1>1 DEF IInv, TypeOK
<1>8. PhotosKept'
  <2>1. Published(fields'.photo)
    BY <1>3, <1>4, <1>5, NamesPublished
  <2>2. /\ \A q \in Proc : pc'[q] \in Uploading => q # p /\ pc[q] \in Uploading /\ req'[q] = req[q]
        /\ \A k : Published(k) => Published(k)'
        /\ \A q \in Proc : \A k \in Named(pc'[q], req'[q]) : Published(k)'
    BY <1>6, PublishedStays
  <2>3. ~given' => fields'.photo \in (objects' \ doomed') \union {None}
    BY <1>1, <1>4, <1>5, <1>6 DEF IInv, PhotosKept
  <2>4. Published(fields.photo)'
    BY <2>1, <2>2 DEF Published
  <2>5. \A q \in Proc : pc'[q] \in Uploading =>
          /\ req'[q].body.photo \in objects' \ doomed'
          /\ \A s \in Proc : pc'[s] \in Uploading /\ s # q => req'[s].body.photo # req'[q].body.photo
    BY <1>6, <2>2 DEF IInv, PhotosKept
  <2> QED
    BY <2>2, <2>3, <2>4, <2>5 DEF PhotosKept, Named
<1>9. doomed' \subseteq minted \union Foreign
  BY <1>6 DEF IInv, TypeOK
<1> QED
  BY <1>1, <1>2, <1>4, <1>6, <1>7, <1>8, <1>9, SetKeeps

\* The update of a deactivation.
LEMMA DeactivateUpdateKeeps ==
  ASSUME IInv, NEW p \in Proc, DeactivateUpdate(p), NEW step \in {"idle", "del"},
         pc' = [pc EXCEPT ![p] = step], req' = [req EXCEPT ![p] = NoRequest],
         UNCHANGED <<copy, bucket, accounts>>, lapsed' \in BOOLEAN,
         step = "del" \/ (copy # None => lapsed')
  PROVE  IInv'
<1> DEFINE body == [active |-> FALSE]
           previous == [active |-> TRUE]
<1>1. pc[p] = "deactivate" /\ version' = version /\ given' = given
  BY DEF DeactivateUpdate
<1>2. req[p].body = body /\ fields \in Profile
  BY <1>1, Knows DEF HeldBy
<1>3. Set(p, body, previous)
  BY <1>2 DEF DeactivateUpdate
<1>4. DOMAIN body \subseteq Field /\ DOMAIN previous \subseteq Field
  BY DEF Field
<1>5. Updated(fields, body) \in Profile /\ Updated(fields, body).photo = fields.photo
  BY <1>2, DeactivationUpdates
<1> HIDE DEF body, previous
<1>6. fields' = Updated(fields, body)
  BY <1>3 DEF Set, Updated
<1>7. objects' = objects /\ minted' = minted /\ doomed' = doomed
  BY DEF bucket
<1>8. PhotosKept'
  <2>1. /\ \A q \in Proc : pc'[q] \in Uploading => q # p /\ pc[q] \in Uploading /\ req'[q] = req[q]
        /\ \A k : Published(k) => Published(k)'
        /\ \A q \in Proc : \A k \in Named(pc'[q], req'[q]) : Published(k)'
    BY <1>7, PublishedStays
  <2>2. Published(fields'.photo)
    BY <1>5, <1>6, NamesPublished
  <2>3. Published(fields.photo)'
    BY <2>1, <2>2 DEF Published
  <2>4. ~given' => fields'.photo \in (objects' \ doomed') \union {None}
    BY <1>1, <1>5, <1>6, <1>7 DEF IInv, PhotosKept
  <2>5. \A q \in Proc : pc'[q] \in Uploading =>
          /\ req'[q].body.photo \in objects' \ doomed'
          /\ \A s \in Proc : pc'[s] \in Uploading /\ s # q => req'[s].body.photo # req'[q].body.photo
    BY <1>7, <2>1 DEF IInv, PhotosKept
  <2> QED
    BY <2>1, <2>3, <2>4, <2>5 DEF PhotosKept, Named
<1>9. doomed' \subseteq minted \union Foreign /\ given' \in BOOLEAN
  BY <1>1, <1>7 DEF IInv, TypeOK
<1> QED
  BY <1>1, <1>3, <1>4, <1>5, <1>7, <1>8, <1>9, SetKeeps

\* The update of an upload enters a photo that nobody deletes.
LEMMA UploadUpdateKeeps ==
  ASSUME IInv, NEW p \in Proc, UploadUpdate(p), NEW step \in {"idle", "del"},
         pc' = [pc EXCEPT ![p] = step], req' = [req EXCEPT ![p] = NoRequest],
         UNCHANGED <<copy, objects, minted, accounts>>, lapsed' \in BOOLEAN,
         step = "del" \/ (copy # None => lapsed'),
         doomed' \in {doomed, doomed \union ({req[p].seen.photo} \ {None})}
  PROVE  IInv'
<1> DEFINE body == req[p].body
           previous == req[p].seen
           old == previous["photo"]
<1>1. Set(p, body, previous) /\ pc[p] = "uploadWrite" /\ version' = version /\ given' = FALSE
  BY DEF UploadUpdate
<1>2. body \in [photo : Photo] /\ DOMAIN previous = {"photo"} /\ fields \in Profile
  BY <1>1, Knows DEF HeldBy, Uploading
<1>3. doomed' \subseteq doomed \union ({old} \ {None})
  BY DEF old
<1>4. Published(old)
  BY <1>1, NamesPublished DEF Named
<1>5. /\ old \in minted \union Foreign \union {None}
      /\ \A q \in Proc : pc[q] \in Uploading => req[q].body.photo # old
  BY <1>4 DEF Published, Uploading
<1>6. /\ \A q \in Proc : pc[q] \in Uploading => req[q].body.photo \in objects \ doomed
      /\ \A q \in Proc : pc[q] \in Uploading /\ q # p => req[q].body.photo # body.photo
      /\ pc[p] \in Uploading /\ body.photo \in objects \ doomed
  BY <1>1 DEF IInv, PhotosKept, Uploading
<1>7. body.photo \in Photo /\ body.photo \in minted
  BY <1>2, <1>6 DEF IInv, TypeOK
<1>8. \A q \in Proc : pc[q] \in Uploading => req[q].body.photo \in objects \ doomed'
  BY <1>3, <1>5, <1>6
<1> HIDE DEF body, previous, old
<1>9. Updated(fields, body) \in Profile /\ Updated(fields, body).photo = body.photo /\ DOMAIN body = {"photo"}
  BY <1>2, UploadUpdates
<1>10. fields'.photo = body.photo
  BY <1>1, <1>9 DEF Set, Updated
<1>11. PhotosKept'
  <2>1. /\ \A q \in Proc : pc'[q] \in Uploading => q # p /\ pc[q] \in Uploading /\ req'[q] = req[q]
        /\ \A q \in Proc : \A k \in Named(pc'[q], req'[q]) : Published(k)'
    BY PublishedStays
  <2>2. Published(fields.photo)'
    BY <1>6, <1>7, <1>10, <2>1 DEF Published, Uploading
  <2>3. fields'.photo \in objects' \ doomed'
    BY <1>6, <1>8, <1>10 DEF body
  <2>4. \A q \in Proc : pc'[q] \in Uploading =>
          /\ req'[q].body.photo \in objects' \ doomed'
          /\ \A s \in Proc : pc'[s] \in Uploading /\ s # q => req'[s].body.photo # req'[q].body.photo
    BY <1>8, <2>1 DEF IInv, PhotosKept
  <2> QED
    BY <2>1, <2>2, <2>3, <2>4 DEF PhotosKept, Named
<1>12. doomed' \subseteq minted \union Foreign
  BY <1>3, <1>5 DEF IInv, TypeOK
<1>13. DOMAIN body \subseteq Field /\ DOMAIN previous \subseteq Field
  BY <1>2, <1>9 DEF Field
<1> QED
  BY <1>1, <1>9, <1>11, <1>12, <1>13, SetKeeps

\* A request that updates the document goes on to its DEL.
LEMMA WritesKeep ==
  ASSUME IInv, NEW p \in Proc, EditWrite(p) \/ DeactivateWrite(p) \/ UploadWrite(p)
  PROVE  IInv'
<1>1. /\ pc' = [pc EXCEPT ![p] = "del"] /\ req' = [req EXCEPT ![p] = NoRequest]
      /\ UNCHANGED <<copy, objects, minted, accounts>> /\ lapsed' = lapsed
  BY DEF EditWrite, DeactivateWrite, UploadWrite, GoesOn, Goto, bucket
<1>2. lapsed' \in BOOLEAN
  BY <1>1, Knows
<1>3. CASE EditWrite(p)
  <2>1. EditUpdate(p) /\ UNCHANGED <<copy, bucket, accounts>>
    BY <1>3 DEF EditWrite
  <2> QED
    BY <1>1, <1>2, <2>1, EditUpdateKeeps
<1>4. CASE DeactivateWrite(p)
  <2>1. DeactivateUpdate(p) /\ UNCHANGED <<copy, bucket, accounts>>
    BY <1>4 DEF DeactivateWrite
  <2> QED
    BY <1>1, <1>2, <2>1, DeactivateUpdateKeeps
<1>5. CASE UploadWrite(p)
  <2>1. UploadUpdate(p) /\ doomed' = doomed \union ({req[p].seen.photo} \ {None})
    BY <1>5 DEF UploadWrite
  <2> QED
    BY <1>1, <1>2, <2>1, UploadUpdateKeeps
<1> QED
  BY <1>3, <1>4, <1>5

\* A request whose update lost its reply leaves a copy that lapsed.
LEMMA ReplyLostKeeps == ASSUME IInv, NEW p \in Proc, ReplyLost(p) PROVE IInv'
<1>1. /\ pc' = [pc EXCEPT ![p] = "idle"] /\ req' = [req EXCEPT ![p] = NoRequest]
      /\ UNCHANGED <<copy, bucket, accounts>> /\ lapsed' = (lapsed \/ copy # None)
  BY DEF ReplyLost, Answered, GoesOn, Goto
<1>2. lapsed' \in BOOLEAN /\ (copy # None => lapsed')
  BY <1>1, Knows
<1>3. UNCHANGED <<copy, objects, minted, accounts>> /\ doomed' = doomed
  BY <1>1 DEF bucket
<1> QED
  BY <1>1, <1>2, <1>3, EditUpdateKeeps, DeactivateUpdateKeeps, UploadUpdateKeeps DEF ReplyLost

-----------------------------------------------------------------------------
(* Steps of the bucket and of no request alone.                            *)

\* A drawn key is new to the document, the bucket and every upload.
LEMMA UploadPutKeeps == ASSUME IInv, NEW p \in Proc, NEW k \in Photo, UploadPut(p, k) PROVE IInv'
<1> DEFINE r == [NoRequest EXCEPT !.body = [photo |-> k]]
<1>1. /\ k \notin minted /\ minted' = minted \union {k} /\ pc[p] \in Resting
      /\ objects' = objects \union {k}
      /\ req' = [req EXCEPT ![p] = r] /\ pc' = [pc EXCEPT ![p] = "uploadFind"]
      /\ UNCHANGED <<document, copy, doomed, accounts, history>>
  BY DEF UploadPut, Goto
<1>2. /\ fields' = fields /\ version' = version /\ entry' = entry /\ given' = given
      /\ overtaken' = overtaken /\ lapsed' = lapsed
  BY <1>1 DEF document, history
<1>3. r \in Request /\ r.body = [photo |-> k] /\ r.body.photo = k
  BY RequestType DEF Bodies, NoRequest
<1> HIDE DEF r
<1>4. pc \in [Proc -> Step] /\ req \in [Proc -> Request] /\ "uploadFind" \in Step
  BY DEF IInv, TypeOK, Step
<1>5. /\ pc' \in [Proc -> Step] /\ pc'[p] = "uploadFind"
      /\ \A q \in Proc : q # p => pc'[q] = pc[q]
  BY <1>1, <1>4, OneCell
<1>6. /\ req' \in [Proc -> Request] /\ req'[p] = r
      /\ \A q \in Proc : q # p => req'[q] = req[q]
  BY <1>1, <1>3, <1>4, OneCell
<1>7. TypeOK'
  BY <1>1, <1>2, <1>5, <1>6 DEF IInv, TypeOK, Step
<1>8. Held'
  <2>1. HeldBy("uploadFind", r, overtaken[p], fields)
    BY <1>3 DEF HeldBy, Uploading
  <2> QED
    BY <1>2, <1>5, <1>6, <2>1 DEF IInv, Held
<1>9. Tried'
  <2>1. TriesBy("uploadFind", r, version)
    BY DEF TriesBy
  <2> QED
    BY <1>2, <1>5, <1>6, <2>1 DEF IInv, Tried
<1>10. PhotosKept'
  <2>1. \A q \in Proc : pc'[q] \in Uploading =>
           \/ q = p /\ req'[q].body.photo = k
           \/ /\ q # p /\ pc[q] \in Uploading /\ req'[q] = req[q]
              /\ req[q].body.photo \in objects \ doomed /\ req[q].body.photo # k
    BY <1>1, <1>3, <1>5, <1>6 DEF IInv, PhotosKept, TypeOK
  <2>2. ASSUME NEW l, Published(l) PROVE Published(l)'
    <3>1. l # k
      BY <1>1, <2>2 DEF Published, Key
    <3> QED
      BY <1>1, <2>1, <2>2, <3>1 DEF Published, Uploading
  <2>3. Published(fields.photo)'
    BY <1>2, <2>2, NamesPublished
  <2>4. ~given' => fields'.photo \in (objects' \ doomed') \union {None}
    BY <1>1, <1>2 DEF IInv, PhotosKept
  <2>5. ASSUME NEW q \in Proc, NEW l \in Named(pc'[q], req'[q]) PROVE Published(l)'
    <3>1. q # p
      BY <1>5, <2>5, NamesNothing
    <3> QED
      BY <3>1, <1>5, <1>6, <2>2, <2>5, NamesPublished
  <2>6. \A q \in Proc : pc'[q] \in Uploading =>
          /\ req'[q].body.photo \in objects' \ doomed'
          /\ \A s \in Proc : pc'[s] \in Uploading /\ s # q => req'[s].body.photo # req'[q].body.photo
    <3>1. k \in objects' \ doomed'
      BY <1>1 DEF IInv, TypeOK, Key
    <3> QED
      BY <1>1, <2>1, <3>1 DEF IInv, PhotosKept
  <2> QED
    BY <2>3, <2>4, <2>5, <2>6 DEF PhotosKept, Named
<1>11. StaleCopyHasCause'
  BY <1>1, <1>2, <1>5 DEF IInv, StaleCopyHasCause, Resting
<1> QED
  BY <1>7, <1>8, <1>9, <1>10, <1>11 DEF IInv

\* A deletion only concerns what is to be deleted.
LEMMA DeletePhotoKeeps == ASSUME IInv, NEW k \in Key, DeletePhoto(k) PROVE IInv'
<1>1. /\ k \in doomed /\ doomed' = doomed \ {k} /\ objects' \in {objects, objects \ {k}}
      /\ UNCHANGED <<document, copy, minted, accounts, pc, req, history>>
  BY DEF DeletePhoto
<1>2. /\ fields' = fields /\ version' = version /\ entry' = entry /\ given' = given
      /\ overtaken' = overtaken /\ lapsed' = lapsed
  BY <1>1 DEF document, history
<1>3. TypeOK'
  BY <1>1, <1>2 DEF IInv, TypeOK
<1>4. Held' /\ Tried' /\ StaleCopyHasCause'
  BY <1>1, <1>2 DEF IInv, Held, Tried, StaleCopyHasCause
<1>5. PhotosKept'
  BY <1>1, <1>2 DEF IInv, PhotosKept, Published, Named
<1> QED
  BY <1>3, <1>4, <1>5 DEF IInv

\* The copy expires.
LEMMA CopyExpiresKeeps == ASSUME IInv, CopyExpires PROVE IInv'
<1>1. /\ copy' = None /\ lapsed' = FALSE
      /\ UNCHANGED <<document, bucket, accounts, pc, req, overtaken>>
  BY DEF CopyExpires
<1>2. fields' = fields /\ version' = version /\ entry' = entry /\ given' = given
  BY <1>1 DEF document
<1>3. objects' = objects /\ minted' = minted /\ doomed' = doomed
  BY <1>1 DEF bucket
<1> QED
  BY <1>1, <1>2, <1>3 DEF IInv, TypeOK, Held, Tried, PhotosKept, Published, Named, StaleCopyHasCause

\* After a crash nobody knows anything, and a DEL that was due has lapsed.
LEMMA CrashKeeps == ASSUME IInv, Crash PROVE IInv'
<1>1. /\ pc' = [p \in Proc |-> "idle"] /\ req' = [p \in Proc |-> NoRequest]
      /\ overtaken' = [p \in Proc |-> {}] /\ doomed' = {}
      /\ lapsed' = (lapsed \/ (copy # None /\ \E p \in Proc : pc[p] = "del"))
      /\ UNCHANGED <<document, copy, objects, minted, accounts>>
  BY DEF Crash
<1>2. fields' = fields /\ version' = version /\ entry' = entry /\ given' = given
  BY <1>1 DEF document
<1>3. TypeOK'
  BY <1>1, <1>2, RequestType DEF IInv, TypeOK, Resting
<1>4. Held' /\ Tried'
  BY <1>1, IdleKnowsNothing DEF Held, Tried
<1>5. PhotosKept'
  BY <1>1, <1>2 DEF IInv, PhotosKept, Published, Named, Uploading
<1>6. StaleCopyHasCause'
  BY <1>1, <1>2 DEF IInv, StaleCopyHasCause
<1> QED
  BY <1>3, <1>4, <1>5, <1>6 DEF IInv

-----------------------------------------------------------------------------
(* The steps together.                                                     *)

\* No step breaks the invariant.
LEMMA NextKeeps == IInv /\ [Next]_vars => IInv'
<1> SUFFICES ASSUME IInv, [Next]_vars PROVE IInv'
  OBVIOUS
<1>1. CASE UNCHANGED vars
  BY <1>1 DEF vars, IInv, TypeOK, Held, Tried, PhotosKept, Published, Named, StaleCopyHasCause
<1>2. ASSUME NEW p \in Proc, ReadMiss(p) \/ ReadFind(p) \/ Fill(p) \/ Invalidate(p)
      PROVE  IInv'
  BY <1>2, ReadMissKeeps, ReadFindKeeps, FillKeeps, InvalidateKeeps
<1>3. ASSUME NEW p \in Proc, NEW body \in Edits, EditFind(p, body) \/ AdminFind(p, body)
      PROVE  IInv'
  <2>1. AdminFind(p, body) => "photo" \notin DOMAIN body
    BY DEF AdminFind, AdminFields
  <2> QED
    BY <1>3, <2>1, FindsKeeps DEF EditFind, AdminFind
<1>4. ASSUME NEW p \in Proc, Attempt(p) \/ EditMissed(p) \/ EditDuplicate(p) \/ DbError(p) \/ ReplyLost(p)
      PROVE  IInv'
  BY <1>4, AttemptKeeps, EditMissedKeeps, EndsKeeps, ReplyLostKeeps
<1>5. ASSUME NEW p \in Proc, EditWrite(p) \/ DeactivateFind(p) \/ DeactivateWrite(p) \/ UploadFind(p) \/ UploadWrite(p)
      PROVE  IInv'
  BY <1>5, DeactivateFindKeeps, UploadFindKeeps, WritesKeep
<1>6. ASSUME NEW p \in Proc, NEW k \in Photo, UploadPut(p, k)
      PROVE  IInv'
  BY <1>6, UploadPutKeeps
<1>7. ASSUME NEW p \in Proc, NEW a \in Account, CreateFindEmail(p, a)
      PROVE  IInv'
  BY <1>7, CreateFindEmailKeeps
<1>8. ASSUME NEW p \in Proc, CreateFindId(p) \/ CreateInsert(p)
      PROVE  IInv'
  BY <1>8, CreateFindIdKeeps, CreateInsertKeeps
<1>9. ASSUME NEW k \in Key, DeletePhoto(k)
      PROVE  IInv'
  BY <1>9, DeletePhotoKeeps
<1>10. CASE CopyExpires \/ Crash
  BY <1>10, CopyExpiresKeeps, CrashKeeps
<1> QED
  BY <1>1, <1>2, <1>3, <1>4, <1>5, <1>6, <1>7, <1>8, <1>9, <1>10 DEF Next

\* The invariant holds in every reachable state.
LEMMA Invariant == Spec => []IInv
  BY InitOK, NextKeeps, PTL DEF Spec

\* The stores and the locals hold what the code can put there.
THEOREM UsersTypeCorrect == Spec => []TypeOK
<1>1. IInv => TypeOK
  BY DEF IInv
<1> QED
  BY <1>1, Invariant, PTL

\* Three failed attempts mean three other updates, however many requests there
\* are.
THEOREM ConflictsAreEarned == Spec => []ConflictIsEarned
<1>1. IInv => ConflictIsEarned
  BY DEF IInv, Tried, TriesBy, ConflictIsEarned
<1> QED
  BY <1>1, Invariant, PTL

\* The photo that an upload entered in the document is in the bucket, for any
\* uploads and failures and whatever keys profile updates give.
THEOREM PhotosExist == Spec => []PhotoExists
<1>1. IInv => PhotoExists
  BY DEF IInv, PhotosKept, PhotoExists
<1> QED
  BY <1>1, Invariant, PTL

\* A stale copy has one of its causes.
THEOREM StaleCopiesHaveCause == Spec => []StaleCopyHasCause
<1>1. IInv => StaleCopyHasCause
  BY DEF IInv
<1> QED
  BY <1>1, Invariant, PTL

-----------------------------------------------------------------------------
(* What the audit entries say.                                             *)

\* A pending update is that of one request: a step of another leaves it, and so
\* does whatever ends a request without writing.
LEMMA PushersWrite ==
  ASSUME IInv, Next, NEW p \in Proc, Pushes(p)
  PROVE  EditUpdate(p) \/ DeactivateUpdate(p) \/ UploadUpdate(p)
<1> DEFINE old == pc[p]
<1>1. /\ old \in {"write", "deactivate", "uploadWrite"} /\ pc'[p] # old
      /\ pc'[p] = "del" \/ document' # document
  BY DEF Pushes
<1>2. pc \in [Proc -> Step]
  BY DEF IInv, TypeOK, Step
<1>3. \A q \in Proc : \A step : pc' = [pc EXCEPT ![q] = step] => q = p /\ pc'[p] = step
  BY <1>1, <1>2
<1>4. ASSUME NEW q \in Proc,
             ReadMiss(q) \/ ReadFind(q) \/ Fill(q) \/ Invalidate(q) \/ Attempt(q)
               \/ EditMissed(q) \/ EditDuplicate(q) \/ DeactivateFind(q) \/ UploadFind(q)
               \/ CreateFindId(q) \/ CreateInsert(q) \/ DbError(q)
      PROVE  FALSE
  <2>1. document' = document
    BY <1>4 DEF ReadMiss, ReadFind, Fill, Invalidate, Attempt, EditMissed, EditDuplicate,
         DeactivateFind, UploadFind, CreateFindId, CreateInsert, DbError, stores, document
  <2>2. pc'[p] # "del"
    BY <1>1, <1>3, <1>4 DEF ReadMiss, ReadFind, Fill, Invalidate, Attempt, EditMissed, EditDuplicate,
         DeactivateFind, UploadFind, CreateFindId, CreateInsert, DbError, Answered, GoesOn, Goto
  <2> QED
    BY <1>1, <2>1, <2>2
<1>5. ASSUME NEW q \in Proc, NEW body, EditFind(q, body) \/ AdminFind(q, body) PROVE FALSE
  <2>1. document' = document /\ pc' = [pc EXCEPT ![q] = "attempt"]
    BY <1>5 DEF EditFind, AdminFind, Finds, Goto, stores, document
  <2> QED
    BY <1>1, <1>3, <2>1
<1>6. ASSUME NEW q \in Proc, NEW k, UploadPut(q, k) PROVE FALSE
  BY <1>1, <1>3, <1>6 DEF UploadPut, Goto
<1>7. ASSUME NEW q \in Proc, NEW a, CreateFindEmail(q, a) PROVE FALSE
  <2>1. document' = document /\ pc' = [pc EXCEPT ![q] = "createId"]
    BY <1>7 DEF CreateFindEmail, Goto, stores, document
  <2> QED
    BY <1>1, <1>3, <2>1
<1>8. ASSUME NEW q \in Proc, EditWrite(q) \/ DeactivateWrite(q) \/ UploadWrite(q) \/ ReplyLost(q)
      PROVE  q = p /\ (EditUpdate(q) \/ DeactivateUpdate(q) \/ UploadUpdate(q))
  BY <1>3, <1>8 DEF EditWrite, DeactivateWrite, UploadWrite, ReplyLost, Answered, GoesOn, Goto
<1>9. ~(\E k \in Key : DeletePhoto(k)) /\ ~CopyExpires
  BY <1>1 DEF DeletePhoto, CopyExpires
<1>10. ~Crash
  BY <1>1 DEF Crash
<1> HIDE DEF old
<1> QED
  BY <1>4, <1>5, <1>6, <1>7, <1>8, <1>9, <1>10 DEF Next

\* Every entry tells the values it replaces, except of fields that others have
\* written since the request read the document.
THEOREM AuditsTellPrevious == Spec => AuditTellsPrevious
<1>1. ASSUME IInv, [Next]_vars, NEW p \in Proc, Pushes(p)
      PROVE  \A f \in DOMAIN entry' \ overtaken[p] : entry'[f] = fields[f]
  <2>1. Next
    BY <1>1 DEF Pushes, vars
  <2>2. CASE EditUpdate(p)
    <3>1. entry' = req[p].seen /\ pc[p] = "write"
      BY <2>2 DEF EditUpdate, Set
    <3>2. /\ DOMAIN req[p].seen = DOMAIN req[p].body
          /\ \A f \in DOMAIN req[p].body \ overtaken[p] : req[p].seen[f] = fields[f]
      BY <1>1, <3>1, Knows DEF HeldBy
    <3> QED
      BY <3>1, <3>2
  <2>3. CASE DeactivateUpdate(p)
    <3>1. entry' = [active |-> TRUE] /\ pc[p] = "deactivate"
      BY <2>3 DEF DeactivateUpdate, Set
    <3>2. "active" \notin overtaken[p] => fields["active"] = TRUE
      BY <1>1, <3>1, Knows DEF HeldBy
    <3>3. DOMAIN entry' = {"active"} /\ entry'["active"] = TRUE
      BY <3>1
    <3> QED
      BY <3>2, <3>3
  <2>4. CASE UploadUpdate(p)
    <3>1. entry' = req[p].seen /\ pc[p] = "uploadWrite"
      BY <2>4 DEF UploadUpdate, Set
    <3>2. /\ DOMAIN req[p].seen = {"photo"}
          /\ "photo" \notin overtaken[p] => req[p].seen["photo"] = fields["photo"]
      BY <1>1, <3>1, Knows DEF HeldBy
    <3> QED
      BY <3>1, <3>2
  <2> QED
    BY <1>1, <2>1, <2>2, <2>3, <2>4, PushersWrite
<1>2. IInv /\ [Next]_vars => [\A p \in Proc : Pushes(p) =>
          \A f \in DOMAIN entry' \ overtaken[p] : entry'[f] = fields[f]]_vars
  BY <1>1
<1> QED
  BY <1>2, Invariant, PTL DEF Spec, AuditTellsPrevious
=============================================================================
