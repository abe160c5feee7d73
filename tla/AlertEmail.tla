------------------------------ MODULE AlertEmail ------------------------------
(***************************************************************************)
(* Low-attendance alerts: the weekly job of notification.jobs.ts, and      *)
(* checkAndAlert, the email queue with its retries, markAsRead,            *)
(* markAllAsRead and deleteNotification of notification.service.ts.        *)
(*                                                                         *)
(* Every instance of the server runs the job and has an email queue of its *)
(* own in memory; the notifications (MongoDB) and the deduplication keys   *)
(* (Redis) are shared.                                                     *)
(***************************************************************************)
EXTENDS Naturals, Sequences, FiniteSets

CONSTANTS
    Server,         \* instances of the server
    Pair,           \* student-subject pairs
    StudentOf,      \* StudentOf[x]: the student of pair x
    MaxWeeks,       \* bound: how often the job runs on an instance
    Calls,          \* what students do: subset of {"read", "readAll", "delete"}
    Faults          \* subset of {"redis", "db", "email", "crash"}

MAX_EMAIL_ATTEMPTS == 3

ASSUME AlertAssumption ==
    /\ Pair # {}
    /\ MaxWeeks \in Nat
    /\ Calls \subseteq {"read", "readAll", "delete"}
    /\ Faults \subseteq {"redis", "db", "email", "crash"}

VARIABLES
    dedup,      \* dedup[x]: Redis key alert:{student}:{subject}
    notes,      \* the Notification documents, in the order of their creation
    received,   \* received[n]: the emails that reached the student for note n
    weekly,     \* weekly[sv]: the running job
    weeks,      \* weeks[sv]: how often the job has run
    queue,      \* queue[sv]: emailQueue
    processing, \* processing[sv]: isProcessing
    sending,    \* sending[sv]: calls of processEmailQueue that hold a job
    wakeups,    \* wakeups[sv]: setImmediate callbacks that wait to run
    timers,     \* timers[sv]: jobs whose retry timer runs
    calls       \* requests of students in progress

vars == <<dedup, notes, received, weekly, weeks, queue, processing, sending,
          wakeups, timers, calls>>
mailer == <<queue, processing, sending, wakeups, timers>>
store == <<dedup, notes, received>>

-----------------------------------------------------------------------------
\* window: which setting of the key let the note through, 0 if none did.
Note == [pair : Pair, window : Nat, email : {"pending", "sent", "failed"},
         attempts : Nat, read : BOOLEAN, deleted : BOOLEAN]

NewNote(x, w) == [pair |-> x, window |-> w, email |-> "pending",
                  attempts |-> 0, read |-> FALSE, deleted |-> FALSE]

\* on: the key exists; window: how often it has been set.
DedupKey == [on : BOOLEAN, window : Nat]

EmailJob == [note : Nat, attempt : 1 .. MAX_EMAIL_ATTEMPTS]
Sending == [job : EmailJob, pc : {"send", "sent", "dead"}]

\* todo: pairs the job has still to check; "create": pair got through.
Weekly == [todo : SUBSET Pair, pc : {"check", "create"}, pair : Pair, window : Nat]
IdleWeekly == [todo |-> {}, pc |-> "check", pair |-> CHOOSE x \in Pair : TRUE,
               window |-> 0]

Call == [kind : {"read", "delete"}, note : Nat]

Init ==
    /\ dedup = [x \in Pair |-> [on |-> FALSE, window |-> 0]]
    /\ notes = <<>> /\ received = <<>>
    /\ weekly = [sv \in Server |-> IdleWeekly]
    /\ weeks = [sv \in Server |-> 0]
    /\ queue = [sv \in Server |-> <<>>]
    /\ processing = [sv \in Server |-> FALSE]
    /\ sending = [sv \in Server |-> {}]
    /\ wakeups = [sv \in Server |-> 0]
    /\ timers = [sv \in Server |-> {}]
    /\ calls = {}

-----------------------------------------------------------------------------
(* The weekly job and checkAndAlert                                        *)

\* notification.jobs.ts 16-56: the pairs below the threshold.
WeeklyStart(sv) ==
    /\ weekly[sv].todo = {} /\ weeks[sv] < MaxWeeks
    /\ \E todo \in SUBSET Pair \ {{}} :
          weekly' = [weekly EXCEPT ![sv] = [IdleWeekly EXCEPT !.todo = todo]]
    /\ weeks' = [weeks EXCEPT ![sv] = @ + 1]
    /\ UNCHANGED <<store, mailer, calls>>

\* The job goes on with the next pair.
PairDone(sv, x) ==
    weekly' = [weekly EXCEPT ![sv] = [IdleWeekly EXCEPT !.todo = weekly[sv].todo \ {x}]]

PairPasses(sv, x, w) ==
    weekly' = [weekly EXCEPT ![sv] = [@ EXCEPT !.pc = "create", !.pair = x, !.window = w]]

SetKey(x) ==
    dedup' = [dedup EXCEPT ![x] = [on |-> TRUE, window |-> @.window + 1]]

\* Mutant: SET without NX.
AlertDedupNoNX(sv, x) ==
    /\ weekly[sv].pc = "check" /\ x \in weekly[sv].todo
    /\ IF dedup[x].on THEN UNCHANGED dedup ELSE SetKey(x)
    /\ PairPasses(sv, x, IF dedup[x].on THEN dedup[x].window ELSE dedup[x].window + 1)
    /\ UNCHANGED <<notes, received, weeks, mailer, calls>>

\* Mutant: an error suppresses the alert.
AlertDedupFailsClosed(sv, x) ==
    /\ weekly[sv].pc = "check" /\ x \in weekly[sv].todo
    /\ \/ /\ ~ dedup[x].on
          /\ SetKey(x) /\ PairPasses(sv, x, dedup[x].window + 1)
       \/ /\ dedup[x].on \/ "redis" \in Faults
          /\ PairDone(sv, x) /\ UNCHANGED dedup
    /\ UNCHANGED <<notes, received, weeks, mailer, calls>>

\* Lines 131-158: SET NX.  An existing key suppresses the alert, an error lets
\* it through, whether or not the command had reached Redis.
AlertDedup(sv, x) ==
    /\ weekly[sv].pc = "check" /\ x \in weekly[sv].todo
    /\ \/ /\ ~ dedup[x].on
          /\ SetKey(x) /\ PairPasses(sv, x, dedup[x].window + 1)
       \/ /\ dedup[x].on
          /\ PairDone(sv, x) /\ UNCHANGED dedup
       \/ /\ "redis" \in Faults
          /\ PairPasses(sv, x, 0)
          /\ \/ UNCHANGED dedup
             \/ ~ dedup[x].on /\ SetKey(x)
    /\ UNCHANGED <<notes, received, weeks, mailer, calls>>

\* Line 180: the notification document.
CreateNote(sv) ==
    /\ notes' = Append(notes, NewNote(weekly[sv].pair, weekly[sv].window))
    /\ received' = Append(received, 0)

\* Lines 161-172 and 180: a query fails or finds nothing, or the creation
\* rejects, applied or not; the job logs it and goes on, the key stays and a
\* note that was created has no email.
AlertGivesUp(sv) ==
    /\ weekly[sv].pc = "create" /\ "db" \in Faults
    /\ CreateNote(sv) \/ UNCHANGED <<notes, received>>
    /\ PairDone(sv, weekly[sv].pair)
    /\ UNCHANGED <<dedup, weeks, mailer, calls>>

\* Lines 85-88: push, and processEmailQueue (91-96), which takes the job at
\* once, unless a call of it is active.
Enqueue(sv, j) ==
    IF processing[sv]
    THEN /\ queue' = [queue EXCEPT ![sv] = Append(@, j)]
         /\ UNCHANGED <<processing, sending>>
    ELSE /\ queue' = [queue EXCEPT ![sv] = Tail(Append(@, j))]
         /\ processing' = [processing EXCEPT ![sv] = TRUE]
         /\ sending' = [sending EXCEPT ![sv] = @ \union
                          {[job |-> Head(Append(queue[sv], j)), pc |-> "send"]}]

\* Lines 180-206.
AlertCreate(sv) ==
    /\ weekly[sv].pc = "create"
    /\ CreateNote(sv)
    /\ Enqueue(sv, [note |-> Len(notes) + 1, attempt |-> 1])
    /\ PairDone(sv, weekly[sv].pair)
    /\ UNCHANGED <<dedup, weeks, wakeups, timers, calls>>

\* The 24 hours of a key are over.
DedupExpires(x) ==
    /\ dedup[x].on
    /\ dedup' = [dedup EXCEPT ![x].on = FALSE]
    /\ UNCHANGED <<notes, received, weekly, weeks, mailer, calls>>

-----------------------------------------------------------------------------
(* processEmailQueue                                                       *)

\* Mutant: isProcessing is reset before the callback is scheduled.
ReleaseEarly(sv, s) ==
    /\ sending' = [sending EXCEPT ![sv] = @ \ {s}]
    /\ wakeups' = [wakeups EXCEPT ![sv] = @ + 1]
    /\ processing' = [processing EXCEPT ![sv] = FALSE]
    /\ UNCHANGED queue

\* Line 117: the call s ends, the next one is scheduled.
Release(sv, s) ==
    /\ sending' = [sending EXCEPT ![sv] = @ \ {s}]
    /\ wakeups' = [wakeups EXCEPT ![sv] = @ + 1]
    /\ UNCHANGED <<queue, processing>>

\* Mutant: the attempts are not limited.
CatchNoLimit(sv, s) ==
    /\ timers' = [timers EXCEPT ![sv] = @ \union {[s.job EXCEPT !.attempt = @ + 1]}]
    /\ Release(sv, s)

\* Lines 102-115: the next attempt gets a timer (5, then 15 minutes), after
\* the last one the note is to be marked.
Catch(sv, s) ==
    IF s.job.attempt + 1 <= MAX_EMAIL_ATTEMPTS
    THEN /\ timers' = [timers EXCEPT ![sv] = @ \union {[s.job EXCEPT !.attempt = @ + 1]}]
         /\ Release(sv, s)
    ELSE /\ sending' = [sending EXCEPT ![sv] = (@ \ {s}) \union {[s EXCEPT !.pc = "dead"]}]
         /\ UNCHANGED <<queue, processing, wakeups, timers>>

Receive(n) == received' = [received EXCEPT ![n] = @ + 1]

\* Line 96: the provider accepts the email.
SendOk(sv, s) ==
    /\ s.pc = "send"
    /\ Receive(s.job.note)
    /\ sending' = [sending EXCEPT ![sv] = (@ \ {s}) \union {[s EXCEPT !.pc = "sent"]}]
    /\ UNCHANGED <<dedup, notes, weekly, weeks, queue, processing, wakeups, timers, calls>>

\* The provider's call rejects; the email may have gone out all the same.
SendFail(sv, s) ==
    /\ s.pc = "send" /\ "email" \in Faults
    /\ Receive(s.job.note) \/ UNCHANGED received
    /\ Catch(sv, s)
    /\ UNCHANGED <<dedup, notes, weekly, weeks, calls>>

\* Mutant: the update inserts the document if it is gone.
UpdateNoteUpsert(n, doc) == notes' = [notes EXCEPT ![n] = [doc EXCEPT !.deleted = FALSE]]

\* findByIdAndUpdate: nothing happens if the document is gone.
UpdateNote(n, doc) ==
    IF notes[n].deleted THEN UNCHANGED notes ELSE notes' = [notes EXCEPT ![n] = doc]

\* The update of lines 97-100, and that of lines 110-112.
UpdateSent(n) ==
    UpdateNote(n, [notes[n] EXCEPT !.email = "sent", !.attempts = @ + 1])
UpdateDead(n) ==
    UpdateNote(n, [notes[n] EXCEPT !.email = "failed", !.attempts = MAX_EMAIL_ATTEMPTS])

\* Mutant: the email is marked and its job tried once more.
MarkSentAndRetry(sv, s) ==
    /\ s.pc = "sent"
    /\ UpdateSent(s.job.note)
    /\ timers' = [timers EXCEPT ![sv] = @ \union {s.job}]
    /\ Release(sv, s)
    /\ UNCHANGED <<dedup, received, weekly, weeks, calls>>

\* Lines 97-101.
MarkSent(sv, s) ==
    /\ s.pc = "sent"
    /\ UpdateSent(s.job.note)
    /\ Release(sv, s)
    /\ UNCHANGED <<dedup, received, weekly, weeks, timers, calls>>

\* The update of line 97 rejects, inside the same try: the job is retried, also
\* if the update was applied and only its reply lost.
MarkSentFails(sv, s) ==
    /\ s.pc = "sent" /\ "db" \in Faults
    /\ UpdateSent(s.job.note) \/ UNCHANGED notes
    /\ Catch(sv, s)
    /\ UNCHANGED <<dedup, received, weekly, weeks, calls>>

\* Lines 110-113.
MarkDead(sv, s) ==
    /\ s.pc = "dead"
    /\ UpdateDead(s.job.note)
    /\ Release(sv, s)
    /\ UNCHANGED <<dedup, received, weekly, weeks, timers, calls>>

\* Mutant: isProcessing is not reset.
WakeStaysBusy(sv) ==
    /\ wakeups[sv] > 0
    /\ wakeups' = [wakeups EXCEPT ![sv] = @ - 1]
    /\ IF queue[sv] = <<>>
       THEN UNCHANGED <<processing, queue, sending>>
       ELSE /\ queue' = [queue EXCEPT ![sv] = Tail(@)]
            /\ sending' = [sending EXCEPT ![sv] = @ \union
                             {[job |-> Head(queue[sv]), pc |-> "send"]}]
            /\ UNCHANGED processing
    /\ UNCHANGED <<store, weekly, weeks, timers, calls>>

\* Lines 91-93 of the scheduled call.
Wake(sv) ==
    /\ wakeups[sv] > 0
    /\ wakeups' = [wakeups EXCEPT ![sv] = @ - 1]
    /\ IF queue[sv] = <<>>
       THEN /\ processing' = [processing EXCEPT ![sv] = FALSE]
            /\ UNCHANGED <<queue, sending>>
       ELSE /\ processing' = [processing EXCEPT ![sv] = TRUE]
            /\ queue' = [queue EXCEPT ![sv] = Tail(@)]
            /\ sending' = [sending EXCEPT ![sv] = @ \union
                             {[job |-> Head(queue[sv]), pc |-> "send"]}]
    /\ UNCHANGED <<store, weekly, weeks, timers, calls>>

\* Line 108.
TimerFires(sv, j) ==
    /\ j \in timers[sv]
    /\ timers' = [timers EXCEPT ![sv] = @ \ {j}]
    /\ Enqueue(sv, j)
    /\ UNCHANGED <<store, weekly, weeks, wakeups, calls>>

-----------------------------------------------------------------------------
(* The student's requests                                                  *)

\* Lines 229-232 and 246-249: the note is found, and it is the student's.
CallFind(kind, n) ==
    /\ kind \in Calls /\ ~ notes[n].deleted
    /\ calls' = calls \union {[kind |-> kind, note |-> n]}
    /\ UNCHANGED <<store, weekly, weeks, mailer>>

\* Lines 234-236.
MarkAsRead(c) ==
    /\ c.kind = "read"
    /\ UpdateNote(c.note, [notes[c.note] EXCEPT !.read = TRUE])
    /\ calls' = calls \ {c}
    /\ UNCHANGED <<dedup, received, weekly, weeks, mailer>>

\* Line 251.
DeleteNotification(c) ==
    /\ c.kind = "delete"
    /\ notes' = [notes EXCEPT ![c.note].deleted = TRUE]
    /\ calls' = calls \ {c}
    /\ UNCHANGED <<dedup, received, weekly, weeks, mailer>>

\* markAllAsRead, lines 239-244: one updateMany.
MarkAllAsRead(st) ==
    /\ "readAll" \in Calls
    /\ notes' = [n \in DOMAIN notes |->
                   [notes[n] EXCEPT !.read = @ \/ (StudentOf[notes[n].pair] = st
                                                    /\ ~ notes[n].deleted)]]
    /\ UNCHANGED <<dedup, received, weekly, weeks, mailer, calls>>

-----------------------------------------------------------------------------
\* Instance sv dies: its queue, its timers and its job are lost.
Dies(sv) ==
    /\ weekly' = [weekly EXCEPT ![sv] = IdleWeekly]
    /\ queue' = [queue EXCEPT ![sv] = <<>>]
    /\ processing' = [processing EXCEPT ![sv] = FALSE]
    /\ sending' = [sending EXCEPT ![sv] = {}]
    /\ wakeups' = [wakeups EXCEPT ![sv] = 0]
    /\ timers' = [timers EXCEPT ![sv] = {}]
    /\ UNCHANGED <<dedup, received, weeks, calls>>

Crash(sv) == "crash" \in Faults /\ Dies(sv) /\ UNCHANGED notes

\* The update of line 110 rejects, applied or not: nobody catches it, which
\* ends the process.
MarkDeadFails(sv, s) ==
    /\ s.pc = "dead" /\ "db" \in Faults
    /\ UpdateDead(s.job.note) \/ UNCHANGED notes
    /\ Dies(sv)

\* What the email queue of sv does next.
Deliver(sv) ==
    \/ \E s \in sending[sv] :
          \/ SendOk(sv, s) \/ SendFail(sv, s)
          \/ MarkSent(sv, s) \/ MarkSentFails(sv, s)
          \/ MarkDead(sv, s) \/ MarkDeadFails(sv, s)
    \/ Wake(sv)

Alert(sv) ==
    \/ WeeklyStart(sv)
    \/ \E x \in Pair : AlertDedup(sv, x)
    \/ AlertGivesUp(sv)
    \/ AlertCreate(sv)

Student ==
    \/ \E kind \in {"read", "delete"}, n \in DOMAIN notes : CallFind(kind, n)
    \/ \E c \in calls : MarkAsRead(c) \/ DeleteNotification(c)
    \/ \E x \in Pair : MarkAllAsRead(StudentOf[x])

Next ==
    \/ \E sv \in Server :
          \/ Alert(sv)
          \/ Deliver(sv)
          \/ \E j \in timers[sv] : TimerFires(sv, j)
          \/ Crash(sv)
    \/ \E x \in Pair : DedupExpires(x)
    \/ Student

Spec == Init /\ [][Next]_vars

\* The event loop runs what is ready, the provider answers in one way or the
\* other, and timers fire.
MaxNotes == MaxWeeks * Cardinality(Server) * Cardinality(Pair)
Fairness ==
    \A sv \in Server :
        /\ WF_vars(Deliver(sv))
        /\ \A n \in 1 .. MaxNotes, k \in 1 .. MAX_EMAIL_ATTEMPTS :
              WF_vars(TimerFires(sv, [note |-> n, attempt |-> k]))

FairSpec == Spec /\ Fairness

-----------------------------------------------------------------------------
(* Properties                                                              *)

\* Type invariant.  No document has more than MAX_EMAIL_ATTEMPTS attempts
\* (PBT-NOTIF-03), whatever was counted by whom.
TypeOK ==
    /\ dedup \in [Pair -> DedupKey]
    /\ notes \in Seq(Note)
    /\ \A n \in DOMAIN notes : notes[n].attempts <= MAX_EMAIL_ATTEMPTS
    /\ received \in Seq(Nat) /\ Len(received) = Len(notes)
    /\ weekly \in [Server -> Weekly]
    /\ weeks \in [Server -> 0 .. MaxWeeks]
    /\ queue \in [Server -> Seq(EmailJob)]
    /\ processing \in [Server -> BOOLEAN]
    /\ sending \in [Server -> SUBSET Sending]
    /\ wakeups \in [Server -> Nat]
    /\ timers \in [Server -> SUBSET EmailJob]
    /\ calls \subseteq Call

\* Where note n waits for an email: in a queue, in a call, on a timer.
Waiting(n) ==
    UNION {     {<<sv, "queue", i>> : i \in {i \in DOMAIN queue[sv] : queue[sv][i].note = n}}
         \union {<<sv, "call", s>> : s \in {s \in sending[sv] : s.job.note = n}}
         \union {<<sv, "timer", j>> : j \in {j \in timers[sv] : j.note = n}}
           : sv \in Server}

\* isProcessing keeps to one email at a time on an instance: it is set exactly
\* while one call holds a job or one callback waits to run, also when a timer
\* or an alert enqueues between a call and its callback.
OneEmailAtATime ==
    \A sv \in Server :
        Cardinality(sending[sv]) + wakeups[sv] = IF processing[sv] THEN 1 ELSE 0

\* The attempts that server sv has still to make or to have marked as sent.
ToMake(sv) ==
    {queue[sv][i] : i \in DOMAIN queue[sv]} \union timers[sv]
        \union {s.job : s \in {s \in sending[sv] : s.pc # "dead"}}

\* No attempt is made twice: a note has never two jobs in flight, on one
\* instance or on two, none once it is marked failed, and a job that follows a
\* "sent" is a later attempt than the document counts.  There is such a job
\* only if the update that wrote "sent" had looked like a failure.
AttemptsRunOnce ==
    \A n \in DOMAIN notes :
        /\ Cardinality(Waiting(n)) <= 1
        /\ notes[n].email = "failed" => Waiting(n) = {}
        /\ \A sv \in Server : \A j \in ToMake(sv) :
              j.note = n => notes[n].attempts < j.attempt

\* A student gets at most three emails for a note, and at least one if it says
\* so, although the provider's error may follow a delivery and the update of
\* the note may fail after it.
EmailsAreCounted ==
    \A n \in DOMAIN notes :
        /\ received[n] <= MAX_EMAIL_ATTEMPTS
        /\ notes[n].email = "sent" => received[n] >= 1

\* Between two settings of a deduplication key at most one note is created for
\* its pair, by all instances together (PBT-NOTIF-02); notes let through by a
\* Redis error are not counted.
OneNotePerWindow ==
    \A m, n \in DOMAIN notes :
        /\ m # n /\ notes[m].pair = notes[n].pair
        /\ notes[m].window = notes[n].window
        => notes[m].window = 0

\* The emails that server sv has in hand, and those whose call is at l.
EmailsOf(sv) ==
    {queue[sv][i] : i \in DOMAIN queue[sv]} \union {s.job : s \in sending[sv]}
        \union timers[sv]
EmailsAt(l) == UNION {{s.job : s \in {s \in sending[sv] : s.pc = l}} : sv \in Server}

\* The servers together implement the ladder of attempts: no email is at two
\* attempts, on one server or on two, an attempt that settled its note is not
\* followed by another unless its update looked like a failure, none follows
\* one that was lost, and each attempt ends once.
Ladder == INSTANCE EmailLadder WITH
    MaxAttempts <- MAX_EMAIL_ATTEMPTS,
    status <- [n \in DOMAIN notes |-> notes[n].email],
    gone <- {n \in DOMAIN notes : notes[n].deleted},
    climbing <- UNION {EmailsOf(sv) : sv \in Server},
    accepted <- EmailsAt("sent"), hopeless <- EmailsAt("dead")

ImplementsLadder == Ladder!LadderSpec

\* Without crashes, a pair that the job finds below the threshold is passed
\* over only if its key is there: a Redis error lets the alert through.
OnlyAKeySuppresses ==
    [][\A sv \in Server, x \in Pair :
          /\ weekly[sv].pc = "check"
          /\ x \in weekly[sv].todo /\ x \notin weekly'[sv].todo
          => dedup[x].on]_vars

\* What a student did to a note lasts: the mailer's updates, which run for
\* hours after the creation, neither restore a deleted note nor reset one.
StudentCallsLast ==
    [][\A n \in DOMAIN notes :
          /\ notes[n].deleted => notes'[n] = notes[n]
          /\ notes[n].read => notes'[n].read]_vars

\* Every email is settled: sent, or failed after its attempts, unless the
\* student deletes the note.
EmailsSettle ==
    \A n \in 1 .. MaxNotes :
        (n \in DOMAIN notes) ~>
            (n \in DOMAIN notes /\ (notes[n].deleted \/ notes[n].email # "pending"))
===============================================================================
