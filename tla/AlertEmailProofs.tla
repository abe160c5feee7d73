--------------------------- MODULE AlertEmailProofs ---------------------------
(***************************************************************************)
(* Theorems about AlertEmail, for any servers, pairs, weeks and failures.  *)
(*                                                                         *)
(* The inductive invariant has four parts: what the documents say of their *)
(* emails (NotesFine), where the jobs of each server are and what they     *)
(* know of their notes (MailFine), that no two servers have jobs for one   *)
(* note (JobsDisjoint), and which settings of the deduplication keys are   *)
(* still to be used (WindowsFine).                                         *)
(*                                                                         *)
(* The last section shows that the mail queues of all servers implement    *)
(* EmailLadder.                                                            *)
(***************************************************************************)
EXTENDS AlertEmail, FiniteSetTheorems, SequenceTheorems, TLAPS

USE AlertAssumption

-----------------------------------------------------------------------------
(* The invariant.                                                          *)

\* No document counts more attempts than there are, none was received more
\* often, and one that says "sent" was received.
NotesFine(nts, rcv) ==
  /\ nts \in Seq(Note) /\ rcv \in Seq(Nat) /\ Len(rcv) = Len(nts)
  /\ \A n \in DOMAIN nts :
        /\ nts[n].attempts <= MAX_EMAIL_ATTEMPTS /\ rcv[n] <= MAX_EMAIL_ATTEMPTS
        /\ nts[n].email = "sent" => rcv[n] >= 1

\* What the note of a job may say: "sent" only where a failing update may have
\* been applied.
Unfinished == {"pending"} \union (IF "db" \in Faults THEN {"sent"} ELSE {})

\* A job that waits for its attempt: its note was received once for each
\* earlier attempt at most, and does not count the attempt.
Unsent(j, nts, rcv) ==
  /\ j.note \in DOMAIN nts /\ nts[j.note].email \in Unfinished
  /\ rcv[j.note] < j.attempt /\ nts[j.note].attempts < j.attempt

\* A job that a call of processEmailQueue holds.
Underway(s, nts, rcv) ==
  /\ s.job.note \in DOMAIN nts /\ nts[s.job.note].email \in Unfinished
  /\ s.pc # "dead" => nts[s.job.note].attempts < s.job.attempt
  /\ s.pc = "send" => rcv[s.job.note] < s.job.attempt
  /\ s.pc = "sent" => rcv[s.job.note] >= 1 /\ rcv[s.job.note] <= s.job.attempt

\* isProcessing stands for one call or one callback, and without either the
\* queue is empty.
OneCall(q, busy, calling, w) ==
  \/ ~ busy /\ calling = {} /\ w = 0 /\ q = <<>>
  \/ busy /\ calling = {} /\ w = 1
  \/ busy /\ w = 0 /\ \E s \in Sending : calling = {s}

\* No two jobs of a server are for the same note.
Apart(q, calling, tms) ==
  /\ \A i, k \in DOMAIN q : q[i].note = q[k].note => i = k
  /\ \A i \in DOMAIN q, s \in calling : q[i].note # s.job.note
  /\ \A i \in DOMAIN q, j \in tms : q[i].note # j.note
  /\ \A s \in calling, j \in tms : s.job.note # j.note
  /\ \A j, k \in tms : j.note = k.note => j = k

JobsFine(q, calling, tms, nts, rcv) ==
  /\ \A i \in DOMAIN q : Unsent(q[i], nts, rcv)
  /\ \A s \in calling : Underway(s, nts, rcv)
  /\ \A j \in tms : Unsent(j, nts, rcv)

MailFine ==
  \A sv \in Server :
     /\ OneCall(queue[sv], processing[sv], sending[sv], wakeups[sv])
     /\ Apart(queue[sv], sending[sv], timers[sv])
     /\ JobsFine(queue[sv], sending[sv], timers[sv], notes, received)

\* The notes for which a server has jobs.
NotesOf(q, calling, tms) ==
  {q[i].note : i \in DOMAIN q} \union {s.job.note : s \in calling} \union {j.note : j \in tms}

JobsDisjoint ==
  \A sv, tv \in Server :
     sv # tv => NotesOf(queue[sv], sending[sv], timers[sv])
                  \intersect NotesOf(queue[tv], sending[tv], timers[tv]) = {}

\* A setting of a key is used by one note, or is still to be used by one job.
Unused(x, w) == \A n \in DOMAIN notes : notes[n].pair = x => notes[n].window # w

WindowsFine ==
  /\ \A n \in DOMAIN notes : notes[n].window <= dedup[notes[n].pair].window
  /\ OneNotePerWindow
  /\ \A sv \in Server : weekly[sv].pc = "create" =>
        /\ weekly[sv].window <= dedup[weekly[sv].pair].window
        /\ weekly[sv].window # 0 => Unused(weekly[sv].pair, weekly[sv].window)
        /\ \A tv \in Server :
              /\ tv # sv /\ weekly[tv].pc = "create" /\ weekly[tv].pair = weekly[sv].pair
              /\ weekly[tv].window = weekly[sv].window
              => weekly[sv].window = 0

CallsFine == \A c \in calls : c.note \in DOMAIN notes

IInv == TypeOK /\ NotesFine(notes, received) /\ MailFine /\ JobsDisjoint
          /\ WindowsFine /\ CallsFine

-----------------------------------------------------------------------------
(* Cells, sequences and records.                                           *)

\* One cell of an array over the servers changes.
LEMMA OneCell ==
  ASSUME NEW S, NEW f \in [Server -> S], NEW sv \in Server, NEW v \in S
  PROVE  /\ [f EXCEPT ![sv] = v] \in [Server -> S]
         /\ [f EXCEPT ![sv] = v][sv] = v
         /\ \A tv \in Server : tv # sv => [f EXCEPT ![sv] = v][tv] = f[tv]
         /\ [f EXCEPT ![sv] = f[sv]] = f
  OBVIOUS

\* Appending keeps the elements and adds one at the end.
LEMMA Appended ==
  ASSUME NEW S, NEW q \in Seq(S), NEW j \in S
  PROVE  /\ Append(q, j) \in Seq(S) /\ Len(Append(q, j)) = Len(q) + 1
         /\ DOMAIN Append(q, j) = DOMAIN q \union {Len(q) + 1}
         /\ Len(q) + 1 \notin DOMAIN q
         /\ Append(q, j)[Len(q) + 1] = j
         /\ \A i \in DOMAIN q : Append(q, j)[i] = q[i]
  OBVIOUS

\* What one takes from a queue and what it leaves.
LEMMA Taken ==
  ASSUME NEW S, NEW q \in Seq(S), q # <<>>
  PROVE  /\ Head(q) \in S /\ Tail(q) \in Seq(S)
         /\ 1 \in DOMAIN q /\ Head(q) = q[1]
         /\ \A i \in DOMAIN Tail(q) : i + 1 \in DOMAIN q /\ i + 1 # 1 /\ Tail(q)[i] = q[i + 1]
  OBVIOUS

\* A job that finds nobody at work is taken at once.
LEMMA TakenAtOnce ==
  ASSUME NEW j
  PROVE  Head(Append(<<>>, j)) = j /\ Tail(Append(<<>>, j)) = <<>>
  OBVIOUS

\* The next attempt of a job.
LEMMA NextAttempt ==
  ASSUME NEW j \in EmailJob, j.attempt + 1 <= MAX_EMAIL_ATTEMPTS
  PROVE  /\ [j EXCEPT !.attempt = @ + 1] \in EmailJob
         /\ [j EXCEPT !.attempt = @ + 1].note = j.note
         /\ [j EXCEPT !.attempt = @ + 1].attempt = j.attempt + 1
  BY DEF EmailJob, MAX_EMAIL_ATTEMPTS

\* The next await of a call.
LEMMA NextAwait ==
  ASSUME NEW s \in Sending, NEW step \in {"send", "sent", "dead"}
  PROVE  /\ [s EXCEPT !.pc = step] \in Sending
         /\ [s EXCEPT !.pc = step].job = s.job /\ [s EXCEPT !.pc = step].pc = step
  BY DEF Sending

\* The parts of a job and of a call.
LEMMA JobParts ==
  /\ \A j \in EmailJob : j.note \in Nat /\ j.attempt \in Nat /\ j.attempt >= 1 /\ j.attempt <= MAX_EMAIL_ATTEMPTS
  /\ \A s \in Sending : s.job \in EmailJob /\ s.pc \in {"send", "sent", "dead"}
  BY DEF EmailJob, Sending, MAX_EMAIL_ATTEMPTS

\* A job that is between two pairs.
LEMMA IdleIsWeekly ==
  /\ IdleWeekly \in Weekly
  /\ \A todo \in SUBSET Pair : /\ [IdleWeekly EXCEPT !.todo = todo] \in Weekly
                               /\ [IdleWeekly EXCEPT !.todo = todo].pc = "check"
                               /\ [IdleWeekly EXCEPT !.todo = todo].todo = todo
<1>1. (CHOOSE x \in Pair : TRUE) \in Pair
  OBVIOUS
<1> QED
  BY <1>1 DEF IdleWeekly, Weekly

\* The invariant holds at the start.
LEMMA InitOK == Init => IInv
<1> SUFFICES ASSUME Init PROVE IInv
  OBVIOUS
<1>1. notes = <<>> /\ received = <<>> /\ calls = {}
  BY DEF Init
<1>2. TypeOK
  BY IdleIsWeekly DEF Init, TypeOK, DedupKey
<1>3. NotesFine(notes, received) /\ CallsFine
  BY <1>1 DEF NotesFine, CallsFine
<1>4. MailFine
  BY DEF Init, MailFine, OneCall, Apart, JobsFine
<1>5. JobsDisjoint
  BY DEF Init, JobsDisjoint, NotesOf
<1>6. WindowsFine
  BY <1>1, IdleIsWeekly DEF Init, WindowsFine, OneNotePerWindow, IdleWeekly
<1> QED
  BY <1>2, <1>3, <1>4, <1>5, <1>6 DEF IInv

-----------------------------------------------------------------------------
(* The mail of one server.                                                 *)

MailOf(sv, q, busy, calling, w, tms) ==
  /\ queue' = [queue EXCEPT ![sv] = q]
  /\ processing' = [processing EXCEPT ![sv] = busy]
  /\ sending' = [sending EXCEPT ![sv] = calling]
  /\ wakeups' = [wakeups EXCEPT ![sv] = w]
  /\ timers' = [timers EXCEPT ![sv] = tms]

MailTyped ==
  /\ queue \in [Server -> Seq(EmailJob)]
  /\ processing \in [Server -> BOOLEAN]
  /\ sending \in [Server -> SUBSET Sending]
  /\ wakeups \in [Server -> Nat]
  /\ timers \in [Server -> SUBSET EmailJob]

\* Note n is there, told and received as before.
Kept(n) ==
  /\ n \in DOMAIN notes' /\ notes'[n].email = notes[n].email
  /\ notes'[n].attempts = notes[n].attempts /\ received'[n] = received[n]

USE DEF Kept

\* Jobs for other notes do not notice what happens to a note.
LEMMA OtherJobsFine ==
  ASSUME NEW q, NEW calling, NEW tms, NEW nts, NEW rcv, NEW now, NEW got,
         JobsFine(q, calling, tms, nts, rcv),
         \A n \in NotesOf(q, calling, tms) :
            n \in DOMAIN nts => /\ n \in DOMAIN now /\ now[n].email = nts[n].email
                                /\ now[n].attempts = nts[n].attempts /\ got[n] = rcv[n]
  PROVE  JobsFine(q, calling, tms, now, got)
  BY DEF JobsFine, NotesOf, Unsent, Underway

\* If a step moves the jobs of one server, takes up new notes at most, and
\* touches only notes of its own, the mail of all servers stays in order.
LEMMA MailMoves ==
  ASSUME IInv, NEW sv \in Server,
         NEW q \in Seq(EmailJob), NEW busy \in BOOLEAN, NEW calling \in SUBSET Sending,
         NEW w \in Nat, NEW tms \in SUBSET EmailJob, MailOf(sv, q, busy, calling, w, tms),
         OneCall(q, busy, calling, w), Apart(q, calling, tms),
         JobsFine(q, calling, tms, notes', received'),
         \A n \in NotesOf(q, calling, tms) :
            n \in DOMAIN notes => n \in NotesOf(queue[sv], sending[sv], timers[sv]),
         \A n \in DOMAIN notes :
            \/ n \in NotesOf(queue[sv], sending[sv], timers[sv])
            \/ Kept(n)
  PROVE  MailTyped' /\ MailFine' /\ JobsDisjoint'
<1> DEFINE Of(tv) == NotesOf(queue[tv], sending[tv], timers[tv])
<1>1. MailTyped
  BY DEF IInv, TypeOK, MailTyped
<1>2. MailTyped'
  BY <1>1, OneCell DEF MailOf, MailTyped
<1>3. /\ queue'[sv] = q /\ processing'[sv] = busy /\ sending'[sv] = calling
      /\ wakeups'[sv] = w /\ timers'[sv] = tms
  BY <1>1 DEF MailOf, MailTyped
<1>4. \A tv \in Server : tv # sv =>
         /\ queue'[tv] = queue[tv] /\ processing'[tv] = processing[tv] /\ sending'[tv] = sending[tv]
         /\ wakeups'[tv] = wakeups[tv] /\ timers'[tv] = timers[tv]
  BY <1>1 DEF MailOf, MailTyped
<1>5. \A tv \in Server : Of(tv) \subseteq DOMAIN notes
  BY DEF IInv, MailFine, JobsFine, NotesOf, Unsent, Underway
<1>6. \A tv, uv \in Server : tv # uv => Of(tv) \intersect Of(uv) = {}
  BY DEF IInv, JobsDisjoint
<1>7. MailFine'
  <2> SUFFICES ASSUME NEW tv \in Server
               PROVE  /\ OneCall(queue'[tv], processing'[tv], sending'[tv], wakeups'[tv])
                      /\ Apart(queue'[tv], sending'[tv], timers'[tv])
                      /\ JobsFine(queue'[tv], sending'[tv], timers'[tv], notes', received')
    BY DEF MailFine
  <2>1. CASE tv = sv
    BY <2>1, <1>3
  <2>2. CASE tv # sv
    <3>1. /\ OneCall(queue[tv], processing[tv], sending[tv], wakeups[tv])
          /\ Apart(queue[tv], sending[tv], timers[tv])
          /\ JobsFine(queue[tv], sending[tv], timers[tv], notes, received)
      BY DEF IInv, MailFine
    <3>2. \A n \in Of(tv) : n \notin Of(sv)
      BY <2>2, <1>6
    <3>3. \A n \in Of(tv) : n \in DOMAIN notes =>
             Kept(n)
      BY <3>2
    <3>4. JobsFine(queue[tv], sending[tv], timers[tv], notes', received')
      BY <3>1, <3>3, OtherJobsFine
    <3> QED
      BY <2>2, <3>1, <3>4, <1>4
  <2> QED
    BY <2>1, <2>2
<1>8. JobsDisjoint'
  <2>1. \A tv \in Server : tv # sv => Of(tv)' = Of(tv)
    BY <1>4
  <2>2. Of(sv)' = NotesOf(q, calling, tms)
    BY <1>3
  <2>3. \A tv \in Server : tv # sv => NotesOf(q, calling, tms) \intersect Of(tv) = {}
    BY <1>5, <1>6
  <2>4. \A tv, uv \in Server : tv # uv => Of(tv)' \intersect Of(uv)' = {}
    <3> HIDE DEF Of
    <3> QED
      BY <2>1, <2>2, <2>3, <1>6
  <2> QED
    BY <2>4 DEF JobsDisjoint
<1> QED
  BY <1>2, <1>7, <1>8

\* Nothing moves, and the notes keep their status.
LEMMA MailStays ==
  ASSUME IInv, UNCHANGED mailer,
         \A n \in DOMAIN notes : Kept(n)
  PROVE  MailTyped' /\ MailFine' /\ JobsDisjoint'
<1>1. /\ queue' = queue /\ processing' = processing /\ sending' = sending
      /\ wakeups' = wakeups /\ timers' = timers
  BY DEF mailer
<1>2. MailTyped' /\ JobsDisjoint'
  BY <1>1 DEF IInv, TypeOK, MailTyped, JobsDisjoint
<1>3. MailFine'
  <2> SUFFICES ASSUME NEW sv \in Server
               PROVE  /\ OneCall(queue[sv], processing[sv], sending[sv], wakeups[sv])
                      /\ Apart(queue[sv], sending[sv], timers[sv])
                      /\ JobsFine(queue[sv], sending[sv], timers[sv], notes', received')
    BY <1>1 DEF MailFine
  <2>1. /\ OneCall(queue[sv], processing[sv], sending[sv], wakeups[sv])
        /\ Apart(queue[sv], sending[sv], timers[sv])
        /\ JobsFine(queue[sv], sending[sv], timers[sv], notes, received)
    BY DEF IInv, MailFine
  <2> QED
    BY <2>1, OtherJobsFine
<1> QED
  BY <1>2, <1>3

\* The mail of one server.
LEMMA MailKnown ==
  ASSUME IInv, NEW sv \in Server
  PROVE  /\ queue[sv] \in Seq(EmailJob) /\ processing[sv] \in BOOLEAN /\ sending[sv] \in SUBSET Sending
         /\ wakeups[sv] \in Nat /\ timers[sv] \in SUBSET EmailJob
         /\ OneCall(queue[sv], processing[sv], sending[sv], wakeups[sv])
         /\ Apart(queue[sv], sending[sv], timers[sv])
         /\ JobsFine(queue[sv], sending[sv], timers[sv], notes, received)
  BY DEF IInv, TypeOK, MailFine

\* While a call holds a job the server is busy with it alone.
LEMMA Alone ==
  ASSUME IInv, NEW sv \in Server, NEW s \in sending[sv]
  PROVE  /\ s \in Sending /\ s.job \in EmailJob /\ sending[sv] = {s}
         /\ processing[sv] = TRUE /\ wakeups[sv] = 0
         /\ Underway(s, notes, received)
<1>1. sending[sv] \in SUBSET Sending /\ JobsFine(queue[sv], sending[sv], timers[sv], notes, received)
  BY MailKnown
<1>2. OneCall(queue[sv], processing[sv], sending[sv], wakeups[sv]) /\ processing[sv] \in BOOLEAN
  BY MailKnown
<1>3. sending[sv] = {s} /\ processing[sv] = TRUE /\ wakeups[sv] = 0
  BY <1>2 DEF OneCall
<1> QED
  BY <1>1, <1>3, JobParts DEF JobsFine

\* A call that holds a job goes on with it, leaves it to a timer or is done with
\* it; other notes do not change.
LEMMA CallMoves ==
  ASSUME IInv, NEW sv \in Server, NEW s \in sending[sv],
         \A n \in DOMAIN notes : n # s.job.note =>
            Kept(n),
         \/ \E t \in Sending : /\ MailOf(sv, queue[sv], TRUE, {t}, 0, timers[sv])
                               /\ t.job = s.job /\ Underway(t, notes', received')
         \/ \E j \in EmailJob : /\ MailOf(sv, queue[sv], TRUE, {}, 1, timers[sv] \union {j})
                                /\ j.note = s.job.note /\ Unsent(j, notes', received')
         \/ MailOf(sv, queue[sv], TRUE, {}, 1, timers[sv])
  PROVE  MailTyped' /\ MailFine' /\ JobsDisjoint'
<1> DEFINE q == queue[sv]
           tms == timers[sv]
<1>1. sending[sv] = {s} /\ s \in Sending
  BY Alone
<1>2. /\ q \in Seq(EmailJob) /\ tms \in SUBSET EmailJob
      /\ Apart(q, {s}, tms) /\ JobsFine(q, {s}, tms, notes, received)
  BY <1>1, MailKnown
<1>3. s.job.note \in NotesOf(q, {s}, tms)
  BY DEF NotesOf
<1>4. NotesOf(q, {s}, tms) = NotesOf(queue[sv], sending[sv], timers[sv])
  BY <1>1
<1> HIDE DEF q, tms
<1>5. Apart(q, {}, tms) /\ JobsFine(q, {}, tms, notes', received')
  <2>1. Apart(q, {}, tms) /\ JobsFine(q, {}, tms, notes, received)
    BY <1>2 DEF Apart, JobsFine
  <2>2. \A n \in NotesOf(q, {}, tms) : n # s.job.note
    BY <1>2 DEF Apart, NotesOf
  <2>3. \A n \in NotesOf(q, {}, tms) : n \in DOMAIN notes =>
           Kept(n)
    BY <2>2
  <2> QED
    BY <2>1, <2>3, OtherJobsFine
<1>6. \A n \in DOMAIN notes :
         \/ n \in NotesOf(queue[sv], sending[sv], timers[sv])
         \/ Kept(n)
  BY <1>3, <1>4
<1>7. ASSUME NEW t \in Sending, MailOf(sv, q, TRUE, {t}, 0, tms),
             t.job = s.job, Underway(t, notes', received')
      PROVE  MailTyped' /\ MailFine' /\ JobsDisjoint'
  <2>1. OneCall(q, TRUE, {t}, 0) /\ {t} \in SUBSET Sending /\ 0 \in Nat /\ TRUE \in BOOLEAN
    BY DEF OneCall
  <2>2. Apart(q, {t}, tms)
    BY <1>2, <1>7 DEF Apart
  <2>3. JobsFine(q, {t}, tms, notes', received')
    BY <1>5, <1>7 DEF JobsFine
  <2>4. NotesOf(q, {t}, tms) = NotesOf(q, {s}, tms)
    BY <1>7 DEF NotesOf
  <2> QED
    BY <1>2, <1>4, <1>6, <1>7, <2>1, <2>2, <2>3, <2>4, MailMoves
<1>8. ASSUME NEW j \in EmailJob, MailOf(sv, q, TRUE, {}, 1, tms \union {j}),
             j.note = s.job.note, Unsent(j, notes', received')
      PROVE  MailTyped' /\ MailFine' /\ JobsDisjoint'
  <2>1. OneCall(q, TRUE, {}, 1) /\ {} \in SUBSET Sending /\ 1 \in Nat /\ TRUE \in BOOLEAN
    BY DEF OneCall
  <2>2. Apart(q, {}, tms \union {j})
    BY <1>2, <1>8 DEF Apart
  <2>3. JobsFine(q, {}, tms \union {j}, notes', received')
    BY <1>5, <1>8 DEF JobsFine
  <2>4. NotesOf(q, {}, tms \union {j}) \subseteq NotesOf(q, {s}, tms)
    BY <1>8 DEF NotesOf
  <2>5. tms \union {j} \in SUBSET EmailJob
    BY <1>2
  <2> QED
    BY <1>2, <1>4, <1>6, <1>8, <2>1, <2>2, <2>3, <2>4, <2>5, MailMoves
<1>9. ASSUME MailOf(sv, q, TRUE, {}, 1, tms)
      PROVE  MailTyped' /\ MailFine' /\ JobsDisjoint'
  <2>1. OneCall(q, TRUE, {}, 1) /\ {} \in SUBSET Sending /\ 1 \in Nat /\ TRUE \in BOOLEAN
    BY DEF OneCall
  <2>2. NotesOf(q, {}, tms) \subseteq NotesOf(q, {s}, tms)
    BY DEF NotesOf
  <2> QED
    BY <1>2, <1>4, <1>5, <1>6, <1>9, <2>1, <2>2, MailMoves
<1> QED
  BY <1>7, <1>8, <1>9 DEF q, tms

\* A server takes up a job for a note that it has not got otherwise.
LEMMA EnqueueMoves ==
  ASSUME IInv, NEW sv \in Server, NEW j \in EmailJob, NEW tms \in SUBSET timers[sv],
         Enqueue(sv, j), wakeups' = wakeups, timers' = [timers EXCEPT ![sv] = tms],
         j.note \notin NotesOf(queue[sv], sending[sv], tms),
         j.note \in DOMAIN notes => j.note \in NotesOf(queue[sv], sending[sv], timers[sv]),
         Unsent(j, notes', received'),
         \A n \in DOMAIN notes :
            Kept(n)
  PROVE  MailTyped' /\ MailFine' /\ JobsDisjoint'
<1> DEFINE q == queue[sv]
           calling == sending[sv]
           old == NotesOf(queue[sv], sending[sv], timers[sv])
<1>1. /\ q \in Seq(EmailJob) /\ processing[sv] \in BOOLEAN /\ calling \in SUBSET Sending
      /\ wakeups[sv] \in Nat /\ timers[sv] \in SUBSET EmailJob
      /\ OneCall(q, processing[sv], calling, wakeups[sv])
      /\ Apart(q, calling, timers[sv]) /\ JobsFine(q, calling, timers[sv], notes, received)
  BY MailKnown
<1>2. /\ processing = [processing EXCEPT ![sv] = processing[sv]]
      /\ sending = [sending EXCEPT ![sv] = sending[sv]]
      /\ wakeups = [wakeups EXCEPT ![sv] = wakeups[sv]]
  BY OneCell DEF IInv, TypeOK
<1> HIDE DEF q, calling
<1>3. Apart(q, calling, tms) /\ JobsFine(q, calling, tms, notes', received')
  <2>1. Apart(q, calling, tms) /\ JobsFine(q, calling, tms, notes, received)
    BY <1>1 DEF Apart, JobsFine
  <2> QED
    BY <2>1, OtherJobsFine
<1>4. NotesOf(q, calling, tms) \subseteq old
  BY DEF NotesOf, q, calling
<1>5. tms \in SUBSET EmailJob
  BY <1>1
<1>6. /\ \A i \in DOMAIN q : q[i].note # j.note
      /\ \A s \in calling : s.job.note # j.note
      /\ \A k \in tms : k.note # j.note
  BY DEF NotesOf, q, calling
<1>7. CASE processing[sv]
  <2> DEFINE now == Append(q, j)
  <2>1. MailOf(sv, now, processing[sv], calling, wakeups[sv], tms)
    BY <1>2, <1>7 DEF Enqueue, MailOf, q, calling
  <2>2. /\ now \in Seq(EmailJob) /\ DOMAIN now = DOMAIN q \union {Len(q) + 1}
        /\ Len(q) + 1 \notin DOMAIN q /\ now[Len(q) + 1] = j
        /\ \A i \in DOMAIN q : now[i] = q[i]
    BY <1>1, Appended
  <2>3. OneCall(now, processing[sv], calling, wakeups[sv])
    BY <1>1, <1>7 DEF OneCall
  <2> HIDE DEF now
  <2>4. Apart(now, calling, tms)
    BY <1>3, <1>6, <2>2 DEF Apart
  <2>5. JobsFine(now, calling, tms, notes', received')
    BY <1>3, <2>2 DEF JobsFine
  <2>6. \A n \in NotesOf(now, calling, tms) : n \in NotesOf(q, calling, tms) \/ n = j.note
    BY <2>2 DEF NotesOf
  <2>7. \A n \in NotesOf(now, calling, tms) : n \in DOMAIN notes => n \in old
    BY <1>4, <2>6
  <2> QED
    BY <1>1, <1>5, <2>1, <2>2, <2>3, <2>4, <2>5, <2>7, MailMoves
<1>8. CASE ~ processing[sv]
  <2> DEFINE s == [job |-> j, pc |-> "send"]
  <2>1. q = <<>> /\ calling = {} /\ wakeups[sv] = 0
    BY <1>1, <1>8 DEF OneCall
  <2>2. s \in Sending /\ s.job = j /\ s.pc = "send"
    BY DEF Sending
  <2>3. MailOf(sv, q, TRUE, {s}, wakeups[sv], tms)
    <3>1. queue' = [queue EXCEPT ![sv] = q] /\ sending' = [sending EXCEPT ![sv] = {s}]
      BY <1>8, <2>1, TakenAtOnce DEF Enqueue, q, calling
    <3>2. processing' = [processing EXCEPT ![sv] = TRUE]
      BY <1>8 DEF Enqueue
    <3> QED
      BY <1>2, <3>1, <3>2 DEF MailOf
  <2> HIDE DEF s
  <2>4. OneCall(q, TRUE, {s}, wakeups[sv])
    BY <2>1, <2>2 DEF OneCall
  <2>5. Apart(q, {s}, tms)
    BY <1>3, <1>6, <2>2 DEF Apart
  <2>6. JobsFine(q, {s}, tms, notes', received')
    BY <1>3, <2>2 DEF JobsFine, Underway, Unsent
  <2>7. \A n \in NotesOf(q, {s}, tms) : n \in NotesOf(q, calling, tms) \/ n = j.note
    BY <2>2 DEF NotesOf
  <2>8. \A n \in NotesOf(q, {s}, tms) : n \in DOMAIN notes => n \in old
    BY <1>4, <2>7
  <2>9. {s} \in SUBSET Sending /\ TRUE \in BOOLEAN
    BY <2>2
  <2> QED
    BY <1>1, <1>5, <2>3, <2>4, <2>5, <2>6, <2>8, <2>9, MailMoves
<1> QED
  BY <1>7, <1>8

-----------------------------------------------------------------------------
(* The documents and the keys.                                             *)

\* What is neither a document nor mail.
RestTyped ==
  /\ dedup \in [Pair -> DedupKey]
  /\ weekly \in [Server -> Weekly]
  /\ weeks \in [Server -> 0 .. MaxWeeks]
  /\ calls \subseteq Call

\* The parts make the type invariant, and the invariant gives the parts.
LEMMA Parts ==
  /\ IInv => RestTyped /\ MailTyped
  /\ RestTyped' /\ MailTyped' /\ NotesFine(notes, received)' => TypeOK'
  BY DEF IInv, TypeOK, RestTyped, MailTyped, NotesFine

\* A note keeps what it is about and only changes its status.
Same(n, nts, now) == now[n].pair = nts[n].pair /\ now[n].window = nts[n].window

\* If no key is set back, no job comes to a creation and no note is added, the
\* settings stay in order.
LEMMA WindowsStay ==
  ASSUME IInv, DOMAIN notes' = DOMAIN notes, \A n \in DOMAIN notes : Same(n, notes, notes'),
         \A x \in Pair : dedup'[x].window = dedup[x].window,
         \A sv \in Server : weekly'[sv].pc = "create" => weekly'[sv] = weekly[sv]
  PROVE  WindowsFine'
<1>1. \A n \in DOMAIN notes : notes[n].pair \in Pair
  <2>1. \A n \in DOMAIN notes : notes[n] \in Note
    BY DEF IInv, TypeOK
  <2> QED
    BY <2>1 DEF Note
<1>2. \A sv \in Server : weekly[sv].pair \in Pair
  BY DEF IInv, TypeOK, Weekly
<1>3. (\A n \in DOMAIN notes : notes[n].window <= dedup[notes[n].pair].window)'
  BY <1>1 DEF IInv, WindowsFine, Same
<1>4. OneNotePerWindow'
  BY DEF IInv, WindowsFine, OneNotePerWindow, Same
<1>5. \A x, w : Unused(x, w) => Unused(x, w)'
  BY DEF Unused, Same
<1>6. ASSUME NEW sv \in Server, weekly'[sv].pc = "create"
      PROVE  /\ weekly'[sv].window <= dedup'[weekly'[sv].pair].window
             /\ weekly'[sv].window # 0 => Unused(weekly[sv].pair, weekly[sv].window)'
             /\ \A tv \in Server :
                   /\ tv # sv /\ weekly'[tv].pc = "create" /\ weekly'[tv].pair = weekly'[sv].pair
                   /\ weekly'[tv].window = weekly'[sv].window
                   => weekly'[sv].window = 0
  BY <1>2, <1>5, <1>6 DEF IInv, WindowsFine
<1> QED
  BY <1>3, <1>4, <1>6 DEF WindowsFine

\* findByIdAndUpdate changes one note, to the given document, or none.
LEMMA Updates ==
  ASSUME NEW n \in DOMAIN notes, notes \in Seq(Note), NEW doc \in Note, UpdateNote(n, doc)
  PROVE  /\ notes' \in Seq(Note) /\ DOMAIN notes' = DOMAIN notes /\ Len(notes') = Len(notes)
         /\ notes'[n] \in {notes[n], doc}
         /\ notes[n].deleted => notes'[n] = notes[n]
         /\ \A m \in DOMAIN notes : m # n => notes'[m] = notes[m]
  BY DEF UpdateNote

\* The documents that the code puts in the place of a document.
LEMMA NewDocuments ==
  ASSUME NEW nt \in Note
  PROVE  /\ \A e \in {"sent", "failed"} :
               /\ [nt EXCEPT !.email = e, !.attempts = @ + 1] \in Note
               /\ [nt EXCEPT !.email = e, !.attempts = MAX_EMAIL_ATTEMPTS] \in Note
         /\ \A b \in BOOLEAN : [nt EXCEPT !.read = b] \in Note /\ [nt EXCEPT !.deleted = b] \in Note
         /\ nt.read \in BOOLEAN /\ nt.attempts \in Nat /\ nt.window \in Nat
<1>1. nt.read \in BOOLEAN /\ nt.attempts \in Nat /\ nt.window \in Nat /\ nt.attempts + 1 \in Nat
  BY DEF Note
<1>2. ASSUME NEW e \in {"pending", "sent", "failed"}, NEW a \in Nat
      PROVE  [nt EXCEPT !.email = e, !.attempts = a] \in Note
  BY DEF Note
<1>3. \A b \in BOOLEAN : [nt EXCEPT !.read = b] \in Note /\ [nt EXCEPT !.deleted = b] \in Note
  BY DEF Note
<1>4. MAX_EMAIL_ATTEMPTS \in Nat
  BY DEF MAX_EMAIL_ATTEMPTS
<1> QED
  BY <1>1, <1>2, <1>3, <1>4

\* One note is received once more.
LEMMA Receives ==
  ASSUME NotesFine(notes, received), NEW n \in DOMAIN notes,
         Receive(n) \/ UNCHANGED received, received[n] < MAX_EMAIL_ATTEMPTS, notes' = notes
  PROVE  /\ NotesFine(notes, received)'
         /\ received'[n] \in {received[n], received[n] + 1} /\ received[n] \in Nat
         /\ Receive(n) => received'[n] = received[n] + 1
         /\ \A m \in DOMAIN notes : m # n => received'[m] = received[m]
<1>1. received \in Seq(Nat) /\ Len(received) = Len(notes) /\ DOMAIN received = DOMAIN notes
  BY DEF NotesFine
<1>2. CASE UNCHANGED received
  <2>1. ~ Receive(n)
    BY <1>1, <1>2 DEF Receive
  <2> QED
    BY <1>1, <1>2, <2>1
<1>3. CASE Receive(n)
  <2>1. /\ received' \in Seq(Nat) /\ Len(received') = Len(received)
        /\ received'[n] = received[n] + 1 /\ received[n] \in Nat
        /\ \A m \in DOMAIN notes : m # n => received'[m] = received[m]
    BY <1>1, <1>3 DEF Receive
  <2>2. \A m \in DOMAIN notes :
           received'[m] <= MAX_EMAIL_ATTEMPTS /\ (notes[m].email = "sent" => received'[m] >= 1)
    <3>1. \A m \in DOMAIN notes :
             /\ received[m] \in Nat /\ received[m] <= MAX_EMAIL_ATTEMPTS
             /\ notes[m].email = "sent" => received[m] >= 1
      BY <1>1 DEF NotesFine
    <3> QED
      BY <2>1, <3>1 DEF MAX_EMAIL_ATTEMPTS
  <2> QED
    BY <1>1, <2>1, <2>2 DEF NotesFine
<1> QED
  BY <1>2, <1>3

-----------------------------------------------------------------------------
(* The steps of a call of processEmailQueue.                               *)

\* What a step of a call leaves to show once the mail is in order.
LEMMA CallStep ==
  ASSUME IInv, MailTyped', MailFine', JobsDisjoint', NotesFine(notes, received)',
         DOMAIN notes' = DOMAIN notes, \A n \in DOMAIN notes : Same(n, notes, notes'),
         UNCHANGED <<dedup, weekly, weeks, calls>>
  PROVE  IInv'
<1>1. RestTyped' /\ CallsFine'
  BY DEF IInv, TypeOK, RestTyped, CallsFine
<1>2. WindowsFine'
  BY WindowsStay
<1> QED
  BY <1>1, <1>2, Parts DEF IInv

\* What the mailer of a server is made of.
LEMMA Cells ==
  ASSUME IInv, NEW sv \in Server
  PROVE  /\ queue = [queue EXCEPT ![sv] = queue[sv]]
         /\ processing = [processing EXCEPT ![sv] = processing[sv]]
         /\ sending = [sending EXCEPT ![sv] = sending[sv]]
         /\ wakeups = [wakeups EXCEPT ![sv] = wakeups[sv]]
         /\ timers = [timers EXCEPT ![sv] = timers[sv]]
  BY OneCell DEF IInv, TypeOK

\* The call ends and leaves one callback.
LEMMA Released ==
  ASSUME IInv, NEW sv \in Server, NEW s \in sending[sv], Release(sv, s)
  PROVE  sending' = [sending EXCEPT ![sv] = {}] /\ wakeups' = [wakeups EXCEPT ![sv] = 1]
<1>1. sending[sv] \ {s} = {} /\ wakeups[sv] + 1 = 1
  <2>1. sending[sv] = {s} /\ wakeups[sv] = 0
    BY Alone
  <2> QED
    BY <2>1
<1>2. /\ sending' = [sending EXCEPT ![sv] = sending[sv] \ {s}]
      /\ wakeups' = [wakeups EXCEPT ![sv] = wakeups[sv] + 1]
  BY DEF Release
<1> QED
  BY <1>1, <1>2

\* The provider accepts the email.
LEMMA SendOkKeeps == ASSUME IInv, NEW sv \in Server, NEW s \in sending[sv], SendOk(sv, s) PROVE IInv'
<1> DEFINE n == s.job.note
           t == [s EXCEPT !.pc = "sent"]
<1>1. /\ s.pc = "send" /\ Receive(n)
      /\ sending' = [sending EXCEPT ![sv] = (sending[sv] \ {s}) \union {t}]
      /\ UNCHANGED <<dedup, notes, weekly, weeks, queue, processing, wakeups, timers, calls>>
  BY DEF SendOk
<1>2. /\ s \in Sending /\ sending[sv] = {s} /\ processing[sv] = TRUE /\ wakeups[sv] = 0
      /\ Underway(s, notes, received) /\ s.job \in EmailJob
  BY Alone
<1>3. t \in Sending /\ t.job = s.job /\ t.pc = "sent"
  BY <1>2, NextAwait
<1>4. /\ n \in DOMAIN notes /\ notes[n].email \in Unfinished /\ received[n] < s.job.attempt
      /\ notes[n].attempts < s.job.attempt
      /\ s.job.attempt \in Nat /\ s.job.attempt <= MAX_EMAIL_ATTEMPTS /\ received[n] \in Nat
  BY <1>1, <1>2, JobParts DEF Underway, IInv, NotesFine
<1>5. received[n] < MAX_EMAIL_ATTEMPTS
  BY <1>4 DEF MAX_EMAIL_ATTEMPTS
<1>6. /\ NotesFine(notes, received)' /\ received'[n] = received[n] + 1
      /\ \A m \in DOMAIN notes : m # n => received'[m] = received[m]
  BY <1>1, <1>4, <1>5, Receives DEF IInv
<1>7. Underway(t, notes', received')
  BY <1>1, <1>3, <1>4, <1>6 DEF Underway
<1>8. MailOf(sv, queue[sv], TRUE, {t}, 0, timers[sv])
  <2>1. sending' = [sending EXCEPT ![sv] = {t}]
    BY <1>1, <1>2
  <2> QED
    BY <1>1, <1>2, <2>1, Cells DEF MailOf
<1>9. MailTyped' /\ MailFine' /\ JobsDisjoint'
  <2> HIDE DEF t
  <2> QED
    BY <1>1, <1>3, <1>6, <1>7, <1>8, CallMoves
<1>10. DOMAIN notes' = DOMAIN notes /\ \A m \in DOMAIN notes : Same(m, notes, notes')
  BY <1>1 DEF Same
<1> QED
  BY <1>1, <1>6, <1>9, <1>10, CallStep

\* A rejected attempt gets a timer or is to be marked; in both cases the job
\* knows how often its note can have been received.
LEMMA CatchMoves ==
  ASSUME IInv, NEW sv \in Server, NEW s \in sending[sv], Catch(sv, s),
         s.job.note \in DOMAIN notes', notes'[s.job.note].email \in Unfinished,
         notes'[s.job.note].attempts \in Nat, notes'[s.job.note].attempts <= s.job.attempt,
         received'[s.job.note] \in Nat, received'[s.job.note] <= s.job.attempt,
         \A n \in DOMAIN notes : n # s.job.note => Kept(n)
  PROVE  MailTyped' /\ MailFine' /\ JobsDisjoint'
<1> DEFINE next == [s.job EXCEPT !.attempt = @ + 1]
           dead == [s EXCEPT !.pc = "dead"]
<1>1. /\ s \in Sending /\ s.job \in EmailJob /\ sending[sv] = {s}
      /\ processing[sv] = TRUE /\ wakeups[sv] = 0 /\ Underway(s, notes, received)
  BY Alone
<1>2. s.job.note \in DOMAIN notes /\ s.job.attempt \in Nat
  BY <1>1, JobParts DEF Underway
<1>3. CASE s.job.attempt + 1 <= MAX_EMAIL_ATTEMPTS
  <2>1. next \in EmailJob /\ next.note = s.job.note /\ next.attempt = s.job.attempt + 1
    BY <1>1, <1>3, NextAttempt
  <2>2. timers' = [timers EXCEPT ![sv] = timers[sv] \union {next}] /\ Release(sv, s)
    BY <1>3 DEF Catch
  <2> HIDE DEF next
  <2>3. Unsent(next, notes', received')
    BY <1>2, <2>1 DEF Unsent
  <2>4. sending' = [sending EXCEPT ![sv] = {}] /\ wakeups' = [wakeups EXCEPT ![sv] = 1]
    BY <2>2, Released
  <2>5. MailOf(sv, queue[sv], TRUE, {}, 1, timers[sv] \union {next})
    BY <1>1, <2>2, <2>4, Cells DEF MailOf, Release
  <2> QED
    BY <2>1, <2>3, <2>5, CallMoves
<1>4. CASE ~ (s.job.attempt + 1 <= MAX_EMAIL_ATTEMPTS)
  <2>1. dead \in Sending /\ dead.job = s.job /\ dead.pc = "dead"
    BY <1>1, NextAwait
  <2>2. /\ sending' = [sending EXCEPT ![sv] = (sending[sv] \ {s}) \union {dead}]
        /\ UNCHANGED <<queue, processing, wakeups, timers>>
    BY <1>4 DEF Catch
  <2> HIDE DEF dead
  <2>3. Underway(dead, notes', received')
    BY <1>2, <2>1 DEF Underway
  <2>4. sending' = [sending EXCEPT ![sv] = {dead}]
    BY <1>1, <2>2
  <2>5. MailOf(sv, queue[sv], TRUE, {dead}, 0, timers[sv])
    BY <1>1, <2>2, <2>4, Cells DEF MailOf
  <2> QED
    BY <2>1, <2>3, <2>5, CallMoves
<1> QED
  BY <1>3, <1>4

\* The provider's call rejects, with or without having delivered.
LEMMA SendFailKeeps == ASSUME IInv, NEW sv \in Server, NEW s \in sending[sv], SendFail(sv, s) PROVE IInv'
<1> DEFINE n == s.job.note
<1>1. /\ s.pc = "send" /\ (Receive(n) \/ UNCHANGED received) /\ Catch(sv, s)
      /\ UNCHANGED <<dedup, notes, weekly, weeks, calls>>
  BY DEF SendFail
<1>2. s \in Sending /\ Underway(s, notes, received) /\ s.job \in EmailJob
  BY Alone
<1>3. /\ n \in DOMAIN notes /\ received[n] < s.job.attempt
      /\ s.job.attempt \in Nat /\ s.job.attempt <= MAX_EMAIL_ATTEMPTS /\ received[n] \in Nat
  BY <1>1, <1>2, JobParts DEF Underway, IInv, NotesFine
<1>4. received[n] < MAX_EMAIL_ATTEMPTS
  BY <1>3 DEF MAX_EMAIL_ATTEMPTS
<1>5. /\ NotesFine(notes, received)' /\ received'[n] \in {received[n], received[n] + 1}
      /\ \A m \in DOMAIN notes : m # n => received'[m] = received[m]
  BY <1>1, <1>3, <1>4, Receives DEF IInv
<1>6. received'[n] \in Nat /\ received'[n] <= s.job.attempt
  BY <1>3, <1>5
<1>7. /\ n \in DOMAIN notes' /\ notes'[n].email \in Unfinished
      /\ notes'[n].attempts \in Nat /\ notes'[n].attempts <= s.job.attempt
  <2>1. notes[n] \in Note
    BY <1>3 DEF IInv, NotesFine
  <2>2. notes[n].attempts \in Nat
    BY <2>1, NewDocuments
  <2>3. notes[n].email \in Unfinished /\ notes[n].attempts < s.job.attempt
    BY <1>1, <1>2 DEF Underway
  <2> QED
    BY <1>1, <1>3, <2>2, <2>3
<1>8. \A m \in DOMAIN notes : m # n => Kept(m)
  BY <1>1, <1>5
<1>9. MailTyped' /\ MailFine' /\ JobsDisjoint'
  BY <1>1, <1>6, <1>7, <1>8, CatchMoves
<1>10. DOMAIN notes' = DOMAIN notes /\ \A m \in DOMAIN notes : Same(m, notes, notes')
  BY <1>1 DEF Same
<1> QED
  BY <1>1, <1>5, <1>9, <1>10, CallStep

\* An update of the document that a call writes, applied or not.
LEMMA NoteTold ==
  ASSUME IInv, NEW n \in DOMAIN notes, NEW doc \in Note,
         UpdateNote(n, doc) \/ notes' = notes, received' = received,
         doc.pair = notes[n].pair, doc.window = notes[n].window,
         doc.attempts <= MAX_EMAIL_ATTEMPTS, doc.email = "sent" => received[n] >= 1
  PROVE  /\ NotesFine(notes, received)' /\ DOMAIN notes' = DOMAIN notes
         /\ \A m \in DOMAIN notes : Same(m, notes, notes')
         /\ notes'[n] \in {notes[n], doc}
         /\ \A m \in DOMAIN notes : m # n => Kept(m)
<1>1. notes \in Seq(Note)
  BY DEF IInv, NotesFine
<1>2. /\ notes' \in Seq(Note) /\ DOMAIN notes' = DOMAIN notes /\ Len(notes') = Len(notes)
      /\ notes'[n] \in {notes[n], doc}
      /\ \A m \in DOMAIN notes : m # n => notes'[m] = notes[m]
  BY <1>1, Updates
<1>3. Same(n, notes, notes')
  BY <1>2 DEF Same
<1>4. \A m \in DOMAIN notes : Same(m, notes, notes')
  BY <1>2, <1>3 DEF Same
<1>5. NotesFine(notes, received)'
  BY <1>2 DEF IInv, NotesFine
<1> QED
  BY <1>2, <1>4, <1>5

\* The document that says "sent".
LEMMA SentDocument ==
  ASSUME IInv, NEW sv \in Server, NEW s \in sending[sv], s.pc = "sent"
  PROVE  LET n == s.job.note
             doc == [notes[n] EXCEPT !.email = "sent", !.attempts = @ + 1]
         IN  /\ n \in DOMAIN notes /\ doc \in Note /\ received[n] >= 1
             /\ doc.email = "sent" /\ doc.attempts \in Nat
             /\ doc.attempts <= s.job.attempt /\ doc.attempts <= MAX_EMAIL_ATTEMPTS
             /\ doc.pair = notes[n].pair /\ doc.window = notes[n].window
<1> DEFINE n == s.job.note
           doc == [notes[n] EXCEPT !.email = "sent", !.attempts = @ + 1]
<1>1. /\ n \in DOMAIN notes /\ received[n] >= 1 /\ notes[n].attempts < s.job.attempt
      /\ s.job.attempt \in Nat /\ s.job.attempt <= MAX_EMAIL_ATTEMPTS
  BY Alone, JobParts DEF Underway
<1>2. notes[n] \in Note /\ notes[n].attempts \in Nat
  <2>1. notes[n] \in Note
    BY <1>1 DEF IInv, NotesFine
  <2> QED
    BY <2>1, NewDocuments
<1>3. doc \in Note
  BY <1>2, NewDocuments
<1>4. /\ doc.email = "sent" /\ doc.attempts = notes[n].attempts + 1
      /\ doc.pair = notes[n].pair /\ doc.window = notes[n].window
  BY <1>2 DEF Note
<1> QED
  BY <1>1, <1>2, <1>3, <1>4 DEF MAX_EMAIL_ATTEMPTS

\* The document that says "failed".
LEMMA DeadDocument ==
  ASSUME IInv, NEW sv \in Server, NEW s \in sending[sv]
  PROVE  LET n == s.job.note
             doc == [notes[n] EXCEPT !.email = "failed", !.attempts = MAX_EMAIL_ATTEMPTS]
         IN  /\ n \in DOMAIN notes /\ doc \in Note
             /\ doc.email = "failed" /\ doc.attempts <= MAX_EMAIL_ATTEMPTS
             /\ doc.pair = notes[n].pair /\ doc.window = notes[n].window
<1> DEFINE n == s.job.note
           doc == [notes[n] EXCEPT !.email = "failed", !.attempts = MAX_EMAIL_ATTEMPTS]
<1>1. n \in DOMAIN notes
  BY Alone DEF Underway
<1>2. notes[n] \in Note
  BY <1>1 DEF IInv, NotesFine
<1>3. doc \in Note
  BY <1>2, NewDocuments
<1>4. /\ doc.email = "failed" /\ doc.attempts = MAX_EMAIL_ATTEMPTS
      /\ doc.pair = notes[n].pair /\ doc.window = notes[n].window
  BY <1>2 DEF Note
<1> QED
  BY <1>1, <1>3, <1>4 DEF MAX_EMAIL_ATTEMPTS

\* The update after an accepted email rejects, applied or not.
LEMMA MarkSentFailsKeeps ==
  ASSUME IInv, NEW sv \in Server, NEW s \in sending[sv], MarkSentFails(sv, s)
  PROVE  IInv'
<1> DEFINE n == s.job.note
           doc == [notes[n] EXCEPT !.email = "sent", !.attempts = @ + 1]
<1>1. /\ s.pc = "sent" /\ "db" \in Faults /\ Catch(sv, s)
      /\ UpdateNote(n, doc) \/ notes' = notes
      /\ UNCHANGED <<dedup, received, weekly, weeks, calls>>
  BY DEF MarkSentFails, UpdateSent
<1>2. /\ n \in DOMAIN notes /\ doc \in Note /\ received[n] >= 1
      /\ doc.email = "sent" /\ doc.attempts \in Nat
      /\ doc.attempts <= s.job.attempt /\ doc.attempts <= MAX_EMAIL_ATTEMPTS
      /\ doc.pair = notes[n].pair /\ doc.window = notes[n].window
  BY <1>1, SentDocument
<1> HIDE DEF doc
<1>3. /\ NotesFine(notes, received)' /\ DOMAIN notes' = DOMAIN notes
      /\ \A m \in DOMAIN notes : Same(m, notes, notes')
      /\ notes'[n] \in {notes[n], doc}
      /\ \A m \in DOMAIN notes : m # n => Kept(m)
  BY <1>1, <1>2, NoteTold
<1>4. Underway(s, notes, received) /\ s.job.attempt \in Nat
  BY Alone, JobParts
<1>5. notes[n].email \in Unfinished /\ notes[n].attempts \in Nat /\ notes[n].attempts <= s.job.attempt
  <2>1. notes[n] \in Note
    BY <1>2 DEF IInv, NotesFine
  <2>2. notes[n].attempts \in Nat
    BY <2>1, NewDocuments
  <2>3. notes[n].email \in Unfinished /\ notes[n].attempts < s.job.attempt
    BY <1>1, <1>4 DEF Underway
  <2> QED
    BY <1>4, <2>2, <2>3
<1>6. /\ notes'[n].email \in Unfinished
      /\ notes'[n].attempts \in Nat /\ notes'[n].attempts <= s.job.attempt
  BY <1>1, <1>2, <1>3, <1>5 DEF Unfinished
<1>7. received'[n] <= s.job.attempt /\ received'[n] \in Nat
  BY <1>1, <1>4 DEF Underway, IInv, NotesFine
<1>8. MailTyped' /\ MailFine' /\ JobsDisjoint'
  BY <1>1, <1>2, <1>3, <1>6, <1>7, CatchMoves
<1> QED
  BY <1>1, <1>3, <1>8, CallStep

\* The end of a call that settles its note.
LEMMA SettledKeeps ==
  ASSUME IInv, NEW sv \in Server, NEW s \in sending[sv], NEW doc \in Note,
         UpdateNote(s.job.note, doc), Release(sv, s),
         doc.pair = notes[s.job.note].pair, doc.window = notes[s.job.note].window,
         doc.attempts <= MAX_EMAIL_ATTEMPTS, doc.email = "sent" => received[s.job.note] >= 1,
         UNCHANGED <<dedup, received, weekly, weeks, timers, calls>>
  PROVE  IInv'
<1>1. processing[sv] = TRUE /\ Underway(s, notes, received)
  BY Alone
<1>2. /\ NotesFine(notes, received)' /\ DOMAIN notes' = DOMAIN notes
      /\ \A m \in DOMAIN notes : Same(m, notes, notes')
      /\ \A m \in DOMAIN notes : m # s.job.note => Kept(m)
  BY <1>1, NoteTold DEF Underway
<1>3. MailOf(sv, queue[sv], TRUE, {}, 1, timers[sv])
  <2>1. sending' = [sending EXCEPT ![sv] = {}] /\ wakeups' = [wakeups EXCEPT ![sv] = 1]
    BY Released
  <2> QED
    BY <1>1, <2>1, Cells DEF MailOf, Release
<1>4. MailTyped' /\ MailFine' /\ JobsDisjoint'
  BY <1>2, <1>3, CallMoves
<1> QED
  BY <1>2, <1>4, CallStep

\* An accepted email is marked.
LEMMA MarkSentKeeps == ASSUME IInv, NEW sv \in Server, NEW s \in sending[sv], MarkSent(sv, s) PROVE IInv'
<1> DEFINE n == s.job.note
           doc == [notes[n] EXCEPT !.email = "sent", !.attempts = @ + 1]
<1>1. /\ s.pc = "sent" /\ UpdateNote(n, doc) /\ Release(sv, s)
      /\ UNCHANGED <<dedup, received, weekly, weeks, timers, calls>>
  BY DEF MarkSent, UpdateSent
<1>2. /\ doc \in Note /\ received[n] >= 1 /\ doc.attempts <= MAX_EMAIL_ATTEMPTS
      /\ doc.pair = notes[n].pair /\ doc.window = notes[n].window
  BY <1>1, SentDocument
<1> HIDE DEF doc
<1> QED
  BY <1>1, <1>2, SettledKeeps

\* An email that was rejected three times is marked.
LEMMA MarkDeadKeeps == ASSUME IInv, NEW sv \in Server, NEW s \in sending[sv], MarkDead(sv, s) PROVE IInv'
<1> DEFINE n == s.job.note
           doc == [notes[n] EXCEPT !.email = "failed", !.attempts = MAX_EMAIL_ATTEMPTS]
<1>1. /\ UpdateNote(n, doc) /\ Release(sv, s)
      /\ UNCHANGED <<dedup, received, weekly, weeks, timers, calls>>
  BY DEF MarkDead, UpdateDead
<1>2. /\ doc \in Note /\ doc.email = "failed" /\ doc.attempts <= MAX_EMAIL_ATTEMPTS
      /\ doc.pair = notes[n].pair /\ doc.window = notes[n].window
  BY DeadDocument
<1> HIDE DEF doc
<1> QED
  BY <1>1, <1>2, SettledKeeps

-----------------------------------------------------------------------------
(* Callbacks, timers and the end of a server.                              *)

\* The callback takes the next job or sets isProcessing back.
LEMMA WakeKeeps == ASSUME IInv, NEW sv \in Server, Wake(sv) PROVE IInv'
<1> DEFINE q == queue[sv]
           tms == timers[sv]
<1>1. /\ wakeups[sv] > 0 /\ wakeups' = [wakeups EXCEPT ![sv] = wakeups[sv] - 1]
      /\ UNCHANGED <<store, weekly, weeks, timers, calls>>
  BY DEF Wake
<1>2. /\ q \in Seq(EmailJob) /\ tms \in SUBSET EmailJob /\ wakeups[sv] \in Nat
      /\ OneCall(q, processing[sv], sending[sv], wakeups[sv])
      /\ Apart(q, sending[sv], tms) /\ JobsFine(q, sending[sv], tms, notes, received)
  BY MailKnown
<1>3. sending[sv] = {} /\ wakeups[sv] = 1
  BY <1>1, <1>2 DEF OneCall
<1>4. wakeups' = [wakeups EXCEPT ![sv] = 0]
  BY <1>1, <1>3
<1>5. dedup' = dedup /\ notes' = notes /\ received' = received
  BY <1>1 DEF store
<1>6. \A n \in DOMAIN notes :
         Kept(n)
  BY <1>5
<1> HIDE DEF q
<1>7. ASSUME q = <<>> PROVE MailTyped' /\ MailFine' /\ JobsDisjoint'
  <2>1. processing' = [processing EXCEPT ![sv] = FALSE] /\ UNCHANGED <<queue, sending>>
    BY <1>7 DEF Wake, q
  <2>2. MailOf(sv, q, FALSE, {}, 0, tms)
    BY <1>1, <1>3, <1>4, <2>1, Cells DEF MailOf, q
  <2>3. OneCall(q, FALSE, {}, 0) /\ FALSE \in BOOLEAN /\ 0 \in Nat /\ {} \in SUBSET Sending
    BY <1>7 DEF OneCall
  <2>4. Apart(q, {}, tms) /\ JobsFine(q, {}, tms, notes', received')
    BY <1>2, <1>3, <1>5
  <2>5. NotesOf(q, {}, tms) = NotesOf(queue[sv], sending[sv], timers[sv])
    BY <1>3 DEF q
  <2> QED
    BY <1>2, <1>6, <2>2, <2>3, <2>4, <2>5, MailMoves
<1>8. ASSUME q # <<>> PROVE MailTyped' /\ MailFine' /\ JobsDisjoint'
  <2> DEFINE rest == Tail(q)
             s == [job |-> Head(q), pc |-> "send"]
  <2>1. /\ processing' = [processing EXCEPT ![sv] = TRUE]
        /\ queue' = [queue EXCEPT ![sv] = Tail(queue[sv])]
        /\ sending' = [sending EXCEPT ![sv] = sending[sv] \union {s}]
    BY <1>8 DEF Wake, q
  <2>2. sending[sv] \union {s} = {s}
    BY <1>3
  <2>3. MailOf(sv, rest, TRUE, {s}, 0, tms)
    BY <1>1, <1>4, <2>1, <2>2, Cells DEF MailOf, q
  <2>4. /\ Head(q) \in EmailJob /\ rest \in Seq(EmailJob) /\ 1 \in DOMAIN q /\ Head(q) = q[1]
        /\ \A i \in DOMAIN rest : i + 1 \in DOMAIN q /\ i + 1 # 1 /\ rest[i] = q[i + 1]
    BY <1>2, <1>8, Taken
  <2>5. \A i \in DOMAIN rest : i \in Nat
    BY <2>4
  <2>6. s \in Sending /\ s.job = q[1] /\ s.pc = "send"
    BY <2>4 DEF Sending
  <2> HIDE DEF rest, s
  <2>7. OneCall(rest, TRUE, {s}, 0) /\ TRUE \in BOOLEAN /\ 0 \in Nat /\ {s} \in SUBSET Sending
    BY <2>6 DEF OneCall
  <2>8. Apart(rest, {s}, tms)
    <3>1. \A i, k \in DOMAIN rest : rest[i].note = rest[k].note => i = k
      BY <1>2, <2>4, <2>5 DEF Apart
    <3>2. \A i \in DOMAIN rest : rest[i].note # s.job.note
      BY <1>2, <2>4, <2>6 DEF Apart
    <3> QED
      BY <1>2, <2>4, <2>6, <3>1, <3>2 DEF Apart
  <2>9. JobsFine(rest, {s}, tms, notes', received')
    BY <1>2, <1>5, <2>4, <2>6 DEF JobsFine, Underway, Unsent
  <2>10. NotesOf(rest, {s}, tms) \subseteq NotesOf(queue[sv], sending[sv], timers[sv])
    <3>1. \A i \in DOMAIN rest : rest[i].note \in {q[k].note : k \in DOMAIN q}
      BY <2>4
    <3>2. s.job.note \in {q[k].note : k \in DOMAIN q}
      BY <2>4, <2>6
    <3> QED
      BY <3>1, <3>2 DEF NotesOf, q
  <2> QED
    BY <1>2, <1>6, <2>3, <2>4, <2>7, <2>8, <2>9, <2>10, MailMoves
<1>9. MailTyped' /\ MailFine' /\ JobsDisjoint'
  BY <1>7, <1>8
<1>10. DOMAIN notes' = DOMAIN notes /\ \A m \in DOMAIN notes : Same(m, notes, notes')
  BY <1>5 DEF Same
<1>11. NotesFine(notes, received)'
  BY <1>5 DEF IInv
<1> QED
  BY <1>1, <1>5, <1>9, <1>10, <1>11, CallStep

\* A retry timer fires: the job's note has no other job.
LEMMA TimerFiresKeeps ==
  ASSUME IInv, NEW sv \in Server, NEW j \in timers[sv], TimerFires(sv, j)
  PROVE  IInv'
<1> DEFINE tms == timers[sv] \ {j}
<1>1. /\ timers' = [timers EXCEPT ![sv] = tms] /\ Enqueue(sv, j)
      /\ UNCHANGED <<store, weekly, weeks, wakeups, calls>>
  BY DEF TimerFires
<1>2. dedup' = dedup /\ notes' = notes /\ received' = received
  BY <1>1 DEF store
<1>3. /\ timers[sv] \in SUBSET EmailJob /\ Apart(queue[sv], sending[sv], timers[sv])
      /\ JobsFine(queue[sv], sending[sv], timers[sv], notes, received)
  BY MailKnown
<1>4. /\ j \in EmailJob /\ tms \in SUBSET timers[sv] /\ Unsent(j, notes', received')
      /\ j.note \in NotesOf(queue[sv], sending[sv], timers[sv])
  BY <1>2, <1>3 DEF JobsFine, NotesOf
<1>5. j.note \notin NotesOf(queue[sv], sending[sv], tms)
  BY <1>3 DEF Apart, NotesOf
<1>6. \A n \in DOMAIN notes :
         Kept(n)
  BY <1>2
<1> HIDE DEF tms
<1>7. MailTyped' /\ MailFine' /\ JobsDisjoint'
  BY <1>1, <1>4, <1>5, <1>6, EnqueueMoves
<1>8. DOMAIN notes' = DOMAIN notes /\ \A m \in DOMAIN notes : Same(m, notes, notes')
  BY <1>2 DEF Same
<1>9. NotesFine(notes, received)'
  BY <1>2 DEF IInv
<1> QED
  BY <1>1, <1>2, <1>7, <1>8, <1>9, CallStep

\* A server that dies has no mail and no job.
LEMMA DiesKeeps ==
  ASSUME IInv, NEW sv \in Server, Dies(sv), NotesFine(notes, received)',
         DOMAIN notes' = DOMAIN notes, \A n \in DOMAIN notes : Same(n, notes, notes'),
         \A n \in DOMAIN notes :
            n \in NotesOf(queue[sv], sending[sv], timers[sv]) \/ Kept(n)
  PROVE  IInv'
<1>1. /\ weekly' = [weekly EXCEPT ![sv] = IdleWeekly]
      /\ MailOf(sv, <<>>, FALSE, {}, 0, {}) /\ UNCHANGED <<dedup, received, weeks, calls>>
  BY DEF Dies, MailOf
<1>2. dedup' = dedup /\ received' = received
  BY <1>1
<1>3. OneCall(<<>>, FALSE, {}, 0) /\ Apart(<<>>, {}, {}) /\ JobsFine(<<>>, {}, {}, notes', received')
  BY DEF OneCall, Apart, JobsFine
<1>4. /\ <<>> \in Seq(EmailJob) /\ FALSE \in BOOLEAN /\ {} \in SUBSET Sending /\ 0 \in Nat
      /\ {} \in SUBSET EmailJob /\ NotesOf(<<>>, {}, {}) = {}
  BY DEF NotesOf
<1>6. MailTyped' /\ MailFine' /\ JobsDisjoint'
  BY <1>1, <1>3, <1>4, MailMoves
<1>7. weekly \in [Server -> Weekly]
  BY DEF IInv, TypeOK
<1>8. /\ weekly' \in [Server -> Weekly]
      /\ \A tv \in Server : weekly'[tv].pc = "create" => weekly'[tv] = weekly[tv]
  BY <1>1, <1>7, IdleIsWeekly, OneCell DEF IdleWeekly
<1>9. WindowsFine'
  BY <1>2, <1>8, WindowsStay
<1>10. RestTyped' /\ CallsFine'
  BY <1>1, <1>8 DEF IInv, TypeOK, RestTyped, CallsFine
<1> QED
  BY <1>6, <1>9, <1>10, Parts DEF IInv

\* The server crashes.
LEMMA CrashKeeps == ASSUME IInv, NEW sv \in Server, Crash(sv) PROVE IInv'
<1>1. Dies(sv) /\ notes' = notes /\ received' = received
  BY DEF Crash, Dies
<1>2. /\ NotesFine(notes, received)' /\ DOMAIN notes' = DOMAIN notes
      /\ \A n \in DOMAIN notes : Same(n, notes, notes') /\ Kept(n)
  BY <1>1 DEF IInv, Same
<1> QED
  BY <1>1, <1>2, DiesKeeps

\* The update after the last attempt rejects, applied or not.
LEMMA MarkDeadFailsKeeps ==
  ASSUME IInv, NEW sv \in Server, NEW s \in sending[sv], MarkDeadFails(sv, s)
  PROVE  IInv'
<1> DEFINE n == s.job.note
           doc == [notes[n] EXCEPT !.email = "failed", !.attempts = MAX_EMAIL_ATTEMPTS]
<1>1. Dies(sv) /\ (UpdateNote(n, doc) \/ notes' = notes) /\ received' = received
  BY DEF MarkDeadFails, UpdateDead, Dies
<1>2. /\ n \in DOMAIN notes /\ doc \in Note
      /\ doc.email = "failed" /\ doc.attempts <= MAX_EMAIL_ATTEMPTS
      /\ doc.pair = notes[n].pair /\ doc.window = notes[n].window
  BY DeadDocument
<1> HIDE DEF doc
<1>3. /\ NotesFine(notes, received)' /\ DOMAIN notes' = DOMAIN notes
      /\ \A m \in DOMAIN notes : Same(m, notes, notes')
      /\ \A m \in DOMAIN notes : m # n => Kept(m)
  BY <1>1, <1>2, NoteTold
<1>4. n \in NotesOf(queue[sv], sending[sv], timers[sv])
  BY DEF NotesOf
<1> QED
  BY <1>1, <1>3, <1>4, DiesKeeps

-----------------------------------------------------------------------------
(* The weekly job.                                                         *)

\* A step of the job that creates nothing and does not come to a creation.
LEMMA JobStep ==
  ASSUME IInv, NEW sv \in Server, NEW wk \in Weekly, wk.pc = "check",
         weekly' = [weekly EXCEPT ![sv] = wk], weeks' \in [Server -> 0 .. MaxWeeks],
         UNCHANGED <<store, mailer, calls>>
  PROVE  IInv'
<1>1. dedup' = dedup /\ notes' = notes /\ received' = received
  BY DEF store
<1>2. MailTyped' /\ MailFine' /\ JobsDisjoint'
  BY <1>1, MailStays
<1>3. weekly \in [Server -> Weekly]
  BY DEF IInv, TypeOK
<1>4. /\ weekly' \in [Server -> Weekly]
      /\ \A tv \in Server : weekly'[tv].pc = "create" => weekly'[tv] = weekly[tv]
  BY <1>3, OneCell
<1>5. DOMAIN notes' = DOMAIN notes /\ \A m \in DOMAIN notes : Same(m, notes, notes')
  BY <1>1 DEF Same
<1>6. WindowsFine'
  BY <1>1, <1>4, <1>5, WindowsStay
<1>7. RestTyped' /\ CallsFine' /\ NotesFine(notes, received)'
  BY <1>1, <1>4 DEF IInv, TypeOK, RestTyped, CallsFine
<1> QED
  BY <1>2, <1>6, <1>7, Parts DEF IInv

\* The job starts.
LEMMA WeeklyStartKeeps == ASSUME IInv, NEW sv \in Server, WeeklyStart(sv) PROVE IInv'
<1>1. PICK todo \in SUBSET Pair : weekly' = [weekly EXCEPT ![sv] = [IdleWeekly EXCEPT !.todo = todo]]
  BY DEF WeeklyStart
<1>2. weeks[sv] < MaxWeeks /\ weeks' = [weeks EXCEPT ![sv] = weeks[sv] + 1] /\ UNCHANGED <<store, mailer, calls>>
  BY DEF WeeklyStart
<1>3. weeks' \in [Server -> 0 .. MaxWeeks]
  BY <1>2 DEF IInv, TypeOK
<1> QED
  BY <1>1, <1>2, <1>3, IdleIsWeekly, JobStep

\* A pair is done with and nothing was set or created.
LEMMA PairDoneKeeps ==
  ASSUME IInv, NEW sv \in Server, NEW x, PairDone(sv, x), UNCHANGED <<store, weeks, mailer, calls>>
  PROVE  IInv'
<1> DEFINE todo == weekly[sv].todo \ {x}
<1>1. weekly[sv] \in Weekly
  BY DEF IInv, TypeOK
<1>2. todo \in SUBSET Pair
  BY <1>1 DEF Weekly
<1>3. weekly' = [weekly EXCEPT ![sv] = [IdleWeekly EXCEPT !.todo = todo]]
  BY DEF PairDone
<1>4. weeks' \in [Server -> 0 .. MaxWeeks]
  BY DEF IInv, TypeOK
<1> HIDE DEF todo
<1> QED
  BY <1>2, <1>3, <1>4, IdleIsWeekly, JobStep

\* A pair passes with a setting of its key that is new, or with none.
LEMMA AlertDedupKeeps ==
  ASSUME IInv, NEW sv \in Server, NEW x \in Pair, AlertDedup(sv, x)
  PROVE  IInv'
<1>1. UNCHANGED <<notes, received, weeks, mailer, calls>> /\ weekly[sv].pc = "check"
  BY DEF AlertDedup
<1>2. dedup \in [Pair -> DedupKey] /\ weekly \in [Server -> Weekly] /\ weekly[sv] \in Weekly
  BY DEF IInv, TypeOK
<1>3. CASE PairDone(sv, x) /\ UNCHANGED dedup
  BY <1>1, <1>3, PairDoneKeeps DEF store
<1>4. ASSUME NEW w \in Nat, PairPasses(sv, x, w),
             \/ dedup' = dedup /\ w = 0
             \/ SetKey(x) /\ w \in {0, dedup[x].window + 1}
      PROVE  IInv'
  <2> DEFINE wk == [weekly[sv] EXCEPT !.pc = "create", !.pair = x, !.window = w]
  <2>1. weekly' = [weekly EXCEPT ![sv] = wk]
    BY <1>4 DEF PairPasses
  <2>2. wk \in Weekly /\ wk.pc = "create" /\ wk.pair = x /\ wk.window = w
    BY <1>2 DEF Weekly
  <2> HIDE DEF wk
  <2>3. /\ weekly' \in [Server -> Weekly] /\ weekly'[sv] = wk
        /\ \A tv \in Server : tv # sv => weekly'[tv] = weekly[tv]
    BY <1>2, <2>1, <2>2, OneCell
  <2>4. \A y \in Pair : dedup[y].window \in Nat /\ dedup[y] \in DedupKey
    BY <1>2 DEF DedupKey
  <2>5. /\ dedup' \in [Pair -> DedupKey]
        /\ \A y \in Pair : dedup'[y].window \in {dedup[y].window, dedup[y].window + 1}
        /\ w # 0 => w = dedup[x].window + 1 /\ dedup'[x].window = w
    <3>1. CASE dedup' = dedup /\ w = 0
      BY <1>2, <3>1
    <3>2. CASE SetKey(x) /\ w \in {0, dedup[x].window + 1}
      <4> DEFINE key == [on |-> TRUE, window |-> dedup[x].window + 1]
      <4>1. dedup' = [dedup EXCEPT ![x] = key]
        BY <3>2 DEF SetKey
      <4>2. key \in DedupKey /\ key.window = dedup[x].window + 1
        BY <2>4 DEF DedupKey
      <4> HIDE DEF key
      <4>3. dedup' \in [Pair -> DedupKey] /\ \A y \in Pair : dedup'[y] = IF y = x THEN key ELSE dedup[y]
        BY <1>2, <4>1, <4>2
      <4> QED
        BY <3>2, <4>2, <4>3
    <3> QED
      BY <1>4, <3>1, <3>2
  <2>6. \A y \in Pair : dedup[y].window <= dedup'[y].window /\ dedup'[y].window \in Nat
    BY <2>4, <2>5
  <2>7. \A n \in DOMAIN notes : notes[n].pair \in Pair /\ notes[n].window \in Nat
    <3>1. \A n \in DOMAIN notes : notes[n] \in Note
      BY DEF IInv, TypeOK
    <3> QED
      BY <3>1 DEF Note
  <2>8. \A tv \in Server : weekly[tv].pair \in Pair /\ weekly[tv].window \in Nat
    BY <1>2 DEF Weekly
  <2>9. WindowsFine'
    <3>1. \A n \in DOMAIN notes : notes[n].window <= dedup'[notes[n].pair].window
      BY <2>4, <2>6, <2>7 DEF IInv, WindowsFine
    <3>2. OneNotePerWindow'
      BY <1>1 DEF IInv, WindowsFine, OneNotePerWindow
    <3>3. \A y, v : Unused(y, v)' <=> Unused(y, v)
      BY <1>1 DEF Unused
    <3>4. w # 0 => Unused(x, w)
      BY <2>4, <2>5, <2>7 DEF IInv, WindowsFine, Unused
    <3>5. w <= dedup'[x].window
      BY <1>4, <2>5, <2>6
    <3>6. \A tv \in Server : /\ tv # sv /\ weekly[tv].pc = "create" /\ weekly[tv].pair = x
                             /\ weekly[tv].window = w
                             => w = 0
      BY <2>4, <2>5, <2>8 DEF IInv, WindowsFine
    <3>7. ASSUME NEW tv \in Server, weekly'[tv].pc = "create"
          PROVE  /\ weekly'[tv].window <= dedup'[weekly'[tv].pair].window
                 /\ weekly'[tv].window # 0 => Unused(weekly'[tv].pair, weekly'[tv].window)
                 /\ \A uv \in Server :
                       /\ uv # tv /\ weekly'[uv].pc = "create" /\ weekly'[uv].pair = weekly'[tv].pair
                       /\ weekly'[uv].window = weekly'[tv].window
                       => weekly'[tv].window = 0
      <4>1. CASE tv = sv
        BY <4>1, <2>2, <2>3, <3>4, <3>5, <3>6
      <4>2. CASE tv # sv
        <5>1. weekly'[tv] = weekly[tv] /\ weekly[tv].pc = "create"
          BY <4>2, <2>3, <3>7
        <5>2. /\ weekly[tv].window <= dedup'[weekly[tv].pair].window
              /\ weekly[tv].window # 0 => Unused(weekly[tv].pair, weekly[tv].window)
          BY <5>1, <2>4, <2>6, <2>8 DEF IInv, WindowsFine
        <5>3. ASSUME NEW uv \in Server, uv # tv, weekly'[uv].pc = "create",
                     weekly'[uv].pair = weekly[tv].pair, weekly'[uv].window = weekly[tv].window
              PROVE  weekly[tv].window = 0
          <6>1. CASE uv = sv
            BY <6>1, <5>1, <5>3, <4>2, <2>2, <2>3, <3>6
          <6>2. CASE uv # sv
            BY <6>2, <5>1, <5>3, <2>3 DEF IInv, WindowsFine
          <6> QED
            BY <6>1, <6>2
        <5> QED
          BY <5>1, <5>2, <5>3
      <4> QED
        BY <4>1, <4>2
    <3> QED
      BY <1>1, <3>1, <3>2, <3>3, <3>7 DEF WindowsFine
  <2>10. MailTyped' /\ MailFine' /\ JobsDisjoint'
    BY <1>1, MailStays
  <2>11. RestTyped' /\ CallsFine' /\ NotesFine(notes, received)'
    BY <1>1, <2>3, <2>5 DEF IInv, TypeOK, RestTyped, CallsFine
  <2> QED
    BY <2>9, <2>10, <2>11, Parts DEF IInv
<1>5. dedup[x].window + 1 \in Nat /\ 0 \in Nat
  BY <1>2 DEF DedupKey
<1> QED
  BY <1>3, <1>4, <1>5 DEF AlertDedup

\* A note is created for the pair of a job, which goes on.
LEMMA NoteCreated ==
  ASSUME IInv, NEW sv \in Server, weekly[sv].pc = "create", CreateNote(sv),
         PairDone(sv, weekly[sv].pair), UNCHANGED <<dedup, weeks, calls>>
  PROVE  /\ NotesFine(notes, received)' /\ WindowsFine' /\ RestTyped' /\ CallsFine'
         /\ \A n \in DOMAIN notes : Kept(n)
         /\ Len(notes) + 1 \in DOMAIN notes' \ DOMAIN notes
         /\ notes'[Len(notes) + 1].email = "pending" /\ notes'[Len(notes) + 1].attempts = 0
         /\ received'[Len(notes) + 1] = 0
<1> DEFINE x == weekly[sv].pair
           w == weekly[sv].window
           nt == NewNote(x, w)
           new == Len(notes) + 1
<1>1. /\ weekly[sv].pc = "create" /\ notes' = Append(notes, nt) /\ received' = Append(received, 0)
      /\ PairDone(sv, x) /\ UNCHANGED <<dedup, weeks, calls>>
  BY DEF CreateNote
<1>2. weekly \in [Server -> Weekly] /\ x \in Pair /\ w \in Nat /\ weekly[sv].todo \ {x} \in SUBSET Pair
  <2>1. weekly \in [Server -> Weekly] /\ weekly[sv] \in Weekly
    BY DEF IInv, TypeOK
  <2> QED
    BY <2>1 DEF Weekly
<1>3. /\ nt \in Note /\ nt.pair = x /\ nt.window = w /\ nt.email = "pending" /\ nt.attempts = 0
  BY <1>2 DEF NewNote, Note
<1> HIDE DEF nt
<1>4. /\ notes \in Seq(Note) /\ received \in Seq(Nat) /\ Len(received) = Len(notes) /\ 0 \in Nat
  BY DEF IInv, NotesFine
<1>5. /\ notes' \in Seq(Note) /\ received' \in Seq(Nat) /\ Len(received') = Len(notes')
      /\ DOMAIN notes' = DOMAIN notes \union {new} /\ new \notin DOMAIN notes
      /\ DOMAIN received = DOMAIN notes
      /\ notes'[new] = nt /\ received'[new] = 0
      /\ \A n \in DOMAIN notes : notes'[n] = notes[n] /\ received'[n] = received[n]
  BY <1>1, <1>3, <1>4, Appended
<1> HIDE DEF new
<1>7. NotesFine(notes, received)'
  BY <1>3, <1>5 DEF IInv, NotesFine, MAX_EMAIL_ATTEMPTS
<1>8. \A n \in DOMAIN notes : Kept(n)
  BY <1>5
<1>9. /\ weekly' \in [Server -> Weekly] /\ weekly'[sv].pc = "check"
      /\ \A tv \in Server : tv # sv => weekly'[tv] = weekly[tv]
  <2> DEFINE todo == weekly[sv].todo \ {x}
  <2>1. weekly' = [weekly EXCEPT ![sv] = [IdleWeekly EXCEPT !.todo = todo]]
    BY <1>1 DEF PairDone
  <2> HIDE DEF todo
  <2>2. todo \in SUBSET Pair
    BY <1>2 DEF todo
  <2>3. [IdleWeekly EXCEPT !.todo = todo] \in Weekly /\ [IdleWeekly EXCEPT !.todo = todo].pc = "check"
    BY <2>2, IdleIsWeekly
  <2> QED
    BY <1>2, <2>1, <2>3, OneCell
<1>10. WindowsFine'
  <2>1. w <= dedup[x].window /\ (w # 0 => Unused(x, w))
    BY <1>1 DEF IInv, WindowsFine
  <2>2. \A n \in DOMAIN notes' : notes'[n].window <= dedup'[notes'[n].pair].window
    BY <1>1, <1>3, <1>5, <2>1 DEF IInv, WindowsFine
  <2>3. OneNotePerWindow'
    <3> SUFFICES ASSUME NEW m \in DOMAIN notes', NEW n \in DOMAIN notes', m # n,
                        notes'[m].pair = notes'[n].pair, notes'[m].window = notes'[n].window
                 PROVE  notes'[m].window = 0
      BY DEF OneNotePerWindow
    <3>1. CASE m = new
      BY <3>1, <1>3, <1>5, <2>1 DEF Unused
    <3>2. CASE n = new
      BY <3>2, <1>3, <1>5, <2>1 DEF Unused
    <3>3. CASE m # new /\ n # new
      BY <3>3, <1>5 DEF IInv, WindowsFine, OneNotePerWindow
    <3> QED
      BY <3>1, <3>2, <3>3
  <2>4. ASSUME NEW tv \in Server, weekly'[tv].pc = "create"
        PROVE  /\ weekly'[tv].window <= dedup'[weekly'[tv].pair].window
               /\ weekly'[tv].window # 0 => Unused(weekly[tv].pair, weekly[tv].window)'
               /\ \A uv \in Server :
                     /\ uv # tv /\ weekly'[uv].pc = "create" /\ weekly'[uv].pair = weekly'[tv].pair
                     /\ weekly'[uv].window = weekly'[tv].window
                     => weekly'[tv].window = 0
    <3>1. tv # sv /\ weekly'[tv] = weekly[tv] /\ weekly[tv].pc = "create"
      BY <2>4, <1>9
    <3>2. weekly[tv].window <= dedup'[weekly[tv].pair].window
      BY <3>1, <1>1 DEF IInv, WindowsFine
    <3>3. weekly[tv].pair = x /\ weekly[tv].window = w => w = 0
      BY <3>1, <1>1 DEF IInv, WindowsFine
    <3>4. weekly[tv].window # 0 => Unused(weekly[tv].pair, weekly[tv].window)
      BY <3>1 DEF IInv, WindowsFine
    <3>5. weekly[tv].window # 0 => Unused(weekly[tv].pair, weekly[tv].window)'
      BY <3>1, <3>3, <3>4, <1>3, <1>5 DEF Unused
    <3>6. \A uv \in Server :
             /\ uv # tv /\ weekly'[uv].pc = "create" /\ weekly'[uv].pair = weekly[tv].pair
             /\ weekly'[uv].window = weekly[tv].window
             => weekly[tv].window = 0
      BY <3>1, <1>9 DEF IInv, WindowsFine
    <3> QED
      BY <3>1, <3>2, <3>5, <3>6
  <2> QED
    BY <2>2, <2>3, <2>4 DEF WindowsFine
<1>11. RestTyped' /\ CallsFine'
  BY <1>1, <1>5, <1>9 DEF IInv, TypeOK, RestTyped, CallsFine
<1> QED
  BY <1>3, <1>5, <1>7, <1>8, <1>10, <1>11 DEF new

\* The creation is answered, and the email is enqueued.
LEMMA AlertCreateKeeps == ASSUME IInv, NEW sv \in Server, AlertCreate(sv) PROVE IInv'
<1> DEFINE new == Len(notes) + 1
           j == [note |-> new, attempt |-> 1]
<1>1. /\ weekly[sv].pc = "create" /\ CreateNote(sv) /\ PairDone(sv, weekly[sv].pair)
      /\ Enqueue(sv, j) /\ UNCHANGED <<dedup, weeks, wakeups, timers, calls>>
  BY DEF AlertCreate
<1>2. /\ NotesFine(notes, received)' /\ WindowsFine' /\ RestTyped' /\ CallsFine'
      /\ \A n \in DOMAIN notes : Kept(n)
      /\ new \in DOMAIN notes' \ DOMAIN notes
      /\ notes'[new].email = "pending" /\ notes'[new].attempts = 0 /\ received'[new] = 0
  BY <1>1, NoteCreated
<1>3. j \in EmailJob /\ j.note = new /\ j.attempt = 1
  <2>1. notes \in Seq(Note)
    BY DEF IInv, NotesFine
  <2> QED
    BY <2>1 DEF EmailJob, MAX_EMAIL_ATTEMPTS
<1> HIDE DEF new, j
<1>4. NotesOf(queue[sv], sending[sv], timers[sv]) \subseteq DOMAIN notes
  BY MailKnown DEF JobsFine, NotesOf, Unsent, Underway
<1>5. timers[sv] \in SUBSET timers[sv] /\ timers' = [timers EXCEPT ![sv] = timers[sv]] /\ wakeups' = wakeups
  BY <1>1, Cells
<1>6. Unsent(j, notes', received')
  BY <1>2, <1>3 DEF Unsent, Unfinished
<1>7. MailTyped' /\ MailFine' /\ JobsDisjoint'
  BY <1>1, <1>2, <1>3, <1>4, <1>5, <1>6, EnqueueMoves
<1> QED
  BY <1>2, <1>7, Parts DEF IInv

\* The creation fails, finds nothing, or has created the note all the same.
LEMMA AlertGivesUpKeeps == ASSUME IInv, NEW sv \in Server, AlertGivesUp(sv) PROVE IInv'
<1>1. /\ weekly[sv].pc = "create" /\ PairDone(sv, weekly[sv].pair)
      /\ CreateNote(sv) \/ UNCHANGED <<notes, received>>
      /\ UNCHANGED <<dedup, weeks, mailer, calls>>
  BY DEF AlertGivesUp
<1>2. CASE CreateNote(sv)
  <2>1. /\ NotesFine(notes, received)' /\ WindowsFine' /\ RestTyped' /\ CallsFine'
        /\ \A n \in DOMAIN notes : Kept(n)
    BY <1>1, <1>2, NoteCreated
  <2>2. MailTyped' /\ MailFine' /\ JobsDisjoint'
    BY <1>1, <2>1, MailStays
  <2> QED
    BY <2>1, <2>2, Parts DEF IInv
<1>3. CASE UNCHANGED <<notes, received>>
  BY <1>1, <1>3, PairDoneKeeps DEF store
<1> QED
  BY <1>1, <1>2, <1>3

\* A key expires and keeps the number of its settings.
LEMMA DedupExpiresKeeps == ASSUME IInv, NEW x \in Pair, DedupExpires(x) PROVE IInv'
<1>1. /\ dedup' = [dedup EXCEPT ![x].on = FALSE]
      /\ UNCHANGED <<notes, received, weekly, weeks, mailer, calls>>
  BY DEF DedupExpires
<1>2. dedup' \in [Pair -> DedupKey] /\ \A y \in Pair : dedup'[y].window = dedup[y].window
  BY <1>1 DEF IInv, TypeOK, DedupKey
<1>3. DOMAIN notes' = DOMAIN notes /\ \A m \in DOMAIN notes : Same(m, notes, notes')
  BY <1>1 DEF Same
<1>4. WindowsFine'
  BY <1>1, <1>2, <1>3, WindowsStay
<1>5. MailTyped' /\ MailFine' /\ JobsDisjoint'
  BY <1>1, MailStays
<1>6. RestTyped' /\ CallsFine' /\ NotesFine(notes, received)'
  BY <1>1, <1>2 DEF IInv, TypeOK, RestTyped, CallsFine
<1> QED
  BY <1>4, <1>5, <1>6, Parts DEF IInv

-----------------------------------------------------------------------------
(* The student's requests.                                                 *)

\* A request that changes no status and no count keeps the invariant.
LEMMA StudentStep ==
  ASSUME IInv, UNCHANGED <<dedup, received, weekly, weeks, mailer>>,
         notes' \in Seq(Note), Len(notes') = Len(notes), DOMAIN notes' = DOMAIN notes,
         \A n \in DOMAIN notes :
            /\ Same(n, notes, notes')
            /\ notes'[n].email = notes[n].email /\ notes'[n].attempts = notes[n].attempts,
         calls' \subseteq Call, \A c \in calls' : c.note \in DOMAIN notes
  PROVE  IInv'
<1>1. MailTyped' /\ MailFine' /\ JobsDisjoint'
  BY MailStays
<1>2. WindowsFine'
  BY WindowsStay
<1>3. NotesFine(notes, received)'
  BY DEF IInv, NotesFine
<1>4. RestTyped' /\ CallsFine'
  BY DEF IInv, TypeOK, RestTyped, CallsFine
<1> QED
  BY <1>1, <1>2, <1>3, <1>4, Parts DEF IInv

\* A request finds its note.
LEMMA CallFindKeeps ==
  ASSUME IInv, NEW kind \in {"read", "delete"}, NEW n \in DOMAIN notes, CallFind(kind, n)
  PROVE  IInv'
<1>1. calls' = calls \union {[kind |-> kind, note |-> n]} /\ UNCHANGED <<store, weekly, weeks, mailer>>
  BY DEF CallFind
<1>2. dedup' = dedup /\ notes' = notes /\ received' = received
  BY <1>1 DEF store
<1>3. notes \in Seq(Note) /\ n \in Nat
  BY DEF IInv, NotesFine
<1>4. calls' \subseteq Call /\ \A c \in calls' : c.note \in DOMAIN notes
  BY <1>1, <1>3 DEF IInv, TypeOK, CallsFine, Call
<1> QED
  BY <1>1, <1>2, <1>3, <1>4, StudentStep DEF Same

\* A note is read or deleted; its status stays.
LEMMA CallEndsKeeps ==
  ASSUME IInv, NEW c \in calls, MarkAsRead(c) \/ DeleteNotification(c)
  PROVE  IInv'
<1> DEFINE n == c.note
<1>1. UNCHANGED <<dedup, received, weekly, weeks, mailer>> /\ calls' = calls \ {c}
  BY DEF MarkAsRead, DeleteNotification
<1>2. n \in DOMAIN notes /\ notes \in Seq(Note) /\ notes[n] \in Note
  BY DEF IInv, CallsFine, NotesFine
<1>3. calls' \subseteq Call /\ \A d \in calls' : d.note \in DOMAIN notes
  BY <1>1 DEF IInv, TypeOK, CallsFine
<1>4. ASSUME NEW doc \in Note, doc.pair = notes[n].pair, doc.window = notes[n].window,
             doc.email = notes[n].email, doc.attempts = notes[n].attempts,
             notes' \in {notes, [notes EXCEPT ![n] = doc]}
      PROVE  IInv'
  <2>1. /\ notes' \in Seq(Note) /\ Len(notes') = Len(notes) /\ DOMAIN notes' = DOMAIN notes
        /\ \A m \in DOMAIN notes : notes'[m] \in {notes[m]} \union IF m = n THEN {doc} ELSE {}
    BY <1>2, <1>4
  <2>2. \A m \in DOMAIN notes :
           /\ Same(m, notes, notes')
           /\ notes'[m].email = notes[m].email /\ notes'[m].attempts = notes[m].attempts
    BY <1>4, <2>1 DEF Same
  <2> QED
    BY <1>1, <1>3, <2>1, <2>2, StudentStep
<1>5. CASE MarkAsRead(c)
  <2> DEFINE doc == [notes[n] EXCEPT !.read = TRUE]
  <2>1. doc \in Note
    BY <1>2, NewDocuments
  <2>2. /\ doc.pair = notes[n].pair /\ doc.window = notes[n].window
        /\ doc.email = notes[n].email /\ doc.attempts = notes[n].attempts
    BY <1>2 DEF Note
  <2>3. notes' \in {notes, [notes EXCEPT ![n] = doc]}
    BY <1>5 DEF MarkAsRead, UpdateNote
  <2> QED
    BY <1>4, <2>1, <2>2, <2>3
<1>6. CASE DeleteNotification(c)
  <2> DEFINE doc == [notes[n] EXCEPT !.deleted = TRUE]
  <2>1. doc \in Note
    BY <1>2, NewDocuments
  <2>2. /\ doc.pair = notes[n].pair /\ doc.window = notes[n].window
        /\ doc.email = notes[n].email /\ doc.attempts = notes[n].attempts
    BY <1>2 DEF Note
  <2>3. notes' = [notes EXCEPT ![n] = doc]
    BY <1>6 DEF DeleteNotification
  <2> QED
    BY <1>4, <2>1, <2>2, <2>3
<1> QED
  BY <1>5, <1>6

\* All notes of a student are read.
LEMMA MarkAllAsReadKeeps == ASSUME IInv, NEW st, MarkAllAsRead(st) PROVE IInv'
<1> DEFINE read(n) == notes[n].read \/ (StudentOf[notes[n].pair] = st /\ ~ notes[n].deleted)
<1>1. /\ UNCHANGED <<dedup, received, weekly, weeks, mailer, calls>>
      /\ notes' = [n \in DOMAIN notes |-> [notes[n] EXCEPT !.read = read(n)]]
  BY DEF MarkAllAsRead
<1>2. notes \in Seq(Note) /\ \A n \in DOMAIN notes : notes[n] \in Note /\ read(n) \in BOOLEAN
  BY DEF IInv, NotesFine
<1> HIDE DEF read
<1>3. \A n \in DOMAIN notes :
         /\ notes'[n] \in Note /\ Same(n, notes, notes')
         /\ notes'[n].email = notes[n].email /\ notes'[n].attempts = notes[n].attempts
  <2> SUFFICES ASSUME NEW n \in DOMAIN notes
               PROVE  /\ notes'[n] \in Note /\ Same(n, notes, notes')
                      /\ notes'[n].email = notes[n].email /\ notes'[n].attempts = notes[n].attempts
    OBVIOUS
  <2>1. notes'[n] = [notes[n] EXCEPT !.read = read(n)] /\ notes[n] \in Note /\ read(n) \in BOOLEAN
    BY <1>1, <1>2
  <2>2. notes'[n] \in Note
    BY <2>1, NewDocuments
  <2>3. /\ notes'[n].email = notes[n].email /\ notes'[n].attempts = notes[n].attempts
        /\ notes'[n].pair = notes[n].pair /\ notes'[n].window = notes[n].window
    BY <2>1 DEF Note
  <2> QED
    BY <2>2, <2>3 DEF Same
<1>4. DOMAIN notes' = DOMAIN notes /\ DOMAIN notes = 1 .. Len(notes) /\ Len(notes) \in Nat
  BY <1>1, <1>2
<1>5. notes' \in Seq(Note) /\ Len(notes') = Len(notes)
  <2>1. notes' \in [1 .. Len(notes) -> Note]
    BY <1>1, <1>3, <1>4
  <2>2. notes' \in Seq(Note)
    BY <1>4, <2>1, SeqDef
  <2> QED
    BY <1>4, <2>1, <2>2, LenProperties
<1>6. calls' \subseteq Call /\ \A c \in calls' : c.note \in DOMAIN notes
  BY <1>1 DEF IInv, TypeOK, CallsFine
<1> QED
  BY <1>1, <1>3, <1>4, <1>5, <1>6, StudentStep

-----------------------------------------------------------------------------
(* The steps together.                                                     *)

\* No step breaks the invariant.
LEMMA NextKeeps == IInv /\ [Next]_vars => IInv'
<1> SUFFICES ASSUME IInv, [Next]_vars PROVE IInv'
  OBVIOUS
<1>1. CASE UNCHANGED vars
  <2>1. /\ UNCHANGED <<dedup, weekly, weeks, calls, mailer>> /\ notes' = notes /\ received' = received
    BY <1>1 DEF vars, mailer
  <2>2. MailTyped' /\ MailFine' /\ JobsDisjoint'
    BY <2>1, MailStays
  <2>3. DOMAIN notes' = DOMAIN notes /\ \A m \in DOMAIN notes : Same(m, notes, notes')
    BY <2>1 DEF Same
  <2>4. NotesFine(notes, received)'
    BY <2>1 DEF IInv
  <2> QED
    BY <2>1, <2>2, <2>3, <2>4, CallStep
<1>2. ASSUME NEW sv \in Server, Alert(sv) PROVE IInv'
  BY <1>2, WeeklyStartKeeps, AlertDedupKeeps, AlertGivesUpKeeps, AlertCreateKeeps DEF Alert
<1>3. ASSUME NEW sv \in Server, Deliver(sv) PROVE IInv'
  BY <1>3, SendOkKeeps, SendFailKeeps, MarkSentKeeps, MarkSentFailsKeeps, MarkDeadKeeps,
     MarkDeadFailsKeeps, WakeKeeps
  DEF Deliver
<1>4. ASSUME NEW sv \in Server, NEW j \in timers[sv], TimerFires(sv, j) PROVE IInv'
  BY <1>4, TimerFiresKeeps
<1>5. ASSUME NEW sv \in Server, Crash(sv) PROVE IInv'
  BY <1>5, CrashKeeps
<1>6. ASSUME NEW x \in Pair, DedupExpires(x) PROVE IInv'
  BY <1>6, DedupExpiresKeeps
<1>7. ASSUME Student PROVE IInv'
  BY <1>7, CallFindKeeps, CallEndsKeeps, MarkAllAsReadKeeps DEF Student
<1> QED
  BY <1>1, <1>2, <1>3, <1>4, <1>5, <1>6, <1>7 DEF Next

\* The invariant holds in every reachable state.
LEMMA Invariant == Spec => []IInv
  BY InitOK, NextKeeps, PTL DEF Spec

-----------------------------------------------------------------------------
(* What follows.                                                           *)

\* The stores and the mailers hold what the code can put there, and no document
\* counts more than three attempts.
THEOREM AlertTypeCorrect == Spec => []TypeOK
<1>1. IInv => TypeOK
  BY DEF IInv
<1> QED
  BY <1>1, Invariant, PTL

\* isProcessing keeps every instance to one email at a time, whatever alerts and
\* timers enqueue meanwhile.
THEOREM OneEmailAtATimeEverywhere == Spec => []OneEmailAtATime
<1>1. IInv => OneEmailAtATime
  <2> SUFFICES ASSUME IInv, NEW sv \in Server
               PROVE  Cardinality(sending[sv]) + wakeups[sv] = IF processing[sv] THEN 1 ELSE 0
    BY DEF OneEmailAtATime
  <2>1. OneCall(queue[sv], processing[sv], sending[sv], wakeups[sv])
    BY MailKnown
  <2>2. Cardinality({}) = 0 /\ \A s : Cardinality({s}) = 1
    BY FS_EmptySet, FS_Singleton
  <2>3. \/ ~ processing[sv] /\ Cardinality(sending[sv]) = 0 /\ wakeups[sv] = 0
        \/ processing[sv] /\ Cardinality(sending[sv]) = 0 /\ wakeups[sv] = 1
        \/ processing[sv] /\ Cardinality(sending[sv]) = 1 /\ wakeups[sv] = 0
    BY <2>1, <2>2 DEF OneCall
  <2> QED
    BY <2>3
<1> QED
  BY <1>1, Invariant, PTL

\* A set all of whose elements are equal has one at most.
LEMMA AtMostOne ==
  ASSUME NEW S, \A a, b \in S : a = b
  PROVE  Cardinality(S) <= 1
<1>1. CASE S = {}
  BY <1>1, FS_EmptySet
<1>2. CASE S # {}
  <2>1. PICK a \in S : TRUE
    BY <1>2
  <2>2. S = {a}
    BY <2>1
  <2>3. Cardinality({a}) = 1
    BY FS_Singleton
  <2> QED
    BY <2>2, <2>3
<1> QED
  BY <1>1, <1>2

\* Where a note waits: one job of one server.
LEMMA WaitsOnce ==
  ASSUME IInv, NEW n, NEW a \in Waiting(n)
  PROVE  /\ n \in DOMAIN notes /\ notes[n].email \in Unfinished
         /\ \A b \in Waiting(n) : a = b
<1> DEFINE Q(sv) == {<<sv, "queue", i>> : i \in {i \in DOMAIN queue[sv] : queue[sv][i].note = n}}
           C(sv) == {<<sv, "call", s>> : s \in {s \in sending[sv] : s.job.note = n}}
           T(sv) == {<<sv, "timer", j>> : j \in {j \in timers[sv] : j.note = n}}
           Of(sv) == NotesOf(queue[sv], sending[sv], timers[sv])
<1>1. ASSUME NEW b \in Waiting(n) PROVE \E sv \in Server : b \in Q(sv) \/ b \in C(sv) \/ b \in T(sv)
  BY <1>1 DEF Waiting
<1>2. ASSUME NEW sv \in Server, NEW b, b \in Q(sv) \/ b \in C(sv) \/ b \in T(sv)
      PROVE  n \in Of(sv)
  BY <1>2 DEF NotesOf
<1>3. ASSUME NEW sv \in Server, NEW b, NEW c, b \in Q(sv) \/ b \in C(sv) \/ b \in T(sv),
             c \in Q(sv) \/ c \in C(sv) \/ c \in T(sv)
      PROVE  b = c
  <2>1. Apart(queue[sv], sending[sv], timers[sv])
    BY MailKnown
  <2>2. \A s, t \in sending[sv] : s = t
    BY MailKnown DEF OneCall
  <2>3. CASE b \in Q(sv)
    BY <1>3, <2>1, <2>3 DEF Apart
  <2>4. CASE b \in C(sv)
    BY <1>3, <2>1, <2>2, <2>4 DEF Apart
  <2>5. CASE b \in T(sv)
    BY <1>3, <2>1, <2>5 DEF Apart
  <2> QED
    BY <1>3, <2>3, <2>4, <2>5
<1>4. ASSUME NEW sv \in Server, NEW tv \in Server, n \in Of(sv), n \in Of(tv) PROVE sv = tv
  BY <1>4 DEF IInv, JobsDisjoint
<1>5. ASSUME NEW sv \in Server, n \in Of(sv) PROVE n \in DOMAIN notes /\ notes[n].email \in Unfinished
  BY <1>5, MailKnown DEF JobsFine, NotesOf, Unsent, Underway
<1> HIDE DEF Q, C, T, Of
<1>6. PICK sv \in Server : a \in Q(sv) \/ a \in C(sv) \/ a \in T(sv)
  BY <1>1
<1>7. ASSUME NEW b \in Waiting(n) PROVE a = b
  <2>1. PICK tv \in Server : b \in Q(tv) \/ b \in C(tv) \/ b \in T(tv)
    BY <1>1, <1>7
  <2>2. sv = tv
    BY <1>2, <1>4, <1>6, <2>1
  <2> QED
    BY <1>3, <1>6, <2>1, <2>2
<1> QED
  BY <1>2, <1>5, <1>6, <1>7

\* No attempt is made twice, for any number of servers, retries and failures: a
\* note never has two jobs, none once it is marked failed, and a job is always
\* for a later attempt than its note counts.
THEOREM AttemptsAlwaysRunOnce == Spec => []AttemptsRunOnce
<1>1. IInv => AttemptsRunOnce
  <2> SUFFICES ASSUME IInv, NEW n \in DOMAIN notes
               PROVE  /\ Cardinality(Waiting(n)) <= 1
                      /\ notes[n].email = "failed" => Waiting(n) = {}
                      /\ \A sv \in Server : \A j \in ToMake(sv) :
                            j.note = n => notes[n].attempts < j.attempt
    BY DEF AttemptsRunOnce
  <2>1. \A a, b \in Waiting(n) : a = b
    BY WaitsOnce
  <2>2. notes[n].email = "failed" => Waiting(n) = {}
    BY WaitsOnce DEF Unfinished
  <2>3. ASSUME NEW sv \in Server, NEW j \in ToMake(sv), j.note = n
        PROVE  notes[n].attempts < j.attempt
    BY <2>3, MailKnown DEF ToMake, JobsFine, Unsent, Underway
  <2> QED
    BY <2>1, <2>2, <2>3, AtMostOne
<1> QED
  BY <1>1, Invariant, PTL

\* If the database does not fail, a note that is marked sent or failed has no
\* job any more: a settled email is never sent again.
THEOREM SettledEmailsRest ==
  ASSUME "db" \notin Faults
  PROVE  Spec => [](\A n \in DOMAIN notes : notes[n].email # "pending" => Waiting(n) = {})
<1>1. IInv => \A n \in DOMAIN notes : notes[n].email # "pending" => Waiting(n) = {}
  BY WaitsOnce DEF Unfinished
<1> QED
  BY <1>1, Invariant, PTL

\* At most three emails reach a student for a note, and one at least if the note
\* says so.
THEOREM EmailsAreAlwaysCounted == Spec => []EmailsAreCounted
<1>1. IInv => EmailsAreCounted
  BY DEF IInv, NotesFine, EmailsAreCounted
<1> QED
  BY <1>1, Invariant, PTL

\* However many servers run the job, a setting of a key lets one note through.
THEOREM OneNoteInEveryWindow == Spec => []OneNotePerWindow
<1>1. IInv => OneNotePerWindow
  BY DEF IInv, WindowsFine
<1> QED
  BY <1>1, Invariant, PTL

\* The steps that change notes change one of them, add one or mark all as read.
LEMMA NotesChange ==
  ASSUME IInv, [Next]_vars
  PROVE  \/ notes' = notes
         \/ \E n \in DOMAIN notes, doc \in Note : UpdateNote(n, doc) /\ doc.read = notes[n].read
         \/ \E n \in DOMAIN notes : UpdateNote(n, [notes[n] EXCEPT !.read = TRUE])
         \/ \E n \in DOMAIN notes : notes' = [notes EXCEPT ![n].deleted = TRUE]
         \/ \E nt \in Note : notes' = Append(notes, nt)
         \/ \E st : notes' = [n \in DOMAIN notes |->
                                [notes[n] EXCEPT !.read = @ \/ (StudentOf[notes[n].pair] = st
                                                                 /\ ~ notes[n].deleted)]]
<1>1. \A n \in DOMAIN notes : notes[n] \in Note
  BY DEF IInv, NotesFine
<1>2. CASE UNCHANGED vars
  BY <1>2 DEF vars
<1>3. ASSUME NEW sv \in Server, Alert(sv)
      PROVE  notes' = notes \/ \E nt \in Note : notes' = Append(notes, nt)
  <2>1. CASE CreateNote(sv)
    <3>1. weekly[sv] \in Weekly
      BY DEF IInv, TypeOK
    <3>2. NewNote(weekly[sv].pair, weekly[sv].window) \in Note
      BY <3>1 DEF Weekly, NewNote, Note
    <3> QED
      BY <2>1, <3>2 DEF CreateNote
  <2>2. CASE WeeklyStart(sv) \/ \E x \in Pair : AlertDedup(sv, x)
    BY <2>2 DEF WeeklyStart, AlertDedup, store
  <2> QED
    BY <1>3, <2>1, <2>2 DEF Alert, AlertCreate, AlertGivesUp
<1>4. ASSUME NEW sv \in Server, NEW s \in sending[sv],
             UpdateSent(s.job.note) \/ UpdateDead(s.job.note)
      PROVE  \E n \in DOMAIN notes, doc \in Note : UpdateNote(n, doc) /\ doc.read = notes[n].read
  <2> DEFINE n == s.job.note
             sent == [notes[n] EXCEPT !.email = "sent", !.attempts = @ + 1]
             dead == [notes[n] EXCEPT !.email = "failed", !.attempts = MAX_EMAIL_ATTEMPTS]
  <2>1. n \in DOMAIN notes
    BY Alone DEF Underway
  <2>2. sent \in Note /\ dead \in Note
    BY <1>1, <2>1, NewDocuments
  <2>3. sent.read = notes[n].read /\ dead.read = notes[n].read
    BY <1>1, <2>1 DEF Note
  <2>4. UpdateNote(n, sent) \/ UpdateNote(n, dead)
    BY <1>4 DEF UpdateSent, UpdateDead
  <2> HIDE DEF n, sent, dead
  <2> QED
    BY <2>1, <2>2, <2>3, <2>4
<1>5. ASSUME NEW sv \in Server, Crash(sv) \/ Wake(sv) \/ \E j \in timers[sv] : TimerFires(sv, j)
      PROVE  notes' = notes
  BY <1>5 DEF Crash, Dies, Wake, TimerFires, store
<1>6. ASSUME NEW sv \in Server, NEW s \in sending[sv],
             SendOk(sv, s) \/ SendFail(sv, s) \/ MarkSent(sv, s) \/ MarkSentFails(sv, s)
               \/ MarkDead(sv, s) \/ MarkDeadFails(sv, s)
      PROVE  notes' = notes \/ UpdateSent(s.job.note) \/ UpdateDead(s.job.note)
  BY <1>6 DEF SendOk, SendFail, MarkSent, MarkSentFails, MarkDead, MarkDeadFails
<1>7. ASSUME NEW x \in Pair, DedupExpires(x) PROVE notes' = notes
  BY <1>7 DEF DedupExpires
<1>8. ASSUME NEW kind, NEW n, CallFind(kind, n) PROVE notes' = notes
  BY <1>8 DEF CallFind, store
<1>9. ASSUME NEW c \in calls, MarkAsRead(c) \/ DeleteNotification(c)
      PROVE  \/ \E n \in DOMAIN notes : UpdateNote(n, [notes[n] EXCEPT !.read = TRUE])
             \/ \E n \in DOMAIN notes : notes' = [notes EXCEPT ![n].deleted = TRUE]
  BY <1>9 DEF MarkAsRead, DeleteNotification, IInv, CallsFine
<1>10. ASSUME NEW st, MarkAllAsRead(st)
       PROVE  \E t : notes' = [n \in DOMAIN notes |->
                [notes[n] EXCEPT !.read = @ \/ (StudentOf[notes[n].pair] = t
                                                 /\ ~ notes[n].deleted)]]
  BY <1>10 DEF MarkAllAsRead
<1>11. CASE \E sv \in Server : Deliver(sv)
  BY <1>4, <1>5, <1>6, <1>11 DEF Deliver
<1>12. CASE Student
  BY <1>8, <1>9, <1>10, <1>12 DEF Student
<1> QED
  BY <1>2, <1>3, <1>5, <1>7, <1>11, <1>12 DEF Next

\* What a student did to a note lasts: the mailer's updates neither restore a
\* deleted note nor make one unread.
THEOREM StudentCallsAlwaysLast == Spec => StudentCallsLast
<1>1. ASSUME IInv, [Next]_vars, NEW n \in DOMAIN notes
      PROVE  (notes[n].deleted => notes'[n] = notes[n]) /\ (notes[n].read => notes'[n].read)
  <2>1. notes \in Seq(Note) /\ notes[n] \in Note
    BY <1>1 DEF IInv, NotesFine
  <2>2. notes[n].read \in BOOLEAN /\ notes[n].deleted \in BOOLEAN
    BY <2>1 DEF Note
  <2>3. CASE notes' = notes
    BY <2>3
  <2>4. ASSUME NEW m \in DOMAIN notes, NEW doc \in Note, UpdateNote(m, doc), doc.read = notes[m].read
        PROVE  (notes[n].deleted => notes'[n] = notes[n]) /\ (notes[n].read => notes'[n].read)
    <3>1. /\ notes'[m] \in {notes[m], doc} /\ (notes[m].deleted => notes'[m] = notes[m])
          /\ \A k \in DOMAIN notes : k # m => notes'[k] = notes[k]
      BY <2>1, <2>4, Updates
    <3>2. notes'[m].read = notes[m].read
      BY <2>4, <3>1
    <3>3. CASE n = m
      BY <3>1, <3>2, <3>3
    <3>4. CASE n # m
      BY <3>1, <3>4
    <3> QED
      BY <3>3, <3>4
  <2>5. ASSUME NEW m \in DOMAIN notes, UpdateNote(m, [notes[m] EXCEPT !.read = TRUE])
        PROVE  (notes[n].deleted => notes'[n] = notes[n]) /\ (notes[n].read => notes'[n].read)
    <3>1. notes[m] \in Note
      BY <2>1
    <3>2. [notes[m] EXCEPT !.read = TRUE] \in Note /\ [notes[m] EXCEPT !.read = TRUE].read = TRUE
      BY <3>1 DEF Note
    <3>3. /\ notes'[m] \in {notes[m], [notes[m] EXCEPT !.read = TRUE]}
          /\ notes[m].deleted => notes'[m] = notes[m]
          /\ \A k \in DOMAIN notes : k # m => notes'[k] = notes[k]
      BY <2>1, <2>5, <3>2, Updates
    <3>4. notes[m].read => notes'[m].read
      BY <3>2, <3>3
    <3>5. CASE n = m
      BY <3>3, <3>4, <3>5
    <3>6. CASE n # m
      BY <3>3, <3>6
    <3> QED
      BY <3>5, <3>6
  <2>6. ASSUME NEW m \in DOMAIN notes, notes' = [notes EXCEPT ![m].deleted = TRUE]
        PROVE  (notes[n].deleted => notes'[n] = notes[n]) /\ (notes[n].read => notes'[n].read)
    <3>1. CASE n = m
      <4>1. notes'[n] = [notes[n] EXCEPT !.deleted = TRUE]
        BY <2>6, <3>1
      <4>2. notes'[n].read = notes[n].read
        BY <2>1, <4>1 DEF Note
      <4>3. ASSUME notes[n].deleted PROVE [notes[n] EXCEPT !.deleted = TRUE] = notes[n]
        <5>1. notes[n].deleted = TRUE
          BY <2>2, <4>3
        <5> QED
          BY <2>1, <5>1 DEF Note
      <4> QED
        BY <4>1, <4>2, <4>3
    <3>2. CASE n # m
      BY <2>6, <3>2
    <3> QED
      BY <3>1, <3>2
  <2>7. ASSUME NEW nt \in Note, notes' = Append(notes, nt)
        PROVE  (notes[n].deleted => notes'[n] = notes[n]) /\ (notes[n].read => notes'[n].read)
    <3>1. notes'[n] = notes[n]
      BY <2>1, <2>7, Appended
    <3> QED
      BY <3>1
  <2>8. ASSUME NEW st, notes' = [m \in DOMAIN notes |->
                 [notes[m] EXCEPT !.read = @ \/ (StudentOf[notes[m].pair] = st /\ ~ notes[m].deleted)]]
        PROVE  (notes[n].deleted => notes'[n] = notes[n]) /\ (notes[n].read => notes'[n].read)
    <3> DEFINE b == notes[n].read \/ (StudentOf[notes[n].pair] = st /\ ~ notes[n].deleted)
    <3>1. notes'[n] = [notes[n] EXCEPT !.read = b]
      BY <2>8
    <3>2. notes[n].deleted => b = notes[n].read
      BY <2>2, Zenon
    <3>3. notes[n].read => b = TRUE
      OBVIOUS
    <3> HIDE DEF b
    <3>4. notes'[n].read = b /\ [notes[n] EXCEPT !.read = notes[n].read] = notes[n]
      BY <2>1, <3>1 DEF Note
    <3> QED
      BY <3>1, <3>2, <3>3, <3>4
  <2> QED
    BY <1>1, <2>3, <2>4, <2>5, <2>6, <2>7, <2>8, NotesChange
<1>2. IInv /\ [Next]_vars =>
        [\A n \in DOMAIN notes :
          /\ notes[n].deleted => notes'[n] = notes[n]
          /\ notes[n].read => notes'[n].read]_vars
  BY <1>1
<1> QED
  BY <1>2, Invariant, PTL DEF Spec, StudentCallsLast

\* Without crashes and failures of the database, a pair below the threshold is
\* passed over only for its key: a Redis error lets the alert through.
THEOREM OnlyKeysSuppress ==
  ASSUME "crash" \notin Faults, "db" \notin Faults
  PROVE  Spec => OnlyAKeySuppresses
<1>1. ASSUME IInv, [Next]_vars, NEW sv \in Server, NEW x \in Pair,
             weekly[sv].pc = "check", x \in weekly[sv].todo, x \notin weekly'[sv].todo
      PROVE  dedup[x].on
  <2>1. weekly \in [Server -> Weekly]
    BY <1>1 DEF IInv, TypeOK
  <2>2. weekly' # weekly
    BY <1>1
  <2>3. ASSUME NEW tv \in Server, WeeklyStart(tv) PROVE FALSE
    <3>1. PICK wk : weekly[tv].todo = {} /\ weekly' = [weekly EXCEPT ![tv] = wk]
      BY <2>3 DEF WeeklyStart
    <3> QED
      BY <1>1, <2>1, <3>1
  <2>4. ASSUME NEW tv \in Server, AlertCreate(tv) PROVE FALSE
    <3>1. PICK wk : weekly[tv].pc = "create" /\ weekly' = [weekly EXCEPT ![tv] = wk]
      BY <2>4 DEF AlertCreate, PairDone
    <3> QED
      BY <1>1, <2>1, <3>1
  <2>5. ASSUME NEW tv \in Server, NEW y \in Pair, AlertDedup(tv, y) PROVE dedup[x].on
    <3>1. ASSUME NEW w, PairPasses(tv, y, w) PROVE FALSE
      <4>1. weekly' = [weekly EXCEPT ![tv] = [weekly[tv] EXCEPT !.pc = "create", !.pair = y, !.window = w]]
        BY <3>1 DEF PairPasses
      <4>2. weekly[tv] \in Weekly
        BY <2>1
      <4>3. [weekly[tv] EXCEPT !.pc = "create", !.pair = y, !.window = w].todo = weekly[tv].todo
        BY <4>2 DEF Weekly
      <4>4. weekly'[sv].todo = weekly[sv].todo
        BY <2>1, <4>1, <4>3
      <4> QED
        BY <1>1, <4>4
    <3>2. PairDone(tv, y) /\ dedup[y].on
      BY <2>5, <3>1 DEF AlertDedup
    <3>3. weekly' = [weekly EXCEPT ![tv] = [IdleWeekly EXCEPT !.todo = weekly[tv].todo \ {y}]]
      BY <3>2 DEF PairDone
    <3>4. [IdleWeekly EXCEPT !.todo = weekly[tv].todo \ {y}].todo = weekly[tv].todo \ {y}
      BY DEF IdleWeekly
    <3>5. tv = sv /\ x = y
      BY <1>1, <2>1, <3>3, <3>4
    <3> QED
      BY <3>2, <3>5
  <2>6. ASSUME NEW tv \in Server, Alert(tv) PROVE dedup[x].on
    BY <2>3, <2>4, <2>5, <2>6 DEF Alert, AlertGivesUp
  <2>7. ASSUME NEW tv \in Server, NEW s \in sending[tv],
               SendOk(tv, s) \/ SendFail(tv, s) \/ MarkSent(tv, s) \/ MarkSentFails(tv, s) \/ MarkDead(tv, s)
        PROVE  FALSE
    BY <2>2, <2>7 DEF SendOk, SendFail, MarkSent, MarkSentFails, MarkDead
  <2>8. ASSUME NEW tv \in Server, Wake(tv) \/ \E j \in timers[tv] : TimerFires(tv, j) PROVE FALSE
    BY <2>2, <2>8 DEF Wake, TimerFires
  <2>9. ASSUME NEW y \in Pair, DedupExpires(y) PROVE FALSE
    BY <2>2, <2>9 DEF DedupExpires
  <2>10. CASE Student
    BY <2>2, <2>10 DEF Student, CallFind, MarkAsRead, DeleteNotification, MarkAllAsRead
  <2>11. Next
    BY <1>1, <2>2 DEF vars
  <2>12. ASSUME NEW tv \in Server PROVE ~ Deliver(tv) /\ ~ Crash(tv)
    BY <2>7, <2>8 DEF Deliver, Crash, MarkDeadFails
  <2> QED
    BY <2>6, <2>8, <2>9, <2>10, <2>11, <2>12 DEF Next
<1>2. IInv /\ [Next]_vars =>
        [\A sv \in Server, x \in Pair :
          /\ weekly[sv].pc = "check"
          /\ x \in weekly[sv].todo /\ x \notin weekly'[sv].todo
          => dedup[x].on]_vars
  BY <1>1
<1> QED
  BY <1>2, Invariant, PTL DEF Spec, OnlyAKeySuppresses
-----------------------------------------------------------------------------
(* The ladder of attempts.                                                 *)

Climbing == UNION {EmailsOf(sv) : sv \in Server}
Accepted == EmailsAt("sent")
Hopeless == EmailsAt("dead")

\* The emails of one server's mail, and those whose call is at l.
Mails(q, calling, tms) ==
  {q[i] : i \in DOMAIN q} \union {s.job : s \in calling} \union tms
MailsAt(calling, l) == {s.job : s \in {s \in calling : s.pc = l}}

\* The emails of different servers are different.
LEMMA ServersApart ==
  ASSUME IInv, NEW sv \in Server, NEW tv \in Server, NEW e, e \in EmailsOf(sv), e \in EmailsOf(tv)
  PROVE  sv = tv
<1>1. \A uv \in Server : e \in EmailsOf(uv) =>
         e.note \in NotesOf(queue[uv], sending[uv], timers[uv])
  BY DEF EmailsOf, NotesOf
<1> QED
  BY <1>1 DEF IInv, JobsDisjoint

\* A step of one server replaces that server's emails by others.
LEMMA OneServerMaps ==
  ASSUME IInv, NEW sv \in Server, NEW q, NEW busy, NEW calling, NEW w, NEW tms,
         MailOf(sv, q, busy, calling, w, tms)
  PROVE  /\ Climbing' = (Climbing \ EmailsOf(sv)) \union Mails(q, calling, tms)
         /\ Accepted' = (Accepted \ MailsAt(sending[sv], "sent")) \union MailsAt(calling, "sent")
         /\ Hopeless' = (Hopeless \ MailsAt(sending[sv], "dead")) \union MailsAt(calling, "dead")
<1>1. MailTyped
  BY DEF IInv, TypeOK, MailTyped
<1>2. queue'[sv] = q /\ sending'[sv] = calling /\ timers'[sv] = tms
  BY <1>1 DEF MailOf, MailTyped
<1>3. \A tv \in Server : tv # sv =>
         queue'[tv] = queue[tv] /\ sending'[tv] = sending[tv] /\ timers'[tv] = timers[tv]
  BY <1>1 DEF MailOf, MailTyped
<1>4. EmailsOf(sv)' = Mails(q, calling, tms)
  BY <1>2 DEF EmailsOf, Mails
<1>5. \A tv \in Server : tv # sv => EmailsOf(tv)' = EmailsOf(tv)
  BY <1>3 DEF EmailsOf
<1>6. Climbing' = (Climbing \ EmailsOf(sv)) \union Mails(q, calling, tms)
  <2>1. \A e : e \in Climbing' <=> \E tv \in Server : e \in EmailsOf(tv)'
    BY DEF Climbing
  <2>2. \A e : e \in Climbing <=> \E tv \in Server : e \in EmailsOf(tv)
    BY DEF Climbing
  <2>3. ASSUME NEW e
        PROVE  e \in Climbing' <=> e \in (Climbing \ EmailsOf(sv)) \union Mails(q, calling, tms)
    BY <1>4, <1>5, <2>1, <2>2, ServersApart
  <2> QED
    BY <2>3
<1>7. ASSUME NEW l
      PROVE  EmailsAt(l)' = (EmailsAt(l) \ MailsAt(sending[sv], l)) \union MailsAt(calling, l)
  <2>1. \A e : e \in EmailsAt(l)' <=> \E tv \in Server : e \in MailsAt(sending'[tv], l)
    BY DEF EmailsAt, MailsAt
  <2>2. \A e : e \in EmailsAt(l) <=> \E tv \in Server : e \in MailsAt(sending[tv], l)
    BY DEF EmailsAt, MailsAt
  <2>3. \A tv \in Server : \A e : e \in MailsAt(sending[tv], l) => e \in EmailsOf(tv)
    BY DEF MailsAt, EmailsOf
  <2>4. ASSUME NEW e
        PROVE  e \in EmailsAt(l)' <=>
                 e \in (EmailsAt(l) \ MailsAt(sending[sv], l)) \union MailsAt(calling, l)
    BY <1>2, <1>3, <2>1, <2>2, <2>3, ServersApart
  <2> QED
    BY <2>4
<1> QED
  BY <1>6, <1>7 DEF Accepted, Hopeless

\* The email that a call holds: it climbs, it is at the await of that call, and
\* its server has it nowhere else.
LEMMA HeldMaps ==
  ASSUME IInv, NEW sv \in Server, NEW s \in sending[sv]
  PROVE  /\ s.job \in Climbing /\ s.job \in EmailsOf(sv) /\ s.job \in EmailJob
         /\ \A l : s.job \in EmailsAt(l) <=> s.pc = l
         /\ \A l : MailsAt({s}, l) = IF s.pc = l THEN {s.job} ELSE {}
         /\ EmailsOf(sv) = Mails(queue[sv], {}, timers[sv]) \union {s.job}
         /\ s.job \notin Mails(queue[sv], {}, timers[sv])
<1>1. sending[sv] = {s} /\ s.job \in EmailJob
  BY Alone
<1>2. s.job \in EmailsOf(sv)
  BY DEF EmailsOf
<1>3. s.job \in Climbing
  BY <1>2 DEF Climbing
<1>4. \A l : MailsAt({s}, l) = IF s.pc = l THEN {s.job} ELSE {}
  BY DEF MailsAt
<1>5. ASSUME NEW l
      PROVE  s.job \in EmailsAt(l) <=> s.pc = l
  <2>1. s.job \in EmailsAt(l) <=> \E tv \in Server : s.job \in MailsAt(sending[tv], l)
    BY DEF EmailsAt, MailsAt
  <2>2. \A tv \in Server : s.job \in MailsAt(sending[tv], l) => s.job \in EmailsOf(tv)
    BY DEF MailsAt, EmailsOf
  <2>3. s.job \in EmailsAt(l) <=> s.job \in MailsAt(sending[sv], l)
    BY <1>2, <2>1, <2>2, ServersApart
  <2> QED
    BY <1>1, <1>4, <2>3
<1>6. EmailsOf(sv) = Mails(queue[sv], {}, timers[sv]) \union {s.job}
  BY <1>1 DEF EmailsOf, Mails
<1>7. s.job \notin Mails(queue[sv], {}, timers[sv])
  BY MailKnown DEF Apart, Mails
<1> QED
  BY <1>1, <1>2, <1>3, <1>4, <1>5, <1>6, <1>7

\* What a step of a call does to the ladder: its email goes to another await,
\* leaves the call for the next attempt, or is over.
LEMMA CallMaps ==
  ASSUME IInv, NEW sv \in Server, NEW s \in sending[sv]
  PROVE  /\ \A t \in Sending :
               MailOf(sv, queue[sv], TRUE, {t}, 0, timers[sv]) /\ t.job = s.job =>
                  /\ Climbing' = Climbing
                  /\ Accepted' = IF t.pc = "sent" THEN Accepted \union {s.job} ELSE Accepted \ {s.job}
                  /\ Hopeless' = IF t.pc = "dead" THEN Hopeless \union {s.job} ELSE Hopeless \ {s.job}
         /\ \A more \in SUBSET EmailJob :
               MailOf(sv, queue[sv], TRUE, {}, 1, timers[sv] \union more) =>
                  /\ Climbing' = (Climbing \ {s.job}) \union more
                  /\ Accepted' = Accepted \ {s.job} /\ Hopeless' = Hopeless \ {s.job}
<1> DEFINE rest == Mails(queue[sv], {}, timers[sv])
<1>1. sending[sv] = {s}
  BY Alone
<1>2. /\ s.job \in Climbing /\ EmailsOf(sv) = rest \union {s.job} /\ s.job \notin rest
      /\ \A l : MailsAt({s}, l) = IF s.pc = l THEN {s.job} ELSE {}
  BY HeldMaps
<1>3. /\ s.job \in Accepted <=> s.pc = "sent"
      /\ s.job \in Hopeless <=> s.pc = "dead"
      /\ MailsAt(sending[sv], "sent") = IF s.pc = "sent" THEN {s.job} ELSE {}
      /\ MailsAt(sending[sv], "dead") = IF s.pc = "dead" THEN {s.job} ELSE {}
  BY <1>1, <1>2, HeldMaps DEF Accepted, Hopeless
<1>4. rest \subseteq Climbing
  BY <1>2 DEF Climbing
<1>5. ASSUME NEW t \in Sending, MailOf(sv, queue[sv], TRUE, {t}, 0, timers[sv]), t.job = s.job
      PROVE  /\ Climbing' = Climbing
             /\ Accepted' = IF t.pc = "sent" THEN Accepted \union {s.job} ELSE Accepted \ {s.job}
             /\ Hopeless' = IF t.pc = "dead" THEN Hopeless \union {s.job} ELSE Hopeless \ {s.job}
  <2>1. Mails(queue[sv], {t}, timers[sv]) = rest \union {s.job}
    BY <1>5 DEF Mails
  <2>2. \A l : MailsAt({t}, l) = IF t.pc = l THEN {s.job} ELSE {}
    BY <1>5 DEF MailsAt
  <2> HIDE DEF rest
  <2>3. /\ Climbing' = (Climbing \ EmailsOf(sv)) \union Mails(queue[sv], {t}, timers[sv])
        /\ Accepted' = (Accepted \ MailsAt(sending[sv], "sent")) \union MailsAt({t}, "sent")
        /\ Hopeless' = (Hopeless \ MailsAt(sending[sv], "dead")) \union MailsAt({t}, "dead")
    BY <1>5, OneServerMaps
  <2>4. Climbing' = Climbing
    BY <1>2, <1>4, <2>1, <2>3
  <2>5. Accepted' = IF t.pc = "sent" THEN Accepted \union {s.job} ELSE Accepted \ {s.job}
    BY <1>3, <2>2, <2>3
  <2>6. Hopeless' = IF t.pc = "dead" THEN Hopeless \union {s.job} ELSE Hopeless \ {s.job}
    BY <1>3, <2>2, <2>3
  <2> QED
    BY <2>4, <2>5, <2>6
<1>6. ASSUME NEW more \in SUBSET EmailJob, MailOf(sv, queue[sv], TRUE, {}, 1, timers[sv] \union more)
      PROVE  /\ Climbing' = (Climbing \ {s.job}) \union more
             /\ Accepted' = Accepted \ {s.job} /\ Hopeless' = Hopeless \ {s.job}
  <2>1. Mails(queue[sv], {}, timers[sv] \union more) = rest \union more
    BY DEF Mails
  <2>2. \A l : MailsAt({}, l) = {}
    BY DEF MailsAt
  <2> HIDE DEF rest
  <2>3. /\ Climbing' = (Climbing \ EmailsOf(sv)) \union Mails(queue[sv], {}, timers[sv] \union more)
        /\ Accepted' = (Accepted \ MailsAt(sending[sv], "sent")) \union MailsAt({}, "sent")
        /\ Hopeless' = (Hopeless \ MailsAt(sending[sv], "dead")) \union MailsAt({}, "dead")
    BY <1>6, OneServerMaps
  <2>4. Climbing' = (Climbing \ {s.job}) \union more
    BY <1>2, <1>4, <2>1, <2>3
  <2>5. Accepted' = Accepted \ {s.job} /\ Hopeless' = Hopeless \ {s.job}
    BY <1>3, <2>2, <2>3
  <2> QED
    BY <2>4, <2>5
<1> QED
  BY <1>5, <1>6

\* The status of the notes and the deleted notes, as the ladder sees them.
Status == [n \in DOMAIN notes |-> notes[n].email]
Gone == {n \in DOMAIN notes : notes[n].deleted}

\* A rejected attempt that is the last one stays with its call, another one
\* leaves it for a timer.
LEMMA CatchIs ==
  ASSUME IInv, NEW sv \in Server, NEW s \in sending[sv], Catch(sv, s)
  PROVE  IF s.job.attempt < MAX_EMAIL_ATTEMPTS
         THEN MailOf(sv, queue[sv], TRUE, {}, 1, timers[sv] \union {[s.job EXCEPT !.attempt = @ + 1]})
         ELSE MailOf(sv, queue[sv], TRUE, {[s EXCEPT !.pc = "dead"]}, 0, timers[sv])
<1> DEFINE next == [s.job EXCEPT !.attempt = @ + 1]
           dead == [s EXCEPT !.pc = "dead"]
<1>1. /\ s.job \in EmailJob /\ sending[sv] = {s} /\ processing[sv] = TRUE /\ wakeups[sv] = 0
  BY Alone
<1>2. s.job.attempt < MAX_EMAIL_ATTEMPTS <=> s.job.attempt + 1 <= MAX_EMAIL_ATTEMPTS
  BY <1>1, JobParts DEF MAX_EMAIL_ATTEMPTS
<1>3. CASE s.job.attempt < MAX_EMAIL_ATTEMPTS
  <2>1. timers' = [timers EXCEPT ![sv] = timers[sv] \union {next}] /\ Release(sv, s)
    BY <1>2, <1>3 DEF Catch
  <2> HIDE DEF next
  <2>2. MailOf(sv, queue[sv], TRUE, {}, 1, timers[sv] \union {next})
    BY <1>1, <2>1, Cells, Released DEF MailOf, Release
  <2> QED
    BY <1>3, <2>2 DEF next
<1>4. CASE ~ (s.job.attempt < MAX_EMAIL_ATTEMPTS)
  <2>1. /\ sending' = [sending EXCEPT ![sv] = (sending[sv] \ {s}) \union {dead}]
        /\ UNCHANGED <<queue, processing, wakeups, timers>>
    BY <1>2, <1>4 DEF Catch
  <2> HIDE DEF dead
  <2>2. sending' = [sending EXCEPT ![sv] = {dead}]
    BY <1>1, <2>1
  <2>3. MailOf(sv, queue[sv], TRUE, {dead}, 0, timers[sv])
    BY <1>1, <2>1, <2>2, Cells DEF MailOf
  <2> QED
    BY <1>4, <2>3 DEF dead
<1> QED
  BY <1>3, <1>4

\* The provider accepts.
LEMMA SendOkMaps ==
  ASSUME IInv, NEW sv \in Server, NEW s \in sending[sv], SendOk(sv, s)
  PROVE  Ladder!LadderNext
<1> DEFINE t == [s EXCEPT !.pc = "sent"]
<1>1. /\ s.pc = "send" /\ Receive(s.job.note)
      /\ sending' = [sending EXCEPT ![sv] = (sending[sv] \ {s}) \union {t}]
      /\ UNCHANGED <<notes, queue, processing, wakeups, timers>>
  BY DEF SendOk
<1>2. s \in Sending /\ sending[sv] = {s} /\ processing[sv] = TRUE /\ wakeups[sv] = 0
  BY Alone
<1>3. t \in Sending /\ t.job = s.job /\ t.pc = "sent"
  BY <1>2, NextAwait
<1> HIDE DEF t
<1>4. MailOf(sv, queue[sv], TRUE, {t}, 0, timers[sv])
  <2>1. sending' = [sending EXCEPT ![sv] = {t}]
    BY <1>1, <1>2
  <2> QED
    BY <1>1, <1>2, <2>1, Cells DEF MailOf
<1>5. Climbing' = Climbing /\ Accepted' = Accepted \union {s.job} /\ Hopeless' = Hopeless \ {s.job}
  BY <1>3, <1>4, CallMaps
<1>6. s.job \in Climbing /\ s.job \notin Accepted /\ s.job \notin Hopeless
  BY <1>1, HeldMaps DEF Accepted, Hopeless
<1>7. Hopeless' = Hopeless
  BY <1>5, <1>6
<1>8. Ladder!Accept(s.job)
  BY <1>1, <1>5, <1>6, <1>7 DEF Ladder!Accept, Ladder!Reaches, Receive, Climbing, Accepted, Hopeless
<1> QED
  BY <1>6, <1>8 DEF Ladder!LadderNext, Climbing

\* A note tells how its email ended, unless the student has deleted it.
LEMMA TellMaps ==
  ASSUME IInv, NEW sv \in Server, NEW s \in sending[sv], NEW doc \in Note,
         UpdateNote(s.job.note, doc),
         doc.deleted = notes[s.job.note].deleted,
         \/ s.pc = "sent" /\ doc.email = "sent"
         \/ s.pc = "dead" /\ doc.email = "failed"
  PROVE  Ladder!Tell(s.job) /\ Gone' = Gone
<1> DEFINE n == s.job.note
           ends == IF s.job \in Accepted THEN "sent" ELSE "failed"
<1>1. Underway(s, notes, received)
  BY Alone
<1>2. n \in DOMAIN notes /\ notes \in Seq(Note)
  BY <1>1 DEF Underway, IInv, NotesFine
<1>3. /\ s.job \in Climbing /\ s.job \in Accepted \union Hopeless
      /\ doc.email = ends
  BY HeldMaps DEF Accepted, Hopeless
<1> HIDE DEF ends
<1>4. /\ DOMAIN notes' = DOMAIN notes
      /\ \A m \in DOMAIN notes : m # n => notes'[m] = notes[m]
      /\ notes'[n].deleted = notes[n].deleted
      /\ notes'[n] = IF notes[n].deleted THEN notes[n] ELSE doc
  <2>1. CASE notes[n].deleted
    BY <2>1 DEF UpdateNote
  <2>2. CASE ~ notes[n].deleted
    BY <1>2, <2>2 DEF UpdateNote
  <2> QED
    BY <2>1, <2>2
<1> HIDE DEF n
<1>5. Gone' = Gone
  BY <1>4 DEF Gone
<1>6. Status' = IF n \in Gone THEN Status ELSE [Status EXCEPT ![n] = ends]
  <2>1. CASE n \in Gone
    BY <1>4, <2>1 DEF Status, Gone
  <2>2. CASE n \notin Gone
    <3>1. notes'[n].email = ends
      BY <1>2, <1>3, <1>4, <2>2 DEF Gone
    <3> QED
      BY <1>2, <1>4, <2>2, <3>1 DEF Status
  <2> QED
    BY <2>1, <2>2
<1> QED
  BY <1>3, <1>5, <1>6 DEF Ladder!Tell, Climbing, Accepted, Hopeless, Status, Gone, n, ends

\* The updates that settle a note, of a call that has come to them.
LEMMA UpdatesTell ==
  ASSUME IInv, NEW sv \in Server, NEW s \in sending[sv],
         \/ s.pc = "sent" /\ UpdateSent(s.job.note)
         \/ s.pc = "dead" /\ UpdateDead(s.job.note)
  PROVE  Ladder!Tell(s.job) /\ Gone' = Gone
<1> DEFINE n == s.job.note
           sent == [notes[n] EXCEPT !.email = "sent", !.attempts = @ + 1]
           dead == [notes[n] EXCEPT !.email = "failed", !.attempts = MAX_EMAIL_ATTEMPTS]
<1>1. notes[n] \in Note
  <2>1. Underway(s, notes, received) /\ notes \in Seq(Note)
    BY Alone DEF IInv, NotesFine
  <2>2. n \in DOMAIN notes
    BY <2>1 DEF Underway
  <2> QED
    BY <2>1, <2>2
<1>2. sent \in Note /\ dead \in Note
  BY <1>1, NewDocuments
<1>3. /\ sent.email = "sent" /\ sent.deleted = notes[n].deleted
      /\ dead.email = "failed" /\ dead.deleted = notes[n].deleted
  BY <1>1 DEF Note
<1>4. \/ s.pc = "sent" /\ UpdateNote(n, sent)
      \/ s.pc = "dead" /\ UpdateNote(n, dead)
  BY DEF UpdateSent, UpdateDead
<1> HIDE DEF sent, dead
<1> QED
  BY <1>2, <1>3, <1>4, TellMaps

\* If the notes stay, their status stays.
LEMMA NotesStay ==
  ASSUME notes' = notes
  PROVE  Gone' = Gone /\ Status' = Status
  BY DEF Gone, Status

\* The updates of MarkSent and MarkDead settle.
LEMMA MarkMaps ==
  ASSUME IInv, NEW sv \in Server, NEW s \in sending[sv], MarkSent(sv, s) \/ MarkDead(sv, s)
  PROVE  Ladder!LadderNext
<1>1. /\ \/ s.pc = "sent" /\ UpdateSent(s.job.note)
         \/ s.pc = "dead" /\ UpdateDead(s.job.note)
      /\ Release(sv, s) /\ UNCHANGED <<received, timers>>
  BY DEF MarkSent, MarkDead
<1>2. sending[sv] = {s} /\ processing[sv] = TRUE /\ wakeups[sv] = 0
  BY Alone
<1>3. MailOf(sv, queue[sv], TRUE, {}, 1, timers[sv])
  BY <1>1, <1>2, Cells, Released DEF MailOf, Release
<1>4. Climbing' = Climbing \ {s.job} /\ Accepted' = Accepted \ {s.job} /\ Hopeless' = Hopeless \ {s.job}
  <2>1. timers[sv] \union {} = timers[sv] /\ (Climbing \ {s.job}) \union {} = Climbing \ {s.job}
    OBVIOUS
  <2>2. MailOf(sv, queue[sv], TRUE, {}, 1, timers[sv] \union {}) /\ {} \in SUBSET EmailJob
    BY <1>3, <2>1
  <2>3. /\ Climbing' = (Climbing \ {s.job}) \union {}
        /\ Accepted' = Accepted \ {s.job} /\ Hopeless' = Hopeless \ {s.job}
    BY <2>2, CallMaps
  <2> QED
    BY <2>1, <2>3
<1>5. Ladder!Tell(s.job) /\ Gone' = Gone
  BY <1>1, UpdatesTell
<1>6. s.job \in Climbing
  BY HeldMaps
<1>7. Ladder!Settle(s.job)
  BY <1>1, <1>4, <1>5 DEF Ladder!Settle, Ladder!End, Climbing, Accepted, Hopeless, Gone
<1> QED
  BY <1>6, <1>7 DEF Ladder!LadderNext, Climbing

\* An attempt fails, be it in the provider's call or in the update after it,
\* which may have been applied.
LEMMA CatchMaps ==
  ASSUME IInv, NEW sv \in Server, NEW s \in sending[sv], Catch(sv, s), s.pc \in {"send", "sent"},
         UNCHANGED received \/ (s.pc = "send" /\ Receive(s.job.note)),
         notes' = notes \/ (s.pc = "sent" /\ UpdateSent(s.job.note))
  PROVE  Ladder!LadderNext
<1> DEFINE next == [s.job EXCEPT !.attempt = @ + 1]
           dead == [s EXCEPT !.pc = "dead"]
<1>1. s \in Sending /\ s.job \in EmailJob
  BY Alone
<1>2. /\ s.job \in Climbing /\ s.job \notin Hopeless /\ (s.job \in Accepted <=> s.pc = "sent")
  BY HeldMaps DEF Accepted, Hopeless
<1>3. UNCHANGED received \/ (s.job \notin Accepted /\ Receive(s.job.note))
  BY <1>2
<1>4. /\ Accepted' = Accepted \ {s.job}
      /\ IF s.job.attempt < MAX_EMAIL_ATTEMPTS
         THEN Climbing' = (Climbing \ {s.job}) \union {next} /\ Hopeless' = Hopeless
         ELSE Climbing' = Climbing /\ Hopeless' = Hopeless \union {s.job}
  <2>1. CASE s.job.attempt < MAX_EMAIL_ATTEMPTS
    <3>1. s.job.attempt + 1 <= MAX_EMAIL_ATTEMPTS
      BY <1>1, <2>1, JobParts DEF MAX_EMAIL_ATTEMPTS
    <3>2. next \in EmailJob
      BY <1>1, <3>1, NextAttempt
    <3>3. MailOf(sv, queue[sv], TRUE, {}, 1, timers[sv] \union {next})
      BY <2>1, CatchIs
    <3> HIDE DEF next
    <3>4. {next} \in SUBSET EmailJob
      BY <3>2
    <3>5. /\ Climbing' = (Climbing \ {s.job}) \union {next}
          /\ Accepted' = Accepted \ {s.job} /\ Hopeless' = Hopeless \ {s.job}
      BY <3>3, <3>4, CallMaps
    <3> QED
      BY <1>2, <2>1, <3>5
  <2>2. CASE ~ (s.job.attempt < MAX_EMAIL_ATTEMPTS)
    <3>1. dead \in Sending /\ dead.job = s.job /\ dead.pc = "dead"
      BY <1>1, NextAwait
    <3>2. MailOf(sv, queue[sv], TRUE, {dead}, 0, timers[sv])
      BY <2>2, CatchIs
    <3> HIDE DEF dead
    <3>3. /\ Climbing' = Climbing /\ Accepted' = Accepted \ {s.job}
          /\ Hopeless' = Hopeless \union {s.job}
      BY <3>1, <3>2, CallMaps
    <3> QED
      BY <2>2, <3>3
  <2> QED
    BY <2>1, <2>2
<1>5. (Ladder!Tell(s.job) \/ Status' = Status) /\ Gone' = Gone
  BY NotesStay, UpdatesTell
<1>6. Ladder!Fail(s.job)
  BY <1>2, <1>3, <1>4, <1>5
  DEF Ladder!Fail, Ladder!Reaches, Receive, Climbing, Accepted, Hopeless, Status, Gone
<1> QED
  BY <1>2, <1>6 DEF Ladder!LadderNext, Climbing

\* A server that dies loses its emails and no other, at most after one of them
\* was marked.
LEMMA DiesMaps ==
  ASSUME IInv, NEW sv \in Server, Dies(sv),
         \/ notes' = notes
         \/ \E s \in sending[sv] : s.pc = "dead" /\ UpdateDead(s.job.note)
  PROVE  Ladder!LadderNext
<1> DEFINE lost == EmailsOf(sv)
<1>1. MailOf(sv, <<>>, FALSE, {}, 0, {}) /\ received' = received
  BY DEF Dies, MailOf
<1>2. Mails(<<>>, {}, {}) = {} /\ \A l : MailsAt({}, l) = {}
  BY DEF Mails, MailsAt
<1>3. /\ Climbing' = Climbing \ lost
      /\ Accepted' = Accepted \ MailsAt(sending[sv], "sent")
      /\ Hopeless' = Hopeless \ MailsAt(sending[sv], "dead")
  <2>1. /\ Climbing' = (Climbing \ EmailsOf(sv)) \union Mails(<<>>, {}, {})
        /\ Accepted' = (Accepted \ MailsAt(sending[sv], "sent")) \union MailsAt({}, "sent")
        /\ Hopeless' = (Hopeless \ MailsAt(sending[sv], "dead")) \union MailsAt({}, "dead")
    BY <1>1, OneServerMaps
  <2> QED
    BY <1>2, <2>1
<1>4. ASSUME NEW l, NEW e \in EmailsAt(l)
      PROVE  e \in lost <=> e \in MailsAt(sending[sv], l)
  <2>1. PICK tv \in Server : e \in MailsAt(sending[tv], l)
    BY <1>4 DEF EmailsAt, MailsAt
  <2>2. \A uv \in Server : e \in MailsAt(sending[uv], l) => e \in EmailsOf(uv)
    BY DEF MailsAt, EmailsOf
  <2> QED
    BY <2>1, <2>2, ServersApart
<1>5. Accepted' = Accepted \ lost /\ Hopeless' = Hopeless \ lost
  BY <1>3, <1>4 DEF Accepted, Hopeless
<1>6. lost \in SUBSET Climbing
  BY DEF Climbing
<1>7. /\ Gone' = Gone
      /\ Status' = Status \/ \E a \in lost \intersect Hopeless : Ladder!Tell(a)
  <2>1. CASE notes' = notes
    BY <2>1, NotesStay
  <2>2. ASSUME NEW s \in sending[sv], s.pc = "dead", UpdateDead(s.job.note)
        PROVE  Gone' = Gone /\ \E a \in lost \intersect Hopeless : Ladder!Tell(a)
    <3>1. s.job \in lost
      BY DEF EmailsOf
    <3>2. s.job \in Hopeless
      BY <2>2, HeldMaps DEF Hopeless
    <3>3. Ladder!Tell(s.job) /\ Gone' = Gone
      BY <2>2, UpdatesTell
    <3> QED
      BY <3>1, <3>2, <3>3
  <2> QED
    BY <2>1, <2>2
<1>8. PICK ended \in SUBSET Climbing : ended = lost
  BY <1>6
<1>9. Ladder!Lose(ended)
  BY <1>1, <1>3, <1>5, <1>7, <1>8
  DEF Ladder!Lose, Ladder!End, Climbing, Accepted, Hopeless, Status, Gone
<1> QED
  BY <1>9, Zenon DEF Ladder!LadderNext, Climbing


\* A server takes up an email, from a timer or anew.
LEMMA EnqueueMaps ==
  ASSUME IInv, NEW sv \in Server, NEW j \in EmailJob, NEW tms \in SUBSET timers[sv],
         Enqueue(sv, j), wakeups' = wakeups, timers' = [timers EXCEPT ![sv] = tms],
         timers[sv] \subseteq tms \union {j}
  PROVE  Climbing' = Climbing \union {j} /\ Accepted' = Accepted /\ Hopeless' = Hopeless
<1> DEFINE q == queue[sv]
           calling == sending[sv]
<1>1. /\ q \in Seq(EmailJob) /\ processing[sv] \in BOOLEAN
      /\ OneCall(q, processing[sv], calling, wakeups[sv])
  BY MailKnown
<1>2. EmailsOf(sv) \subseteq Climbing /\ EmailsOf(sv) = Mails(q, calling, timers[sv])
  BY DEF Climbing, EmailsOf, Mails
<1>3. MailsAt(calling, "sent") \subseteq Accepted /\ MailsAt(calling, "dead") \subseteq Hopeless
  BY DEF Accepted, Hopeless, EmailsAt, MailsAt
<1>4. Mails(q, calling, tms) \union {j} = Mails(q, calling, timers[sv]) \union {j}
  BY DEF Mails
<1>5. CASE processing[sv]
  <2> DEFINE now == Append(q, j)
  <2>1. MailOf(sv, now, processing[sv], calling, wakeups[sv], tms)
    BY <1>5, Cells DEF Enqueue, MailOf
  <2>2. Mails(now, calling, tms) = Mails(q, calling, tms) \union {j}
    <3>1. /\ DOMAIN now = DOMAIN q \union {Len(q) + 1} /\ Len(q) + 1 \notin DOMAIN q
          /\ now[Len(q) + 1] = j /\ \A i \in DOMAIN q : now[i] = q[i]
      BY <1>1, Appended
    <3>2. {now[i] : i \in DOMAIN now} = {q[i] : i \in DOMAIN q} \union {j}
      BY <3>1
    <3> QED
      BY <3>2 DEF Mails
  <2> HIDE DEF now, q, calling
  <2>3. /\ Climbing' = (Climbing \ EmailsOf(sv)) \union Mails(now, calling, tms)
        /\ Accepted' = (Accepted \ MailsAt(calling, "sent")) \union MailsAt(calling, "sent")
        /\ Hopeless' = (Hopeless \ MailsAt(calling, "dead")) \union MailsAt(calling, "dead")
    BY <2>1, OneServerMaps DEF calling
  <2> QED
    BY <1>2, <1>3, <1>4, <2>2, <2>3
<1>6. CASE ~ processing[sv]
  <2> DEFINE s == [job |-> j, pc |-> "send"]
  <2>1. q = <<>> /\ calling = {} /\ wakeups[sv] = 0
    BY <1>1, <1>6 DEF OneCall
  <2>2. MailOf(sv, q, TRUE, {s}, wakeups[sv], tms)
    <3>1. queue' = [queue EXCEPT ![sv] = q] /\ sending' = [sending EXCEPT ![sv] = {s}]
      BY <1>6, <2>1, TakenAtOnce DEF Enqueue
    <3>2. processing' = [processing EXCEPT ![sv] = TRUE]
      BY <1>6 DEF Enqueue
    <3> QED
      BY <3>1, <3>2, Cells DEF MailOf
  <2>3. Mails(q, {s}, tms) = Mails(q, calling, tms) \union {j}
    BY <2>1 DEF Mails
  <2>4. /\ MailsAt({s}, "sent") = {} /\ MailsAt({s}, "dead") = {}
        /\ MailsAt(calling, "sent") = {} /\ MailsAt(calling, "dead") = {}
    BY <2>1 DEF MailsAt
  <2> HIDE DEF s, q, calling
  <2>5. /\ Climbing' = (Climbing \ EmailsOf(sv)) \union Mails(q, {s}, tms)
        /\ Accepted' = (Accepted \ MailsAt(calling, "sent")) \union MailsAt({s}, "sent")
        /\ Hopeless' = (Hopeless \ MailsAt(calling, "dead")) \union MailsAt({s}, "dead")
    BY <2>2, OneServerMaps DEF calling
  <2> QED
    BY <1>2, <1>4, <2>3, <2>4, <2>5
<1> QED
  BY <1>5, <1>6

\* A timer only moves its email to the queue.
LEMMA TimerFiresMaps ==
  ASSUME IInv, NEW sv \in Server, NEW j \in timers[sv], TimerFires(sv, j)
  PROVE  UNCHANGED Ladder!emails
<1> DEFINE tms == timers[sv] \ {j}
<1>1. /\ timers' = [timers EXCEPT ![sv] = tms] /\ Enqueue(sv, j) /\ wakeups' = wakeups
      /\ notes' = notes /\ received' = received
  BY DEF TimerFires, store
<1>2. j \in EmailJob
  BY MailKnown
<1>3. tms \in SUBSET timers[sv] /\ timers[sv] \subseteq tms \union {j}
  OBVIOUS
<1> HIDE DEF tms
<1>4. Climbing' = Climbing \union {j} /\ Accepted' = Accepted /\ Hopeless' = Hopeless
  BY <1>1, <1>2, <1>3, EnqueueMaps
<1>5. j \in Climbing
  BY DEF Climbing, EmailsOf
<1>6. Climbing' = Climbing
  BY <1>4, <1>5
<1> QED
  BY <1>1, <1>4, <1>6 DEF Ladder!emails, Climbing, Accepted, Hopeless

\* A callback only moves an email from the queue to a call.
LEMMA WakeMaps ==
  ASSUME IInv, NEW sv \in Server, Wake(sv)
  PROVE  UNCHANGED Ladder!emails
<1> DEFINE q == queue[sv]
           tms == timers[sv]
<1>1. /\ wakeups[sv] > 0 /\ wakeups' = [wakeups EXCEPT ![sv] = wakeups[sv] - 1]
      /\ UNCHANGED <<notes, received, timers>>
  BY DEF Wake, store
<1>2. q \in Seq(EmailJob) /\ wakeups[sv] \in Nat /\ OneCall(q, processing[sv], sending[sv], wakeups[sv])
  BY MailKnown
<1>3. sending[sv] = {}
  BY <1>1, <1>2 DEF OneCall
<1>4. EmailsOf(sv) \subseteq Climbing /\ EmailsOf(sv) = Mails(q, {}, tms)
  BY <1>3 DEF Climbing, EmailsOf, Mails
<1>5. CASE q = <<>>
  <2>1. UNCHANGED <<queue, sending>>
    BY <1>5 DEF Wake
  <2> QED
    BY <1>1, <2>1 DEF Ladder!emails, EmailsOf, EmailsAt
<1>6. CASE q # <<>>
  <2> DEFINE s == [job |-> Head(q), pc |-> "send"]
  <2>1. /\ processing' = [processing EXCEPT ![sv] = TRUE]
        /\ queue' = [queue EXCEPT ![sv] = Tail(q)]
        /\ sending' = [sending EXCEPT ![sv] = sending[sv] \union {s}]
    BY <1>6 DEF Wake
  <2>2. sending[sv] \union {s} = {s}
    BY <1>3
  <2>3. MailOf(sv, Tail(q), TRUE, {s}, wakeups[sv] - 1, tms)
    BY <1>1, <2>1, <2>2, Cells DEF MailOf
  <2>4. Mails(Tail(q), {s}, tms) = Mails(q, {}, tms)
    <3>1. /\ 1 \in DOMAIN q /\ Head(q) = q[1] /\ DOMAIN q = 1 .. Len(q) /\ Len(q) \in Nat
          /\ DOMAIN Tail(q) = 1 .. (Len(q) - 1)
          /\ \A i \in DOMAIN Tail(q) : Tail(q)[i] = q[i + 1]
      BY <1>2, <1>6
    <3>2. \A i \in DOMAIN Tail(q) : i + 1 \in DOMAIN q
      BY <3>1
    <3>3. \A i \in DOMAIN q : i = 1 \/ (i - 1 \in DOMAIN Tail(q) /\ Tail(q)[i - 1] = q[i])
      BY <3>1
    <3> DEFINE rest == Tail(q)
               all == {q[i] : i \in DOMAIN q}
               others == {rest[i] : i \in DOMAIN rest}
    <3>4. all \subseteq others \union {q[1]}
      <4> SUFFICES ASSUME NEW i \in DOMAIN q
                   PROVE  q[i] \in others \union {q[1]}
        OBVIOUS
      <4>1. CASE i = 1
        BY <4>1
      <4>2. CASE i - 1 \in DOMAIN rest /\ rest[i - 1] = q[i]
        BY <4>2
      <4> QED
        BY <3>3, <4>1, <4>2
    <3>5. others \subseteq all
      <4> SUFFICES ASSUME NEW i \in DOMAIN rest
                   PROVE  rest[i] \in all
        OBVIOUS
      <4>1. rest[i] = q[i + 1] /\ i + 1 \in DOMAIN q
        BY <3>1, <3>2
      <4> QED
        BY <4>1
    <3>6. q[1] \in all /\ {t.job : t \in {s}} = {q[1]} /\ {t.job : t \in {}} = {}
      BY <3>1
    <3>7. Mails(q, {}, tms) = all \union tms /\ Mails(rest, {s}, tms) = others \union {q[1]} \union tms
      BY <3>6 DEF Mails
    <3> HIDE DEF all, others, s
    <3> QED
      BY <3>4, <3>5, <3>6, <3>7
  <2>5. /\ MailsAt({s}, "sent") = {} /\ MailsAt({s}, "dead") = {}
        /\ MailsAt(sending[sv], "sent") = {} /\ MailsAt(sending[sv], "dead") = {}
    BY <1>3 DEF MailsAt
  <2> HIDE DEF s, q
  <2>6. /\ Climbing' = (Climbing \ EmailsOf(sv)) \union Mails(Tail(q), {s}, tms)
        /\ Accepted' = (Accepted \ MailsAt(sending[sv], "sent")) \union MailsAt({s}, "sent")
        /\ Hopeless' = (Hopeless \ MailsAt(sending[sv], "dead")) \union MailsAt({s}, "dead")
    BY <2>3, OneServerMaps
  <2>7. Climbing' = Climbing /\ Accepted' = Accepted /\ Hopeless' = Hopeless
    BY <1>4, <2>4, <2>5, <2>6
  <2> QED
    BY <1>1, <2>7 DEF Ladder!emails, Climbing, Accepted, Hopeless
<1> QED
  BY <1>5, <1>6

\* A note is created, and its email starts at its first attempt or never.
LEMMA StartMaps ==
  ASSUME IInv, NEW sv \in Server, CreateNote(sv),
         \/ Climbing' = Climbing \union {[note |-> Len(notes) + 1, attempt |-> 1]}
         \/ Climbing' = Climbing,
         Accepted' = Accepted, Hopeless' = Hopeless
  PROVE  Ladder!LadderNext
<1> DEFINE nt == NewNote(weekly[sv].pair, weekly[sv].window)
           new == Len(notes) + 1
<1>1. notes' = Append(notes, nt) /\ received' = Append(received, 0)
  BY DEF CreateNote
<1>2. /\ notes \in Seq(Note) /\ weekly[sv] \in Weekly
  BY DEF IInv, TypeOK
<1>3. nt \in Note /\ nt.email = "pending" /\ nt.deleted = FALSE
  BY <1>2 DEF NewNote, Note, Weekly
<1> HIDE DEF nt
<1>4. /\ DOMAIN notes' = DOMAIN notes \union {new} /\ new \notin DOMAIN notes /\ notes'[new] = nt
      /\ \A n \in DOMAIN notes : notes'[n] = notes[n]
      /\ DOMAIN notes = 1 .. Len(notes) /\ DOMAIN notes' = 1 .. new /\ Len(notes) \in Nat
  BY <1>1, <1>2, <1>3, Appended
<1>5. Gone' = Gone
  BY <1>3, <1>4 DEF Gone
<1>6. Len(Status) = Len(notes) /\ Status' = Append(Status, "pending")
  <2>1. Status \in Seq({"pending", "sent", "failed"}) /\ Len(Status) = Len(notes)
    <3>1. \A n \in 1 .. Len(notes) : notes[n].email \in {"pending", "sent", "failed"}
      <4>1. \A n \in 1 .. Len(notes) : notes[n] \in Note
        BY <1>2
      <4> QED
        BY <4>1 DEF Note
    <3>2. Status \in [1 .. Len(notes) -> {"pending", "sent", "failed"}]
      BY <1>4, <3>1 DEF Status
    <3>3. Status \in Seq({"pending", "sent", "failed"})
      BY <1>4, <3>2, SeqDef
    <3> QED
      BY <1>4, <3>2, <3>3, LenProperties
  <2>2. /\ DOMAIN Append(Status, "pending") = 1 .. new
        /\ Append(Status, "pending")[new] = "pending"
        /\ \A n \in 1 .. Len(notes) : Append(Status, "pending")[n] = Status[n]
        /\ Append(Status, "pending") \in Seq({"pending", "sent", "failed"})
    BY <1>4, <2>1, Appended
  <2>3. DOMAIN Status' = 1 .. new /\ Status' = [n \in 1 .. new |-> notes'[n].email]
    BY <1>4 DEF Status
  <2>4. \A n \in 1 .. new : n \in 1 .. Len(notes) \/ n = new
    BY <1>4
  <2>5. \A n \in 1 .. new : Status'[n] = Append(Status, "pending")[n]
    BY <1>3, <1>4, <2>2, <2>3, <2>4 DEF Status
  <2>6. Append(Status, "pending") = [n \in 1 .. new |-> Append(Status, "pending")[n]]
    <3> DEFINE longer == Append(Status, "pending")
    <3>1. longer \in Seq({"pending", "sent", "failed"}) /\ DOMAIN longer = 1 .. new
      BY <2>2
    <3> HIDE DEF longer
    <3>2. longer \in [1 .. Len(longer) -> {"pending", "sent", "failed"}]
      BY <3>1, LenProperties
    <3>3. longer = [n \in DOMAIN longer |-> longer[n]]
      BY <3>2
    <3> QED
      BY <3>1, <3>3 DEF longer
  <2> QED
    BY <2>1, <2>3, <2>5, <2>6
<1>7. Ladder!Start
  BY <1>1, <1>5, <1>6 DEF Ladder!Start, Climbing, Accepted, Hopeless, Status, Gone
<1> QED
  BY <1>7 DEF Ladder!LadderNext

\* The creation of a note and of its email.
LEMMA AlertCreateMaps ==
  ASSUME IInv, NEW sv \in Server, AlertCreate(sv)
  PROVE  Ladder!LadderNext
<1> DEFINE j == [note |-> Len(notes) + 1, attempt |-> 1]
<1>1. CreateNote(sv) /\ Enqueue(sv, j) /\ UNCHANGED <<wakeups, timers>>
  BY DEF AlertCreate
<1>2. j \in EmailJob
  <2>1. notes \in Seq(Note)
    BY DEF IInv, TypeOK
  <2> QED
    BY <2>1 DEF EmailJob, MAX_EMAIL_ATTEMPTS
<1>3. Climbing' = Climbing \union {j} /\ Accepted' = Accepted /\ Hopeless' = Hopeless
  <2>1. timers[sv] \in SUBSET timers[sv] /\ timers' = [timers EXCEPT ![sv] = timers[sv]]
    BY <1>1, Cells
  <2> HIDE DEF j
  <2> QED
    BY <1>1, <1>2, <2>1, EnqueueMaps
<1> QED
  BY <1>1, <1>3, StartMaps

\* A job that gives up leaves at most a note without an email.
LEMMA AlertGivesUpMaps ==
  ASSUME IInv, NEW sv \in Server, AlertGivesUp(sv)
  PROVE  Ladder!LadderNext \/ UNCHANGED Ladder!emails
<1>1. /\ CreateNote(sv) \/ UNCHANGED <<notes, received>>
      /\ UNCHANGED mailer
  BY DEF AlertGivesUp
<1>2. Climbing' = Climbing /\ Accepted' = Accepted /\ Hopeless' = Hopeless
  BY <1>1 DEF mailer, Climbing, Accepted, Hopeless, EmailsOf, EmailsAt
<1>3. CASE CreateNote(sv)
  BY <1>2, <1>3, StartMaps
<1>4. CASE UNCHANGED <<notes, received>>
  BY <1>2, <1>4, NotesStay DEF Ladder!emails, Climbing, Accepted, Hopeless, Status, Gone
<1> QED
  BY <1>1, <1>3, <1>4

\* A request of the student marks a note as deleted, or changes nothing that the
\* ladder tells.
LEMMA StudentMaps ==
  ASSUME IInv, Student
  PROVE  Ladder!LadderNext \/ UNCHANGED Ladder!emails
<1>1. UNCHANGED <<received, mailer>>
  BY DEF Student, CallFind, MarkAsRead, DeleteNotification, MarkAllAsRead, store
<1>2. Climbing' = Climbing /\ Accepted' = Accepted /\ Hopeless' = Hopeless
  BY <1>1 DEF mailer, Climbing, Accepted, Hopeless, EmailsOf, EmailsAt
<1>3. notes \in Seq(Note) /\ \A n \in DOMAIN notes : notes[n] \in Note
  BY DEF IInv, NotesFine
<1>4. ASSUME DOMAIN notes' = DOMAIN notes,
             \A n \in DOMAIN notes : /\ notes'[n].email = notes[n].email
                                     /\ notes'[n].deleted = notes[n].deleted
      PROVE  UNCHANGED Ladder!emails
  <2>1. Status' = Status /\ Gone' = Gone
    BY <1>4 DEF Status, Gone
  <2> QED
    BY <1>1, <1>2, <2>1 DEF Ladder!emails, Climbing, Accepted, Hopeless, Status, Gone
<1>5. ASSUME NEW kind, NEW n, CallFind(kind, n)
      PROVE  UNCHANGED Ladder!emails
  BY <1>4, <1>5 DEF CallFind, store
<1>6. ASSUME NEW c \in calls, MarkAsRead(c)
      PROVE  UNCHANGED Ladder!emails
  <2> DEFINE doc == [notes[c.note] EXCEPT !.read = TRUE]
  <2>1. c.note \in DOMAIN notes
    BY DEF IInv, CallsFine
  <2>2. doc.email = notes[c.note].email /\ doc.deleted = notes[c.note].deleted
    BY <1>3, <2>1 DEF Note
  <2>3. notes' \in {notes, [notes EXCEPT ![c.note] = doc]}
    BY <1>6 DEF MarkAsRead, UpdateNote
  <2> HIDE DEF doc
  <2> QED
    BY <1>4, <2>1, <2>2, <2>3
<1>7. ASSUME NEW st, MarkAllAsRead(st)
      PROVE  UNCHANGED Ladder!emails
  <2>1. DOMAIN notes' = DOMAIN notes
    BY <1>7 DEF MarkAllAsRead
  <2>2. ASSUME NEW n \in DOMAIN notes
        PROVE  notes'[n].email = notes[n].email /\ notes'[n].deleted = notes[n].deleted
    <3>1. PICK b : notes'[n] = [notes[n] EXCEPT !.read = b]
      BY <1>7 DEF MarkAllAsRead
    <3> QED
      BY <1>3, <3>1 DEF Note
  <2> QED
    BY <1>4, <2>1, <2>2
<1>8. ASSUME NEW c \in calls, DeleteNotification(c)
      PROVE  Ladder!LadderNext
  <2> DEFINE n == c.note
  <2>1. n \in DOMAIN notes
    BY DEF IInv, CallsFine
  <2>2. notes' = [notes EXCEPT ![n] = [notes[n] EXCEPT !.deleted = TRUE]]
    BY <1>8 DEF DeleteNotification
  <2>3. /\ [notes[n] EXCEPT !.deleted = TRUE].email = notes[n].email
        /\ [notes[n] EXCEPT !.deleted = TRUE].deleted = TRUE
    BY <1>3, <2>1 DEF Note
  <2> HIDE DEF n
  <2>4. /\ DOMAIN notes' = DOMAIN notes
        /\ \A m \in DOMAIN notes : /\ notes'[m].email = notes[m].email
                                   /\ notes'[m].deleted = IF m = n THEN TRUE ELSE notes[m].deleted
    BY <2>1, <2>2, <2>3
  <2>5. Status' = Status
    BY <2>4 DEF Status
  <2>6. Gone' = Gone \union {n}
    BY <2>1, <2>4 DEF Gone
  <2>7. Ladder!Delete(n)
    BY <1>1, <1>2, <2>5, <2>6 DEF Ladder!Delete, Climbing, Accepted, Hopeless, Status, Gone
  <2>8. n \in DOMAIN Status
    BY <2>1 DEF Status
  <2> QED
    BY <2>7, <2>8 DEF Ladder!LadderNext, Status
<1> QED
  BY <1>5, <1>6, <1>7, <1>8 DEF Student

\* The servers together implement the ladder of attempts: an email is never at
\* two attempts, on one server or on two, and never comes back once it is lost or
\* at its end, whatever fails between a delivery and the update of its note.
THEOREM MailImplementsLadder == Spec => ImplementsLadder
<1>1. Init => Ladder!LadderInit
  <2> SUFFICES ASSUME Init PROVE Ladder!LadderInit
    OBVIOUS
  <2>1. Climbing = {} /\ Accepted = {} /\ Hopeless = {}
    BY DEF Init, Climbing, Accepted, Hopeless, EmailsOf, EmailsAt
  <2>2. notes = <<>> /\ received = <<>>
    BY DEF Init
  <2>3. Status = <<>> /\ Gone = {}
    BY <2>2 DEF Status, Gone
  <2> QED
    BY <2>1, <2>2, <2>3 DEF Ladder!LadderInit, Climbing, Accepted, Hopeless, Status, Gone
<1>2. IInv /\ [Next]_vars => [Ladder!LadderNext]_(Ladder!emails)
  <2> SUFFICES ASSUME IInv, [Next]_vars
               PROVE  Ladder!LadderNext \/ UNCHANGED Ladder!emails
    OBVIOUS
  <2>1. UNCHANGED <<notes, received, mailer>> => UNCHANGED Ladder!emails
    BY DEF mailer, Ladder!emails, EmailsOf, EmailsAt
  <2>2. CASE UNCHANGED vars
    BY <2>1, <2>2 DEF vars, mailer
  <2>3. ASSUME NEW sv \in Server, Alert(sv)
        PROVE  Ladder!LadderNext \/ UNCHANGED Ladder!emails
    BY <2>1, <2>3, AlertCreateMaps, AlertGivesUpMaps DEF Alert, WeeklyStart, AlertDedup, store
  <2>4. ASSUME NEW sv \in Server, NEW s \in sending[sv],
               \/ SendOk(sv, s) \/ SendFail(sv, s)
               \/ MarkSent(sv, s) \/ MarkSentFails(sv, s)
               \/ MarkDead(sv, s) \/ MarkDeadFails(sv, s)
        PROVE  Ladder!LadderNext
    <3>1. CASE SendOk(sv, s) \/ MarkSent(sv, s) \/ MarkDead(sv, s)
      BY <3>1, SendOkMaps, MarkMaps
    <3>2. CASE SendFail(sv, s) \/ MarkSentFails(sv, s)
      BY <3>2, CatchMaps DEF SendFail, MarkSentFails
    <3>3. CASE MarkDeadFails(sv, s)
      BY <3>3, DiesMaps DEF MarkDeadFails
    <3> QED
      BY <2>4, <3>1, <3>2, <3>3
  <2>5. ASSUME NEW sv \in Server, Deliver(sv)
        PROVE  Ladder!LadderNext \/ UNCHANGED Ladder!emails
    BY <2>4, <2>5, WakeMaps DEF Deliver
  <2>6. ASSUME NEW sv \in Server, Crash(sv)
        PROVE  Ladder!LadderNext
    BY <2>6, DiesMaps DEF Crash
  <2>7. ASSUME NEW x \in Pair, DedupExpires(x)
        PROVE  UNCHANGED Ladder!emails
    BY <2>1, <2>7 DEF DedupExpires
  <2> QED
    BY <2>2, <2>3, <2>5, <2>6, <2>7, TimerFiresMaps, StudentMaps DEF Next
<1> QED
  BY <1>1, <1>2, Invariant, PTL DEF Spec, ImplementsLadder, Ladder!LadderSpec
=============================================================================
