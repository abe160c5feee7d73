----------------------------- MODULE EmailLadder -----------------------------
(***************************************************************************)
(* What the mail queues of all servers together promise for the emails of  *)
(* the alerts, without servers, queues, calls, callbacks and timers.  An   *)
(* email climbs from attempt to attempt, at most MaxAttempts of them.  An  *)
(* attempt reaches the student once at most; it ends in the note's status, *)
(* in the next attempt, or is lost.  Only where the status was written and *)
(* the writing looked like a failure does it end in both.  An email is     *)
(* never at two attempts, and one that is lost or at its end never returns.*)
(***************************************************************************)
EXTENDS Naturals, Sequences

CONSTANT MaxAttempts

VARIABLES
    status,     \* status[n]: "pending", "sent" or "failed"
    received,   \* received[n]: how often the email reached the student
    gone,       \* the notes that the student deleted
    climbing,   \* attempts that wait or run: [note, attempt]
    accepted,   \* those of them that the provider accepted
    hopeless    \* those of them that failed and were the last

emails == <<status, received, gone, climbing, accepted, hopeless>>

LadderInit ==
    /\ status = <<>> /\ received = <<>> /\ gone = {}
    /\ climbing = {} /\ accepted = {} /\ hopeless = {}

\* An alert creates a note, whose email starts at its first attempt, or never
\* if the creation looked like a failure.
Start ==
    /\ status' = Append(status, "pending")
    /\ received' = Append(received, 0)
    /\ \/ climbing' = climbing \union {[note |-> Len(status) + 1, attempt |-> 1]}
       \/ UNCHANGED climbing
    /\ UNCHANGED <<gone, accepted, hopeless>>

Reaches(n) == received' = [received EXCEPT ![n] = @ + 1]

\* The provider accepts the email.
Accept(a) ==
    /\ a \in climbing \ (accepted \union hopeless)
    /\ Reaches(a.note)
    /\ accepted' = accepted \union {a}
    /\ UNCHANGED <<status, gone, climbing, hopeless>>

\* The note tells how attempt a ended, unless the student has deleted it.
Tell(a) ==
    /\ a \in accepted \union hopeless
    /\ status' = IF a.note \in gone THEN status
                 ELSE [status EXCEPT ![a.note] = IF a \in accepted THEN "sent" ELSE "failed"]

\* An attempt fails, or looks so: the email may have gone out all the same, and
\* its note may even have been told.
Fail(a) ==
    /\ a \in climbing \ hopeless
    /\ UNCHANGED received \/ (a \notin accepted /\ Reaches(a.note))
    /\ accepted' = accepted \ {a}
    /\ IF a.attempt < MaxAttempts
       THEN /\ climbing' = (climbing \ {a}) \union {[a EXCEPT !.attempt = @ + 1]}
            /\ UNCHANGED hopeless
       ELSE /\ hopeless' = hopeless \union {a}
            /\ UNCHANGED climbing
    /\ Tell(a) \/ UNCHANGED status
    /\ UNCHANGED gone

\* The attempts in ended are over.
End(ended) ==
    /\ climbing' = climbing \ ended
    /\ accepted' = accepted \ ended /\ hopeless' = hopeless \ ended

\* The note is told, and that was the last attempt.
Settle(a) ==
    /\ Tell(a)
    /\ End({a})
    /\ UNCHANGED <<received, gone>>

\* A server dies with its emails, at most after telling that one has failed.
Lose(lost) ==
    /\ End(lost)
    /\ (\E a \in lost \intersect hopeless : Tell(a)) \/ UNCHANGED status
    /\ UNCHANGED <<received, gone>>

Delete(n) ==
    /\ gone' = gone \union {n}
    /\ UNCHANGED <<status, received, climbing, accepted, hopeless>>

LadderNext ==
    \/ Start
    \/ \E a \in climbing : Accept(a) \/ Fail(a) \/ Settle(a)
    \/ \E lost \in SUBSET climbing : Lose(lost)
    \/ \E n \in DOMAIN status : Delete(n)

LadderSpec == LadderInit /\ [][LadderNext]_emails
==============================================================================
