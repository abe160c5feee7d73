-------------------------- MODULE NotificationBell --------------------------
(***************************************************************************)
(* The notifications of one user as the browser shows them: the list and   *)
(* the badge of notificationSlice.ts, the poll of NotificationBell.tsx,    *)
(* the buttons of NotificationList.tsx, the alert page that loads the same *)
(* slice with a filter, and the handlers they call.  All notes fit on one  *)
(* page of the list.                                                       *)
(***************************************************************************)
EXTENDS Naturals, FiniteSets

CONSTANTS Note,   \* the notifications that may come to exist
          None,   \* not read yet
          MaxClicks,  \* bound: clicks under way at a time
          Lossy   \* whether calls may fail, with or without effect

\* What there is to know of a note; "gone" before creation and after deletion.
State == {"gone", "unread", "read"}
Loader == {"poll", "alerts"}

VARIABLES
    notes,    \* the collection: Note -> State
    unborn,   \* notes not created yet
    list,     \* notifications.list: Note -> State, "gone" for those not in it
    unread,   \* notifications.unreadCount
    fetch,    \* fetchNotifications in flight, per caller
    sent,     \* clicks on their way: [op, note]
    done      \* clicks that the server has carried out, the answer on its way

vars == <<notes, unborn, list, unread, fetch, sent, done>>

\* The two queries of getNotifications answer separately.
NoFetch == [on |-> FALSE, data |-> None, count |-> None]
Begun == [NoFetch EXCEPT !.on = TRUE]

Init ==
    /\ notes = [n \in Note |-> "gone"] /\ unborn = Note
    /\ list = [n \in Note |-> "gone"] /\ unread = 0
    /\ fetch = [k \in Loader |-> IF k = "poll" THEN Begun ELSE NoFetch]
    /\ sent = {} /\ done = {}

\* checkAndAlert creates a notification.
Create(n) ==
    /\ n \in unborn
    /\ notes' = [notes EXCEPT ![n] = "unread"] /\ unborn' = unborn \ {n}
    /\ UNCHANGED <<list, unread, fetch, sent, done>>

-----------------------------------------------------------------------------
(* fetchNotifications.                                                     *)

\* The interval of 60 s; the timeout of 10 s has ended the call before.
Poll ==
    /\ ~fetch["poll"].on
    /\ fetch' = [fetch EXCEPT !["poll"] = Begun]
    /\ UNCHANGED <<notes, unborn, list, unread, sent, done>>

\* AlertDashboard is opened: fetchNotifications({ read: false }).
OpenAlerts ==
    /\ ~fetch["alerts"].on
    /\ fetch' = [fetch EXCEPT !["alerts"] = Begun]
    /\ UNCHANGED <<notes, unborn, list, unread, sent, done>>

FindNotes(k) ==
    /\ fetch[k].on /\ fetch[k].data = None
    /\ fetch' = [fetch EXCEPT ![k].data =
                    [n \in Note |-> IF k = "alerts" /\ notes[n] = "read" THEN "gone" ELSE notes[n]]]
    /\ UNCHANGED <<notes, unborn, list, unread, sent, done>>

CountUnread(k) ==
    /\ fetch[k].on /\ fetch[k].count = None
    /\ fetch' = [fetch EXCEPT ![k].count = Cardinality({n \in Note : notes[n] = "unread"})]
    /\ UNCHANGED <<notes, unborn, list, unread, sent, done>>

Answered(k) == fetch[k].on /\ fetch[k].data # None /\ fetch[k].count # None

\* Mutant: the answer brings the list only, clicks count the badge.
LoadedListOnly(k) ==
    /\ Answered(k)
    /\ list' = fetch[k].data
    /\ fetch' = [fetch EXCEPT ![k] = NoFetch]
    /\ UNCHANGED <<notes, unborn, unread, sent, done>>

\* fetchNotifications.fulfilled.
Loaded(k) ==
    /\ Answered(k)
    /\ list' = fetch[k].data /\ unread' = fetch[k].count
    /\ fetch' = [fetch EXCEPT ![k] = NoFetch]
    /\ UNCHANGED <<notes, unborn, sent, done>>

\* fetchNotifications.rejected leaves the list and the badge.
LoadFails(k) ==
    /\ Lossy /\ Answered(k)
    /\ fetch' = [fetch EXCEPT ![k] = NoFetch]
    /\ UNCHANGED <<notes, unborn, list, unread, sent, done>>

-----------------------------------------------------------------------------
(* The buttons.  A note's own buttons are there while it is in the list.   *)

Room == Cardinality(sent) + Cardinality(done) < MaxClicks

ClickRead(n) ==
    /\ Room /\ list[n] = "unread"
    /\ sent' = sent \union {[op |-> "read", note |-> n]}
    /\ UNCHANGED <<notes, unborn, list, unread, fetch, done>>

ClickDelete(n) ==
    /\ Room /\ list[n] # "gone"
    /\ sent' = sent \union {[op |-> "delete", note |-> n]}
    /\ UNCHANGED <<notes, unborn, list, unread, fetch, done>>

ClickReadAll ==
    /\ Room /\ unread > 0
    /\ sent' = sent \union {[op |-> "readAll", note |-> None]}
    /\ UNCHANGED <<notes, unborn, list, unread, fetch, done>>

\* The notes after the server has carried out a click.
After(c) ==
    [n \in Note |->
        IF c.op = "delete" /\ n = c.note THEN "gone"
        ELSE IF notes[n] = "unread" /\ (c.op = "readAll" \/ c = [op |-> "read", note |-> n])
        THEN "read" ELSE notes[n]]

\* findById has an answer, or none is needed.
Finds(c) == c.op # "readAll" => notes[c.note] # "gone"

\* markAsRead, markAllAsRead, deleteNotification; 404 if the note is gone.
\* findById and the update are two awaits and one step here: a deletion between
\* them makes the update find nothing, and the step stands for a click that was
\* served before it.
Serve(c) ==
    /\ c \in sent
    /\ sent' = sent \ {c}
    /\ \/ /\ Finds(c)
          /\ notes' = After(c)
          /\ \/ done' = done \union {c}
             \/ Lossy /\ UNCHANGED done
       \/ /\ ~Finds(c) \/ Lossy
          /\ UNCHANGED <<notes, done>>
    /\ UNCHANGED <<unborn, list, unread, fetch>>

\* Mutant: the badge is counted down without Math.max.
LessThanNone(n) == n - 1

\* Math.max(0, n - 1).
Less(n) == IF n = 0 THEN 0 ELSE n - 1

\* markAsRead.fulfilled and deleteNotification.fulfilled.
OneDone(c) ==
    /\ c \in done /\ c.op # "readAll"
    /\ done' = done \ {c}
    /\ unread' = IF list[c.note] = "unread" THEN Less(unread) ELSE unread
    /\ list' = [list EXCEPT ![c.note] = IF c.op = "read" /\ @ = "unread" THEN "read"
                                        ELSE IF c.op = "delete" THEN "gone" ELSE @]
    /\ UNCHANGED <<notes, unborn, fetch, sent>>

\* markAllAsRead.fulfilled.
AllDone(c) ==
    /\ c \in done /\ c.op = "readAll"
    /\ done' = done \ {c}
    /\ unread' = 0
    /\ list' = [n \in Note |-> IF list[n] = "unread" THEN "read" ELSE list[n]]
    /\ UNCHANGED <<notes, unborn, fetch, sent>>

Next ==
    \/ \E n \in Note : Create(n) \/ ClickRead(n) \/ ClickDelete(n)
    \/ Poll \/ OpenAlerts \/ ClickReadAll
    \/ \E k \in Loader : FindNotes(k) \/ CountUnread(k) \/ Loaded(k) \/ LoadFails(k)
    \/ \E c \in sent : Serve(c)
    \/ \E c \in done : OneDone(c) \/ AllDone(c)

Spec == Init /\ [][Next]_vars

-----------------------------------------------------------------------------
(* Properties.                                                             *)

\* The collection, the slice and the calls hold what the code can put there.
TypeOK ==
    /\ notes \in [Note -> State] /\ unborn \subseteq Note
    /\ list \in [Note -> State] /\ unread \in 0..Cardinality(Note)
    /\ fetch \in [Loader -> [on : BOOLEAN, data : [Note -> State] \union {None},
                              count : 0..Cardinality(Note) \union {None}]]
    /\ sent \union done \subseteq [op : {"read", "delete"}, note : Note]
                                      \union [op : {"readAll"}, note : {None}]

\* The badge counts the unread notes, and the list shows those and no note in
\* another state than its own.
BadgeAgrees ==
    /\ unread = Cardinality({n \in Note : notes[n] = "unread"})
    /\ \A n \in Note : /\ notes[n] = "unread" => list[n] = "unread"
                       /\ list[n] # "gone" => list[n] = notes[n]

\* Whatever order the answers of polls, of the alert page and of clicks arrive
\* in, and whichever are lost: once notes stop changing, the badge and the list
\* become right and stay so.
BadgeConverges == <>[]BadgeAgrees
=============================================================================
