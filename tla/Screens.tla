------------------------------- MODULE Screens -------------------------------
(***************************************************************************)
(* Four parts of the browser, each with the service behind it, side by     *)
(* side: the report button (Reports, extended), the tabs of a session, the *)
(* notification bell and the list of subjects.  They share nothing, so a   *)
(* behaviour shows one of them, "screen", and the others rest.             *)
(***************************************************************************)
EXTENDS Reports, FiniteSets

CONSTANTS
    Tab, Call, MaxTokens, Lossy,    \* RefreshClient
    Note, MaxClicks,                \* NotificationBell
    Code, Load, Post, MaxEdits      \* SubjectDesk

VARIABLES screen,
    store, isRefreshing, refresh, gate, call, kept, valid, live, issued, disturbed,
    notes, unborn, list, unread, fetch, sent, done,
    subjects, copy, load, post, rows, told, lapsed

Tabs == INSTANCE RefreshClient
Bell == INSTANCE NotificationBell
Desk == INSTANCE SubjectDesk

ASSUME ScreensAssumption == IsFiniteSet(Note) /\ Desk!DeskConstants

tabs == <<store, isRefreshing, refresh, gate, call, kept, valid, live, issued, disturbed>>
bell == <<notes, unborn, list, unread, fetch, sent, done>>
button == vars
desk == <<subjects, copy, load, post, rows, told, lapsed>>
screens == <<screen, tabs, bell, button, desk>>

ScreensInit ==
    /\ screen \in {"tabs", "bell", "button", "desk"}
    /\ Init /\ Tabs!Init /\ Bell!Init /\ Desk!Init

On(s, step) == screen = s /\ step /\ UNCHANGED screen

ScreensNext ==
    \/ On("button", Next) /\ UNCHANGED <<tabs, bell, desk>>
    \/ On("tabs", Tabs!Next) /\ UNCHANGED <<bell, button, desk>>
    \/ On("bell", Bell!Next) /\ UNCHANGED <<tabs, button, desk>>
    \/ On("desk", Desk!Next) /\ UNCHANGED <<tabs, bell, button>>

\* Of the bell's steps: the timer goes on, queries answer, and not every poll
\* fails.
Rest == UNCHANGED <<tabs, button, desk>>
Fairness ==
    /\ WF_screens(On("bell", Bell!Poll) /\ Rest)
    /\ WF_screens(On("bell", Bell!FindNotes("poll")) /\ Rest)
    /\ WF_screens(On("bell", Bell!CountUnread("poll")) /\ Rest)
    /\ SF_screens(On("bell", Bell!Loaded("poll")) /\ Rest)

ScreensSpec == ScreensInit /\ [][ScreensNext]_screens /\ Fairness

\* The properties of the instances; RowsAreFresh is that of Reports.
KeptIsCurrent == Tabs!KeptIsCurrent
NobodyIsForgotten == Tabs!NobodyIsForgotten
BadgeConverges == Bell!BadgeConverges
TellsWhatWasDone == Desk!TellsWhatWasDone

\* The four screens hold what the code can put there; in particular no badge
\* counts below zero, whatever clicks and polls overlap.
ScreensTypeOK == TypeOK /\ Tabs!TypeOK /\ Bell!TypeOK /\ Desk!TypeOK
==============================================================================
