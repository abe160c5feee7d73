# Smart Attendance Tracker: TLA+ models, checks and proofs

This directory holds a formal model of the smart attendance tracker, its server
and the parts of its browser client that carry state: TLA+ modules translated from the TypeScript sources, TLC
configurations that check them on small instances, and theorems that TLAPS
proves for every instance. Paths below are those of the repository (`src/modules/...`).

## 1. The system

A React client talks to an Express API. Each instance of the API is one Node
process; several instances may run behind a load balancer. All of them share
MongoDB (documents; an update of one document is atomic, there are no
transactions) and Redis (caches, tokens, deduplication keys; a failing cache
command is swallowed, one of the authentication ends the request). Inside one process nothing interleaves between two
awaits; at every await any other request of any instance may run.

| Component (source) | State | Operations | Hard behaviour |
|---|---|---|---|
| Attendance engine (`modules/attendance/attendance.service.ts`, `.jobs.ts`) | sessions, records, cached percentages | mark, edit, lock, percentage, nightly job | check-then-write across awaits, lock against running requests, bulk writes that apply row by row, cache set after delete |
| Subjects (`modules/subjects/subject.service.ts`) | subject document (capacity, isActive, facultyIds, studentIds), its Redis copy, list copies | create, update, deactivate, assign/remove faculty, enrol, unenrol, CSV enrolment, reads | seats counted before the write, capacity changed under way, stale copies |
| Alerts (`modules/notifications/notification.service.ts`, `.jobs.ts`) | notifications, deduplication keys, email queue and timers in memory | weekly job, checkAndAlert, queue with retries, read, read all, delete | several instances, at-most-once keys, retries over hours, lost queues |
| Authentication (`modules/auth/auth.service.ts`, `auth.middleware.ts`) | refresh token per user, deny list, failed-login counters and locks in Redis | login, refresh, logout, verify | get/compare/delete/set in several awaits, which Redis failures matter |
| Users (`modules/users/user.service.ts`) | user documents with `__v` and audit log, profile copy in Redis, photos in S3 | read, update, admin update, deactivate, photo upload, create | optimistic concurrency with three attempts, audit entries of values read earlier, two stores and deletions nobody awaits |
| Reports (`modules/reports/report.service.ts`, `.jobs.ts`, `ExportButtons.tsx`) | rows cached in Redis (1 h) | generate, export, nightly cleanup | never invalidated, filled late |
| Browser session (`frontend/shared/api/axiosInstance.ts`, `authSlice.ts`) | store, `isRefreshing`, `failedQueue` of each tab; `sat_refresh_token` in localStorage | interceptors, refresh, login, logout, reload | calls waiting for a refresh, tabs that share one token, lost answers |
| Notification bell (`notificationSlice.ts`, `NotificationBell.tsx`, `NotificationList.tsx`, `AlertDashboard.tsx`) | list and badge | poll, read, read all, delete | answers that overtake each other, a badge counted up and down locally |
| Subject list (`SubjectList.tsx`, `SubjectForm.tsx`, `subjectSlice.ts`) | rows of the list | load, create, edit, deactivate | a list answered from a 60 s copy after a change was confirmed |
| Mark page (`App.tsx` `AttendancePage`) | chosen subject, sheet | choose, tick, submit | lists that arrive after the choice has changed |
| Server (`server.ts`), shared utilities, HTTP layer, other pages | none of interest | start, shutdown, validation, rendering | |

Interactions: the engine reads the subject's faculty and isActive when it marks
and edits; the weekly job reads the records of the engine and calls
`checkAndAlert`. (The comments in `attendance.service.ts:103,107` speak of alerts
after a mark, but the only caller of `checkAndAlert` is the weekly job.) Reports
aggregate the engine's records. Everything else is shared state in MongoDB and
Redis under disjoint keys.

What makes a component correct: a lock freezes a session; records and sessions
go together; a cache is never ahead and comes to agree with the documents;
capacity and deactivation hold against running requests; an alert is sent once,
its email at most three times, and its status is true in the end; a spent refresh
token is never good again, a closed session is reopened only with the password;
a 409 is earned, an audit entry true and the photo of a profile there; a browser
forgets no waiting call, keeps the token the server will take, and ends up
showing what the server holds.

## 2. Modules

| Module | Role |
|---|---|
| `AttendanceEngine` | detailed model of the attendance engine |
| `AttendanceLedger` | what the engine promises: phases of a session and who may still write |
| `AttendanceEngineProofs` | theorems about the engine; refinement of the ledger |
| `Enrollment` | one subject: enrolment, capacity, activity, faculty, Redis copy |
| `EnrollmentProofs` | theorems about enrolment |
| `AlertEmail`, `AlertEmailProofs` | weekly job, deduplication, notes, email queue of every instance; theorems |
| `EmailLadder` | what the mail queues of all instances together promise: each email climbs from attempt to attempt |
| `AuthSession`, `AuthSessionProofs` | sessions of one user: login and its lock, rotation, logout, deny list, deactivation; theorems |
| `SessionLedger` | what the service promises about a session: one usable token, by whom it is made usable |
| `Users`, `UsersProofs` | one profile: version check and retries, audit, deactivation, photo, copy in Redis, creation; theorems |
| `Reports` | report requests, cached rows, cleanup, export button |
| `RefreshClient`, `RefreshClientProofs` | the tabs of a browser and their common session; theorems |
| `NotificationBell` | list and badge of the notifications |
| `SubjectDesk`, `SubjectDeskProofs` | subject list of the admin with creation, editing, deactivation and the list copy; theorems |
| `MarkSheet` | the page that marks a class, and what the server does with its sheet |
| `Screens`, `ScreensProofs` | composes `Reports`, `RefreshClient`, `NotificationBell` and `SubjectDesk`; theorems about reports, the bell and the composition |
| `MCAttendanceEngine`, `MCEnrollment`, `MCAlertEmail`, `MCAuthSession`, `MCUsers`, `MCScreens` | values of the constants for TLC |

**AttendanceEngine.** A request is a process `p` with a label `pc[p]` (the await it
is at) and its locals `job[p]`. `MarkFindSubject`, `MarkReadSession`,
`MarkUpsertSession`, `MarkWriteRecord` (one row of the unordered bulk write) and
`Invalidate` (DEL and the recalculation nobody awaits) are `markAttendance`;
`EditFindRecord`, `EditFindSubject`, `EditCheck`, `EditUpdate`, `Invalidate` are
`editAttendanceRecord`; `LockFindSession`, `LockWrite` are `lockSession`;
`CalcGet`, `CalcAggregate`, `CalcSet` are `calculateAndCachePercentage`, run in
`calc` by clients, handlers and the nightly job. `AssignFaculty`,
`RemoveFaculty`, `DeactivateSubject` change what the handlers read from a
subject. Session ids are model values with their subject (`buildSessionId`),
times are ticks, a percentage is its two counts. A request that ends in its
first step (not found, not allowed) changes nothing and is no action.

**Enrollment.** `EnrollFind` reads the subject and chooses whom to enrol;
`Room`, `NotEnrolled` and `Kept` are the seats, the filter and what
`splice(available)` leaves, negative counts included. `EnrollWrite` is the
`$addToSet`. Unenrolling, removing faculty and updating are one step each, since
what they write does not depend on what they read; deactivating and assigning
read first. All end with `Invalidate`. `ViewGet`, `ViewFind`, `ViewSet` are
`getSubjectById`. The CSV upload is an enrolment whose list has no duplicates.

**AlertEmail.** `weekly[sv]` is the running job of an instance, `AlertDedup` the
SET NX, `AlertGivesUp` a failing query or creation (applied or not),
`AlertCreate` the note with its enqueueing. `queue`, `processing`, `sending`, `wakeups` and `timers` are
`emailQueue`, `isProcessing`, the calls of `processEmailQueue` that hold a job,
their `setImmediate` callbacks and the retry timers. `received` counts what
reached the student and is only observed. `MarkSentFails` is the update after a
delivery (`:97`) rejecting inside the `try`: whether it was applied or only its
reply lost, the catch block schedules the next attempt. `MarkDeadFails` is the
update in the catch block (`:110`) rejecting, applied or not: no handler is
registered, so Node ends the process (`Dies`).

**AuthSession.** The state is the `isActive` of one user and the user's Redis keys
(`stored` is `refresh:{id}`, `counter` is `attempts:{email}`, `locked` is
`lock:{email}`, `denied[k]` is `blacklist:{jti}` of pair k); the keys of different
users are disjoint. A token pair is the number under which it was signed, and
`held` are the pairs the user was answered. `Login`, `LoginFindUser`,
`LoginReset`, `Store` are `login` with `generateTokenPair`; `Incr`, `Expire`,
`Lock`, `Forget` are `incrementFailedAttempts`; `Refresh`, `Rotate`,
`RefreshFindOwner`, `Store` are `refreshTokens`; `Logout`, `LogoutVerify`,
`LogoutDeny`, `LogoutDel` are `authenticate` and `logout`; `Deactivate`,
`DeactivateWrite`, `DeactivateDel`, `AdminUpdate` are what administrators do to
a session. `Applied(p)` is the effect of the Redis command `p` awaits, shared by
the step that succeeds and by `RedisError`, where the command fails whether or
not it was applied. Access tokens count their seconds, because the denial does;
the days of a refresh token and the minutes of a lock may end at any time.

**Users.** `EditFind` (the user's own update) or `AdminFind` (an administrator's)
read the previous values from the document, `Attempt` reads `__v`, and `EditWrite`,
`EditMissed`, `EditDuplicate` are the outcomes of the update filtered by `__v`:
together `updateWithConcurrency`, whose pause between attempts is the gap
between two steps. `DeactivateFind`, `DeactivateWrite`; `UploadPut`,
`UploadFind`, `UploadWrite`, `DeletePhoto` (the deletion that is not awaited);
`CreateFindEmail`, `CreateFindId`, `CreateInsert` (stopped by the unique
indexes); `ReadMiss`, `ReadFind`, `Fill` (`getMyProfile`); `Invalidate` (the DEL at
the end). `EditUpdate`, `DeactivateUpdate`, `UploadUpdate` are the commands alone,
which `ReplyLost` applies although the request answers 500. The validators take any
string as `profilePhotoKey`: a body may name any photo that was ever published or
(`Foreign`) any other key, such as that of another user's photo, and the next upload
deletes what the document names. Only keys not yet published are excluded
(`Published`), since nobody can tell a new uuid. `given`, `overtaken` and `lapsed` are
history: whether the photo key came with such a body, which fields others wrote
since a request read them, and whether the copy was filled late or its DEL was
lost or, with the reply, never sent.

**Reports.** Rows are named by the moment of their aggregation, so that the age
of a file is a number. `Click`, `Find` (with `Permitted`), `Get`, `Aggregate`,
`CacheRows`, `Build` are one export; `Cleanup` is the job, which deletes what its
KEYS found; `Tick` lets time pass and keys expire, and never lets a request live
longer than `Delay`.

**RefreshClient.** Per tab: the store, `isRefreshing`, the calls with their
`_retry`, and the session call under way. `Send`, `Answer`, `Deny`, `Queue`,
`Lead`, `Stranded`, `GiveUp` are what the interceptors do to a call;
`RefreshServe`, `RefreshDone`, `RefreshFailed` the refresh; `LoginSend`, `LoginServe`, `LoginDone`, `LogoutSend`, `LogoutServe`, `LogoutDone` the
two forms; `Expire` ends an access token, `Reload` starts the tab anew. The server
is one step per call; what can happen inside a rotation is in `AuthSession`. The
stored token also changes without a call of these tabs: `StoredEnds` (its 7 days, a
deactivation, a logout elsewhere) and `LoginElsewhere` (a login or refresh in
another browser, since a user has one stored token); both also stand for the late
service of a call that its tab has given up. `disturbed` is history: since the last
login that ran alone, session calls of the tabs overlapped, an answer was lost, or the
stored token was ended or replaced from outside.

**NotificationBell.** A fetch is two queries that answer separately (`FindNotes`,
`CountUnread`) and their common arrival (`Loaded`); a click is served (`Serve`) and
answered (`OneDone`, `AllDone`) in any order with the fetches. `Serve` takes the
`findById` and the update of `markAsRead` and `deleteNotification` in one step;
`AlertEmail` has them as two (`CallFind`, `MarkAsRead`, `DeleteNotification`).

**SubjectDesk.** `Fetch`, `ListHit`, `ListMiss`, `ListFind`, `ListSet`, `Fetched` are
`listSubjects` and its thunk; `ClickCreate`, `ClickEdit`, `ClickDeactivate`, `Check`,
`Write`, `Keys`, `Del`, `Acked`, `Refused` the three changes. `told` is history: how
far the admin was told each subject got.

**MarkSheet.** `Choose`, `Listed`, `Toggle`, `All`, `Submit` are the page; `Mark` is
`markAttendance` in one step, with the tests it makes.

**Screens.** The four screens share no variable, so nothing is lost by showing
one at a time: the initial state chooses the `screen`, and the others rest. `Tabs`,
`Bell` and `Desk` are instances, and the properties of the run are theirs.

**SessionLedger** has five variables: `active`, the `usable` token, the tokens
`handed` out, who is `refreshing` and who is `admitted`. `AuthSession` implements it with
`stored` as the usable token, `Rotating` (requests past the comparison of line 142) and
`Opening` (requests past the test of `isActive`). Logins begin with `Admit`; a refresh
is `Begin`, then `Close` (the DEL of line 147), `Admit`, `Open`; a logout, an expiry, a
failure and a crash are `Close`, a deactivation is `Switch` and then `Close`.

**EmailLadder** knows no instance: `climbing` are the attempts that wait or run
anywhere, `accepted` and `hopeless` those whose call waits to update its note.
`AlertEmail` implements it with the union of queues, calls and timers of all
instances; `TimerFires`, `Wake` and the callbacks are stutters, `Catch` is `Fail`, the
updates are `Settle`, a crash is `Lose`. Where an update was applied and seems to have
failed, `Fail` and `Lose` tell the note as well (`Tell`), and `Start` may leave a note
without an attempt: the ladder says so because the code does not prevent it.

Failures are switched by `Faults`: `"redis"` (a command errors; what the handler
then does is part of the action), `"db"` (an await on MongoDB rejects, the command
applied or not, the handler throws and what it wrote stays), `"email"` (the provider rejects, with or without having delivered),
`"crash"` (a process dies and its memory is lost),
`"s3"` (the object store). `Lossy` lets the network of a browser lose calls and answers.

Definitions marked *Mutant* are plausible bugs; each property has been seen to
fail when its mutant replaces the definition after it.

## 3. Runs

| Run | Question | Bounds |
|---|---|---|
| `AttendanceLock` | Do marks, edits and locks of one session keep the lock final, the drained session frozen, records with a session, and the ledger's promise? | 2 requests, 2 teachers, 1 student, failures of database and server |
| `AttendanceClass` | Has an answered mark all its records; is a cached percentage ever ahead? | 2 requests, 2 students, rosters with one, two and contradicting rows |
| `AttendanceConverge` | Do cached percentages come to agree with the records? | 1 request, 2 calculations, 2 clock ticks, all failures, fair |
| `EnrollRace` | Do seats, deactivation and the copy of a subject hold against overlapping requests? | 2 requests, 2 students, 1 teacher, capacity 1 and unlimited, all failures, fair |
| `AlertMail` | One email at a time, no attempt made twice, none after a failure is noted; do a student's calls last, and do the queues implement the ladder? | 1 instance, 2 pairs, failures of provider, database, server |
| `AlertFair` | One note per setting of the key; no alert lost but to a key; every email settled? | 2 instances, 1 pair, failures of provider and Redis, fair |
| `AuthSession` | Does a spent token stay spent, is a closed session reopened only by a password, does an inactive user get nothing, does a denial last; the ledger's promise? | 2 requests of any kind, 3 pairs, all failures |
| `AuthLimit` | Does a counter at the limit become a lock, does it expire, is a calm account unlocked? | 3 logins, limit 3, no failures, fair |
| `ProfileRace` | Is a 409 earned, is the photo that an upload entered in the bucket, has a stale copy a cause, does the audit log tell what was replaced? | 2 requests of every kind, 2 photo keys, 2 addresses, no update begins at version 3, all failures |
| `Screens` | Is the kept token the one the server takes, is a waiting call ever forgotten, how old is a report, does the list tell what its admin was told, does the badge become right? | 2 tabs with 2 calls each and 2 token pairs, lossy, with other browsers; 2 notes, 1 click under way; 2 users, `Ttl` 1, `Delay` 1, `MaxTime` 4; 1 code with 1 edit, 1 load and 2 changes under way |
| `FindFullGrows` | "Enrollment beyond capacity is rejected" (violated) | 1 request |
| `FindWrongRoster` | "Validate all studentIds are enrolled in subject" (violated) | 2 subjects, 2 students, 1 list and 1 sheet under way |

Why the bounds suffice: every hazard found is between two requests (two
instances), or between a request and one calculation, the nightly job or a
failure; a third request adds no new kind of step, because requests meet only in
single documents. One session, subject or pair suffices where the state of
different ones is disjoint; two students are needed for bulk writes and for
aggregates, two pairs for a queue. `MaxTime`, `Window` bound the clock to "inside"
and "after" the window, `MaxWeeks` the runs of the weekly job; `MaxPairs` bounds the
token pairs (a spent, a usable and a new one), and a login is not started with
the counter above the limit. In `ProfileRace` `MaxVersion` admits the three
overtaken attempts that a 409 takes, and a changed address with a reactivation, no
photo and any photo uploaded before are the bodies whose kinds the handlers tell
apart (photos of others, `Foreign`, behave in them like those and are left to the
theorems, which hold for any); requests
and photo keys are interchangeable (symmetry), and the VIEW leaves out the newest
audit entry, which no action reads: of the properties only `AuditTellsPrevious`,
about the step that writes it, and `TypeOK`, which is proved, speak of it. It also
leaves out what a lapsed copy says: actions ask only whether there is a copy, and
`StaleCopyHasCause` asks nothing of a lapsed one. In `Screens` `MaxTime` 4
is beyond `Ttl + 2 * Delay`, and two tabs with a pair each for the session and for
its refresh suffice for one to spend the token of the other, for another browser to
replace it, and for a login that ends what was disturbed. In `AlertMail` the two
pairs are interchangeable (symmetry). `AttendanceClass`
leaves out changes to the subject and the nightly job by a state constraint,
which `AttendanceLock` and `AttendanceConverge` have. The alert runs do not check
for deadlock, since a bounded number of weeks ends.

Fairness. `FairSpec` of each module asks that what is ready runs: the event loop
of Node runs every callback, MongoDB and the email provider answer in one way or
the other, timers fire, Redis drops keys after their TTL. No request ever has to
arrive, no nightly or weekly job has to start. In the engine a request is given
strong fairness, because the model has a bounded number of slots for
calculations (`Worker`), which other calls could take again and again; the
program has no such bound. For the bell the fairness is that the timer of 60 s
goes on, that queries answer, and (strong fairness of `Loaded("poll")`) that not
every poll fails: polls are independent, and a network that loses all of them
shows nothing.

## 4. What the checks show

* A lock is set once and is final, and once the requests admitted before it are
  gone the session never changes: proved for every instance. The counts kept with a
  session are always those of one roster, whoever marked it again (`TypeOK`).
* Enrolling into a subject that is over capacity, after the capacity was
  lowered, cuts the list from its end instead of refusing it (`FindFullGrows`).
  Without such an overlap or lowering the seats are kept
  (`UndisturbedEnrollFits`).
* However often deliveries, updates and servers fail, an email is at one attempt
  at a time, reaches the student at most once per attempt and never starts again
  (`ImplementsLadder`). A note that says "sent" may have another attempt to come, and
  then end as "failed": only if the update that wrote "sent" was applied and looked
  like a failure (`AttemptsRunOnce`; without failures of the database a settled note
  rests, `SettledEmailsRest`).
* A logout or a deactivation that overlaps a refresh may be undone by its SET;
  with no refresh under way only the password reopens (`OnlyAPasswordReopens`),
  and a user who stays inactive gets nothing once the requests past the test of
  `isActive` are gone (`InactiveGetsNothing`).
* A profile update that answers 409 was overtaken three times
  (`ConflictIsEarned`); the photo that an upload entered in a profile is in the
  bucket, although uploads, deletions, crashes and profile updates with keys of
  their own overlap (`PhotoExists`; of a key that came with a profile update nothing
  tests whether it names a photo); an audit entry tells what was
  replaced, except in fields written by others since the request read them
  (`AuditTellsPrevious`): the retries read only `__v` again
  (`user.service.ts:56`), which is why `business-rules.md` BR-USER-24 does not
  hold without that exception.
* A report file is at most `Ttl + 2 * Delay` old (`RowsAreFresh`): nothing but the
  expiry and the nightly job ends a cached report.
* A call that waits in `failedQueue` waits for a refresh that is under way
  (`NobodyIsForgotten`); since the last login that ran alone the token in localStorage
  is the one the server takes, as long as session calls of the tabs do not overlap, no
  answer is lost and the stored token is not ended (after 7 days, by a deactivation or
  a logout elsewhere) or replaced (by another browser) (`KeptIsCurrent`). The
  exceptions are needed: two tabs that refresh the same token destroy the session, and
  so does a second browser.
* A list asked for after a change was confirmed tells the change, unless its copy
  was filled late or a DEL was lost (`TellsWhatWasDone`); the badge becomes right
  when clicks and notes stop, whatever order answers came in (`BadgeConverges`).
* The page for marking sends the students of the subject chosen before until the
  list of the new one arrives, and the server records them without a look at
  who is enrolled (`FindWrongRoster`).

Read off the code while modelling, and not the subject of a run.

*Attendance.* `isLocked` is only tested before the writes, so that a request
admitted before the lock still writes after it, although BR-ATT-07 says locked
sessions cannot be edited; the ledger states what does hold. The nightly job
reads through the cache it is to repair; only the expiry of 300 s makes
`CacheConverges` true, as its mutant shows. The version check of `lockSession`
(`attendance.service.ts:175`) does not notice a mark by another faculty member,
since marking leaves `__v` alone and changes the owner. The correction window
(`:145`) is tested against a `markedAt` read two awaits earlier, and a re-mark
needs no window. An edit leaves `presentCount` alone, a second edit replaces
`editedAt` (`:141`).

*Alerts.* The key is set before the note exists (`notification.service.ts:134`),
so that a failure in between suppresses the alert for 24 hours. A failing update
of a note retries an email that was accepted; `emailAttempts` is not increased
by a failed attempt. With `REDIS_ENABLED=false` the no-op client answers SET NX
with null and no alert is ever created.

*Sessions.* Two refreshes with one token may both be answered with a pair,
although BR-AUTH-03 calls the tokens single-use; one of the pairs is dead at once
and the old token is never good again (`SpentStaysSpent`). A failure between INCR
and EXPIRE leaves a counter that never expires. A refresh overtaken by another
request deletes or replaces that request's token. The key `blacklist:user:{id}`
that a deactivation sets (`user.service.ts:276`) is read nowhere, so the user's
access tokens last until they expire. In the browser a logout that overlaps a
refresh leaves tokens behind, and one with an expired access token leaves the
session on the server; the refresh is a bare `axios` call without the timeout of
10 s; the 401 handler of `frontend/src/api/axios.ts` clears both tokens and
leaves `sat_user`.

*Subjects.* Two overlapping enrolments may overfill a subject
(`nfr-design-patterns.md` accepts it for v1), an enrolment overtaken by a
deactivation still enrols, and `enrolled` counts duplicate ids twice. The lists of
a student's and a teacher's subjects are not invalidated by enrolling or assigning
and are stale for up to 60 s. `createSubject.fulfilled` puts a row on top of a list
that may have it already. `SubjectForm` is filled with the subject edited before
it, late answers overwrite what was typed, and its submit writes that to the
subject being edited. The pager of `SubjectList` never leaves page 1, since
`setFilters` resets the page (`subjectSlice.ts:125`). `SubjectsPage` of `App.tsx`
asks for `/users?limit=200`, which `userSearchSchema` (at most 100) always refuses.

*Users.* A profile update stores any `profilePhotoKey` it is sent
(`user.validation.ts:46,54`), and the next upload deletes the object of that name
(`user.service.ts:328-331`). Two overlapping uploads leave one photo in the bucket for ever
(BR-USER-31). A reactivation is logged as "updated". The URL signed for a photo is
valid for an hour, stored, and never signed again. A creation that loses the race
for a unique index is answered 500, like every duplicate key that
`errorHandler` sees.

*Reports.* The cleanup job deletes every `report:*` key, although its comment
(`report.jobs.ts:7`) speaks of seven days. `generatePDF` joins its chunks before the
stream has emitted any (`report.service.ts:200`), so the file is empty. The month of
a report begins in the time zone of the server. A student's totals count the
student's records, the percentage of the engine the sessions held.

*Pages.* `FacultyAttendancePage` imports `clearMarkResult`, which the slice does not
have, and `AttendanceSheet` locks by a `lastMarkResult` that nothing clears.

## 5. What is proved

`AttendanceEngineProofs` holds for all values of the constants that satisfy
`EngineAssumption`: any number of users, students,
sessions, requests and calculations, any set of failures. The other proof modules
do the same under the assumptions of their modules, with requests, students,
seats, tokens, limits, bodies, photos, tabs, instances and times arbitrary.

| Theorem | Statement |
|---|---|
| `TypeCorrect` | `Spec => []TypeOK` |
| `LocksAreFinal` | `Spec => LockIsFinal` |
| `DrainedLocksAreFrozen` | `Spec => DrainedLockIsFrozen` |
| `RecordsAlwaysHaveSession` | `Spec => []RecordsHaveSession` |
| `AnsweredRowsAlwaysExist` | `Spec => []AnsweredRowsExist` |
| `CacheIsNeverAhead` | `Spec => []CacheNeverAhead` |
| `EngineImplementsLedger` | `Spec => Ledger!LedgerSpec` |
| `EnrollmentTypeCorrect` | `Spec => []TypeOK` of `Enrollment` |
| `ChoicesFit` | `Spec => []ChoiceFits` |
| `UndisturbedEnrollmentsFit` | `Spec => UndisturbedEnrollFits` |
| `DeactivationsHold` | `Spec => DeactivationHolds` |
| `AuthTypeCorrect` | `Spec => []TypeOK` of `AuthSession` |
| `DenialsOutlastTokens` | `Spec => []DenialOutlastsToken` |
| `SpentTokensStaySpent` | `Spec => SpentStaysSpent` |
| `OnlyPasswordsReopen` | `Spec => OnlyAPasswordReopens` |
| `InactiveUsersGetNothing` | `Spec => InactiveGetsNothing` |
| `AuthImplementsLedger` | `Spec => Ledger!LedgerSpec` of `AuthSession` |
| `CountersWillExpire`, `LimitsLock` | `Spec => CounterWillExpire`, `Spec => []LimitLocks`, without `"redis"` and `"crash"` in `Faults` |
| `AlertTypeCorrect` | `Spec => []TypeOK` of `AlertEmail` |
| `OneEmailAtATimeEverywhere` | `Spec => []OneEmailAtATime` |
| `AttemptsAlwaysRunOnce` | `Spec => []AttemptsRunOnce` |
| `SettledEmailsRest` | `Spec => [](` a note that is not pending has no job `)`, without `"db"` in `Faults` |
| `EmailsAreAlwaysCounted` | `Spec => []EmailsAreCounted` |
| `MailImplementsLadder` | `Spec => Ladder!LadderSpec` of `AlertEmail` |
| `OneNoteInEveryWindow` | `Spec => []OneNotePerWindow` |
| `StudentCallsAlwaysLast` | `Spec => StudentCallsLast` |
| `OnlyKeysSuppress` | `Spec => OnlyAKeySuppresses`, without `"db"` and `"crash"` in `Faults` |
| `UsersTypeCorrect` | `Spec => []TypeOK` of `Users` |
| `ConflictsAreEarned` | `Spec => []ConflictIsEarned` |
| `PhotosExist` | `Spec => []PhotoExists` |
| `StaleCopiesHaveCause` | `Spec => []StaleCopyHasCause` |
| `AuditsTellPrevious` | `Spec => AuditTellsPrevious` |
| `ReportsTypeCorrect`, `FilesAreFresh` | `Spec => []TypeOK` of `Reports`, `Spec => []RowsAreFresh` |
| `RefreshTypeCorrect` | `Spec => []TypeOK` of `RefreshClient` |
| `NobodyIsEverForgotten` | `Spec => []NobodyIsForgotten` |
| `KeptStaysCurrent` | `Spec => []KeptIsCurrent` |
| `DeskTypeCorrect`, `ListsTellWhatWasDone` | `Spec => []TypeOK` of `SubjectDesk`, `Spec => []TellsWhatWasDone` |
| `ScreensTypeCorrect` | `ScreensSpec => []ScreensTypeOK` |
| `KeptIsCurrentOnScreens`, `NobodyIsForgottenOnScreens`, `ListTellsOnScreens` | the same three of `Screens` |

The arguments. `RecordsHaveSession` and `AnsweredRowsExist` are not inductive: a
request that is about to write must know that its session exists, and a request
in the middle of a bulk write which rows it has written
(`RequestsKnowTheirRecords`). Sessions and records are never deleted, so what a
request knows stays true. `CacheNeverAhead` needs the same of a calculation
between its aggregation and its SET (`CalcNeverAhead`), and that the aggregate of
a pair never shrinks. The two action properties about locks need only the type
invariant: of all steps only `MarkUpsertSession` and `LockWrite` write a session,
only `MarkWriteRecord` and `EditUpdate` a record, and each of them is a step of
an admitted request or finds the session open. In the refinement a request is
admitted from its successful check to its last write; every step of the engine
is an admission, a write, a lock, a leave or a stutter of the ledger.
`UndisturbedEnrollFits` needs that a request's choice has no more names than the
seats it counted (`ChoiceFits`), that a list of n names adds at most n students,
and that the sets involved are finite.

For sessions the strengthening is `Ready` and `OwnPairs`: a request about to
store a pair has a signed pair that nobody holds and no other request stores,
and a request about to deny a token still knows enough seconds (time only runs
forward, so the sum of the time and the seconds only grows). `SpentStaysSpent`
follows because only `Store` fills the refresh key. The other two action
properties follow from `Moves`, which lists how a request can come to an await
after which a token may be stored.

For the counters of failed logins the type invariant and a list of the steps that
write a counter (`CounterSteps`) are enough; the assumption on `Faults` is
needed, since a failure between INCR and EXPIRE breaks both.

For alerts the invariant has four parts: `NotesFine` (no document counts more
attempts than there are, and one that says "sent" was received), `MailFine` for each
instance (`OneCall`: `isProcessing` stands for exactly one call or callback; `Apart`:
the queue, the calls and the timers hold different jobs; `JobsFine`: a job knows how
often its note can have been received and that its note counts fewer attempts, and
its note says "pending" or, where the database fails, "sent": `Unfinished`),
`JobsDisjoint` between instances, and `WindowsFine` (what is left of a setting of a
key has not been used). `OneEmailAtATime`, `AttemptsRunOnce` and `EmailsAreCounted`
need all of the first three. `EmailsAreCounted` (three emails per note), `ChoiceFits`
and `SettledEmailsRest` are stated by theorems only; the runs check the ladder,
`AttemptsRunOnce` and `UndisturbedEnrollFits`, which depend on them.

For users, `HeldBy` says that a request knows the document as it is, but for the
fields overtaken; from it follow `AuditTellsPrevious` and, with `TriesBy` (each
failed attempt was overtaken by an update of its own), `ConflictIsEarned`.
`PhotosKept` says that every key which the document or a request names is published
(`Named`), and that deletions under way never concern a photo that an upload has
entered or is about to enter, because keys are drawn once and no body names one
before it is published. A deletion may concern a key that a body wrote, of another
user's photo too (`Foreign`); `given` keeps such keys apart.

For reports the invariant bounds the age of cached rows by the end of their
key and of the rows a request holds by when it began. For the tabs it says that a
tab has waiting calls only while `isRefreshing` stands for a refresh, and which
token a session call carries while the history is not disturbed; the step that ends
a disturbance, a login served alone, re-establishes it because no other session call
is under way.

For the list of subjects the model counts how far each subject got (created,
edited, deactivated), and the proof rests on the fact that this only grows. What
the admin was told is true of the subject (`ToldIsTrue`); a change that is past its
write knows what it wrote (`PostsKnow`); a copy that has not lapsed is as far as
everything told (`CopyTells`), because a change is answered only after its DEL; and what a
fetch found is as far as what was told when it began, and is what the collection
holds unless a change came in between (`LoadsKnow`).

In the composition a step of `ScreensNext` is a step of one screen and leaves the
others, so `ScreensSpec` implies the specification of each (`ButtonAlone`, `TabsAlone`,
`DeskAlone`, `BellAlone`) and the theorems of the parts carry over. The type of the
bell is not obvious, since clicks count a badge down that a poll counted: what a
badge may hold is the size of a set of notes, and a count never falls below
zero (`Math.max(0, ...)`), so it stays within `0 .. Cardinality(Note)`.

The two refinements added to that of the engine need the invariants, too. The
ledger of sessions takes from `OwnPairs` that the token `Open` makes usable was never
handed out, and from `stored = k` in `Refresh` that `Begin` finds a usable token. Lemmas
`GoMaps` and `SignMaps` say what a change of a request's await does to
`Rotating` and `Opening`; then each action is mapped once. The ladder takes from
`OneCall` and `Apart` that a call's email is in no queue and under no timer of its
instance, and from `JobsDisjoint` that those of different instances differ: a
step of one instance therefore replaces its emails and leaves the others
(`OneServerMaps`), and moving an email between queue, call and timer changes
nothing (`WakeMaps`, `TimerFiresMaps`).

Only model-checked: the liveness properties (`CacheConverges`, `CopyConverges`,
`EmailsSettle`, `CalmForgives`, `BadgeConverges`), since fairness and ENABLED are
outside the prover's reach, and the two violations, which are counterexamples.
Every invariant and every action property of a passing run is a theorem. No module
declares a RECURSIVE operator, and no theorem is by induction over data.

## 6. Not modelled

* The server's life cycle (`server.ts`): connecting, registering jobs, shutting
  down. The death of an instance is a step of the modules.
* Shared utilities and the HTTP layer: formatting, error classes, logging, and
  routes that validate and call one service. What validation lets through is in
  the inputs of the modules.
* Operations that only read: listings of users, sessions, records,
  notifications, and the lists of a student's and a teacher's subjects.
* The rows of a report, the layout of its files and the parsing of a CSV: data
  that no property tells apart. The threshold in the settings of the weekly job is
  the choice of the pairs it finds.
* In the browser `attendanceSlice`, `userSlice` and the pages that show what one
  fetch brought; of `subjectSlice` the fetch of one subject and the thunks that
  enrol and assign, which replace one object with the last answer.

## 7. Plan

All modules of the plan are written: engine, ledger, enrolment, alerts, sessions,
users, reports, browser session, bell, subject list, mark page, composition of the
screens, and the ledgers of sessions and of emails; proofs for every component that
has an invariant. What would add most next: `RefreshClient` against `SessionLedger`,
which would put the two sides of a session together. Its server answers a refresh
in one step where the ledger takes three, so that the refinement needs stuttering
steps added to it. Then an abstract specification of a versioned profile that
`Users` implements, and the two remaining slices.
