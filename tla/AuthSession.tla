------------------------------ MODULE AuthSession ------------------------------
(***************************************************************************)
(* The sessions of one user: login with its lock after failed attempts,    *)
(* refreshTokens and logout of src/modules/auth/auth.service.ts, the check *)
(* of the access token in auth.middleware.ts, and what deactivateUser and  *)
(* adminUpdateUser of src/modules/users/user.service.ts do to a session.   *)
(*                                                                         *)
(* A token pair is named by the order in which it was signed.  One Redis   *)
(* key, refresh:{user}, holds the refresh token that may be used; access   *)
(* tokens are valid by their signature until they expire, unless a key     *)
(* blacklist:{jti} denies them.  Every command is one await.               *)
(***************************************************************************)
EXTENDS Integers, Sequences, FiniteSets

CONSTANTS
    Proc,               \* request slots
    Calls,              \* what arrives: subset of AllCalls
    Passwords,          \* subset of {"right", "wrong"}
    MaxFailedAttempts,  \* MAX_FAILED_ATTEMPTS
    AccessLife,         \* seconds an access token is valid
    MaxPairs,           \* bound: token pairs signed
    MaxTime,            \* bound: seconds that pass
    Faults              \* subset of {"redis", "db", "crash"}

AllCalls == {"login", "refresh", "logout", "deactivate", "update"}

ASSUME AuthAssumption ==
    /\ Calls \subseteq AllCalls
    /\ Passwords \subseteq {"right", "wrong"}
    /\ MaxFailedAttempts \in Nat \ {0} /\ AccessLife \in Nat \ {0}
    /\ MaxPairs \in Nat /\ MaxTime \in Nat
    /\ Faults \subseteq {"redis", "db", "crash"}

VARIABLES
    active,     \* isActive of the User document
    stored,     \* Redis key refresh:{user}: a pair, or NoToken
    counter,    \* Redis key attempts:{email} and whether it has an expiry
    locked,     \* Redis key lock:{email} exists
    denied,     \* denied[k]: when Redis drops blacklist:{jti of k}; 0 if never set
    pairs,      \* the pairs signed so far
    held,       \* the pairs that were answered to the user
    now,        \* the time
    pc,         \* pc[p]: the await request p is at
    job         \* job[p]: the local variables of request p

vars == <<active, stored, counter, locked, denied, pairs, held, now, pc, job>>
redis == <<stored, counter, locked, denied>>

-----------------------------------------------------------------------------
NoToken == 0
NoCount == [n |-> 0, ttl |-> FALSE]

Pair == 1 .. MaxPairs

\* exp: that of the access token; from: the refresh token the pair replaces,
\* NoToken if it was issued for a password.
Signed == [exp : Nat, from : Nat]

\* word: the password sent; token: the pair whose access or refresh token was
\* sent; new: the pair signed for the answer; count and remaining: the locals
\* of incrementFailedAttempts and logout.
Job == [word : {"right", "wrong"}, token : Nat, new : Nat, count : Nat,
        remaining : Nat]

IdleJob == [word |-> "wrong", token |-> NoToken, new |-> NoToken,
            count |-> 0, remaining |-> 0]

Init ==
    /\ active = TRUE
    /\ stored = NoToken /\ counter = NoCount /\ locked = FALSE
    /\ denied = [k \in Pair |-> 0]
    /\ pairs = <<>> /\ held = {}
    /\ now = 1
    /\ pc = [p \in Proc |-> "idle"]
    /\ job = [p \in Proc |-> IdleJob]

\* Request p goes on to await l with locals j.
Go(p, l, j) ==
    /\ pc' = [pc EXCEPT ![p] = l]
    /\ job' = [job EXCEPT ![p] = j]

\* Request p is over: it returned or threw.
Finish(p) == Go(p, "idle", IdleJob)

\* The requests that may still sign a pair.
Unsigned == {q \in Proc : /\ pc[q] \in {"findUser", "reset", "rotate", "findOwner"}
                          /\ job[q].word = "right"}

\* Request p arrives.  One that may sign a pair stays within the bound.
Arrives(p, call, signs) ==
    /\ call \in Calls /\ pc[p] = "idle"
    /\ signs => Len(pairs) + Cardinality(Unsigned) < MaxPairs

-----------------------------------------------------------------------------
\* What the Redis command that request p awaits does to the keys.
Applied(p) ==
    \/ /\ pc[p] \in {"rotate", "logoutDel", "deactivateDel"}
       /\ stored' = NoToken
       /\ UNCHANGED <<counter, locked, denied>>
    \/ /\ pc[p] = "store"
       /\ stored' = job[p].new
       /\ UNCHANGED <<counter, locked, denied>>
    \/ /\ pc[p] \in {"reset", "forget"}
       /\ counter' = NoCount
       /\ UNCHANGED <<stored, locked, denied>>
    \/ /\ pc[p] = "incr"
       /\ counter' = [counter EXCEPT !.n = @ + 1]
       /\ UNCHANGED <<stored, locked, denied>>
    \/ /\ pc[p] = "expire"
       /\ counter' = IF counter.n > 0 THEN [counter EXCEPT !.ttl = TRUE] ELSE counter
       /\ UNCHANGED <<stored, locked, denied>>
    \/ /\ pc[p] = "lock"
       /\ locked' = TRUE
       /\ UNCHANGED <<stored, counter, denied>>
    \/ /\ pc[p] = "deny"
       /\ denied' = [denied EXCEPT ![job[p].token] = now + job[p].remaining]
       /\ UNCHANGED <<stored, counter, locked>>

-----------------------------------------------------------------------------
(* login                                                                   *)

\* Lines 77-85: a locked account ends the request.  The bound on the counter
\* only matters after a failed SET lock, when it may grow.
Login(p, word) ==
    /\ Arrives(p, "login", word = "right")
    /\ ~ locked /\ counter.n <= MaxFailedAttempts
    /\ Go(p, "findUser", [IdleJob EXCEPT !.word = word])
    /\ UNCHANGED <<active, redis, pairs, held, now>>

\* Lines 87-101: an inactive user and a wrong password count as a failure.
LoginFindUser(p) ==
    /\ pc[p] = "findUser"
    /\ Go(p, IF active /\ job[p].word = "right" THEN "reset" ELSE "incr", job[p])
    /\ UNCHANGED <<active, redis, pairs, held, now>>

\* generateTokenPair, lines 223-234: p signs a pair and goes on to store it.
Sign(p, from) ==
    /\ pairs' = Append(pairs, [exp |-> now + AccessLife, from |-> from])
    /\ Go(p, "store", [job[p] EXCEPT !.new = Len(pairs) + 1])

\* Lines 103-106: DEL attempts, then the pair is signed.
LoginReset(p) ==
    /\ pc[p] = "reset"
    /\ Applied(p)
    /\ Sign(p, NoToken)
    /\ UNCHANGED <<active, held, now>>

\* Lines 236-241: SET refresh, then the pair is answered.
Store(p) ==
    /\ pc[p] = "store"
    /\ Applied(p)
    /\ held' = held \union {job[p].new}
    /\ Finish(p)
    /\ UNCHANGED <<active, pairs, now>>

\* Mutants: the lock comes one failure late; the expiry is set at the second
\* failure.
AfterExpireLate(count) == IF count > MaxFailedAttempts THEN "lock" ELSE "idle"
AfterIncrSecond(count) == IF count = 2 THEN "expire"
                          ELSE IF count >= MaxFailedAttempts THEN "lock" ELSE "idle"

\* incrementFailedAttempts, lines 250-254.
AfterExpire(count) == IF count >= MaxFailedAttempts THEN "lock" ELSE "idle"
AfterIncr(count) == IF count = 1 THEN "expire" ELSE AfterExpire(count)

Incr(p) ==
    /\ pc[p] = "incr"
    /\ Applied(p)
    /\ LET l == AfterIncr(counter'.n) IN
       Go(p, l, IF l = "idle" THEN IdleJob ELSE [job[p] EXCEPT !.count = counter'.n])
    /\ UNCHANGED <<active, pairs, held, now>>

Expire(p) ==
    /\ pc[p] = "expire"
    /\ Applied(p)
    /\ LET l == AfterExpire(job[p].count) IN
       Go(p, l, IF l = "idle" THEN IdleJob ELSE job[p])
    /\ UNCHANGED <<active, pairs, held, now>>

\* Lines 254-256: SET lock, then DEL attempts.
Lock(p) ==
    /\ pc[p] = "lock"
    /\ Applied(p)
    /\ Go(p, "forget", job[p])
    /\ UNCHANGED <<active, pairs, held, now>>

Forget(p) ==
    /\ pc[p] = "forget"
    /\ Applied(p)
    /\ Finish(p)
    /\ UNCHANGED <<active, pairs, held, now>>

-----------------------------------------------------------------------------
(* refreshTokens                                                           *)

\* Mutant: the token sent is not compared with the stored one.
RefreshUnchecked(p, k) ==
    /\ Arrives(p, "refresh", TRUE)
    /\ Go(p, "rotate", [IdleJob EXCEPT !.word = "right", !.token = k])
    /\ UNCHANGED <<active, redis, pairs, held, now>>

\* Lines 128-144: the token is the stored one, or the request ends.
Refresh(p, k) ==
    /\ Arrives(p, "refresh", TRUE)
    /\ stored = k
    /\ Go(p, "rotate", [IdleJob EXCEPT !.word = "right", !.token = k])
    /\ UNCHANGED <<active, redis, pairs, held, now>>

\* Line 147: DEL deletes what is stored by now.
Rotate(p) ==
    /\ pc[p] = "rotate"
    /\ Applied(p)
    /\ Go(p, "findOwner", job[p])
    /\ UNCHANGED <<active, pairs, held, now>>

\* Mutants: isActive is not tested; the old token is stored again; no token is
\* signed.
RefreshFindOwnerInactive(p) ==
    /\ pc[p] = "findOwner"
    /\ Sign(p, job[p].token)
    /\ UNCHANGED <<active, redis, held, now>>

RefreshFindOwnerSame(p) ==
    /\ pc[p] = "findOwner"
    /\ active
    /\ Go(p, "store", [job[p] EXCEPT !.new = job[p].token])
    /\ UNCHANGED <<active, redis, pairs, held, now>>

RefreshFindOwnerUnsigned(p) ==
    /\ pc[p] = "findOwner"
    /\ active
    /\ Go(p, "store", job[p])
    /\ UNCHANGED <<active, redis, pairs, held, now>>

\* Lines 149-154: the user is active, or the request ends.
RefreshFindOwner(p) ==
    /\ pc[p] = "findOwner"
    /\ IF active THEN Sign(p, job[p].token) ELSE Finish(p) /\ UNCHANGED pairs
    /\ UNCHANGED <<active, redis, held, now>>

-----------------------------------------------------------------------------
(* logout                                                                  *)

\* Lines 198-208, called by authenticate: signature and expiry are checked,
\* then Redis is asked.
Logout(p, k) ==
    /\ Arrives(p, "logout", FALSE)
    /\ now < pairs[k].exp
    /\ Go(p, "verify", [IdleJob EXCEPT !.token = k])
    /\ UNCHANGED <<active, redis, pairs, held, now>>

Denied(k) == now < denied[k]

\* Mutant: a second is lost when the remaining ones are counted.
LogoutVerifyShort(p) ==
    /\ pc[p] = "verify" /\ ~ Denied(job[p].token)
    /\ Go(p, "deny", [job[p] EXCEPT !.remaining =
                          IF pairs[job[p].token].exp > now
                          THEN pairs[job[p].token].exp - now - 1 ELSE 0])
    /\ UNCHANGED <<active, redis, pairs, held, now>>

\* Lines 209-219 and 170-174: a denied token ends the request; the seconds the
\* token has left are counted before the next await.
LogoutVerify(p) ==
    LET k == job[p].token
        remaining == pairs[k].exp - now IN
    /\ pc[p] = "verify"
    /\ \/ Denied(k) /\ Finish(p)
       \/ ~ Denied(k) /\ remaining > 0
          /\ Go(p, "deny", [job[p] EXCEPT !.remaining = remaining])
       \/ ~ Denied(k) /\ remaining <= 0
          /\ Go(p, "logoutDel", job[p])
    /\ UNCHANGED <<active, redis, pairs, held, now>>

\* Lines 175-178: SET blacklist.
LogoutDeny(p) ==
    /\ pc[p] = "deny"
    /\ Applied(p)
    /\ Go(p, "logoutDel", job[p])
    /\ UNCHANGED <<active, pairs, held, now>>

\* Lines 185-190: DEL refresh.
LogoutDel(p) ==
    /\ pc[p] = "logoutDel"
    /\ Applied(p)
    /\ Finish(p)
    /\ UNCHANGED <<active, pairs, held, now>>

-----------------------------------------------------------------------------
(* Administrators                                                          *)

\* deactivateUser, lines 256-258 of user.service.ts.
Deactivate(p) ==
    /\ Arrives(p, "deactivate", FALSE)
    /\ active
    /\ Go(p, "deactivateWrite", IdleJob)
    /\ UNCHANGED <<active, redis, pairs, held, now>>

\* Lines 260-271.
DeactivateWrite(p) ==
    /\ pc[p] = "deactivateWrite"
    /\ active' = FALSE
    /\ Go(p, "deactivateDel", IdleJob)
    /\ UNCHANGED <<redis, pairs, held, now>>

\* Lines 274-277: DEL refresh; nothing ever reads the key blacklist:user:{id}
\* that is set next.
DeactivateDel(p) ==
    /\ pc[p] = "deactivateDel"
    /\ Applied(p)
    /\ Finish(p)
    /\ UNCHANGED <<active, pairs, held, now>>

\* adminUpdateUser, lines 224-249: isActive is set as sent, Redis keeps its
\* tokens.  What is written does not depend on what was read.
AdminUpdate(p, b) ==
    /\ Arrives(p, "update", FALSE)
    /\ active' = b
    /\ UNCHANGED <<redis, pairs, held, now, pc, job>>

-----------------------------------------------------------------------------
(* Time and failures                                                       *)

Tick ==
    /\ now < MaxTime
    /\ now' = now + 1
    /\ UNCHANGED <<active, redis, pairs, held, pc, job>>

\* Redis drops a key whose time is over.
StoredExpires ==
    /\ stored # NoToken
    /\ stored' = NoToken
    /\ UNCHANGED <<active, counter, locked, denied, pairs, held, now, pc, job>>

AttemptsExpire ==
    /\ counter.ttl
    /\ counter' = NoCount
    /\ UNCHANGED <<active, stored, locked, denied, pairs, held, now, pc, job>>

LockExpires ==
    /\ locked
    /\ locked' = FALSE
    /\ UNCHANGED <<active, stored, counter, denied, pairs, held, now, pc, job>>

\* A command fails, applied or not: redisOp throws and the request ends, but
\* the blocks of logout swallow the error, as do the others that end anyway.
RedisError(p) ==
    /\ "redis" \in Faults
    /\ \/ Applied(p)
       \/ pc[p] \notin {"idle", "findUser", "findOwner", "deactivateWrite"}
          /\ UNCHANGED redis
    /\ IF pc[p] = "deny" THEN Go(p, "logoutDel", job[p]) ELSE Finish(p)
    /\ UNCHANGED <<active, pairs, held, now>>

\* A query of the database fails: the handler throws.  Before deactivateDel it
\* is an update that was applied and whose reply was lost: the token stays.
DbError(p) ==
    /\ "db" \in Faults
    /\ pc[p] \in {"findUser", "findOwner", "deactivateWrite", "deactivateDel"}
    /\ Finish(p)
    /\ UNCHANGED <<active, redis, pairs, held, now>>

\* The server process dies.
Crash ==
    /\ "crash" \in Faults
    /\ pc' = [p \in Proc |-> "idle"]
    /\ job' = [p \in Proc |-> IdleJob]
    /\ UNCHANGED <<active, redis, pairs, held, now>>

-----------------------------------------------------------------------------
Arrive(p) ==
    \/ \E word \in Passwords : Login(p, word)
    \/ \E k \in held : Refresh(p, k) \/ Logout(p, k)
    \/ Deactivate(p)
    \/ \E b \in BOOLEAN : AdminUpdate(p, b)

Proceed(p) ==
    \/ LoginFindUser(p) \/ LoginReset(p) \/ Store(p)
    \/ Incr(p) \/ Expire(p) \/ Lock(p) \/ Forget(p)
    \/ Rotate(p) \/ RefreshFindOwner(p)
    \/ LogoutVerify(p) \/ LogoutDeny(p) \/ LogoutDel(p)
    \/ DeactivateWrite(p) \/ DeactivateDel(p)

Next ==
    \/ \E p \in Proc : Arrive(p) \/ Proceed(p) \/ RedisError(p) \/ DbError(p)
    \/ Tick
    \/ StoredExpires \/ AttemptsExpire \/ LockExpires
    \/ Crash

Spec == Init /\ [][Next]_vars

\* The event loop runs what is ready, the stores answer, Redis expires keys.
Fairness ==
    /\ \A p \in Proc : WF_vars(Proceed(p))
    /\ WF_vars(AttemptsExpire) /\ WF_vars(LockExpires)

FairSpec == Spec /\ Fairness

-----------------------------------------------------------------------------
(* Properties                                                              *)

Pcs == {"idle", "findUser", "reset", "store", "incr", "expire", "lock", "forget",
        "rotate", "findOwner", "verify", "deny", "logoutDel", "deactivateWrite",
        "deactivateDel"}

\* Type invariant.  Only signed pairs are stored, answered and sent back.
TypeOK ==
    /\ active \in BOOLEAN /\ locked \in BOOLEAN
    /\ pairs \in Seq(Signed)
    /\ stored \in (1 .. Len(pairs)) \union {NoToken}
    /\ held \subseteq 1 .. Len(pairs)
    /\ counter \in [n : Nat, ttl : BOOLEAN]
    /\ denied \in [Pair -> Nat] /\ now \in Nat
    /\ pc \in [Proc -> Pcs] /\ job \in [Proc -> Job]

\* A refresh token that was answered and is not stored any more never becomes
\* usable again, however requests overlap: what replaces a token is fresh.
SpentStaysSpent ==
    [][stored' # stored /\ stored' # NoToken => stored' \notin held]_vars

\* The requests that are replacing a refresh token.
Rotating == {p \in Proc : \/ pc[p] \in {"rotate", "findOwner"}
                          \/ pc[p] = "store" /\ pairs[job[p].new].from # NoToken}

\* After a logout, a deactivation or a lost key, with no refresh under way,
\* only a login with the right password gives the user a token again.
OnlyAPasswordReopens ==
    [][stored = NoToken /\ Rotating = {} =>
          /\ Rotating' = {}
          /\ stored' # NoToken => pairs[stored'].from = NoToken]_vars

\* The requests past the test of isActive that will store a token.
Opening == {p \in Proc : pc[p] \in {"reset", "store"}}

\* A user who is and stays inactive gets no token, once the requests that had
\* seen the user active are gone.
InactiveGetsNothing ==
    [][~ active /\ ~ active' /\ Opening = {} =>
          /\ Opening' = {} /\ held' = held
          /\ stored' \in {stored, NoToken}]_vars

\* The service implements the ledger of sessions: whatever overlaps, fails or
\* dies, only a request that saw the user active makes a token usable, the token
\* is new to the user, and refreshes begin only where one is usable.
Ledger == INSTANCE SessionLedger WITH
    Token <- Nat \ {NoToken}, None <- NoToken,
    usable <- stored, handed <- held, refreshing <- Rotating, admitted <- Opening

ImplementsLedger == Ledger!LedgerSpec

\* A key that denies an access token lasts at least as long as the token.
DenialOutlastsToken ==
    \A k \in Pair : denied[k] # 0 => k <= Len(pairs) /\ denied[k] >= pairs[k].exp

\* While Redis answers and no process dies: a counter at the limit is about to be
\* turned into a lock.
LimitLocks ==
    counter.n >= MaxFailedAttempts =>
        \E p \in Proc : \/ pc[p] \in {"lock", "forget"}
                        \/ pc[p] = "expire" /\ job[p].count >= MaxFailedAttempts

\* While Redis answers and no process dies: a counter that does not expire is
\* about to.
CounterWillExpire ==
    counter.n > 0 /\ ~ counter.ttl => \E p \in Proc : pc[p] = "expire"

\* Without failures: if no more attempts fail, the account is unlocked and the
\* failures are forgotten.
CalmForgives ==
    (<>[](\A p \in Proc : pc[p] # "incr")) => <>[](~ locked /\ counter = NoCount)
===============================================================================
