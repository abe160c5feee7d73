-------------------------- MODULE AuthSessionProofs --------------------------
(***************************************************************************)
(* Theorems about AuthSession, for any request slots, limits, lives of     *)
(* tokens and failures.                                                    *)
(*                                                                         *)
(* The strengthening says what each request in flight may rely on: that    *)
(* the pairs it names are signed, that the pair it is about to store is in *)
(* nobody's hands and is no other request's, and that the seconds it       *)
(* counted for a denial still reach the end of the token.                  *)
(***************************************************************************)
EXTENDS AuthSession, SequenceTheorems, TLAPS

USE AuthAssumption DEF NoToken, NoCount, Pair

Signeds == 1 .. Len(pairs)

\* What a request at l with locals j relies on.
Ready(l, j) ==
    /\ l \in {"rotate", "findOwner", "verify", "deny"} => j.token \in Signeds
    /\ l = "store" => j.new \in Signeds \ held
    /\ l = "deny" => now + j.remaining >= pairs[j.token].exp

\* No two requests are about to store the same pair.
OwnPairs ==
    \A p, q \in Proc :
        pc[p] = "store" /\ pc[q] = "store" /\ job[p].new = job[q].new => p = q

IInv ==
    /\ TypeOK
    /\ \A p \in Proc : Ready(pc[p], job[p])
    /\ OwnPairs
    /\ DenialOutlastsToken

-----------------------------------------------------------------------------
(* Lemmas                                                                  *)

\* A request that is not running relies on nothing.
LEMMA IdleReady == IdleJob \in Job /\ Ready("idle", IdleJob)
BY DEF IdleJob, Job, Ready

\* Signing a pair leaves the pairs signed before it as they are.
LEMMA SignAppends ==
  ASSUME pairs \in Seq(Signed), now \in Nat, NEW p \in Proc, NEW from \in Nat, Sign(p, from)
  PROVE  /\ pairs' \in Seq(Signed)
         /\ Len(pairs') = Len(pairs) + 1
         /\ \A k \in 1 .. Len(pairs) : pairs'[k] = pairs[k]
         /\ pairs'[Len(pairs) + 1].from = from
<1> DEFINE pair == [exp |-> now + AccessLife, from |-> from]
<1>1. pair \in Signed
  BY DEF Signed
<1>2. pairs' = Append(pairs, pair)
  BY DEF Sign
<1> HIDE DEF pair
<1>3. /\ pairs' \in Seq(Signed)
      /\ Len(pairs') = Len(pairs) + 1
      /\ \A k \in 1 .. Len(pairs) : pairs'[k] = pairs[k]
      /\ pairs'[Len(pairs) + 1] = pair
  BY <1>1, <1>2, AppendProperties
<1>4. pair.from = from
  BY DEF pair
<1>5. QED
  BY <1>3, <1>4

\* A request that goes on with good locals, while no pair is signed or
\* answered and time does not run back, disturbs nobody.
LEMMA GoKeeps ==
  ASSUME IInv, NEW p \in Proc, NEW l \in Pcs, NEW j \in Job, Ready(l, j), Go(p, l, j),
         l # "store", UNCHANGED <<pairs, held, now>>
  PROVE  /\ pc' \in [Proc -> Pcs] /\ job' \in [Proc -> Job]
         /\ (\A q \in Proc : Ready(pc[q], job[q]))'
         /\ OwnPairs'
<1>1. pc \in [Proc -> Pcs] /\ job \in [Proc -> Job]
  BY DEF IInv, TypeOK
<1>2. pc' \in [Proc -> Pcs] /\ job' \in [Proc -> Job]
  BY <1>1 DEF Go
<1>3. \A q \in Proc : /\ pc'[q] = IF q = p THEN l ELSE pc[q]
                      /\ job'[q] = IF q = p THEN j ELSE job[q]
  BY <1>1 DEF Go
<1>4. \A q \in Proc : Ready(pc'[q], job'[q])
  BY <1>3 DEF IInv
<1>5. (\A q \in Proc : Ready(pc[q], job[q]))'
  BY <1>4 DEF Ready, Signeds
<1>6. OwnPairs'
  BY <1>3 DEF IInv, OwnPairs
<1>7. QED
  BY <1>2, <1>5, <1>6

\* What INCR, EXPIRE and DEL make of a counter is a counter.
LEMMA CounterType ==
  ASSUME NEW c \in [n : Nat, ttl : BOOLEAN]
  PROVE  /\ NoCount \in [n : Nat, ttl : BOOLEAN]
         /\ [c EXCEPT !.ttl = TRUE] \in [n : Nat, ttl : BOOLEAN]
         /\ \A m \in Nat : [c EXCEPT !.n = m] \in [n : Nat, ttl : BOOLEAN]
<1>1. NoCount \in [n : Nat, ttl : BOOLEAN]
  OBVIOUS
<1>2. [c EXCEPT !.ttl = TRUE] \in [n : Nat, ttl : BOOLEAN]
  OBVIOUS
<1>3. ASSUME NEW m \in Nat
      PROVE  [c EXCEPT !.n = m] \in [n : Nat, ttl : BOOLEAN]
  OBVIOUS
<1>4. QED
  BY <1>1, <1>2, <1>3

\* Every Redis command leaves keys of their type, and denials long enough.
LEMMA AppliedKeeps ==
  ASSUME IInv, NEW p \in Proc, Applied(p)
  PROVE  /\ stored' \in Signeds \union {NoToken}
         /\ counter' \in [n : Nat, ttl : BOOLEAN] /\ locked' \in BOOLEAN
         /\ denied' \in [Pair -> Nat]
         /\ \A k \in Pair : denied'[k] # 0 => k \in Signeds /\ denied'[k] >= pairs[k].exp
<1>1. /\ stored \in Signeds \union {NoToken} /\ counter \in [n : Nat, ttl : BOOLEAN]
      /\ locked \in BOOLEAN /\ denied \in [Pair -> Nat] /\ now \in Nat
      /\ pairs \in Seq(Signed)
      /\ job[p] \in Job /\ Ready(pc[p], job[p])
  BY DEF IInv, TypeOK, Signeds
<1>2. \A k \in Pair : denied[k] # 0 => k \in Signeds /\ denied[k] >= pairs[k].exp
  BY DEF IInv, DenialOutlastsToken, TypeOK, Signeds
<1>3. CASE pc[p] \in {"rotate", "logoutDel", "deactivateDel", "store"}
  <2>1. stored' \in Signeds \union {NoToken} /\ UNCHANGED <<counter, locked, denied>>
    BY <1>1, <1>3 DEF Applied, Ready
  <2>2. QED
    BY <1>1, <1>2, <2>1
<1>4. CASE pc[p] \in {"reset", "forget", "incr", "expire"}
  <2>1. counter' \in [n : Nat, ttl : BOOLEAN] /\ UNCHANGED <<stored, locked, denied>>
    <3>1. counter.n + 1 \in Nat
      BY <1>1
    <3>2. \/ counter' = NoCount
          \/ counter' = [counter EXCEPT !.n = counter.n + 1]
          \/ counter' = [counter EXCEPT !.ttl = TRUE]
          \/ counter' = counter
      BY <1>4 DEF Applied
    <3>3. UNCHANGED <<stored, locked, denied>>
      BY <1>4 DEF Applied
    <3>4. /\ NoCount \in [n : Nat, ttl : BOOLEAN]
          /\ [counter EXCEPT !.n = counter.n + 1] \in [n : Nat, ttl : BOOLEAN]
          /\ [counter EXCEPT !.ttl = TRUE] \in [n : Nat, ttl : BOOLEAN]
          /\ counter \in [n : Nat, ttl : BOOLEAN]
      BY <1>1, <3>1, CounterType
    <3>5. QED
      BY <3>2, <3>3, <3>4, Zenon
  <2>2. QED
    BY <1>1, <1>2, <2>1
<1>5. CASE pc[p] = "lock"
  BY <1>1, <1>2, <1>5 DEF Applied
<1>6. CASE pc[p] = "deny"
  <2> DEFINE k == job[p].token
             until == now + job[p].remaining
  <2>1. denied' = [denied EXCEPT ![k] = until] /\ UNCHANGED <<stored, counter, locked>>
    BY <1>6 DEF Applied
  <2>2. k \in Signeds /\ until \in Nat /\ until >= pairs[k].exp
    BY <1>1, <1>6 DEF Ready, Job
  <2> HIDE DEF k, until
  <2>3. QED
    BY <1>1, <1>2, <2>1, <2>2
<1>7. QED
  BY <1>3, <1>4, <1>5, <1>6 DEF Applied

\* A step of one request that signs and answers nothing.
LEMMA QuietStep ==
  ASSUME IInv, NEW p \in Proc, NEW l \in Pcs, NEW j \in Job, Ready(l, j), Go(p, l, j),
         l # "store", UNCHANGED <<pairs, held, now>>, active' \in BOOLEAN,
         Applied(p) \/ UNCHANGED redis
  PROVE  IInv'
<1>1. /\ pc' \in [Proc -> Pcs] /\ job' \in [Proc -> Job]
      /\ (\A q \in Proc : Ready(pc[q], job[q]))' /\ OwnPairs'
  BY GoKeeps
<1>2. /\ stored' \in Signeds \union {NoToken}
      /\ counter' \in [n : Nat, ttl : BOOLEAN] /\ locked' \in BOOLEAN
      /\ denied' \in [Pair -> Nat]
      /\ \A k \in Pair : denied'[k] # 0 => k \in Signeds /\ denied'[k] >= pairs[k].exp
  <2>1. CASE Applied(p)
    BY <2>1, AppliedKeeps
  <2>2. CASE UNCHANGED redis
    BY <2>2 DEF redis, IInv, TypeOK, DenialOutlastsToken, Signeds
  <2>3. QED
    BY <2>1, <2>2
<1>3. TypeOK'
  BY <1>1, <1>2 DEF IInv, TypeOK, Signeds
<1>4. DenialOutlastsToken'
  BY <1>2 DEF DenialOutlastsToken, Signeds, IInv, TypeOK
<1>5. QED
  BY <1>1, <1>3, <1>4 DEF IInv

\* A step that signs a pair: the new pair is nobody's, and the others stay.
LEMMA SignStep ==
  ASSUME IInv, NEW p \in Proc, NEW from \in Nat, Sign(p, from),
         Applied(p) \/ UNCHANGED redis, UNCHANGED <<active, held, now>>
  PROVE  IInv'
<1> DEFINE j == [job[p] EXCEPT !.new = Len(pairs) + 1]
<1>1. /\ pc \in [Proc -> Pcs] /\ job \in [Proc -> Job] /\ pairs \in Seq(Signed)
      /\ now \in Nat /\ held \subseteq Signeds /\ Len(pairs) \in Nat
  BY DEF IInv, TypeOK, Signeds
<1>2. /\ pairs' \in Seq(Signed) /\ Len(pairs') = Len(pairs) + 1
      /\ \A k \in Signeds : pairs'[k] = pairs[k]
  BY <1>1, SignAppends DEF Signeds
<1>3. /\ stored' \in Signeds \union {NoToken}
      /\ counter' \in [n : Nat, ttl : BOOLEAN] /\ locked' \in BOOLEAN
      /\ denied' \in [Pair -> Nat]
      /\ \A k \in Pair : denied'[k] # 0 => k \in Signeds /\ denied'[k] >= pairs[k].exp
  <2>1. CASE Applied(p)
    BY <2>1, AppliedKeeps
  <2>2. CASE UNCHANGED redis
    BY <2>2 DEF redis, IInv, TypeOK, DenialOutlastsToken, Signeds
  <2>3. QED
    BY <2>1, <2>2
<1>4. j \in Job /\ j.new = Len(pairs) + 1
  <2>1. job[p] \in Job /\ Len(pairs) + 1 \in Nat
    BY <1>1
  <2>2. QED
    BY <2>1 DEF Job
<1>5. /\ pc' \in [Proc -> Pcs] /\ job' \in [Proc -> Job]
      /\ \A q \in Proc : /\ pc'[q] = IF q = p THEN "store" ELSE pc[q]
                         /\ job'[q] = IF q = p THEN j ELSE job[q]
  BY <1>1, <1>4 DEF Sign, Go, Pcs
<1> HIDE DEF j
<1>6. TypeOK'
  BY <1>1, <1>2, <1>3, <1>5 DEF IInv, TypeOK, Signeds
<1>7. DenialOutlastsToken'
  <2>1. ASSUME NEW k \in Pair, denied'[k] # 0
        PROVE  k <= Len(pairs') /\ denied'[k] >= pairs'[k].exp
    <3>1. k \in Signeds /\ denied'[k] >= pairs[k].exp
      BY <1>3, <2>1
    <3>2. pairs'[k] = pairs[k] /\ k <= Len(pairs')
      BY <1>1, <1>2, <3>1 DEF Signeds
    <3>3. QED
      BY <3>1, <3>2
  <2>2. QED
    BY <2>1 DEF DenialOutlastsToken
<1>8. ASSUME NEW q \in Proc
      PROVE  Ready(pc[q], job[q])'
  <2>1. CASE q = p
    BY <1>1, <1>2, <1>4, <1>5, <2>1 DEF Ready, Signeds
  <2>2. CASE q # p
    BY <1>1, <1>2, <1>5, <2>2 DEF Ready, Signeds, IInv
  <2>3. QED
    BY <2>1, <2>2
<1>9. OwnPairs'
  <2>1. \A q \in Proc : pc[q] = "store" => job[q].new \in Signeds
    BY DEF IInv, Ready
  <2>2. Len(pairs) + 1 \notin Signeds
    BY <1>1 DEF Signeds
  <2>3. QED
    BY <1>4, <1>5, <2>1, <2>2 DEF IInv, OwnPairs
<1>10. QED
  BY <1>6, <1>7, <1>8, <1>9 DEF IInv

\* The pair that is stored and answered was nobody's before.
LEMMA StoreStep ==
  ASSUME IInv, NEW p \in Proc, Store(p)
  PROVE  IInv'
<1>1. /\ pc \in [Proc -> Pcs] /\ job \in [Proc -> Job] /\ held \subseteq Signeds
      /\ job[p].new \in Signeds \ held /\ pc[p] = "store"
  BY DEF IInv, TypeOK, Signeds, Ready, Store
<1>2. /\ stored' \in Signeds \union {NoToken}
      /\ counter' \in [n : Nat, ttl : BOOLEAN] /\ locked' \in BOOLEAN
      /\ denied' \in [Pair -> Nat]
      /\ \A k \in Pair : denied'[k] # 0 => k \in Signeds /\ denied'[k] >= pairs[k].exp
  BY AppliedKeeps DEF Store
<1>3. /\ pc' \in [Proc -> Pcs] /\ job' \in [Proc -> Job]
      /\ \A q \in Proc : /\ pc'[q] = IF q = p THEN "idle" ELSE pc[q]
                         /\ job'[q] = IF q = p THEN IdleJob ELSE job[q]
  BY <1>1, IdleReady DEF Store, Finish, Go, Pcs
<1>4. held' = held \union {job[p].new} /\ UNCHANGED <<pairs, now, active>>
  BY DEF Store
<1>5. TypeOK'
  BY <1>1, <1>2, <1>3, <1>4 DEF IInv, TypeOK, Signeds
<1>6. DenialOutlastsToken'
  BY <1>2, <1>4 DEF DenialOutlastsToken, Signeds, IInv, TypeOK
<1>7. ASSUME NEW q \in Proc
      PROVE  Ready(pc[q], job[q])'
  <2>1. CASE q = p
    BY <1>3, <2>1 DEF Ready
  <2>2. CASE q # p
    <3>1. Ready(pc[q], job[q])
      BY DEF IInv
    <3>2. pc[q] = "store" => job[q].new # job[p].new
      BY <1>1, <2>2 DEF IInv, OwnPairs
    <3>3. QED
      BY <1>3, <1>4, <2>2, <3>1, <3>2 DEF Ready, Signeds
  <2>3. QED
    BY <2>1, <2>2
<1>8. OwnPairs'
  BY <1>3 DEF IInv, OwnPairs
<1>9. QED
  BY <1>5, <1>6, <1>7, <1>8 DEF IInv

\* At the start nothing is signed, stored or asked.
LEMMA InitOK == Init => IInv
<1> SUFFICES ASSUME Init PROVE IInv
  OBVIOUS
<1>1. pairs = <<>> /\ pairs \in Seq(Signed) /\ Len(pairs) = 0
  BY DEF Init
<1>2. NoCount \in [n : Nat, ttl : BOOLEAN] /\ denied \in [Pair -> Nat]
  BY DEF Init
<1>3. pc \in [Proc -> Pcs] /\ job \in [Proc -> Job]
  BY IdleReady DEF Init, Pcs
<1>4. TypeOK
  BY <1>1, <1>2, <1>3 DEF Init, TypeOK
<1>5. (\A p \in Proc : Ready(pc[p], job[p])) /\ OwnPairs
  BY IdleReady DEF Init, OwnPairs
<1>6. DenialOutlastsToken
  BY DEF Init, DenialOutlastsToken
<1>7. QED
  BY <1>4, <1>5, <1>6 DEF IInv

\* The steps by which a request arrives.
LEMMA ArriveStep ==
  ASSUME IInv, NEW p \in Proc, Arrive(p)
  PROVE  IInv'
<1>1. /\ active \in BOOLEAN /\ held \subseteq Signeds /\ job[p] \in Job /\ pairs \in Seq(Signed)
      /\ stored \in Signeds \union {NoToken}
  BY DEF IInv, TypeOK, Signeds
<1>2. \A k \in held : k \in Nat
  BY <1>1 DEF Signeds
<1>3. ASSUME NEW word \in Passwords, Login(p, word)
      PROVE  IInv'
  <2> DEFINE j == [IdleJob EXCEPT !.word = word]
  <2>1. j \in Job
    BY IdleReady DEF Job
  <2>2. Ready("findUser", j)
    BY DEF Ready
  <2>3. QED
    BY <1>1, <1>3, <2>1, <2>2, QuietStep DEF Login, Pcs
<1>4. ASSUME NEW k \in held, Refresh(p, k)
      PROVE  IInv'
  <2> DEFINE j == [IdleJob EXCEPT !.word = "right", !.token = k]
  <2>1. j \in Job /\ j.token = k
    BY <1>2, IdleReady DEF Job
  <2>2. Ready("rotate", j)
    BY <1>1, <2>1 DEF Ready
  <2>3. QED
    BY <1>1, <1>4, <2>1, <2>2, QuietStep DEF Refresh, Pcs
<1>5. ASSUME NEW k \in held, Logout(p, k)
      PROVE  IInv'
  <2> DEFINE j == [IdleJob EXCEPT !.token = k]
  <2>1. j \in Job /\ j.token = k
    BY <1>2, IdleReady DEF Job
  <2>2. Ready("verify", j)
    BY <1>1, <2>1 DEF Ready
  <2>3. QED
    BY <1>1, <1>5, <2>1, <2>2, QuietStep DEF Logout, Pcs
<1>6. CASE Deactivate(p)
  <2>1. Ready("deactivateWrite", IdleJob)
    BY DEF Ready
  <2>2. QED
    BY <1>1, <1>6, <2>1, IdleReady, QuietStep DEF Deactivate, Pcs
<1>7. ASSUME NEW b \in BOOLEAN, AdminUpdate(p, b)
      PROVE  IInv'
  BY <1>7 DEF AdminUpdate, redis, IInv, TypeOK, Ready, OwnPairs, DenialOutlastsToken, Signeds
<1>8. QED
  BY <1>3, <1>4, <1>5, <1>6, <1>7 DEF Arrive

\* A request that ends leaves nothing to rely on.
LEMMA FinishStep ==
  ASSUME IInv, NEW p \in Proc, Finish(p), UNCHANGED <<pairs, held, now>>,
         active' \in BOOLEAN, Applied(p) \/ UNCHANGED redis
  PROVE  IInv'
BY IdleReady, QuietStep DEF Finish, Pcs

\* The steps of a login.
LEMMA LoginSteps ==
  ASSUME IInv, NEW p \in Proc,
         \/ LoginFindUser(p) \/ LoginReset(p) \/ Store(p)
         \/ Incr(p) \/ Expire(p) \/ Lock(p) \/ Forget(p)
  PROVE  IInv'
<1>1. active \in BOOLEAN /\ job[p] \in Job /\ counter' \in [n : Nat, ttl : BOOLEAN]
  <2>1. CASE Applied(p)
    BY <2>1, AppliedKeeps DEF IInv, TypeOK
  <2>2. CASE UNCHANGED redis
    BY <2>2 DEF IInv, TypeOK, redis
  <2>3. QED
    BY <2>1, <2>2 DEF LoginFindUser, LoginReset, Store, Incr, Expire, Lock, Forget
<1>2. CASE LoginFindUser(p)
  <2> DEFINE l == IF active /\ job[p].word = "right" THEN "reset" ELSE "incr"
  <2>1. l \in Pcs /\ l # "store" /\ Ready(l, job[p])
    BY DEF Pcs, Ready
  <2>2. Go(p, l, job[p]) /\ UNCHANGED <<active, redis, pairs, held, now>>
    BY <1>2 DEF LoginFindUser
  <2> HIDE DEF l
  <2>3. QED
    BY <1>1, <2>1, <2>2, QuietStep
<1>3. CASE LoginReset(p)
  BY <1>3, SignStep DEF LoginReset
<1>4. CASE Store(p)
  BY <1>4, StoreStep
<1>5. CASE Incr(p)
  <2> DEFINE l == AfterIncr(counter'.n)
             j == IF l = "idle" THEN IdleJob ELSE [job[p] EXCEPT !.count = counter'.n]
  <2>1. l \in {"idle", "expire", "lock"}
    BY DEF AfterIncr, AfterExpire
  <2>2. counter'.n \in Nat
    BY <1>1
  <2>3. j \in Job
    BY <1>1, <2>2, IdleReady DEF Job
  <2>4. Ready(l, j) /\ l \in Pcs
    BY <2>1 DEF Ready, Pcs
  <2>5. Go(p, l, j) /\ Applied(p) /\ UNCHANGED <<active, pairs, held, now>>
    BY <1>5 DEF Incr
  <2> HIDE DEF l, j
  <2>6. QED
    BY <1>1, <2>1, <2>3, <2>4, <2>5, QuietStep
<1>6. CASE Expire(p)
  <2> DEFINE l == AfterExpire(job[p].count)
             j == IF l = "idle" THEN IdleJob ELSE job[p]
  <2>1. l \in {"idle", "lock"}
    BY DEF AfterExpire
  <2>2. j \in Job
    BY <1>1, IdleReady
  <2>3. Ready(l, j) /\ l \in Pcs
    BY <2>1 DEF Ready, Pcs
  <2>4. Go(p, l, j) /\ Applied(p) /\ UNCHANGED <<active, pairs, held, now>>
    BY <1>6 DEF Expire
  <2> HIDE DEF l, j
  <2>5. QED
    BY <1>1, <2>1, <2>2, <2>3, <2>4, QuietStep
<1>7. CASE Lock(p)
  <2>1. Ready("forget", job[p]) /\ "forget" \in Pcs
    BY DEF Ready, Pcs
  <2>2. QED
    BY <1>1, <1>7, <2>1, QuietStep DEF Lock
<1>8. CASE Forget(p)
  BY <1>1, <1>8, FinishStep DEF Forget
<1>9. QED
  BY <1>2, <1>3, <1>4, <1>5, <1>6, <1>7, <1>8

\* The steps of the other requests.
LEMMA OtherSteps ==
  ASSUME IInv, NEW p \in Proc,
         \/ Rotate(p) \/ RefreshFindOwner(p)
         \/ LogoutVerify(p) \/ LogoutDeny(p) \/ LogoutDel(p)
         \/ DeactivateWrite(p) \/ DeactivateDel(p)
  PROVE  IInv'
<1>1. /\ active \in BOOLEAN /\ job[p] \in Job /\ job[p].token \in Nat /\ now \in Nat
      /\ pairs \in Seq(Signed) /\ Ready(pc[p], job[p])
  BY DEF IInv, TypeOK, Job
<1>2. CASE Rotate(p)
  <2>1. Ready("findOwner", job[p]) /\ "findOwner" \in Pcs
    BY <1>1, <1>2 DEF Ready, Pcs, Rotate
  <2>2. QED
    BY <1>1, <1>2, <2>1, QuietStep DEF Rotate
<1>3. CASE RefreshFindOwner(p)
  <2>1. CASE active
    BY <1>1, <1>3, <2>1, SignStep DEF RefreshFindOwner, redis
  <2>2. CASE ~ active
    BY <1>1, <1>3, <2>2, FinishStep DEF RefreshFindOwner, redis
  <2>3. QED
    BY <2>1, <2>2
<1>4. CASE LogoutVerify(p)
  <2> DEFINE k == job[p].token
             remaining == pairs[k].exp - now
             j == [job[p] EXCEPT !.remaining = remaining]
  <2>1. k \in Signeds /\ pairs[k].exp \in Nat
    <3>1. k \in Signeds
      BY <1>1, <1>4 DEF Ready, LogoutVerify
    <3>2. pairs[k] \in Signed
      BY <1>1, <3>1 DEF Signeds
    <3>3. QED
      BY <3>1, <3>2 DEF Signed
  <2>2. CASE Finish(p)
    BY <1>1, <1>4, <2>2, FinishStep DEF LogoutVerify, redis
  <2>3. CASE remaining > 0 /\ Go(p, "deny", j)
    <3>1. remaining \in Nat
      <4> DEFINE exp == pairs[k].exp
      <4>1. exp \in Nat /\ exp - now > 0
        BY <2>1, <2>3
      <4> HIDE DEF exp
      <4>2. exp - now \in Nat
        BY <1>1, <4>1
      <4>3. QED
        BY <4>2 DEF exp
    <3>2. j \in Job /\ j.remaining = remaining /\ j.token = k
      BY <1>1, <3>1 DEF Job
    <3>3. now + remaining >= pairs[k].exp
      BY <1>1, <2>1
    <3> HIDE DEF j, k, remaining
    <3>4. Ready("deny", j)
      BY <2>1, <3>2, <3>3 DEF Ready
    <3>5. QED
      BY <1>1, <1>4, <2>3, <3>2, <3>4, QuietStep DEF LogoutVerify, redis, Pcs
  <2>4. CASE Go(p, "logoutDel", job[p])
    <3>1. Ready("logoutDel", job[p]) /\ "logoutDel" \in Pcs
      BY DEF Ready, Pcs
    <3>2. QED
      BY <1>1, <1>4, <2>4, <3>1, QuietStep DEF LogoutVerify, redis
  <2>5. QED
    BY <1>4, <2>2, <2>3, <2>4 DEF LogoutVerify
<1>5. CASE LogoutDeny(p)
  <2>1. Ready("logoutDel", job[p]) /\ "logoutDel" \in Pcs
    BY DEF Ready, Pcs
  <2>2. QED
    BY <1>1, <1>5, <2>1, QuietStep DEF LogoutDeny
<1>6. CASE LogoutDel(p) \/ DeactivateDel(p)
  BY <1>1, <1>6, FinishStep DEF LogoutDel, DeactivateDel
<1>7. CASE DeactivateWrite(p)
  <2>1. Ready("deactivateDel", IdleJob) /\ "deactivateDel" \in Pcs
    BY DEF Ready, Pcs
  <2>2. QED
    BY <1>7, <2>1, IdleReady, QuietStep DEF DeactivateWrite
<1>8. QED
  BY <1>2, <1>3, <1>4, <1>5, <1>6, <1>7

\* The failures of one request.
LEMMA ErrorSteps ==
  ASSUME IInv, NEW p \in Proc, RedisError(p) \/ DbError(p)
  PROVE  IInv'
<1>1. active \in BOOLEAN /\ job[p] \in Job
  BY DEF IInv, TypeOK
<1>2. CASE DbError(p)
  BY <1>1, <1>2, FinishStep DEF DbError
<1>3. CASE RedisError(p) /\ pc[p] # "deny"
  BY <1>1, <1>3, FinishStep DEF RedisError
<1>4. CASE RedisError(p) /\ pc[p] = "deny"
  <2>1. Ready("logoutDel", job[p]) /\ "logoutDel" \in Pcs
    BY DEF Ready, Pcs
  <2>2. QED
    BY <1>1, <1>4, <2>1, QuietStep DEF RedisError
<1>5. QED
  BY <1>2, <1>3, <1>4

\* Time, expiring keys and the death of the process.
LEMMA WorldSteps ==
  ASSUME IInv, Tick \/ StoredExpires \/ AttemptsExpire \/ LockExpires \/ Crash
  PROVE  IInv'
<1>1. TypeOK /\ (\A p \in Proc : Ready(pc[p], job[p])) /\ OwnPairs /\ DenialOutlastsToken
  BY DEF IInv
<1>2. CASE Tick
  <2>1. TypeOK' /\ OwnPairs' /\ DenialOutlastsToken'
    BY <1>1, <1>2 DEF Tick, redis, TypeOK, OwnPairs, DenialOutlastsToken
  <2>2. ASSUME NEW p \in Proc
        PROVE  Ready(pc[p], job[p])'
    <3>1. Ready(pc[p], job[p]) /\ now \in Nat /\ job[p] \in Job /\ pairs \in Seq(Signed)
      BY <1>1 DEF TypeOK
    <3>2. CASE pc[p] # "deny"
      BY <1>2, <3>1, <3>2 DEF Tick, Ready, Signeds
    <3>3. CASE pc[p] = "deny"
      <4> DEFINE exp == pairs[job[p].token].exp
                 left == job[p].remaining
      <4>1. job[p].token \in Signeds /\ left \in Nat /\ now + left >= exp
        BY <3>1, <3>3 DEF Ready, Job
      <4>2. exp \in Nat
        <5>1. pairs[job[p].token] \in Signed
          BY <3>1, <4>1 DEF Signeds
        <5>2. QED
          BY <5>1 DEF Signed
      <4> HIDE DEF exp, left
      <4>3. now' + left >= exp
        BY <1>2, <3>1, <4>1, <4>2 DEF Tick
      <4> USE DEF exp, left
      <4>4. QED
        BY <1>2, <3>3, <4>1, <4>3 DEF Tick, Ready, Signeds
    <3>4. QED
      BY <3>2, <3>3
  <2>3. QED
    BY <2>1, <2>2 DEF IInv
<1>3. CASE StoredExpires \/ AttemptsExpire \/ LockExpires
  <2>1. counter' \in [n : Nat, ttl : BOOLEAN]
    <3>1. /\ counter \in [n : Nat, ttl : BOOLEAN]
          /\ NoCount \in [n : Nat, ttl : BOOLEAN]
      BY <1>1, CounterType DEF TypeOK
    <3>2. counter' = counter \/ counter' = NoCount
      BY <1>3 DEF StoredExpires, AttemptsExpire, LockExpires
    <3>3. QED
      BY <3>1, <3>2
  <2>2. /\ stored' \in (1 .. Len(pairs)) \union {NoToken} /\ locked' \in BOOLEAN
        /\ UNCHANGED <<active, denied, pairs, held, now, pc, job>>
    BY <1>1, <1>3 DEF StoredExpires, AttemptsExpire, LockExpires, TypeOK
  <2>3. QED
    BY <1>1, <2>1, <2>2 DEF IInv, TypeOK, Ready, OwnPairs, DenialOutlastsToken, Signeds
<1>4. CASE Crash
  <2>1. /\ pc' \in [Proc -> Pcs] /\ job' \in [Proc -> Job]
        /\ \A p \in Proc : pc'[p] = "idle" /\ job'[p] = IdleJob
    BY <1>4, IdleReady DEF Crash, Pcs
  <2>2. UNCHANGED <<active, redis, pairs, held, now>>
    BY <1>4 DEF Crash
  <2>3. TypeOK' /\ DenialOutlastsToken'
    BY <1>1, <2>1, <2>2 DEF redis, TypeOK, DenialOutlastsToken
  <2>4. (\A p \in Proc : Ready(pc[p], job[p]))' /\ OwnPairs'
    BY <2>1 DEF Ready, OwnPairs
  <2>5. QED
    BY <2>3, <2>4 DEF IInv
<1>5. QED
  BY <1>2, <1>3, <1>4

\* Every step keeps the strengthening.
LEMMA NextKeeps == IInv /\ [Next]_vars => IInv'
<1> SUFFICES ASSUME IInv, [Next]_vars
             PROVE  IInv'
  OBVIOUS
<1>1. ASSUME NEW p \in Proc, Arrive(p) \/ Proceed(p) \/ RedisError(p) \/ DbError(p)
      PROVE  IInv'
  <2>1. CASE Proceed(p)
    BY <2>1, LoginSteps, OtherSteps DEF Proceed
  <2>2. QED
    BY <1>1, <2>1, ArriveStep, ErrorSteps
<1>2. CASE UNCHANGED vars
  BY <1>2 DEF vars, IInv, TypeOK, Ready, OwnPairs, DenialOutlastsToken, Signeds
<1>3. QED
  BY <1>1, <1>2, WorldSteps DEF Next

-----------------------------------------------------------------------------
(* Theorems                                                                *)

\* The strengthening holds throughout.
THEOREM AuthInvariant == Spec => []IInv
BY InitOK, NextKeeps, PTL DEF Spec

\* The state of the sessions keeps its type: only pairs that were signed are
\* stored, answered and sent back.
THEOREM AuthTypeCorrect == Spec => []TypeOK
<1>1. IInv => TypeOK
  BY DEF IInv
<1>2. QED
  BY <1>1, AuthInvariant, PTL

\* A key that denies an access token lasts at least as long as the token,
\* however long the logout waits between counting and setting it.
THEOREM DenialsOutlastTokens == Spec => []DenialOutlastsToken
<1>1. IInv => DenialOutlastsToken
  BY DEF IInv
<1>2. QED
  BY <1>1, AuthInvariant, PTL

\* The refresh key changes to a pair only where a pair is stored.
LEMMA OnlyStoreFills ==
  ASSUME IInv, Next, stored' # stored, stored' # NoToken
  PROVE  \E p \in Proc : pc[p] = "store" /\ stored' = job[p].new
<1>1. \A p \in Proc : Applied(p) => pc[p] = "store" /\ stored' = job[p].new
  BY DEF Applied
<1>2. stored' = stored \/ \E p \in Proc : Applied(p)
  BY DEF Next, Arrive, Proceed, Login, Refresh, Logout, Deactivate, AdminUpdate,
         LoginFindUser, LoginReset, Store, Incr, Expire, Lock, Forget, Rotate,
         RefreshFindOwner, LogoutVerify, LogoutDeny, LogoutDel, DeactivateWrite,
         DeactivateDel, RedisError, DbError, Tick, StoredExpires, AttemptsExpire,
         LockExpires, Crash, redis
<1>3. QED
  BY <1>1, <1>2

\* A refresh token that was answered and has been replaced, deleted or lost
\* never becomes usable again.
THEOREM SpentTokensStaySpent == Spec => SpentStaysSpent
<1> DEFINE Fresh == stored' # stored /\ stored' # NoToken => stored' \notin held
<1>1. IInv /\ [Next]_vars => [Fresh]_vars
  <2> SUFFICES ASSUME IInv, Next, stored' # stored, stored' # NoToken
               PROVE  stored' \notin held
    BY DEF vars
  <2>1. PICK p \in Proc : pc[p] = "store" /\ stored' = job[p].new
    BY OnlyStoreFills
  <2>2. QED
    BY <2>1 DEF IInv, Ready
<1>2. QED
  BY <1>1, AuthInvariant, PTL DEF Spec, SpentStaysSpent

\* What has been signed keeps what it replaces.
LEMMA PairsStay ==
  ASSUME IInv, Next
  PROVE  Len(pairs') >= Len(pairs) /\ \A k \in Signeds : pairs'[k] = pairs[k]
<1>1. pairs \in Seq(Signed) /\ now \in Nat /\ \A p \in Proc : job[p].token \in Nat
  BY DEF IInv, TypeOK, Job
<1>2. CASE UNCHANGED pairs
  BY <1>1, <1>2
<1>3. ASSUME NEW p \in Proc, NEW from \in Nat, Sign(p, from)
      PROVE  Len(pairs') >= Len(pairs) /\ \A k \in Signeds : pairs'[k] = pairs[k]
  BY <1>1, <1>3, SignAppends DEF Signeds
<1>4. \/ UNCHANGED pairs
      \/ \E p \in Proc : Sign(p, NoToken) \/ Sign(p, job[p].token)
  BY DEF Next, Arrive, Proceed, Login, Refresh, Logout, Deactivate, AdminUpdate,
         LoginFindUser, LoginReset, Store, Incr, Expire, Lock, Forget, Rotate,
         RefreshFindOwner, LogoutVerify, LogoutDeny, LogoutDel, DeactivateWrite,
         DeactivateDel, RedisError, DbError, Tick, StoredExpires, AttemptsExpire,
         LockExpires, Crash
<1>5. QED
  BY <1>1, <1>2, <1>3, <1>4

\* How a request comes to an await after which a token may be stored.
LEMMA Moves ==
  ASSUME IInv, Next, NEW q \in Proc
  PROVE  \/ pc'[q] = pc[q] /\ job'[q] = job[q]
         \/ pc'[q] \notin {"rotate", "findOwner", "reset", "store"}
         \/ pc'[q] = "rotate" /\ stored # NoToken
         \/ pc'[q] = "findOwner" /\ pc[q] = "rotate"
         \/ pc'[q] = "reset" /\ active
         \/ pc'[q] = "store" /\ pc[q] = "reset" /\ Sign(q, NoToken)
         \/ pc'[q] = "store" /\ pc[q] = "findOwner" /\ active
<1> DEFINE Goal == \/ pc'[q] = pc[q] /\ job'[q] = job[q]
                   \/ pc'[q] \notin {"rotate", "findOwner", "reset", "store"}
                   \/ pc'[q] = "rotate" /\ stored # NoToken
                   \/ pc'[q] = "findOwner" /\ pc[q] = "rotate"
                   \/ pc'[q] = "reset" /\ active
                   \/ pc'[q] = "store" /\ pc[q] = "reset" /\ Sign(q, NoToken)
                   \/ pc'[q] = "store" /\ pc[q] = "findOwner" /\ active
<1>1. /\ pc \in [Proc -> Pcs] /\ job \in [Proc -> Job]
      /\ \A k \in held : k # NoToken
  BY DEF IInv, TypeOK
<1>2. ASSUME NEW p \in Proc, NEW l, NEW j, Go(p, l, j)
      PROVE  pc'[q] = IF q = p THEN l ELSE pc[q]
  BY <1>1, <1>2 DEF Go
<1>3. ASSUME NEW p \in Proc, NEW l, NEW j, Go(p, l, j)
      PROVE  job'[q] = IF q = p THEN j ELSE job[q]
  BY <1>1, <1>3 DEF Go
<1>4. ASSUME NEW p \in Proc, Arrive(p)
      PROVE  Goal
  <2>1. ASSUME NEW word \in Passwords, Login(p, word)
        PROVE  Goal
    BY <1>2, <1>3, <2>1 DEF Login
  <2>2. ASSUME NEW k \in held, Refresh(p, k)
        PROVE  Goal
    BY <1>1, <1>2, <1>3, <2>2 DEF Refresh
  <2>3. ASSUME NEW k \in held, Logout(p, k)
        PROVE  Goal
    BY <1>2, <1>3, <2>3 DEF Logout
  <2>4. CASE Deactivate(p)
    BY <1>2, <1>3, <2>4 DEF Deactivate
  <2>5. ASSUME NEW b \in BOOLEAN, AdminUpdate(p, b)
        PROVE  Goal
    BY <2>5 DEF AdminUpdate
  <2>6. QED
    BY <1>4, <2>1, <2>2, <2>3, <2>4, <2>5 DEF Arrive
<1>5. ASSUME NEW p \in Proc, Finish(p)
      PROVE  Goal
  BY <1>2, <1>3, <1>5 DEF Finish
<1>6. ASSUME NEW p \in Proc, Proceed(p)
      PROVE  Goal
  <2>1. CASE LoginFindUser(p)
    BY <1>2, <1>3, <2>1 DEF LoginFindUser
  <2>2. CASE LoginReset(p)
    BY <1>2, <1>3, <2>2 DEF LoginReset, Sign
  <2>3. CASE Store(p) \/ Forget(p) \/ LogoutDel(p) \/ DeactivateDel(p)
    BY <1>5, <2>3 DEF Store, Forget, LogoutDel, DeactivateDel
  <2>4. CASE Incr(p) \/ Expire(p)
    BY <1>2, <1>3, <2>4 DEF Incr, Expire, AfterIncr, AfterExpire
  <2>5. CASE Lock(p) \/ LogoutDeny(p) \/ DeactivateWrite(p)
    BY <1>2, <1>3, <2>5 DEF Lock, LogoutDeny, DeactivateWrite
  <2>6. CASE Rotate(p)
    BY <1>2, <1>3, <2>6 DEF Rotate
  <2>7. CASE RefreshFindOwner(p)
    BY <1>2, <1>3, <1>5, <2>7 DEF RefreshFindOwner, Sign
  <2>8. CASE LogoutVerify(p)
    BY <1>2, <1>3, <1>5, <2>8 DEF LogoutVerify
  <2>9. QED
    BY <1>6, <2>1, <2>2, <2>3, <2>4, <2>5, <2>6, <2>7, <2>8 DEF Proceed
<1>7. ASSUME NEW p \in Proc, RedisError(p) \/ DbError(p)
      PROVE  Goal
  BY <1>2, <1>3, <1>5, <1>7 DEF RedisError, DbError
<1>8. CASE Tick \/ StoredExpires \/ AttemptsExpire \/ LockExpires \/ Crash
  BY <1>8 DEF Tick, StoredExpires, AttemptsExpire, LockExpires, Crash
<1>9. QED
  BY <1>4, <1>6, <1>7, <1>8 DEF Next

\* With no refresh under way and no refresh token stored, no refresh begins,
\* and a token that is stored was issued for a password.
THEOREM OnlyPasswordsReopen == Spec => OnlyAPasswordReopens
<1> DEFINE Reopens == stored = NoToken /\ Rotating = {} =>
                        /\ Rotating' = {}
                        /\ stored' # NoToken => pairs[stored'].from = NoToken
<1>1. IInv /\ [Next]_vars => [Reopens]_vars
  <2> SUFFICES ASSUME IInv, Next, stored = NoToken, Rotating = {}
               PROVE  /\ Rotating' = {}
                      /\ stored' # NoToken => pairs[stored'].from = NoToken
    BY DEF vars
  <2>1. \A q \in Proc :
          /\ pc[q] \notin {"rotate", "findOwner"}
          /\ pc[q] = "store" => job[q].new \in Signeds /\ pairs[job[q].new].from = NoToken
    BY DEF Rotating, IInv, Ready
  <2>2. ASSUME NEW q \in Proc, q \in Rotating'
        PROVE  FALSE
    <3>1. \/ pc'[q] \in {"rotate", "findOwner"}
          \/ pc'[q] = "store" /\ pairs'[job'[q].new].from # NoToken
      BY <2>2 DEF Rotating
    <3>2. CASE pc'[q] = pc[q] /\ job'[q] = job[q]
      <4> DEFINE k == job[q].new
      <4>1. /\ pc[q] = "store" /\ k \in Signeds /\ pairs[k].from = NoToken
            /\ job'[q].new = k
        BY <2>1, <3>1, <3>2
      <4>2. pairs'[k].from # NoToken
        BY <3>1, <3>2, <4>1
      <4> HIDE DEF k
      <4>3. pairs'[k] = pairs[k]
        BY <4>1, PairsStay
      <4>4. QED
        BY <4>1, <4>2, <4>3
    <3>3. CASE pc'[q] = "store" /\ pc[q] = "reset" /\ Sign(q, NoToken)
      <4>1. pairs \in Seq(Signed) /\ now \in Nat /\ job \in [Proc -> Job]
        BY DEF IInv, TypeOK
      <4>2. pairs'[Len(pairs) + 1].from = NoToken
        BY <3>3, <4>1, SignAppends
      <4>3. job'[q].new = Len(pairs) + 1
        BY <3>3, <4>1 DEF Sign, Go, Job
      <4>4. QED
        BY <3>1, <3>3, <4>2, <4>3
    <3>4. \/ pc'[q] = pc[q] /\ job'[q] = job[q]
          \/ pc'[q] = "store" /\ pc[q] = "reset" /\ Sign(q, NoToken)
      BY <2>1, <3>1, Moves
    <3>5. QED
      BY <3>2, <3>3, <3>4
  <2>3. Rotating' = {}
    BY <2>2 DEF Rotating
  <2>4. QED
    BY <2>1, <2>3, OnlyStoreFills
<1>2. QED
  BY <1>1, AuthInvariant, PTL DEF Spec, OnlyAPasswordReopens

\* A user who is and stays inactive gets no token once the requests that saw
\* the user active are gone.
THEOREM InactiveUsersGetNothing == Spec => InactiveGetsNothing
<1> DEFINE Nothing == ~ active /\ ~ active' /\ Opening = {} =>
                        /\ Opening' = {} /\ held' = held
                        /\ stored' \in {stored, NoToken}
<1>1. IInv /\ [Next]_vars => [Nothing]_vars
  <2> SUFFICES ASSUME IInv, Next, ~ active, ~ active', Opening = {}
               PROVE  /\ Opening' = {} /\ held' = held
                      /\ stored' \in {stored, NoToken}
    BY DEF vars
  <2>1. \A q \in Proc : pc[q] \notin {"reset", "store"}
    BY DEF Opening
  <2>2. \A q \in Proc : pc'[q] \notin {"reset", "store"}
    BY <2>1, Moves
  <2>3. held' = held \/ \E p \in Proc : Store(p)
    BY DEF Next, Arrive, Proceed, Login, Refresh, Logout, Deactivate, AdminUpdate,
           LoginFindUser, LoginReset, Incr, Expire, Lock, Forget, Rotate,
           RefreshFindOwner, LogoutVerify, LogoutDeny, LogoutDel, DeactivateWrite,
           DeactivateDel, RedisError, DbError, Tick, StoredExpires, AttemptsExpire,
           LockExpires, Crash
  <2>4. held' = held
    BY <2>1, <2>3 DEF Store
  <2>5. QED
    BY <2>1, <2>2, <2>4, OnlyStoreFills DEF Opening
<1>2. QED
  BY <1>1, AuthInvariant, PTL DEF Spec, InactiveGetsNothing

-----------------------------------------------------------------------------
(* The ledger of sessions.                                                 *)

\* What a request that goes on to l, other than to store a pair, changes of who
\* rotates and who opens.
LEMMA GoMaps ==
  ASSUME IInv, NEW p \in Proc, NEW l, NEW j, Go(p, l, j), l # "store", UNCHANGED pairs
  PROVE  /\ Rotating' = IF l \in {"rotate", "findOwner"} THEN Rotating \union {p}
                        ELSE Rotating \ {p}
         /\ Opening' = IF l = "reset" THEN Opening \union {p} ELSE Opening \ {p}
<1>1. \A q \in Proc : /\ pc'[q] = IF q = p THEN l ELSE pc[q]
                      /\ job'[q] = IF q = p THEN j ELSE job[q]
  BY DEF IInv, TypeOK, Go
<1>2. \A q \in Proc : q \in Opening' <=> IF q = p THEN l = "reset" ELSE q \in Opening
  BY <1>1 DEF Opening
<1>3. ASSUME NEW q \in Proc
      PROVE  q \in Rotating' <=> IF q = p THEN l \in {"rotate", "findOwner"} ELSE q \in Rotating
  <2>1. CASE q = p
    BY <1>1, <2>1 DEF Rotating
  <2>2. CASE q # p
    BY <1>1, <2>2 DEF Rotating
  <2>3. QED
    BY <2>1, <2>2
<1>4. /\ Opening \subseteq Proc /\ Opening' \subseteq Proc
      /\ Rotating \subseteq Proc /\ Rotating' \subseteq Proc
  BY DEF Opening, Rotating
<1>5. QED
  BY <1>2, <1>3, <1>4

\* A request that signs a pair opens, and rotates if the pair replaces a token.
LEMMA SignMaps ==
  ASSUME IInv, NEW p \in Proc, NEW from \in Nat, Sign(p, from)
  PROVE  /\ Rotating' = IF from # NoToken THEN Rotating \union {p} ELSE Rotating \ {p}
         /\ Opening' = Opening \union {p}
<1> DEFINE new == Len(pairs) + 1
           j == [job[p] EXCEPT !.new = new]
<1>1. /\ pc \in [Proc -> Pcs] /\ job \in [Proc -> Job] /\ pairs \in Seq(Signed)
      /\ now \in Nat
  BY DEF IInv, TypeOK
<1>2. pairs'[new].from = from /\ \A k \in Signeds : pairs'[k] = pairs[k]
  BY <1>1, SignAppends DEF Signeds
<1>3. j.new = new
  BY <1>1 DEF Job
<1>4. \A q \in Proc : /\ pc'[q] = IF q = p THEN "store" ELSE pc[q]
                      /\ job'[q] = IF q = p THEN j ELSE job[q]
  BY <1>1 DEF Sign, Go
<1> HIDE DEF j, new
<1>5. \A q \in Proc : q \in Opening' <=> q = p \/ q \in Opening
  BY <1>4 DEF Opening
<1>6. ASSUME NEW q \in Proc
      PROVE  q \in Rotating' <=> IF q = p THEN from # NoToken ELSE q \in Rotating
  <2>1. CASE q = p
    BY <1>2, <1>3, <1>4, <2>1 DEF Rotating
  <2>2. CASE q # p
    <3>1. pc'[q] = pc[q] /\ job'[q] = job[q]
      BY <1>4, <2>2
    <3>2. pc[q] = "store" => pairs'[job[q].new] = pairs[job[q].new]
      BY <1>2 DEF IInv, Ready
    <3>3. QED
      BY <2>2, <3>1, <3>2 DEF Rotating
  <2>3. QED
    BY <2>1, <2>2
<1>7. /\ Opening \subseteq Proc /\ Opening' \subseteq Proc
      /\ Rotating \subseteq Proc /\ Rotating' \subseteq Proc
  BY DEF Opening, Rotating
<1>8. QED
  BY <1>5, <1>6, <1>7

\* A step of a request that neither begins a refresh nor finds the user active
\* nor stores a pair closes what it deletes and ends what it ends.
LEMMA CloseStep ==
  ASSUME IInv, NEW p \in Proc, NEW l, NEW j, Go(p, l, j),
         l \notin {"reset", "store", "rotate"}, l = "findOwner" => pc[p] = "rotate",
         UNCHANGED <<active, pairs, held>>, stored' \in {stored, NoToken}
  PROVE  Ledger!LedgerNext
<1>1. CASE l = "findOwner"
  <2>1. p \in Rotating /\ p \notin Opening
    BY <1>1 DEF Rotating, Opening
  <2>2. Rotating' = Rotating /\ Opening' = Opening
    BY <1>1, <2>1, GoMaps
  <2>3. Ledger!Close({})
    BY <2>2 DEF Ledger!Close
  <2>4. QED
    BY <2>3 DEF Ledger!LedgerNext
<1>2. CASE l # "findOwner"
  <2>1. Rotating' = Rotating \ {p} /\ Opening' = Opening \ {p}
    BY <1>2, GoMaps
  <2>2. Ledger!Close({p})
    BY <2>1 DEF Ledger!Close
  <2>3. QED
    BY <2>2 DEF Ledger!LedgerNext
<1>3. QED
  BY <1>1, <1>2

\* A request that ends without storing a pair closes.
LEMMA FinishCloses ==
  ASSUME IInv, NEW p \in Proc, Finish(p), UNCHANGED <<active, pairs, held>>,
         stored' \in {stored, NoToken}
  PROVE  Ledger!LedgerNext
<1>1. Go(p, "idle", IdleJob)
  BY DEF Finish
<1>2. QED
  BY <1>1, CloseStep

\* A command other than SET refresh fills no refresh key.
LEMMA AppliedCloses ==
  ASSUME NEW p \in Proc, Applied(p), pc[p] # "store"
  PROVE  stored' \in {stored, NoToken}
BY DEF Applied

\* A command SET refresh that is applied opens, whether the answer is lost or not.
LEMMA StoreOpens ==
  ASSUME IInv, NEW p \in Proc, Applied(p), pc[p] = "store", Finish(p),
         held' \in {held, held \union {job[p].new}}, UNCHANGED <<active, pairs>>
  PROVE  Ledger!LedgerNext
<1>1. Go(p, "idle", IdleJob)
  BY DEF Finish
<1>2. Rotating' = Rotating \ {p} /\ Opening' = Opening \ {p}
  BY <1>1, GoMaps
<1>3. p \in Opening
  BY DEF Opening
<1>4. stored' = job[p].new
  BY DEF Applied
<1>5. job[p].new \in Signeds \ held /\ Signeds \subseteq Nat \ {NoToken}
  BY DEF IInv, TypeOK, Ready, Signeds
<1>6. Ledger!Open(p)
  BY <1>2, <1>3, <1>4, <1>5 DEF Ledger!Open
<1>7. QED
  BY <1>6 DEF Ledger!LedgerNext

\* The arrival of a request: a refresh begins where its token is stored, and an
\* administrator switches the user.
LEMMA ArriveMaps ==
  ASSUME IInv, NEW p \in Proc, Arrive(p)
  PROVE  Ledger!LedgerNext
<1>1. pc[p] = "idle" => p \notin Rotating /\ p \notin Opening
  BY DEF Rotating, Opening
<1>2. active \in BOOLEAN
  BY DEF IInv, TypeOK
<1>3. ASSUME NEW word \in Passwords, Login(p, word)
      PROVE  Ledger!LedgerNext
  BY <1>3, CloseStep DEF Login, redis
<1>4. ASSUME NEW k \in held, Refresh(p, k)
      PROVE  Ledger!LedgerNext
  <2>1. Rotating' = Rotating \union {p} /\ Opening' = Opening \ {p}
    BY <1>4, GoMaps DEF Refresh
  <2>2. p \notin Opening
    BY <1>1, <1>4 DEF Refresh, Arrives
  <2>3. stored # NoToken
    BY <1>4 DEF Refresh, IInv, TypeOK
  <2>4. Ledger!Begin(p)
    BY <1>4, <2>1, <2>2, <2>3 DEF Refresh, redis, Ledger!Begin
  <2>5. QED
    BY <2>4 DEF Ledger!LedgerNext
<1>5. ASSUME NEW k \in held, Logout(p, k)
      PROVE  Ledger!LedgerNext
  BY <1>5, CloseStep DEF Logout, redis
<1>6. CASE Deactivate(p)
  BY <1>6, CloseStep DEF Deactivate, redis
<1>7. ASSUME NEW b \in BOOLEAN, AdminUpdate(p, b)
      PROVE  Ledger!LedgerNext
  <2>1. Rotating' = Rotating /\ Opening' = Opening
    BY <1>7 DEF AdminUpdate, Rotating, Opening
  <2>2. Ledger!Switch
    BY <1>7, <2>1 DEF AdminUpdate, redis, Ledger!Switch
  <2>3. QED
    BY <2>2 DEF Ledger!LedgerNext
<1>8. QED
  BY <1>3, <1>4, <1>5, <1>6, <1>7 DEF Arrive

\* The steps of logins: the one that finds the user active admits the request,
\* and the one that stores the pair opens.
LEMMA LoginMaps ==
  ASSUME IInv, NEW p \in Proc,
         \/ LoginFindUser(p) \/ LoginReset(p) \/ Store(p)
         \/ Incr(p) \/ Expire(p) \/ Lock(p) \/ Forget(p)
  PROVE  Ledger!LedgerNext \/ UNCHANGED Ledger!ledger
<1>1. CASE LoginFindUser(p)
  <2>1. CASE active /\ job[p].word = "right"
    <3>1. Go(p, "reset", job[p]) /\ UNCHANGED <<active, redis, pairs, held, now>>
      BY <1>1, <2>1 DEF LoginFindUser
    <3>2. Rotating' = Rotating \ {p} /\ Opening' = Opening \union {p}
      BY <3>1, GoMaps
    <3>3. p \notin Rotating
      BY <1>1 DEF LoginFindUser, Rotating
    <3>4. Ledger!Admit(p)
      BY <2>1, <3>1, <3>2, <3>3 DEF redis, Ledger!Admit
    <3>5. QED
      BY <3>4 DEF Ledger!LedgerNext
  <2>2. CASE ~ (active /\ job[p].word = "right")
    BY <1>1, <2>2, CloseStep DEF LoginFindUser, redis
  <2>3. QED
    BY <2>1, <2>2
<1>2. CASE LoginReset(p)
  <2>1. Rotating' = Rotating \ {p} /\ Opening' = Opening \union {p}
    BY <1>2, SignMaps DEF LoginReset
  <2>2. p \notin Rotating /\ p \in Opening
    BY <1>2 DEF LoginReset, Rotating, Opening
  <2>3. UNCHANGED <<active, stored, held>>
    BY <1>2 DEF LoginReset, Applied
  <2>4. QED
    BY <2>1, <2>2, <2>3 DEF Ledger!ledger
<1>3. CASE Store(p)
  BY <1>3, StoreOpens DEF Store
<1>4. CASE Incr(p)
  BY <1>4, AppliedCloses, CloseStep DEF Incr, AfterIncr, AfterExpire
<1>5. CASE Expire(p)
  BY <1>5, AppliedCloses, CloseStep DEF Expire, AfterExpire
<1>6. CASE Lock(p)
  BY <1>6, AppliedCloses, CloseStep DEF Lock
<1>7. CASE Forget(p)
  BY <1>7, AppliedCloses, FinishCloses DEF Forget
<1>8. QED
  BY <1>1, <1>2, <1>3, <1>4, <1>5, <1>6, <1>7

\* The steps of the other requests: a refresh that finds the owner active is
\* admitted, and a deactivation switches the user, then closes.
LEMMA OtherMaps ==
  ASSUME IInv, NEW p \in Proc,
         \/ Rotate(p) \/ RefreshFindOwner(p)
         \/ LogoutVerify(p) \/ LogoutDeny(p) \/ LogoutDel(p)
         \/ DeactivateWrite(p) \/ DeactivateDel(p)
  PROVE  Ledger!LedgerNext
<1>1. CASE Rotate(p)
  BY <1>1, AppliedCloses, CloseStep DEF Rotate
<1>2. CASE RefreshFindOwner(p)
  <2>1. CASE active
    <3> DEFINE from == job[p].token
    <3>1. from \in Nat /\ from # NoToken
      <4>1. from \in Signeds /\ Len(pairs) \in Nat
        BY <1>2 DEF IInv, TypeOK, Ready, RefreshFindOwner
      <4>2. QED
        BY <4>1 DEF Signeds
    <3>2. Sign(p, from) /\ UNCHANGED <<active, redis, held>>
      BY <1>2, <2>1 DEF RefreshFindOwner
    <3> HIDE DEF from
    <3>3. Rotating' = Rotating \union {p} /\ Opening' = Opening \union {p}
      BY <3>1, <3>2, SignMaps
    <3>4. p \in Rotating
      BY <1>2 DEF RefreshFindOwner, Rotating
    <3>5. Ledger!Admit(p)
      BY <2>1, <3>2, <3>3, <3>4 DEF redis, Ledger!Admit
    <3>6. QED
      BY <3>5 DEF Ledger!LedgerNext
  <2>2. CASE ~ active
    BY <1>2, <2>2, FinishCloses DEF RefreshFindOwner, redis
  <2>3. QED
    BY <2>1, <2>2
<1>3. CASE LogoutVerify(p)
  BY <1>3, CloseStep, FinishCloses DEF LogoutVerify, redis
<1>4. CASE LogoutDeny(p)
  BY <1>4, AppliedCloses, CloseStep DEF LogoutDeny
<1>5. CASE LogoutDel(p) \/ DeactivateDel(p)
  BY <1>5, AppliedCloses, FinishCloses DEF LogoutDel, DeactivateDel
<1>6. CASE DeactivateWrite(p)
  <2>1. Rotating' = Rotating \ {p} /\ Opening' = Opening \ {p}
    BY <1>6, GoMaps DEF DeactivateWrite
  <2>2. p \notin Rotating /\ p \notin Opening
    BY <1>6 DEF DeactivateWrite, Rotating, Opening
  <2>3. Ledger!Switch
    BY <1>6, <2>1, <2>2 DEF DeactivateWrite, redis, Ledger!Switch
  <2>4. QED
    BY <2>3 DEF Ledger!LedgerNext
<1>7. QED
  BY <1>1, <1>2, <1>3, <1>4, <1>5, <1>6

\* Failures: a SET refresh whose answer is lost opens, every other failure closes.
LEMMA ErrorMaps ==
  ASSUME IInv, NEW p \in Proc, RedisError(p) \/ DbError(p)
  PROVE  Ledger!LedgerNext
<1>1. CASE DbError(p)
  BY <1>1, FinishCloses DEF DbError, redis
<1>2. CASE RedisError(p) /\ Applied(p) /\ pc[p] = "store"
  BY <1>2, StoreOpens DEF RedisError
<1>3. CASE RedisError(p) /\ ~ (Applied(p) /\ pc[p] = "store")
  <2>1. stored' \in {stored, NoToken}
    BY <1>3, AppliedCloses DEF RedisError, redis
  <2>2. UNCHANGED <<active, pairs, held>>
    BY <1>3 DEF RedisError
  <2>3. Go(p, "logoutDel", job[p]) \/ Finish(p)
    BY <1>3 DEF RedisError
  <2>4. QED
    BY <2>1, <2>2, <2>3, CloseStep, FinishCloses
<1>4. QED
  BY <1>1, <1>2, <1>3

\* Time and expiring keys change nothing of the ledger or close the session; the
\* death of the process ends every request.
LEMMA WorldMaps ==
  ASSUME IInv, Tick \/ StoredExpires \/ AttemptsExpire \/ LockExpires \/ Crash
  PROVE  Ledger!LedgerNext
<1>1. CASE Crash
  <2>1. Rotating' = {} /\ Opening' = {}
    BY <1>1 DEF Crash, Rotating, Opening
  <2>2. Rotating \ Proc = {} /\ Opening \ Proc = {}
    BY DEF Rotating, Opening
  <2>3. UNCHANGED <<active, stored, held>>
    BY <1>1 DEF Crash, redis
  <2>4. Ledger!Close(Proc)
    BY <2>1, <2>2, <2>3 DEF Ledger!Close
  <2>5. QED
    BY <2>4 DEF Ledger!LedgerNext
<1>2. CASE Tick \/ StoredExpires \/ AttemptsExpire \/ LockExpires
  <2>1. UNCHANGED <<active, pairs, held, pc, job>> /\ stored' \in {stored, NoToken}
    BY <1>2 DEF Tick, StoredExpires, AttemptsExpire, LockExpires, redis
  <2>2. Rotating' = Rotating /\ Opening' = Opening
    BY <2>1 DEF Rotating, Opening
  <2>3. Ledger!Close({})
    BY <2>1, <2>2 DEF Ledger!Close
  <2>4. QED
    BY <2>3 DEF Ledger!LedgerNext
<1>3. QED
  BY <1>1, <1>2

\* The service implements the ledger of sessions: whatever overlaps, fails or
\* dies, a token becomes usable only through a request that saw the user active,
\* is new to the user, and refreshes begin only where a token is usable.
THEOREM AuthImplementsLedger == Spec => ImplementsLedger
<1>1. Init => Ledger!LedgerInit
  BY DEF Init, Ledger!LedgerInit, Rotating, Opening
<1>2. IInv /\ [Next]_vars => [Ledger!LedgerNext]_(Ledger!ledger)
  <2> SUFFICES ASSUME IInv, [Next]_vars
               PROVE  Ledger!LedgerNext \/ UNCHANGED Ledger!ledger
    OBVIOUS
  <2>1. CASE UNCHANGED vars
    BY <2>1 DEF vars, Ledger!ledger, Rotating, Opening
  <2>2. ASSUME NEW p \in Proc, Proceed(p)
        PROVE  Ledger!LedgerNext \/ UNCHANGED Ledger!ledger
    BY <2>2, LoginMaps, OtherMaps DEF Proceed
  <2>3. QED
    BY <2>1, <2>2, ArriveMaps, ErrorMaps, WorldMaps DEF Next
<1>3. QED
  BY <1>1, <1>2, AuthInvariant, PTL DEF Spec, ImplementsLedger, Ledger!LedgerSpec

-----------------------------------------------------------------------------
(* The counter of failed logins.                                           *)

Counting == {"expire", "lock", "forget"}

\* While Redis answers and no process dies, a counter is deleted, counts one
\* more, gets its expiry, is turned into a lock, or stays as it is with all the
\* requests that work on it.
LEMMA CounterSteps ==
  ASSUME "redis" \notin Faults, "crash" \notin Faults, IInv, [Next]_vars
  PROVE  \/ counter' = NoCount
         \/ \E p \in Proc : Incr(p) \/ Expire(p) \/ Lock(p)
         \/ /\ counter' = counter
            /\ \A q \in Proc : pc[q] \in Counting => pc'[q] = pc[q] /\ job'[q] = job[q]
<1> DEFINE Stays == /\ counter' = counter
                    /\ \A q \in Proc : pc[q] \in Counting => pc'[q] = pc[q] /\ job'[q] = job[q]
<1>1. pc \in [Proc -> Pcs] /\ job \in [Proc -> Job]
  BY DEF IInv, TypeOK
<1>2. ASSUME NEW p \in Proc, NEW l, NEW j, Go(p, l, j), pc[p] \notin Counting, counter' = counter
      PROVE  Stays
  BY <1>1, <1>2 DEF Go
<1>3. ASSUME counter' = counter, pc' = pc, job' = job PROVE Stays
  BY <1>3
<1> HIDE DEF Stays
<1>4. ASSUME NEW p \in Proc, Arrive(p) PROVE Stays
  <2>1. counter' = counter
    BY <1>4 DEF Arrive, Login, Refresh, Logout, Deactivate, AdminUpdate, redis
  <2>2. CASE pc[p] = "idle" /\ \E l, j : Go(p, l, j)
    BY <2>1, <2>2, <1>2 DEF Counting
  <2>3. CASE pc' = pc /\ job' = job
    BY <2>1, <2>3, <1>3
  <2> QED
    BY <1>4, <2>2, <2>3 DEF Arrive, Login, Refresh, Logout, Deactivate, AdminUpdate, Arrives
<1>5. ASSUME NEW p \in Proc, LoginFindUser(p) \/ RefreshFindOwner(p) \/ LogoutVerify(p) \/ DeactivateWrite(p) \/ DbError(p)
      PROVE  Stays
  <2>1. counter' = counter /\ pc[p] \notin Counting
    BY <1>5 DEF LoginFindUser, RefreshFindOwner, LogoutVerify, DeactivateWrite, DbError, redis, Counting
  <2>2. \E l, j : Go(p, l, j)
    BY <1>5 DEF LoginFindUser, RefreshFindOwner, LogoutVerify, DeactivateWrite, DbError, Finish, Sign
  <2> QED
    BY <2>1, <2>2, <1>2
<1>6. ASSUME NEW p \in Proc, Store(p) \/ Rotate(p) \/ LogoutDeny(p) \/ LogoutDel(p) \/ DeactivateDel(p)
      PROVE  Stays
  <2>1. pc[p] \in {"store", "rotate", "deny", "logoutDel", "deactivateDel"} /\ Applied(p)
    BY <1>6 DEF Store, Rotate, LogoutDeny, LogoutDel, DeactivateDel
  <2>2. counter' = counter /\ pc[p] \notin Counting
    BY <2>1 DEF Applied, Counting
  <2>3. \E l, j : Go(p, l, j)
    BY <1>6 DEF Store, Rotate, LogoutDeny, LogoutDel, DeactivateDel, Finish
  <2> QED
    BY <2>2, <2>3, <1>2
<1>7. ASSUME NEW p \in Proc, LoginReset(p) \/ Forget(p) PROVE counter' = NoCount
  BY <1>7 DEF LoginReset, Forget, Applied
<1>8. ASSUME Tick \/ StoredExpires \/ LockExpires PROVE Stays
  BY <1>3, <1>8 DEF Tick, StoredExpires, LockExpires, redis
<1>9. AttemptsExpire => counter' = NoCount
  BY DEF AttemptsExpire
<1>10. UNCHANGED vars => Stays
  BY <1>3 DEF vars
<1>11. ~ Crash /\ \A p \in Proc : ~ RedisError(p)
  BY DEF Crash, RedisError
<1>12. Next => counter' = NoCount \/ Stays \/ \E p \in Proc : Incr(p) \/ Expire(p) \/ Lock(p)
  BY <1>4, <1>5, <1>6, <1>7, <1>8, <1>9, <1>11 DEF Next, Proceed
<1> QED
  BY <1>10, <1>12 DEF Stays

\* What the commands on a counter do to it and where the request goes next.
LEMMA CountingSteps ==
  ASSUME IInv, NEW p \in Proc
  PROVE  /\ Incr(p) => /\ counter'.n = counter.n + 1 /\ counter'.ttl = counter.ttl
                       /\ pc'[p] = AfterIncr(counter'.n)
                       /\ pc'[p] # "idle" => job'[p].count = counter'.n
         /\ Expire(p) => /\ counter'.n = counter.n /\ (counter.n > 0 => counter'.ttl)
                         /\ pc[p] = "expire" /\ pc'[p] = AfterExpire(job[p].count)
         /\ Lock(p) => counter' = counter /\ pc[p] = "lock" /\ pc'[p] = "forget"
         /\ Incr(p) \/ Expire(p) \/ Lock(p) =>
               \A q \in Proc : q # p => pc'[q] = pc[q] /\ job'[q] = job[q]
         /\ Incr(p) => pc[p] = "incr"
<1>1. pc \in [Proc -> Pcs] /\ job \in [Proc -> Job] /\ counter \in [n : Nat, ttl : BOOLEAN]
  BY DEF IInv, TypeOK
<1>2. ASSUME Incr(p)
      PROVE  /\ counter'.n = counter.n + 1 /\ counter'.ttl = counter.ttl
             /\ pc'[p] = AfterIncr(counter'.n)
             /\ pc'[p] # "idle" => job'[p].count = counter'.n
             /\ \A q \in Proc : q # p => pc'[q] = pc[q] /\ job'[q] = job[q]
             /\ pc[p] = "incr"
  <2> DEFINE l == AfterIncr(counter'.n)
             j == IF l = "idle" THEN IdleJob ELSE [job[p] EXCEPT !.count = counter'.n]
  <2>1. pc[p] = "incr" /\ Applied(p) /\ Go(p, l, j)
    BY <1>2 DEF Incr
  <2>2. counter' = [counter EXCEPT !.n = @ + 1]
    BY <2>1 DEF Applied
  <2>3. job[p] \in Job
    BY <1>1
  <2>4. l # "idle" => j.count = counter'.n
    BY <2>3 DEF Job
  <2> HIDE DEF l, j
  <2>5. pc'[p] = l /\ job'[p] = j /\ \A q \in Proc : q # p => pc'[q] = pc[q] /\ job'[q] = job[q]
    BY <1>1, <2>1 DEF Go
  <2>6. counter'.n = counter.n + 1 /\ counter'.ttl = counter.ttl
    BY <1>1, <2>2
  <2> QED
    BY <2>1, <2>4, <2>5, <2>6 DEF l
<1>3. ASSUME Expire(p)
      PROVE  /\ counter'.n = counter.n /\ (counter.n > 0 => counter'.ttl)
             /\ pc[p] = "expire" /\ pc'[p] = AfterExpire(job[p].count)
             /\ \A q \in Proc : q # p => pc'[q] = pc[q] /\ job'[q] = job[q]
  <2>1. PICK j : pc[p] = "expire" /\ Applied(p) /\ Go(p, AfterExpire(job[p].count), j)
    BY <1>3 DEF Expire
  <2>2. counter' = IF counter.n > 0 THEN [counter EXCEPT !.ttl = TRUE] ELSE counter
    BY <2>1 DEF Applied
  <2>3. counter'.n = counter.n /\ (counter.n > 0 => counter'.ttl)
    BY <1>1, <2>2
  <2>4. /\ pc'[p] = AfterExpire(job[p].count)
        /\ \A q \in Proc : q # p => pc'[q] = pc[q] /\ job'[q] = job[q]
    BY <1>1, <2>1 DEF Go
  <2> QED
    BY <2>1, <2>3, <2>4
<1>4. ASSUME Lock(p)
      PROVE  /\ counter' = counter /\ pc[p] = "lock" /\ pc'[p] = "forget"
             /\ \A q \in Proc : q # p => pc'[q] = pc[q] /\ job'[q] = job[q]
  <2>1. pc[p] = "lock" /\ Applied(p) /\ Go(p, "forget", job[p])
    BY <1>4 DEF Lock
  <2>2. counter' = counter
    BY <2>1 DEF Applied
  <2>3. pc'[p] = "forget" /\ \A q \in Proc : q # p => pc'[q] = pc[q] /\ job'[q] = job[q]
    BY <1>1, <2>1 DEF Go
  <2> QED
    BY <2>1, <2>2, <2>3
<1> QED
  BY <1>2, <1>3, <1>4

\* While Redis answers and no process dies, a counter without an expiry has a
\* request that will set it, however many logins overlap.
THEOREM CountersWillExpire ==
  ASSUME "redis" \notin Faults, "crash" \notin Faults
  PROVE  Spec => []CounterWillExpire
<1>1. Init => CounterWillExpire
  BY DEF Init, CounterWillExpire
<1>2. ASSUME IInv, CounterWillExpire, [Next]_vars PROVE CounterWillExpire'
  <2>1. counter \in [n : Nat, ttl : BOOLEAN]
    BY <1>2 DEF IInv, TypeOK
  <2>2. CASE counter' = NoCount
    BY <2>2 DEF CounterWillExpire
  <2>3. ASSUME NEW p \in Proc, Incr(p) PROVE CounterWillExpire'
    <3>1. CASE counter.n = 0
      <4>1. pc'[p] = "expire"
        BY <1>2, <2>3, <3>1, CountingSteps DEF AfterIncr
      <4> QED
        BY <4>1 DEF CounterWillExpire
    <3>2. CASE counter.n > 0
      <4>1. /\ counter'.ttl = counter.ttl /\ pc[p] = "incr"
            /\ \A q \in Proc : q # p => pc'[q] = pc[q]
        BY <1>2, <2>3, CountingSteps
      <4> QED
        BY <1>2, <3>2, <4>1 DEF CounterWillExpire
    <3> QED
      BY <2>1, <3>1, <3>2
  <2>4. ASSUME NEW p \in Proc, Expire(p) PROVE CounterWillExpire'
    BY <1>2, <2>4, CountingSteps DEF CounterWillExpire
  <2>5. ASSUME NEW p \in Proc, Lock(p) PROVE CounterWillExpire'
    <3>1. counter' = counter /\ pc[p] = "lock" /\ \A q \in Proc : q # p => pc'[q] = pc[q]
      BY <1>2, <2>5, CountingSteps
    <3> QED
      BY <1>2, <3>1 DEF CounterWillExpire
  <2>6. CASE /\ counter' = counter
             /\ \A q \in Proc : pc[q] \in Counting => pc'[q] = pc[q]
    BY <1>2, <2>6 DEF CounterWillExpire, Counting
  <2> QED
    BY <1>2, <2>2, <2>3, <2>4, <2>5, <2>6, CounterSteps
<1>3. Init /\ [][Next]_vars /\ []IInv => []CounterWillExpire
  BY <1>1, <1>2, PTL
<1> QED
  BY <1>3, AuthInvariant, PTL DEF Spec

\* While Redis answers and no process dies, a counter at the limit has a request
\* that turns it into a lock, for any limit.
THEOREM LimitsLock ==
  ASSUME "redis" \notin Faults, "crash" \notin Faults
  PROVE  Spec => []LimitLocks
<1> DEFINE Locks(l, j) == \/ l \in {"lock", "forget"}
                          \/ l = "expire" /\ j.count >= MaxFailedAttempts
<1>1. Init => LimitLocks
  BY DEF Init, LimitLocks
<1>2. ASSUME IInv, LimitLocks, [Next]_vars PROVE LimitLocks'
  <2>1. counter \in [n : Nat, ttl : BOOLEAN]
    BY <1>2 DEF IInv, TypeOK
  <2>2. CASE counter' = NoCount
    BY <2>2 DEF LimitLocks
  <2>3. ASSUME NEW p \in Proc, Incr(p) PROVE LimitLocks'
    <3>1. /\ counter'.n = counter.n + 1 /\ pc'[p] = AfterIncr(counter'.n)
          /\ pc'[p] # "idle" => job'[p].count = counter'.n
      BY <1>2, <2>3, CountingSteps
    <3>2. counter'.n >= MaxFailedAttempts => Locks(pc'[p], job'[p])
      BY <3>1 DEF AfterIncr, AfterExpire
    <3> QED
      BY <3>2 DEF LimitLocks
  <2>4. ASSUME NEW p \in Proc, Expire(p) PROVE LimitLocks'
    <3>1. /\ counter'.n = counter.n /\ pc[p] = "expire" /\ pc'[p] = AfterExpire(job[p].count)
          /\ \A q \in Proc : q # p => pc'[q] = pc[q] /\ job'[q] = job[q]
      BY <1>2, <2>4, CountingSteps
    <3>2. job[p].count >= MaxFailedAttempts => pc'[p] = "lock"
      BY <3>1 DEF AfterExpire
    <3>3. counter.n >= MaxFailedAttempts => \E q \in Proc : Locks(pc[q], job[q])
      BY <1>2 DEF LimitLocks
    <3>4. counter'.n >= MaxFailedAttempts => \E q \in Proc : Locks(pc'[q], job'[q])
      BY <3>1, <3>2, <3>3
    <3> QED
      BY <3>4 DEF LimitLocks
  <2>5. ASSUME NEW p \in Proc, Lock(p) PROVE LimitLocks'
    BY <1>2, <2>5, CountingSteps DEF LimitLocks
  <2>6. CASE /\ counter' = counter
             /\ \A q \in Proc : pc[q] \in Counting => pc'[q] = pc[q] /\ job'[q] = job[q]
    BY <1>2, <2>6 DEF LimitLocks, Counting
  <2> QED
    BY <1>2, <2>2, <2>3, <2>4, <2>5, <2>6, CounterSteps
<1>3. Init /\ [][Next]_vars /\ []IInv => []LimitLocks
  BY <1>1, <1>2, PTL
<1> QED
  BY <1>3, AuthInvariant, PTL DEF Spec
=============================================================================
