---------------------------- MODULE SessionFence ----------------------------
(***************************************************************************)
(* Browser requests that carry the cookie of one stored session, as        *)
(* backend/internal/authn runs them: SessionMiddleware takes a redsync     *)
(* lock with a keep-alive lease, loads the session, activates a fence key, *)
(* runs the route (a plain route, logout, or one that asks for the         *)
(* authenticated principal and may refresh it at the identity provider),   *)
(* commits the session at the first write of the response and releases     *)
(* the lock.  Every Redis script is one atomic step; between any two steps *)
(* the clock may move, the lock may expire, the lease may be found lost, a *)
(* pod may crash, and every Redis call may fail with or without having     *)
(* been applied.                                                           *)
(***************************************************************************)
EXTENDS Integers

CONSTANTS Requests,      \* requests carrying the cookie; also lock owners
          None,          \* an absent Redis key, or a request without a copy
          MaxTime,       \* bound on the clock
          MaxGen,        \* bound on refresh-token generations
          Deadline,      \* absolute deadline of the session
          Lifetime,      \* Session.AbsoluteLifetime, the TTL of Activate
          Idle,          \* Session.IdleLifetime
          Skew,          \* refreshSkew
          RetryWindow,   \* refreshRetryWindow
          Grant,         \* lifetime of the claims in a refreshed ID token
          InitialExpiry  \* claim expiry of the session at the start

ASSUME ConstantsAssumption ==
    /\ {MaxTime, Deadline, Skew, RetryWindow, Grant, InitialExpiry} \subseteq Nat
    /\ {Lifetime, Idle, MaxGen} \subseteq Nat \ {0}

VARIABLES
    now,        \* the clock
    lock,       \* Redis lock key: its owner value, or None
    fence,      \* Redis fence key: the owner in it, or None
    fenceTill,  \* expiry of the fence key
    session,    \* Redis session key: the stored session, or None
    idp,        \* refresh-token generation the provider would accept
    pc,         \* where each request is
    lease,      \* keep-alive goroutine of each request's lock
    copy,       \* the session data in each request's context, or None
    work,       \* refreshSession's locals: the principal in hand, the reply
    answer,     \* what the client is (going to be) told
    current,    \* history: requests whose copy is the last one stored
    ended       \* history: the session was deleted by the delete script

redis == <<lock, fence, fenceTill, session>>
history == <<current, ended>>
vars == <<now, redis, idp, pc, lease, copy, work, answer, history>>

-----------------------------------------------------------------------------
(* Session data.  rt = 0 is "no refresh token", chk = 0 "never refreshed". *)

Sessions == [bound : BOOLEAN, rt : Nat, exp : Nat, chk : Nat, till : Nat]

ASSUME NoneAssumption == None \notin Requests \cup Sessions

NoWork == [kind |-> "none", rt |-> 0, exp |-> 0]

\* expiry of a commit: the absolute deadline or the idle timeout, scs.Commit
Expiry == IF Deadline < now + Idle THEN Deadline ELSE now + Idle

\* refresh.go: the claims are good for longer than the skew, or there is no
\* refresh token and they have not expired
FreshEnough(s) == s.exp > now + Skew \/ (s.rt = 0 /\ s.exp > now)

\* refresh.go: a refresh was tried so recently that the live claims are used
InRetryWindow(s) == s.chk # 0 /\ s.exp > now /\ now < s.chk + RetryWindow

-----------------------------------------------------------------------------
(* The Redis scripts.  ok = FALSE is an error seen by the caller: the      *)
(* script refused, Redis was not reached, or the reply was lost.           *)

Untouched == UNCHANGED <<lock, fence, fenceTill, session, current, ended>>

ActivateApplies(r) == lock = r

Activate(r, ok) ==
    \/ /\ ActivateApplies(r)
       /\ fence' = r
       /\ fenceTill' = now + Lifetime
       /\ UNCHANGED <<lock, session, current, ended>>
    \/ ~ok /\ Untouched

\* Mutants of CommitApplies: one of the script's two comparisons is missing.
CommitChecksLockOnly(r) == lock = r
CommitChecksFenceOnly(r) == fence = r

CommitApplies(r) == lock = r /\ fence = r

Commit(r, s, ok) ==
    \/ /\ CommitApplies(r)
       /\ session' = IF s.till > now THEN s ELSE None
       /\ fence' = IF s.till > now THEN r ELSE None
       /\ fenceTill' = IF s.till > now THEN s.till ELSE 0
       /\ current' = {r}
       /\ UNCHANGED <<lock, ended>>
    \/ ~ok /\ Untouched

\* Mutant of DeleteApplies: the lock owner is not compared.
DeleteChecksFenceOnly(r) == fence = r

DeleteApplies(r) == fence = r /\ lock = r

Delete(r, ok) ==
    \/ /\ DeleteApplies(r)
       /\ session' = None
       /\ fence' = None
       /\ current' = {}
       /\ fenceTill' = 0
       /\ ended' = TRUE
       /\ UNCHANGED lock
    \/ ~ok /\ Untouched

-----------------------------------------------------------------------------
(* SessionMiddleware: lock, load, activate.                                *)

Goto(r, l) == pc' = [pc EXCEPT ![r] = l]
Tell(r, a) == answer' = [answer EXCEPT ![r] = a]

AcquireSessionMutex(r) ==
    /\ pc[r] = "start"
    /\ lock = None
    /\ lock' = r
    /\ lease' = [lease EXCEPT ![r] = "alive"]
    /\ Goto(r, "load")
    /\ UNCHANGED <<now, fence, fenceTill, session, idp, copy, work, answer,
                   history>>

\* RefreshLockWait ran out, or Redis failed: possibly after it had set the
\* key, which is then left to its TTL
AcquireTimeout(r) ==
    /\ pc[r] = "start"
    /\ lock' \in {lock, IF lock = None THEN r ELSE lock}
    /\ Goto(r, "done")
    /\ Tell(r, "unavailable")
    /\ UNCHANGED <<now, fence, fenceTill, session, idp, lease, copy, work, history>>

LoadFound(r) ==
    /\ pc[r] = "load"
    /\ session # None
    /\ copy' = [copy EXCEPT ![r] = session]
    /\ current' = current \cup {r}
    /\ Goto(r, "activate")
    /\ UNCHANGED <<now, redis, idp, lease, work, answer, ended>>

\* scs starts a new session without a token: nothing is fenced or committed
LoadMissing(r) ==
    /\ pc[r] = "load"
    /\ session = None
    /\ Goto(r, "handler")
    /\ UNCHANGED <<now, redis, idp, lease, copy, work, answer, history>>

LoadError(r) ==
    /\ pc[r] = "load"
    /\ Goto(r, "stop")
    /\ Tell(r, "unavailable")
    /\ UNCHANGED <<now, redis, idp, lease, copy, work, history>>

ActivateFence(r) ==
    /\ pc[r] = "activate"
    /\ \E ok \in BOOLEAN :
          /\ Activate(r, ok)
          /\ Goto(r, IF ok THEN "handler" ELSE "stop")
          /\ Tell(r, IF ok THEN answer[r] ELSE "unavailable")
    /\ UNCHANGED <<now, idp, lease, copy, work>>

-----------------------------------------------------------------------------
(* The routes.                                                             *)

\* a route that uses the session only through the middleware
PlainRoute(r) ==
    /\ pc[r] = "handler"
    /\ Goto(r, "write")
    /\ Tell(r, "plain")
    /\ UNCHANGED <<now, redis, idp, lease, copy, work, history>>

Logout(r) ==
    /\ pc[r] = "handler"
    /\ Goto(r, IF copy[r] = None THEN "write" ELSE "destroy")
    /\ Tell(r, "loggedout")
    /\ UNCHANGED <<now, redis, idp, lease, copy, work, history>>

\* AuthenticatedPrincipal up to the call of refreshSession
AuthenticatedPrincipal(r) ==
    /\ pc[r] = "handler"
    /\ LET s == copy[r]
           Answers(l, a) == Goto(r, l) /\ Tell(r, a)
       IN  IF s = None THEN Answers("write", "unauthenticated")
           ELSE IF ~s.bound \/ Deadline <= now
                THEN Answers("destroy", "unauthenticated")
           ELSE IF FreshEnough(s) THEN Answers("write", "ok")
           ELSE IF s.rt = 0 THEN Answers("write", "unauthenticated")
           ELSE IF InRetryWindow(s) THEN Answers("write", "ok")
           ELSE Goto(r, "reload") /\ UNCHANGED answer
    /\ UNCHANGED <<now, redis, idp, lease, copy, work, history>>

-----------------------------------------------------------------------------
(* refreshSession: reload under the lock, exchange, store.                 *)

\* the session is read again under the lock before anything is exchanged
RefreshReload(r) ==
    /\ pc[r] = "reload"
    /\ LET s == session
           Answers(l, a) == Goto(r, l) /\ Tell(r, a) /\ UNCHANGED work
           Works(l) == /\ Goto(r, l)
                       /\ work' = [work EXCEPT ![r] =
                             [kind |-> "loaded", rt |-> s.rt, exp |-> s.exp]]
                       /\ UNCHANGED answer
       IN  \/ Answers("write", "unavailable")
           \/ IF s = None THEN Answers("write", "unauthenticated")
              ELSE IF ~s.bound THEN Answers("destroy", "unauthenticated")
              ELSE IF FreshEnough(s) \/ InRetryWindow(s) THEN Works("sync")
              ELSE IF s.rt = 0 THEN Answers("write", "unauthenticated")
              ELSE Works("exchange")
    /\ UNCHANGED <<now, redis, idp, lease, copy, history>>

\* The provider's side of the exchange.  It rejects a superseded token, may
\* reject any, may rotate, may leave the ID token out, and its answer may be
\* one the verifier rejects; whatever it did, the reply may be lost.
ProviderAnswers(r) ==
    /\ pc[r] = "exchange"
    /\ \E kind \in {"refused", "lost", "rejected", "token"},
          rotate \in BOOLEAN, renew \in BOOLEAN :
          /\ kind \in {"rejected", "token"} => work[r].rt = idp
          /\ rotate => kind # "refused" /\ work[r].rt = idp /\ idp < MaxGen
          /\ idp' = IF rotate THEN idp + 1 ELSE idp
          /\ work' = [work EXCEPT ![r] =
                [kind |-> kind,
                 rt   |-> IF rotate THEN idp + 1 ELSE @.rt,
                 exp  |-> IF renew THEN now + Grant ELSE @.exp]]
    /\ Goto(r, "exchanged")
    /\ UNCHANGED <<now, redis, lease, copy, answer, history>>

\* what refreshSession does with the outcome
ExchangeReturns(r) ==
    /\ pc[r] = "exchanged"
    /\ \/ /\ work[r].kind = "lost"
          /\ Goto(r, "write")
          /\ Tell(r, "unavailable")
       \/ /\ \/ work[r].kind \in {"refused", "rejected"}
             \/ work[r].kind = "token" /\ (work[r].exp <= now \/ Deadline <= now)
          /\ Goto(r, "destroy")
          /\ Tell(r, "unauthenticated")
       \/ /\ work[r].kind = "token"
          /\ work[r].exp > now
          /\ Deadline > now
          /\ Goto(r, "sync")
          /\ UNCHANGED answer
    /\ UNCHANGED <<now, redis, idp, lease, copy, work, history>>

\* what syncSession puts into the request's data before it commits
StorePrincipal(r) ==
    [copy[r] EXCEPT !.bound = TRUE,
                    !.rt = work[r].rt,
                    !.exp = work[r].exp,
                    !.chk = IF work[r].kind = "token" THEN now ELSE @,
                    !.till = Expiry]

SyncSession(r) ==
    /\ pc[r] = "sync"
    /\ copy' = [copy EXCEPT ![r] = StorePrincipal(r)]
    /\ \E ok \in BOOLEAN :
          /\ Commit(r, StorePrincipal(r), ok)
          /\ Goto(r, IF ok THEN "synced" ELSE "write")
          /\ Tell(r, IF ok THEN answer[r] ELSE "unavailable")
    /\ UNCHANGED <<now, idp, lease, work>>

\* Mutant of StillAlive: no check after the commit.
NotCheckedAgain(s) == TRUE

\* the commit may have taken longer than the claims or the session had left
StillAlive(s) == s.exp > now /\ s.till > now

SyncChecks(r) ==
    /\ pc[r] = "synced"
    /\ IF StillAlive(copy[r])
       THEN Goto(r, "write") /\ Tell(r, "ok")
       ELSE Goto(r, "reactivate") /\ UNCHANGED answer
    /\ UNCHANGED <<now, redis, idp, lease, copy, work, history>>

\* the fence may have expired together with the committed session
Reactivate(r) ==
    /\ pc[r] = "reactivate"
    /\ \E ok \in BOOLEAN :
          /\ Activate(r, ok)
          /\ Goto(r, IF ok THEN "destroy" ELSE "write")
          /\ Tell(r, IF ok THEN "unauthenticated" ELSE "unavailable")
    /\ UNCHANGED <<now, idp, lease, copy, work>>

\* scs.Destroy under the lock already held: the data goes only if Redis said so
DestroySession(r) ==
    /\ pc[r] = "destroy"
    /\ \E ok \in BOOLEAN :
          /\ Delete(r, ok)
          /\ copy' = [copy EXCEPT ![r] = IF ok THEN None ELSE @]
          /\ Tell(r, IF ok THEN answer[r] ELSE "unavailable")
    /\ Goto(r, "write")
    /\ UNCHANGED <<now, idp, lease, work>>

-----------------------------------------------------------------------------
(* The first write of the response, and the release of the lock.           *)

\* Mutant of CommitAndWrite: the result of the commit is not looked at.
WriteIgnoresCommitError(r) ==
    /\ pc[r] = "write"
    /\ IF copy[r] = None THEN Untouched
       ELSE \E ok \in BOOLEAN :
               Commit(r, [copy[r] EXCEPT !.till = Expiry], ok)
    /\ Goto(r, "stop")
    /\ UNCHANGED <<now, idp, lease, copy, work, answer>>

\* commitAndWriteSessionCookie: a lost lease or a failed commit turns the
\* response into 503; without data there is nothing to commit
CommitAndWrite(r) ==
    /\ pc[r] = "write"
    /\ \/ /\ lease[r] = "lost"
          /\ Tell(r, "unavailable")
          /\ Untouched
       \/ /\ lease[r] # "lost"
          /\ copy[r] = None
          /\ UNCHANGED answer
          /\ Untouched
       \/ /\ lease[r] # "lost"
          /\ copy[r] # None
          /\ \E ok \in BOOLEAN :
                /\ Commit(r, [copy[r] EXCEPT !.till = Expiry], ok)
                /\ Tell(r, IF ok THEN answer[r] ELSE "unavailable")
    /\ Goto(r, "stop")
    /\ UNCHANGED <<now, idp, lease, copy, work>>

\* Mutants of StopLease: stop is never closed and release waits for the
\* goroutine all the same; release does not stop the goroutine at all.
WaitsWithoutStop(r) ==
    /\ pc[r] = "stop"
    /\ lease[r] # "alive"
    /\ copy' = [copy EXCEPT ![r] = None]
    /\ Goto(r, "unlock")
    /\ UNCHANGED <<now, redis, idp, lease, work, answer, history>>

\* release: stop the keep-alive goroutine and wait for it; the request is over
StopLease(r) ==
    /\ pc[r] = "stop"
    /\ lease' = [lease EXCEPT ![r] = "stopped"]
    /\ copy' = [copy EXCEPT ![r] = None]
    /\ Goto(r, "unlock")
    /\ UNCHANGED <<now, redis, idp, work, answer, history>>

\* redsync deletes the lock key only if it still holds the owner's value;
\* the error of a failed unlock is dropped and the key is left to its TTL
Unlock(r) ==
    /\ pc[r] = "unlock"
    /\ lock' \in {lock, IF lock = r THEN None ELSE lock}
    /\ Goto(r, "done")
    /\ UNCHANGED <<now, fence, fenceTill, session, idp, lease, copy, work,
                   answer, history>>

-----------------------------------------------------------------------------
(* The environment.                                                        *)

\* the keep-alive extension failed: Redis, the owner check or a cancellation
KeepAliveFails(r) ==
    /\ lease[r] = "alive"
    /\ lease' = [lease EXCEPT ![r] = "lost"]
    /\ UNCHANGED <<now, redis, idp, pc, copy, work, answer, history>>

Crash(r) ==
    /\ pc[r] \notin {"start", "done", "crashed"}
    /\ Goto(r, "crashed")
    /\ lease' = [lease EXCEPT ![r] = "stopped"]
    /\ copy' = [copy EXCEPT ![r] = None]
    /\ work' = [work EXCEPT ![r] = NoWork]
    /\ Tell(r, "none")
    /\ UNCHANGED <<now, redis, idp, history>>

ExpireLock ==
    /\ lock # None
    /\ lock' = None
    /\ UNCHANGED <<now, fence, fenceTill, session, idp, pc, lease, copy, work,
                   answer, history>>

\* time passes; Redis drops the keys whose expiry it reaches
Tick ==
    /\ now < MaxTime
    /\ now' = now + 1
    /\ session' = IF session # None /\ session.till <= now + 1
                  THEN None ELSE session
    /\ fence' = IF fenceTill <= now + 1 THEN None ELSE fence
    /\ fenceTill' = IF fenceTill <= now + 1 THEN 0 ELSE fenceTill
    /\ UNCHANGED <<lock, idp, pc, lease, copy, work, answer,
                   history>>

-----------------------------------------------------------------------------
Init ==
    /\ now = 1
    /\ lock = None
    /\ fence = None
    /\ fenceTill = 0
    /\ session \in {[bound |-> b, rt |-> t, exp |-> InitialExpiry, chk |-> 0,
                     till |-> Expiry] : b \in BOOLEAN, t \in {0, 1}}
    /\ idp = 1
    /\ pc = [r \in Requests |-> "start"]
    /\ lease = [r \in Requests |-> "none"]
    /\ copy = [r \in Requests |-> None]
    /\ work = [r \in Requests |-> NoWork]
    /\ answer = [r \in Requests |-> "none"]
    /\ current = {}
    /\ ended = FALSE

Middleware(r) ==
    \/ AcquireSessionMutex(r) \/ AcquireTimeout(r)
    \/ LoadFound(r) \/ LoadMissing(r) \/ LoadError(r)
    \/ ActivateFence(r)
    \/ CommitAndWrite(r) \/ StopLease(r) \/ Unlock(r)

Route(r) ==
    \/ PlainRoute(r) \/ Logout(r) \/ AuthenticatedPrincipal(r)
    \/ RefreshReload(r) \/ ProviderAnswers(r) \/ ExchangeReturns(r)
    \/ SyncSession(r) \/ SyncChecks(r) \/ Reactivate(r) \/ DestroySession(r)

Step(r) == Middleware(r) \/ Route(r)

Next ==
    \/ \E r \in Requests : Step(r) \/ KeepAliveFails(r) \/ Crash(r)
    \/ ExpireLock
    \/ Tick

Spec == Init /\ [][Next]_vars

(* Every goroutine is scheduled, every Redis and provider call returns (all *)
(* have timeouts), and a lock nobody extends any more reaches its TTL.      *)
ExpireAbandonedLock ==
    /\ \A r \in Requests : lock = r => lease[r] # "alive"
    /\ ExpireLock

Fairness == /\ \A r \in Requests : WF_vars(Step(r))
            /\ WF_vars(ExpireAbandonedLock)

FairSpec == Spec /\ Fairness

-----------------------------------------------------------------------------
(* Properties.                                                             *)

Labels == {"start", "load", "activate", "handler", "reload", "exchange",
           "exchanged", "sync", "synced", "reactivate", "destroy", "write",
           "stop", "unlock", "done", "crashed"}
Answers == {"none", "plain", "ok", "unauthenticated", "loggedout",
            "unavailable"}
Kinds == {"none", "loaded", "refused", "lost", "rejected", "token"}

\* Every variable keeps the type its comment gives.
TypeOK ==
    /\ now \in Nat
    /\ lock \in Requests \cup {None}
    /\ fence \in Requests \cup {None}
    /\ fenceTill \in Nat
    /\ session \in Sessions \cup {None}
    /\ idp \in Nat
    /\ pc \in [Requests -> Labels]
    /\ lease \in [Requests -> {"none", "alive", "lost", "stopped"}]
    /\ copy \in [Requests -> Sessions \cup {None}]
    /\ work \in [Requests -> [kind : Kinds, rt : Nat, exp : Nat]]
    /\ answer \in [Requests -> Answers]
    /\ current \subseteq Requests
    /\ ended \in BOOLEAN

\* A destroyed session stays destroyed: once the delete script has run, no
\* commit of a request that still holds a copy brings the key back, not even
\* the deleting request's own commit after the reply to its delete was lost.
NoResurrection == ended => session = None

\* A request that was answered as authenticated after a refresh has its new
\* refresh token in the store: no later commit brings an older one back.
RotationIsDurable ==
    \A r \in Requests :
        pc[r] = "done" /\ answer[r] = "ok" /\ session # None
            => session.rt >= work[r].rt

\* AuthenticatedPrincipal never vouches for claims or a session that are past
\* their deadline at that moment, however long the exchange or the commit took.
AuthorityIsLive ==
    [][\A r \in Requests :
          answer[r] # "ok" /\ answer'[r] = "ok"
              => copy[r].exp > now /\ Deadline > now]_vars

\* No response leaves as authenticated once the session has been destroyed: a
\* request that lost its lease to a logout ends in 503.
NoOkAfterEnd ==
    [][\A r \in Requests :
          pc[r] = "write" /\ pc'[r] = "stop" /\ answer'[r] = "ok" => ~ended]_vars

\* The lock, the fence and the scripts implement a compare-and-set register
\* with a tombstone: a commit or a delete takes effect only for a request
\* whose copy is the last one stored (no lost update).
Register == INSTANCE SessionRegister
                WITH Values <- Sessions, Absent <- None, value <- session
ImplementsRegister == Register!Spec

\* Every request is answered: nobody waits for a lock, a lease or a call for
\* ever.  And no lock outlives the requests: releases, or the TTL once nobody
\* extends it, leave the key absent for good.
EveryRequestEnds ==
    /\ \A r \in Requests : <>(pc[r] \in {"done", "crashed"})
    /\ <>[](lock = None)
=============================================================================
