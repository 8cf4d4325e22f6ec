------------------------- MODULE SessionFenceProofs -------------------------
(***************************************************************************)
(* Proofs about SessionFence for any number of requests and any values of  *)
(* the durations: the type invariant, that a destroyed session is never    *)
(* resurrected, that no response leaves as authenticated after that, and   *)
(* that the protocol implements the register of SessionRegister.           *)
(***************************************************************************)
EXTENDS SessionFence, TLAPS

-----------------------------------------------------------------------------
(* The inductive invariant.                                                *)

\* A request past the load of an existing session has a copy of it, and
\* nobody destroys the session behind an answer that says authenticated.
HasCopy ==
    \A r \in Requests :
        /\ pc[r] \in {"activate", "reload", "exchange", "exchanged", "sync",
                      "synced", "reactivate", "destroy"} => copy[r] # None
        /\ pc[r] = "write" /\ answer[r] = "ok" => copy[r] # None
        /\ pc[r] = "destroy" => answer[r] # "ok"

\* A request owns the lock or the fence only from the step that takes it on.
Ownership ==
    \A r \in Requests :
        /\ lock = r => pc[r] # "start"
        /\ fence = r => pc[r] \notin {"start", "load"}

\* The heart of the fence: while the lock is still owned, the copy of a
\* request that may activate, or has activated, the fence is the last one
\* stored, since every other store needs the lock.
FencedCopyIsCurrent ==
    \A r \in Requests :
        lock = r /\ (fence = r \/ pc[r] \in {"activate", "synced", "reactivate"})
            => r \in current

\* After the delete script nobody's copy is current any more.
EndedIsFinal == ended => session = None /\ current = {}

\* What a request has in hand on its way to an answer: no answer says
\* authenticated before the write, a refresh token in work is one the request
\* reloaded or was given, and what it synced is what it will answer with.
RefreshOrder ==
    \A r \in Requests :
        /\ pc[r] \notin {"write", "stop", "unlock", "done"} => answer[r] # "ok"
        /\ pc[r] \in {"start", "load", "activate", "handler"} => work[r].rt = 0
        /\ pc[r] = "synced" => copy[r].rt = work[r].rt /\ copy[r].till <= Deadline
        /\ pc[r] = "write" /\ answer[r] = "ok" => copy[r].rt >= work[r].rt

Answered(q) == pc[q] \in {"stop", "unlock", "done"} /\ answer[q] = "ok"

\* Once a request is answered as authenticated, neither the stored session nor
\* anything a request with a current copy could still store has an older token.
\* The stored session alone is not enough: it may expire and be stored again.
RotationKept ==
    \A q \in Requests :
        Answered(q) =>
            /\ session # None => session.rt >= work[q].rt
            /\ \A r \in current :
                  /\ copy[r] # None => copy[r].rt >= work[q].rt
                  /\ pc[r] \in {"exchange", "exchanged", "sync"}
                        => work[r].rt >= work[q].rt

Inv == /\ TypeOK
       /\ HasCopy
       /\ Ownership
       /\ FencedCopyIsCurrent
       /\ EndedIsFinal
       /\ RefreshOrder
       /\ RotationKept

-----------------------------------------------------------------------------
(* The Redis part of the state, and what the store steps do to its types.  *)

StoreTypeOK ==
    /\ lock \in Requests \cup {None}
    /\ fence \in Requests \cup {None}
    /\ fenceTill \in Nat
    /\ session \in Sessions \cup {None}
    /\ current \subseteq Requests
    /\ ended \in BOOLEAN

\* A session copy with a new expiry is a session.
LEMMA ExpiryType ==
    ASSUME now \in Nat, NEW s \in Sessions
    PROVE  [s EXCEPT !.till = Expiry] \in Sessions
<1>1. Expiry \in Nat
  BY ConstantsAssumption DEF Expiry
<1> QED
  BY <1>1 DEF Sessions

\* What syncSession stores is a session.
LEMMA StoredType ==
    ASSUME TypeOK, NEW r \in Requests, copy[r] # None
    PROVE  StorePrincipal(r) \in Sessions
<1>1. Expiry \in Nat
  BY ConstantsAssumption DEF Expiry, TypeOK
<1>2. /\ copy[r] \in Sessions
      /\ work[r].rt \in Nat /\ work[r].exp \in Nat /\ now \in Nat
  BY DEF TypeOK
<1> QED
  BY <1>1, <1>2 DEF StorePrincipal, Sessions

\* The commit script keeps the types of the keys.
LEMMA CommitTypes ==
    ASSUME TypeOK, NEW r \in Requests, NEW s \in Sessions, NEW ok \in BOOLEAN,
           Commit(r, s, ok)
    PROVE  StoreTypeOK'
<1>1. s.till \in Nat
  BY DEF Sessions
<1> QED
  BY <1>1 DEF Commit, CommitApplies, Untouched, TypeOK, StoreTypeOK

\* So does the delete script.
LEMMA DeleteTypes ==
    ASSUME TypeOK, NEW r \in Requests, NEW ok \in BOOLEAN, Delete(r, ok)
    PROVE  StoreTypeOK'
<1>1. CASE Untouched
  BY <1>1 DEF Untouched, TypeOK, StoreTypeOK
<1>2. CASE ~Untouched
  <2>1. ended' = TRUE
    BY <1>2, Zenon DEF Delete
  <2>2. /\ session' = None /\ fence' = None /\ current' = {} /\ fenceTill' = 0
        /\ lock' = lock
    BY <1>2, Zenon DEF Delete
  <2>3. ended' \in BOOLEAN
    BY <2>1, Zenon
  <2> QED
    BY <2>2, <2>3 DEF TypeOK, StoreTypeOK
<1> QED
  BY <1>1, <1>2

-----------------------------------------------------------------------------
(* One lemma per conjunct, one step per action.                            *)

\* Every step keeps the types.
LEMMA TypeStep ==
    TypeOK /\ HasCopy /\ [Next]_vars => TypeOK'
<1> SUFFICES ASSUME TypeOK, HasCopy, [Next]_vars
             PROVE  TypeOK'
  OBVIOUS
<1> USE ConstantsAssumption, NoneAssumption
      DEF TypeOK, Labels, Answers, Kinds, HasCopy, Goto, Tell, redis, history
<1>1. ASSUME NEW r \in Requests, AcquireSessionMutex(r) PROVE TypeOK'
  BY <1>1 DEF AcquireSessionMutex
<1>2. ASSUME NEW r \in Requests, AcquireTimeout(r) PROVE TypeOK'
  BY <1>2 DEF AcquireTimeout
<1>3. ASSUME NEW r \in Requests, LoadFound(r) PROVE TypeOK'
  BY <1>3 DEF LoadFound
<1>4. ASSUME NEW r \in Requests, LoadMissing(r) PROVE TypeOK'
  BY <1>4 DEF LoadMissing
<1>5. ASSUME NEW r \in Requests, LoadError(r) PROVE TypeOK'
  BY <1>5 DEF LoadError
<1>6. ASSUME NEW r \in Requests, ActivateFence(r) PROVE TypeOK'
  BY <1>6 DEF ActivateFence, Activate, ActivateApplies, Untouched
<1>7. ASSUME NEW r \in Requests, CommitAndWrite(r) PROVE TypeOK'
  <2>1. StoreTypeOK'
    <3>1. CASE Untouched
      BY <3>1 DEF Untouched, StoreTypeOK
    <3>2. ASSUME NEW ok \in BOOLEAN, copy[r] # None,
                 Commit(r, [copy[r] EXCEPT !.till = Expiry], ok)
          PROVE  StoreTypeOK'
      <4>1. now \in Nat /\ copy[r] \in Sessions
        BY <3>2 DEF TypeOK
      <4>2. [copy[r] EXCEPT !.till = Expiry] \in Sessions
        BY <4>1, ExpiryType
      <4> QED
        BY <3>2, <4>2, CommitTypes
    <3> QED
      BY <1>7, <3>1, <3>2 DEF CommitAndWrite
  <2>2. answer' \in [Requests -> Answers]
    BY <1>7 DEF CommitAndWrite
  <2> QED
    BY <1>7, <2>1, <2>2 DEF CommitAndWrite, StoreTypeOK
<1>8. ASSUME NEW r \in Requests, StopLease(r) PROVE TypeOK'
  BY <1>8 DEF StopLease
<1>9. ASSUME NEW r \in Requests, Unlock(r) PROVE TypeOK'
  BY <1>9 DEF Unlock
<1>10. ASSUME NEW r \in Requests, PlainRoute(r) PROVE TypeOK'
  BY <1>10 DEF PlainRoute
<1>11. ASSUME NEW r \in Requests, Logout(r) PROVE TypeOK'
  BY <1>11 DEF Logout
<1>12. ASSUME NEW r \in Requests, AuthenticatedPrincipal(r) PROVE TypeOK'
  BY <1>12 DEF AuthenticatedPrincipal, FreshEnough, InRetryWindow
<1>13. ASSUME NEW r \in Requests, RefreshReload(r) PROVE TypeOK'
  <2>1. session # None => session.rt \in Nat /\ session.exp \in Nat
    BY DEF Sessions
  <2>2. /\ pc' \in [Requests -> Labels]
        /\ answer' \in [Requests -> Answers]
    BY <1>13 DEF RefreshReload
  <2>3. work' \in [Requests -> [kind : Kinds, rt : Nat, exp : Nat]]
    BY <1>13, <2>1 DEF RefreshReload
  <2> QED
    BY <1>13, <2>2, <2>3 DEF RefreshReload
<1>14. ASSUME NEW r \in Requests, ProviderAnswers(r) PROVE TypeOK'
  BY <1>14 DEF ProviderAnswers
<1>15. ASSUME NEW r \in Requests, ExchangeReturns(r) PROVE TypeOK'
  BY <1>15 DEF ExchangeReturns
<1>16. ASSUME NEW r \in Requests, SyncSession(r) PROVE TypeOK'
  <2>1. StorePrincipal(r) \in Sessions
    BY <1>16, StoredType DEF SyncSession
  <2>2. StoreTypeOK'
    BY <1>16, <2>1, CommitTypes DEF SyncSession
  <2> QED
    BY <1>16, <2>1, <2>2 DEF SyncSession, StoreTypeOK
<1>17. ASSUME NEW r \in Requests, SyncChecks(r) PROVE TypeOK'
  BY <1>17 DEF SyncChecks, StillAlive
<1>18. ASSUME NEW r \in Requests, Reactivate(r) PROVE TypeOK'
  BY <1>18 DEF Reactivate, Activate, ActivateApplies, Untouched
<1>19. ASSUME NEW r \in Requests, DestroySession(r) PROVE TypeOK'
  <2>1. PICK ok \in BOOLEAN :
           /\ Delete(r, ok)
           /\ copy' = [copy EXCEPT ![r] = IF ok THEN None ELSE @]
           /\ Tell(r, IF ok THEN answer[r] ELSE "unavailable")
    BY <1>19 DEF DestroySession
  <2>2. StoreTypeOK'
    BY <2>1, DeleteTypes
  <2> QED
    BY <1>19, <2>1, <2>2 DEF DestroySession, StoreTypeOK
<1>20. ASSUME NEW r \in Requests, KeepAliveFails(r) PROVE TypeOK'
  BY <1>20 DEF KeepAliveFails
<1>21. ASSUME NEW r \in Requests, Crash(r) PROVE TypeOK'
  BY <1>21 DEF Crash, NoWork
<1>22. CASE ExpireLock
  BY <1>22 DEF ExpireLock
<1>23. CASE Tick
  BY <1>23 DEF Tick
<1>24. CASE UNCHANGED vars
  BY <1>24 DEF vars
<1> QED
  BY <1>1, <1>2, <1>3, <1>4, <1>5, <1>6, <1>7, <1>8, <1>9, <1>10, <1>11,
       <1>12, <1>13, <1>14, <1>15, <1>16, <1>17, <1>18, <1>19, <1>20, <1>21,
       <1>22, <1>23, <1>24 DEF Next, Step, Middleware, Route

\* No step reaches a place that uses the copy without having one.
LEMMA CopyStep ==
    TypeOK /\ HasCopy /\ [Next]_vars => HasCopy'
<1> SUFFICES ASSUME TypeOK, HasCopy, [Next]_vars
             PROVE  HasCopy'
  OBVIOUS
<1> USE ConstantsAssumption, NoneAssumption
      DEF TypeOK, HasCopy, Goto, Tell, redis, history
<1>1. ASSUME NEW r \in Requests, AcquireSessionMutex(r) PROVE HasCopy'
  BY <1>1 DEF AcquireSessionMutex
<1>2. ASSUME NEW r \in Requests, AcquireTimeout(r) PROVE HasCopy'
  BY <1>2 DEF AcquireTimeout
<1>3. ASSUME NEW r \in Requests, LoadFound(r) PROVE HasCopy'
  BY <1>3 DEF LoadFound
<1>4. ASSUME NEW r \in Requests, LoadMissing(r) PROVE HasCopy'
  BY <1>4 DEF LoadMissing
<1>5. ASSUME NEW r \in Requests, LoadError(r) PROVE HasCopy'
  BY <1>5 DEF LoadError
<1>6. ASSUME NEW r \in Requests, ActivateFence(r) PROVE HasCopy'
  BY <1>6 DEF ActivateFence, Activate, ActivateApplies, Untouched
<1>7. ASSUME NEW r \in Requests, CommitAndWrite(r) PROVE HasCopy'
  BY <1>7 DEF CommitAndWrite, Commit, CommitApplies, Untouched
<1>8. ASSUME NEW r \in Requests, StopLease(r) PROVE HasCopy'
  BY <1>8 DEF StopLease
<1>9. ASSUME NEW r \in Requests, Unlock(r) PROVE HasCopy'
  BY <1>9 DEF Unlock
<1>10. ASSUME NEW r \in Requests, PlainRoute(r) PROVE HasCopy'
  BY <1>10 DEF PlainRoute
<1>11. ASSUME NEW r \in Requests, Logout(r) PROVE HasCopy'
  BY <1>11 DEF Logout
<1>12. ASSUME NEW r \in Requests, AuthenticatedPrincipal(r) PROVE HasCopy'
  BY <1>12 DEF AuthenticatedPrincipal, FreshEnough, InRetryWindow
<1>13. ASSUME NEW r \in Requests, RefreshReload(r) PROVE HasCopy'
  BY <1>13 DEF RefreshReload, FreshEnough, InRetryWindow
<1>14. ASSUME NEW r \in Requests, ProviderAnswers(r) PROVE HasCopy'
  BY <1>14 DEF ProviderAnswers
<1>15. ASSUME NEW r \in Requests, ExchangeReturns(r) PROVE HasCopy'
  BY <1>15 DEF ExchangeReturns
<1>16. ASSUME NEW r \in Requests, SyncSession(r) PROVE HasCopy'
  <2>1. StorePrincipal(r) # None
    BY <1>16, StoredType DEF SyncSession
  <2> QED
    BY <1>16, <2>1 DEF SyncSession
<1>17. ASSUME NEW r \in Requests, SyncChecks(r) PROVE HasCopy'
  BY <1>17 DEF SyncChecks, StillAlive
<1>18. ASSUME NEW r \in Requests, Reactivate(r) PROVE HasCopy'
  BY <1>18 DEF Reactivate, Activate, ActivateApplies, Untouched
<1>19. ASSUME NEW r \in Requests, DestroySession(r) PROVE HasCopy'
  <2>1. answer'[r] # "ok" /\ pc'[r] = "write"
    BY <1>19 DEF DestroySession
  <2>2. \A q \in Requests \ {r} : /\ pc'[q] = pc[q] /\ answer'[q] = answer[q]
                                  /\ copy'[q] = copy[q]
    BY <1>19 DEF DestroySession
  <2> QED
    BY <2>1, <2>2
<1>20. ASSUME NEW r \in Requests, KeepAliveFails(r) PROVE HasCopy'
  BY <1>20 DEF KeepAliveFails
<1>21. ASSUME NEW r \in Requests, Crash(r) PROVE HasCopy'
  BY <1>21 DEF Crash, NoWork
<1>22. CASE ExpireLock
  BY <1>22 DEF ExpireLock
<1>23. CASE Tick
  BY <1>23 DEF Tick
<1>24. CASE UNCHANGED vars
  BY <1>24 DEF vars
<1> QED
  BY <1>1, <1>2, <1>3, <1>4, <1>5, <1>6, <1>7, <1>8, <1>9, <1>10, <1>11,
       <1>12, <1>13, <1>14, <1>15, <1>16, <1>17, <1>18, <1>19, <1>20, <1>21,
       <1>22, <1>23, <1>24 DEF Next, Step, Middleware, Route

\* The lock and the fence name only requests that took them.
LEMMA OwnershipStep ==
    TypeOK /\ Ownership /\ [Next]_vars => Ownership'
<1> SUFFICES ASSUME TypeOK, Ownership, [Next]_vars
             PROVE  Ownership'
  OBVIOUS
<1> USE ConstantsAssumption, NoneAssumption
      DEF TypeOK, Ownership, Goto, Tell, redis, history
<1>1. ASSUME NEW r \in Requests, AcquireSessionMutex(r) PROVE Ownership'
  BY <1>1 DEF AcquireSessionMutex
<1>2. ASSUME NEW r \in Requests, AcquireTimeout(r) PROVE Ownership'
  BY <1>2 DEF AcquireTimeout
<1>3. ASSUME NEW r \in Requests, LoadFound(r) PROVE Ownership'
  BY <1>3 DEF LoadFound
<1>4. ASSUME NEW r \in Requests, LoadMissing(r) PROVE Ownership'
  BY <1>4 DEF LoadMissing
<1>5. ASSUME NEW r \in Requests, LoadError(r) PROVE Ownership'
  BY <1>5 DEF LoadError
<1>6. ASSUME NEW r \in Requests, ActivateFence(r) PROVE Ownership'
  BY <1>6 DEF ActivateFence, Activate, ActivateApplies, Untouched
<1>7. ASSUME NEW r \in Requests, CommitAndWrite(r) PROVE Ownership'
  BY <1>7 DEF CommitAndWrite, Commit, CommitApplies, Untouched
<1>8. ASSUME NEW r \in Requests, StopLease(r) PROVE Ownership'
  BY <1>8 DEF StopLease
<1>9. ASSUME NEW r \in Requests, Unlock(r) PROVE Ownership'
  BY <1>9 DEF Unlock
<1>10. ASSUME NEW r \in Requests, PlainRoute(r) PROVE Ownership'
  BY <1>10 DEF PlainRoute
<1>11. ASSUME NEW r \in Requests, Logout(r) PROVE Ownership'
  BY <1>11 DEF Logout
<1>12. ASSUME NEW r \in Requests, AuthenticatedPrincipal(r) PROVE Ownership'
  BY <1>12 DEF AuthenticatedPrincipal, FreshEnough, InRetryWindow
<1>13. ASSUME NEW r \in Requests, RefreshReload(r) PROVE Ownership'
  BY <1>13 DEF RefreshReload, FreshEnough, InRetryWindow
<1>14. ASSUME NEW r \in Requests, ProviderAnswers(r) PROVE Ownership'
  BY <1>14 DEF ProviderAnswers
<1>15. ASSUME NEW r \in Requests, ExchangeReturns(r) PROVE Ownership'
  BY <1>15 DEF ExchangeReturns
<1>16. ASSUME NEW r \in Requests, SyncSession(r) PROVE Ownership'
  BY <1>16 DEF SyncSession, Commit, CommitApplies, Untouched
<1>17. ASSUME NEW r \in Requests, SyncChecks(r) PROVE Ownership'
  BY <1>17 DEF SyncChecks, StillAlive
<1>18. ASSUME NEW r \in Requests, Reactivate(r) PROVE Ownership'
  BY <1>18 DEF Reactivate, Activate, ActivateApplies, Untouched
<1>19. ASSUME NEW r \in Requests, DestroySession(r) PROVE Ownership'
  BY <1>19 DEF DestroySession, Delete, DeleteApplies, Untouched
<1>20. ASSUME NEW r \in Requests, KeepAliveFails(r) PROVE Ownership'
  BY <1>20 DEF KeepAliveFails
<1>21. ASSUME NEW r \in Requests, Crash(r) PROVE Ownership'
  BY <1>21 DEF Crash, NoWork
<1>22. CASE ExpireLock
  BY <1>22 DEF ExpireLock
<1>23. CASE Tick
  BY <1>23 DEF Tick
<1>24. CASE UNCHANGED vars
  BY <1>24 DEF vars
<1> QED
  BY <1>1, <1>2, <1>3, <1>4, <1>5, <1>6, <1>7, <1>8, <1>9, <1>10, <1>11,
       <1>12, <1>13, <1>14, <1>15, <1>16, <1>17, <1>18, <1>19, <1>20, <1>21,
       <1>22, <1>23, <1>24 DEF Next, Step, Middleware, Route

\* No step makes the copy of a fenced lock owner stale.
LEMMA CurrentStep ==
    TypeOK /\ Ownership /\ FencedCopyIsCurrent /\ [Next]_vars => FencedCopyIsCurrent'
<1> SUFFICES ASSUME TypeOK, Ownership, FencedCopyIsCurrent, [Next]_vars
             PROVE  FencedCopyIsCurrent'
  OBVIOUS
<1> USE ConstantsAssumption, NoneAssumption
      DEF TypeOK, Ownership, FencedCopyIsCurrent, Goto, Tell, redis, history
<1>1. ASSUME NEW r \in Requests, AcquireSessionMutex(r) PROVE FencedCopyIsCurrent'
  BY <1>1 DEF AcquireSessionMutex
<1>2. ASSUME NEW r \in Requests, AcquireTimeout(r) PROVE FencedCopyIsCurrent'
  BY <1>2 DEF AcquireTimeout
<1>3. ASSUME NEW r \in Requests, LoadFound(r) PROVE FencedCopyIsCurrent'
  BY <1>3 DEF LoadFound
<1>4. ASSUME NEW r \in Requests, LoadMissing(r) PROVE FencedCopyIsCurrent'
  BY <1>4 DEF LoadMissing
<1>5. ASSUME NEW r \in Requests, LoadError(r) PROVE FencedCopyIsCurrent'
  BY <1>5 DEF LoadError
<1>6. ASSUME NEW r \in Requests, ActivateFence(r) PROVE FencedCopyIsCurrent'
  BY <1>6 DEF ActivateFence, Activate, ActivateApplies, Untouched
<1>7. ASSUME NEW r \in Requests, CommitAndWrite(r) PROVE FencedCopyIsCurrent'
  BY <1>7 DEF CommitAndWrite, Commit, CommitApplies, Untouched
<1>8. ASSUME NEW r \in Requests, StopLease(r) PROVE FencedCopyIsCurrent'
  BY <1>8 DEF StopLease
<1>9. ASSUME NEW r \in Requests, Unlock(r) PROVE FencedCopyIsCurrent'
  BY <1>9 DEF Unlock
<1>10. ASSUME NEW r \in Requests, PlainRoute(r) PROVE FencedCopyIsCurrent'
  BY <1>10 DEF PlainRoute
<1>11. ASSUME NEW r \in Requests, Logout(r) PROVE FencedCopyIsCurrent'
  BY <1>11 DEF Logout
<1>12. ASSUME NEW r \in Requests, AuthenticatedPrincipal(r) PROVE FencedCopyIsCurrent'
  BY <1>12 DEF AuthenticatedPrincipal, FreshEnough, InRetryWindow
<1>13. ASSUME NEW r \in Requests, RefreshReload(r) PROVE FencedCopyIsCurrent'
  BY <1>13 DEF RefreshReload, FreshEnough, InRetryWindow
<1>14. ASSUME NEW r \in Requests, ProviderAnswers(r) PROVE FencedCopyIsCurrent'
  BY <1>14 DEF ProviderAnswers
<1>15. ASSUME NEW r \in Requests, ExchangeReturns(r) PROVE FencedCopyIsCurrent'
  BY <1>15 DEF ExchangeReturns
<1>16. ASSUME NEW r \in Requests, SyncSession(r) PROVE FencedCopyIsCurrent'
  BY <1>16 DEF SyncSession, Commit, CommitApplies, Untouched
<1>17. ASSUME NEW r \in Requests, SyncChecks(r) PROVE FencedCopyIsCurrent'
  BY <1>17 DEF SyncChecks, StillAlive
<1>18. ASSUME NEW r \in Requests, Reactivate(r) PROVE FencedCopyIsCurrent'
  BY <1>18 DEF Reactivate, Activate, ActivateApplies, Untouched
<1>19. ASSUME NEW r \in Requests, DestroySession(r) PROVE FencedCopyIsCurrent'
  BY <1>19 DEF DestroySession, Delete, DeleteApplies, Untouched
<1>20. ASSUME NEW r \in Requests, KeepAliveFails(r) PROVE FencedCopyIsCurrent'
  BY <1>20 DEF KeepAliveFails
<1>21. ASSUME NEW r \in Requests, Crash(r) PROVE FencedCopyIsCurrent'
  BY <1>21 DEF Crash, NoWork
<1>22. CASE ExpireLock
  BY <1>22 DEF ExpireLock
<1>23. CASE Tick
  BY <1>23 DEF Tick
<1>24. CASE UNCHANGED vars
  BY <1>24 DEF vars
<1> QED
  BY <1>1, <1>2, <1>3, <1>4, <1>5, <1>6, <1>7, <1>8, <1>9, <1>10, <1>11,
       <1>12, <1>13, <1>14, <1>15, <1>16, <1>17, <1>18, <1>19, <1>20, <1>21,
       <1>22, <1>23, <1>24 DEF Next, Step, Middleware, Route

\* No step brings a destroyed session back.
LEMMA EndedStep ==
    TypeOK /\ FencedCopyIsCurrent /\ EndedIsFinal /\ [Next]_vars => EndedIsFinal'
<1> SUFFICES ASSUME TypeOK, FencedCopyIsCurrent, EndedIsFinal, [Next]_vars
             PROVE  EndedIsFinal'
  OBVIOUS
<1> USE ConstantsAssumption, NoneAssumption
      DEF TypeOK, FencedCopyIsCurrent, EndedIsFinal, Goto, Tell, redis, history
<1>1. ASSUME NEW r \in Requests, AcquireSessionMutex(r) PROVE EndedIsFinal'
  BY <1>1 DEF AcquireSessionMutex
<1>2. ASSUME NEW r \in Requests, AcquireTimeout(r) PROVE EndedIsFinal'
  BY <1>2 DEF AcquireTimeout
<1>3. ASSUME NEW r \in Requests, LoadFound(r) PROVE EndedIsFinal'
  BY <1>3 DEF LoadFound
<1>4. ASSUME NEW r \in Requests, LoadMissing(r) PROVE EndedIsFinal'
  BY <1>4 DEF LoadMissing
<1>5. ASSUME NEW r \in Requests, LoadError(r) PROVE EndedIsFinal'
  BY <1>5 DEF LoadError
<1>6. ASSUME NEW r \in Requests, ActivateFence(r) PROVE EndedIsFinal'
  BY <1>6 DEF ActivateFence, Activate, ActivateApplies, Untouched
<1>7. ASSUME NEW r \in Requests, CommitAndWrite(r) PROVE EndedIsFinal'
  BY <1>7 DEF CommitAndWrite, Commit, CommitApplies, Untouched
<1>8. ASSUME NEW r \in Requests, StopLease(r) PROVE EndedIsFinal'
  BY <1>8 DEF StopLease
<1>9. ASSUME NEW r \in Requests, Unlock(r) PROVE EndedIsFinal'
  BY <1>9 DEF Unlock
<1>10. ASSUME NEW r \in Requests, PlainRoute(r) PROVE EndedIsFinal'
  BY <1>10 DEF PlainRoute
<1>11. ASSUME NEW r \in Requests, Logout(r) PROVE EndedIsFinal'
  BY <1>11 DEF Logout
<1>12. ASSUME NEW r \in Requests, AuthenticatedPrincipal(r) PROVE EndedIsFinal'
  BY <1>12 DEF AuthenticatedPrincipal, FreshEnough, InRetryWindow
<1>13. ASSUME NEW r \in Requests, RefreshReload(r) PROVE EndedIsFinal'
  BY <1>13 DEF RefreshReload, FreshEnough, InRetryWindow
<1>14. ASSUME NEW r \in Requests, ProviderAnswers(r) PROVE EndedIsFinal'
  BY <1>14 DEF ProviderAnswers
<1>15. ASSUME NEW r \in Requests, ExchangeReturns(r) PROVE EndedIsFinal'
  BY <1>15 DEF ExchangeReturns
<1>16. ASSUME NEW r \in Requests, SyncSession(r) PROVE EndedIsFinal'
  BY <1>16 DEF SyncSession, Commit, CommitApplies, Untouched
<1>17. ASSUME NEW r \in Requests, SyncChecks(r) PROVE EndedIsFinal'
  BY <1>17 DEF SyncChecks, StillAlive
<1>18. ASSUME NEW r \in Requests, Reactivate(r) PROVE EndedIsFinal'
  BY <1>18 DEF Reactivate, Activate, ActivateApplies, Untouched
<1>19. ASSUME NEW r \in Requests, DestroySession(r) PROVE EndedIsFinal'
  BY <1>19 DEF DestroySession, Delete, DeleteApplies, Untouched
<1>20. ASSUME NEW r \in Requests, KeepAliveFails(r) PROVE EndedIsFinal'
  BY <1>20 DEF KeepAliveFails
<1>21. ASSUME NEW r \in Requests, Crash(r) PROVE EndedIsFinal'
  BY <1>21 DEF Crash, NoWork
<1>22. CASE ExpireLock
  BY <1>22 DEF ExpireLock
<1>23. CASE Tick
  BY <1>23 DEF Tick
<1>24. CASE UNCHANGED vars
  BY <1>24 DEF vars
<1> QED
  BY <1>1, <1>2, <1>3, <1>4, <1>5, <1>6, <1>7, <1>8, <1>9, <1>10, <1>11,
       <1>12, <1>13, <1>14, <1>15, <1>16, <1>17, <1>18, <1>19, <1>20, <1>21,
       <1>22, <1>23, <1>24 DEF Next, Step, Middleware, Route

\* No step takes a request to an answer out of order.
LEMMA OrderStep ==
    TypeOK /\ HasCopy /\ RefreshOrder /\ [Next]_vars => RefreshOrder'
<1> SUFFICES ASSUME TypeOK, HasCopy, RefreshOrder, [Next]_vars
             PROVE  RefreshOrder'
  OBVIOUS
<1> USE ConstantsAssumption, NoneAssumption
      DEF TypeOK, HasCopy, RefreshOrder, Goto, Tell, redis, history
<1>1. ASSUME NEW r \in Requests, AcquireSessionMutex(r) PROVE RefreshOrder'
  BY <1>1 DEF AcquireSessionMutex
<1>2. ASSUME NEW r \in Requests, AcquireTimeout(r) PROVE RefreshOrder'
  BY <1>2 DEF AcquireTimeout
<1>3. ASSUME NEW r \in Requests, LoadFound(r) PROVE RefreshOrder'
  BY <1>3 DEF LoadFound
<1>4. ASSUME NEW r \in Requests, LoadMissing(r) PROVE RefreshOrder'
  BY <1>4 DEF LoadMissing
<1>5. ASSUME NEW r \in Requests, LoadError(r) PROVE RefreshOrder'
  BY <1>5 DEF LoadError
<1>6. ASSUME NEW r \in Requests, ActivateFence(r) PROVE RefreshOrder'
  BY <1>6 DEF ActivateFence, Activate, ActivateApplies, Untouched
<1>7. ASSUME NEW r \in Requests, CommitAndWrite(r) PROVE RefreshOrder'
  BY <1>7 DEF CommitAndWrite, Commit, CommitApplies, Untouched
<1>8. ASSUME NEW r \in Requests, StopLease(r) PROVE RefreshOrder'
  BY <1>8 DEF StopLease
<1>9. ASSUME NEW r \in Requests, Unlock(r) PROVE RefreshOrder'
  BY <1>9 DEF Unlock
<1>10. ASSUME NEW r \in Requests, PlainRoute(r) PROVE RefreshOrder'
  BY <1>10 DEF PlainRoute
<1>11. ASSUME NEW r \in Requests, Logout(r) PROVE RefreshOrder'
  BY <1>11 DEF Logout
<1>12. ASSUME NEW r \in Requests, AuthenticatedPrincipal(r) PROVE RefreshOrder'
  <2>1. /\ work[r].rt = 0 /\ copy' = copy /\ work' = work
        /\ copy[r] # None => copy[r].rt >= 0
    BY <1>12 DEF AuthenticatedPrincipal, Sessions
  <2>2. pc'[r] \in {"write", "destroy", "reload"} /\ (answer'[r] = "ok" => pc'[r] = "write" /\ copy[r] # None)
    BY <1>12 DEF AuthenticatedPrincipal
  <2>3. \A q \in Requests \ {r} : pc'[q] = pc[q] /\ answer'[q] = answer[q]
    BY <1>12 DEF AuthenticatedPrincipal
  <2> QED
    BY <2>1, <2>2, <2>3
<1>13. ASSUME NEW r \in Requests, RefreshReload(r) PROVE RefreshOrder'
  BY <1>13 DEF RefreshReload, FreshEnough, InRetryWindow
<1>14. ASSUME NEW r \in Requests, ProviderAnswers(r) PROVE RefreshOrder'
  BY <1>14 DEF ProviderAnswers
<1>15. ASSUME NEW r \in Requests, ExchangeReturns(r) PROVE RefreshOrder'
  BY <1>15 DEF ExchangeReturns
<1>16. ASSUME NEW r \in Requests, SyncSession(r) PROVE RefreshOrder'
  <2>1. /\ copy'[r] = StorePrincipal(r) /\ work' = work
        /\ pc'[r] \in {"synced", "write"}
        /\ answer'[r] # "ok"
        /\ \A q \in Requests \ {r} : /\ copy'[q] = copy[q] /\ pc'[q] = pc[q]
                                      /\ answer'[q] = answer[q]
    BY <1>16 DEF SyncSession
  <2>2. copy[r] \in Sessions
    BY <1>16 DEF SyncSession
  <2>3. StorePrincipal(r).rt = work[r].rt /\ StorePrincipal(r).till <= Deadline
    BY <2>2 DEF StorePrincipal, Sessions, Expiry
  <2> QED
    BY <2>1, <2>3
<1>17. ASSUME NEW r \in Requests, SyncChecks(r) PROVE RefreshOrder'
  BY <1>17 DEF SyncChecks, StillAlive
<1>18. ASSUME NEW r \in Requests, Reactivate(r) PROVE RefreshOrder'
  BY <1>18 DEF Reactivate, Activate, ActivateApplies, Untouched
<1>19. ASSUME NEW r \in Requests, DestroySession(r) PROVE RefreshOrder'
  BY <1>19 DEF DestroySession, Delete, DeleteApplies, Untouched
<1>20. ASSUME NEW r \in Requests, KeepAliveFails(r) PROVE RefreshOrder'
  BY <1>20 DEF KeepAliveFails
<1>21. ASSUME NEW r \in Requests, Crash(r) PROVE RefreshOrder'
  BY <1>21 DEF Crash, NoWork
<1>22. CASE ExpireLock
  BY <1>22 DEF ExpireLock
<1>23. CASE Tick
  BY <1>23 DEF Tick
<1>24. CASE UNCHANGED vars
  BY <1>24 DEF vars
<1> QED
  BY <1>1, <1>2, <1>3, <1>4, <1>5, <1>6, <1>7, <1>8, <1>9, <1>10, <1>11,
       <1>12, <1>13, <1>14, <1>15, <1>16, <1>17, <1>18, <1>19, <1>20, <1>21,
       <1>22, <1>23, <1>24 DEF Next, Step, Middleware, Route

\* No step stores, or loads, a token older than one answered with.
LEMMA RotationStep ==
    TypeOK /\ HasCopy /\ FencedCopyIsCurrent /\ RefreshOrder /\ RotationKept /\ [Next]_vars => RotationKept'
<1> SUFFICES ASSUME TypeOK, HasCopy, FencedCopyIsCurrent, RefreshOrder, RotationKept, [Next]_vars
             PROVE  RotationKept'
  OBVIOUS
<1> USE ConstantsAssumption, NoneAssumption
      DEF TypeOK, HasCopy, FencedCopyIsCurrent, RefreshOrder, RotationKept, Answered,
          Goto, Tell, redis, history
<1>1. ASSUME NEW r \in Requests, AcquireSessionMutex(r) PROVE RotationKept'
  BY <1>1 DEF AcquireSessionMutex
<1>2. ASSUME NEW r \in Requests, AcquireTimeout(r) PROVE RotationKept'
  BY <1>2 DEF AcquireTimeout
<1>3. ASSUME NEW r \in Requests, LoadFound(r) PROVE RotationKept'
  BY <1>3 DEF LoadFound
<1>4. ASSUME NEW r \in Requests, LoadMissing(r) PROVE RotationKept'
  BY <1>4 DEF LoadMissing
<1>5. ASSUME NEW r \in Requests, LoadError(r) PROVE RotationKept'
  BY <1>5 DEF LoadError
<1>6. ASSUME NEW r \in Requests, ActivateFence(r) PROVE RotationKept'
  BY <1>6 DEF ActivateFence, Activate, ActivateApplies, Untouched
<1>7. ASSUME NEW r \in Requests, CommitAndWrite(r) PROVE RotationKept'
  <2>1. /\ pc' = [pc EXCEPT ![r] = "stop"] /\ copy' = copy /\ work' = work
        /\ \A q \in Requests \ {r} : answer'[q] = answer[q]
        /\ pc[r] = "write" /\ answer'[r] \in {answer[r], "unavailable"}
    BY <1>7 DEF CommitAndWrite
  <2>2. \/ Untouched /\ answer'[r] # "ok"
        \/ /\ copy[r] # None /\ lock = r /\ fence = r /\ current' = {r}
           /\ session' \in {None, [copy[r] EXCEPT !.till = Expiry]}
    BY <1>7 DEF CommitAndWrite, Commit, CommitApplies
  <2>3. CASE Untouched /\ answer'[r] # "ok"
    BY <2>1, <2>3 DEF Untouched
  <2>4. CASE /\ copy[r] # None /\ lock = r /\ fence = r /\ current' = {r}
             /\ session' \in {None, [copy[r] EXCEPT !.till = Expiry]}
    <3>1. r \in current /\ copy[r] \in Sessions
      BY <2>4
    <3>2. session' # None => session'.rt = copy[r].rt
      BY <2>4, <3>1 DEF Sessions
    <3>3. ASSUME NEW q \in Requests, Answered(q)'
          PROVE  copy[r].rt >= work[q].rt
      BY <2>1, <2>4, <3>1, <3>3
    <3>4. pc'[r] = "stop"
      BY <2>1
    <3> QED
      BY <2>1, <2>4, <3>2, <3>3, <3>4
  <2> QED
    BY <2>2, <2>3, <2>4
<1>8. ASSUME NEW r \in Requests, StopLease(r) PROVE RotationKept'
  BY <1>8 DEF StopLease
<1>9. ASSUME NEW r \in Requests, Unlock(r) PROVE RotationKept'
  BY <1>9 DEF Unlock
<1>10. ASSUME NEW r \in Requests, PlainRoute(r) PROVE RotationKept'
  BY <1>10 DEF PlainRoute
<1>11. ASSUME NEW r \in Requests, Logout(r) PROVE RotationKept'
  BY <1>11 DEF Logout
<1>12. ASSUME NEW r \in Requests, AuthenticatedPrincipal(r) PROVE RotationKept'
  BY <1>12 DEF AuthenticatedPrincipal, FreshEnough, InRetryWindow
<1>13. ASSUME NEW r \in Requests, RefreshReload(r) PROVE RotationKept'
  BY <1>13 DEF RefreshReload, FreshEnough, InRetryWindow
<1>14. ASSUME NEW r \in Requests, ProviderAnswers(r) PROVE RotationKept'
  BY <1>14 DEF ProviderAnswers
<1>15. ASSUME NEW r \in Requests, ExchangeReturns(r) PROVE RotationKept'
  BY <1>15 DEF ExchangeReturns
<1>16. ASSUME NEW r \in Requests, SyncSession(r) PROVE RotationKept'
  <2>1. /\ copy' = [copy EXCEPT ![r] = StorePrincipal(r)] /\ work' = work
        /\ pc[r] = "sync" /\ pc'[r] \in {"synced", "write"}
        /\ \A q \in Requests \ {r} : answer'[q] = answer[q] /\ pc'[q] = pc[q]
    BY <1>16 DEF SyncSession
  <2>2. copy[r] \in Sessions
    BY <1>16 DEF SyncSession
  <2>3. StorePrincipal(r).rt = work[r].rt
    BY <2>2 DEF StorePrincipal, Sessions
  <2>4. ~Answered(r)' /\ \A q \in Requests \ {r} : Answered(q)' <=> Answered(q)
    BY <2>1
  <2>5. CASE Untouched
    BY <2>1, <2>3, <2>4, <2>5 DEF Untouched
  <2>6. CASE ~Untouched
    <3>1. /\ lock = r /\ fence = r /\ current' = {r}
          /\ session' \in {None, StorePrincipal(r)}
      BY <1>16, <2>6 DEF SyncSession, Commit, CommitApplies
    <3>2. r \in current
      BY <3>1
    <3> QED
      BY <2>1, <2>3, <2>4, <3>1, <3>2
  <2> QED
    BY <2>5, <2>6
<1>17. ASSUME NEW r \in Requests, SyncChecks(r) PROVE RotationKept'
  BY <1>17 DEF SyncChecks, StillAlive
<1>18. ASSUME NEW r \in Requests, Reactivate(r) PROVE RotationKept'
  BY <1>18 DEF Reactivate, Activate, ActivateApplies, Untouched
<1>19. ASSUME NEW r \in Requests, DestroySession(r) PROVE RotationKept'
  BY <1>19 DEF DestroySession, Delete, DeleteApplies, Untouched
<1>20. ASSUME NEW r \in Requests, KeepAliveFails(r) PROVE RotationKept'
  BY <1>20 DEF KeepAliveFails
<1>21. ASSUME NEW r \in Requests, Crash(r) PROVE RotationKept'
  BY <1>21 DEF Crash, NoWork
<1>22. CASE ExpireLock
  BY <1>22 DEF ExpireLock
<1>23. CASE Tick
  BY <1>23 DEF Tick
<1>24. CASE UNCHANGED vars
  BY <1>24 DEF vars
<1> QED
  BY <1>1, <1>2, <1>3, <1>4, <1>5, <1>6, <1>7, <1>8, <1>9, <1>10, <1>11,
       <1>12, <1>13, <1>14, <1>15, <1>16, <1>17, <1>18, <1>19, <1>20, <1>21,
       <1>22, <1>23, <1>24 DEF Next, Step, Middleware, Route
-----------------------------------------------------------------------------
(* The theorems.                                                           *)

\* A stored session nobody is using yet satisfies the invariant.
LEMMA InvInit == Init => Inv
<1> SUFFICES ASSUME Init PROVE Inv
  OBVIOUS
<1>1. session \in Sessions
  <2>1. Expiry \in Nat
    BY ConstantsAssumption DEF Init, Expiry
  <2> QED
    BY <2>1, ConstantsAssumption DEF Init, Sessions
<1> QED
  BY <1>1, NoneAssumption DEF Init, Inv, TypeOK, HasCopy, Ownership,
     FencedCopyIsCurrent, EndedIsFinal, RefreshOrder, RotationKept, Answered,
     NoWork, Labels, Answers, Kinds

\* Every step preserves the invariant.
LEMMA InvNext == Inv /\ [Next]_vars => Inv'
BY TypeStep, CopyStep, OwnershipStep, CurrentStep, EndedStep, OrderStep, RotationStep DEF Inv

\* The invariant holds in every reachable state.
THEOREM Invariance == Spec => []Inv
<1> QED
  BY InvInit, InvNext, PTL DEF Spec

\* Every variable keeps its type, for any set of requests and any durations.
THEOREM TypeCorrect == Spec => []TypeOK
<1>1. Inv => TypeOK
  BY DEF Inv
<1> QED
  BY <1>1, Invariance, PTL

\* A session destroyed by the delete script is never in the store again,
\* whatever locks expire, leases are lost, pods crash and replies are lost.
THEOREM DestroyedStaysDestroyed == Spec => []NoResurrection
<1>1. Inv => NoResurrection
  BY DEF Inv, EndedIsFinal, NoResurrection
<1> QED
  BY <1>1, Invariance, PTL

\* A refresh token answered with is never replaced by an older one in the
\* store, whatever requests lose their lock, crash or find the session expired.
THEOREM RotationStaysDurable == Spec => []RotationIsDurable
<1>1. Inv => RotationIsDurable
  BY DEF Inv, RotationKept, Answered, RotationIsDurable
<1> QED
  BY <1>1, Invariance, PTL

\* Only claims and a session that are live at that moment are vouched for,
\* however long the exchange and the commit before it took.
THEOREM VouchesForTheLiving == Spec => AuthorityIsLive
<1>1. Inv /\ [Next]_vars
        => [\A r \in Requests :
               answer[r] # "ok" /\ answer'[r] = "ok"
                   => copy[r].exp > now /\ Deadline > now]_vars
  <2> SUFFICES ASSUME Inv, [Next]_vars, NEW r \in Requests,
                      answer[r] # "ok", answer'[r] = "ok"
               PROVE  copy[r].exp > now /\ Deadline > now
    OBVIOUS
  <2> USE ConstantsAssumption DEF Inv, TypeOK, Tell
  <2>1. ASSUME NEW q \in Requests, AuthenticatedPrincipal(q)
        PROVE  copy[r].exp > now /\ Deadline > now
    <3>1. q = r /\ copy[r] \in Sessions
      BY <2>1 DEF AuthenticatedPrincipal
    <3>2. copy[r].exp \in Nat
      BY <3>1 DEF Sessions
    <3>3. Deadline > now /\ (FreshEnough(copy[r]) \/ InRetryWindow(copy[r]))
      BY <2>1, <3>1 DEF AuthenticatedPrincipal
    <3> QED
      BY <3>2, <3>3 DEF FreshEnough, InRetryWindow
  <2>2. ASSUME NEW q \in Requests, SyncChecks(q)
        PROVE  copy[r].exp > now /\ Deadline > now
    <3>1. q = r /\ pc[r] = "synced" /\ StillAlive(copy[r])
      BY <2>2 DEF SyncChecks
    <3>2. copy[r] \in Sessions /\ copy[r].till <= Deadline
      BY <3>1 DEF HasCopy, RefreshOrder
    <3> QED
      BY <3>1, <3>2 DEF StillAlive, Sessions
  <2>3. ASSUME NEW q \in Requests, Middleware(q) PROVE FALSE
    BY <2>3 DEF Middleware, AcquireSessionMutex, AcquireTimeout, LoadFound,
       LoadMissing, LoadError, ActivateFence, CommitAndWrite, StopLease, Unlock
  <2>4. ASSUME NEW q \in Requests,
               \/ PlainRoute(q) \/ Logout(q) \/ RefreshReload(q)
               \/ ProviderAnswers(q) \/ ExchangeReturns(q) \/ SyncSession(q)
               \/ Reactivate(q) \/ DestroySession(q)
        PROVE  FALSE
    BY <2>4 DEF PlainRoute, Logout, RefreshReload, ProviderAnswers,
       ExchangeReturns, SyncSession, Reactivate, DestroySession
  <2>5. ASSUME NEW q \in Requests, KeepAliveFails(q) \/ Crash(q) PROVE FALSE
    BY <2>5 DEF KeepAliveFails, Crash
  <2>6. ~ExpireLock /\ ~Tick /\ ~UNCHANGED vars
    BY DEF ExpireLock, Tick, vars
  <2> QED
    BY <2>1, <2>2, <2>3, <2>4, <2>5, <2>6 DEF Next, Step, Route
<1> QED
  BY <1>1, Invariance, PTL DEF Spec, AuthorityIsLive

\* No response leaves as authenticated once the session is destroyed.
THEOREM NoOkAfterDestruction == Spec => NoOkAfterEnd
<1>1. Inv /\ [Next]_vars
        => [\A r \in Requests :
               pc[r] = "write" /\ pc'[r] = "stop" /\ answer'[r] = "ok"
                   => ~ended]_vars
  <2> SUFFICES ASSUME Inv, [Next]_vars, NEW r \in Requests,
                      pc[r] = "write", pc'[r] = "stop", answer'[r] = "ok"
               PROVE  ~ended
    OBVIOUS
  <2>1. CommitAndWrite(r)
    <3> USE DEF Inv, TypeOK, Goto
    <3>1. ASSUME NEW q \in Requests, CommitAndWrite(q) PROVE q = r
      BY <3>1 DEF CommitAndWrite
    <3>2. ASSUME NEW q \in Requests, Middleware(q) PROVE CommitAndWrite(q)
      BY <3>2 DEF Middleware, AcquireSessionMutex, AcquireTimeout, LoadFound,
         LoadMissing, LoadError, ActivateFence, StopLease, Unlock
    <3>3. ASSUME NEW q \in Requests, Route(q) PROVE FALSE
      <4>1. /\ ~PlainRoute(q) /\ ~Logout(q) /\ ~AuthenticatedPrincipal(q)
            /\ ~RefreshReload(q)
        BY DEF PlainRoute, Logout, AuthenticatedPrincipal, RefreshReload
      <4>2. ~ProviderAnswers(q) /\ ~ExchangeReturns(q)
        BY DEF ProviderAnswers, ExchangeReturns
      <4>3. ~SyncSession(q) /\ ~SyncChecks(q)
        BY DEF SyncSession, SyncChecks
      <4>4. ~Reactivate(q) /\ ~DestroySession(q)
        BY DEF Reactivate, DestroySession
      <4> QED
        BY <3>3, <4>1, <4>2, <4>3, <4>4 DEF Route
    <3>4. ASSUME NEW q \in Requests, KeepAliveFails(q) \/ Crash(q) PROVE FALSE
      BY <3>4 DEF KeepAliveFails, Crash
    <3>5. ~ExpireLock /\ ~Tick /\ ~UNCHANGED vars
      BY DEF ExpireLock, Tick, vars
    <3> QED
      BY <3>1, <3>2, <3>3, <3>4, <3>5 DEF Next, Step
  <2>2. copy[r] # None
    BY <2>1 DEF CommitAndWrite, Inv, HasCopy, TypeOK, Tell
  <2>3. CommitApplies(r)
    BY <2>1, <2>2 DEF CommitAndWrite, Commit, Tell, Inv, TypeOK
  <2> QED
    BY <2>3 DEF CommitApplies, Inv, FencedCopyIsCurrent, EndedIsFinal
<1> QED
  BY <1>1, Invariance, PTL DEF Spec, NoOkAfterEnd

\* The protocol implements the register: a commit or a delete that takes
\* effect is a compare-and-set on the last stored session, and an ended
\* session stays absent.
THEOREM FenceImplementsRegister == Spec => ImplementsRegister
<1>1. Init => Register!Init
  <2> SUFFICES ASSUME Init PROVE Register!Init
    OBVIOUS
  <2>1. Inv
    BY InvInit
  <2> QED
    BY <2>1 DEF Init, Inv, TypeOK, Register!Init
<1>2. Inv /\ [Next]_vars => [Register!Next]_(Register!avars)
  <2> SUFFICES ASSUME Inv, Inv', [Next]_vars
               PROVE  [Register!Next]_(Register!avars)
    BY InvNext
  <2> USE DEF Register!Next, Register!avars, history, redis
  <2>1. ASSUME NEW r \in Requests, LoadFound(r) PROVE Register!Next
    BY <2>1 DEF LoadFound, Register!Read
  <2>2. ASSUME NEW r \in Requests, NEW s \in Sessions, NEW ok \in BOOLEAN,
               Commit(r, s, ok)
        PROVE  Register!Next \/ UNCHANGED Register!avars
    BY <2>2 DEF Commit, CommitApplies, Untouched, Register!Write, Inv, TypeOK,
       FencedCopyIsCurrent, EndedIsFinal
  <2>3. ASSUME NEW r \in Requests, NEW ok \in BOOLEAN, Delete(r, ok)
        PROVE  Register!Next \/ UNCHANGED Register!avars
    BY <2>3 DEF Delete, DeleteApplies, Untouched, Register!End, Inv,
       FencedCopyIsCurrent
  <2>4. ASSUME NEW r \in Requests, NEW ok \in BOOLEAN, Activate(r, ok)
        PROVE  UNCHANGED Register!avars
    BY <2>4 DEF Activate, Untouched
  <2>5. ASSUME NEW r \in Requests, CommitAndWrite(r)
        PROVE  Register!Next \/ UNCHANGED Register!avars
    <3>1. CASE Untouched
      BY <3>1 DEF Untouched
    <3>2. ASSUME NEW ok \in BOOLEAN, copy[r] # None,
                 Commit(r, [copy[r] EXCEPT !.till = Expiry], ok)
          PROVE  Register!Next \/ UNCHANGED Register!avars
      <4>1. now \in Nat /\ copy[r] \in Sessions
        BY <3>2 DEF Inv, TypeOK
      <4>2. [copy[r] EXCEPT !.till = Expiry] \in Sessions
        BY <4>1, ExpiryType
      <4> QED
        BY <2>2, <3>2, <4>2
    <3> QED
      BY <2>5, <3>1, <3>2 DEF CommitAndWrite
  <2>6. ASSUME NEW r \in Requests, SyncSession(r)
        PROVE  Register!Next \/ UNCHANGED Register!avars
    <3>1. StorePrincipal(r) \in Sessions
      BY <2>6, StoredType DEF SyncSession, Inv, HasCopy
    <3> QED
      BY <2>2, <2>6, <3>1 DEF SyncSession
  <2>7. ASSUME NEW r \in Requests, DestroySession(r)
        PROVE  Register!Next \/ UNCHANGED Register!avars
    BY <2>3, <2>7 DEF DestroySession
  <2>8. ASSUME NEW r \in Requests, ActivateFence(r) \/ Reactivate(r)
        PROVE  UNCHANGED Register!avars
    BY <2>4, <2>8 DEF ActivateFence, Reactivate
  <2>9. CASE Tick
    BY <2>9 DEF Tick, Register!Expire
  <2>10. ASSUME NEW r \in Requests,
                \/ AcquireSessionMutex(r) \/ AcquireTimeout(r)
                \/ LoadMissing(r) \/ LoadError(r) \/ StopLease(r) \/ Unlock(r)
                \/ PlainRoute(r) \/ Logout(r) \/ AuthenticatedPrincipal(r)
                \/ RefreshReload(r) \/ ProviderAnswers(r) \/ ExchangeReturns(r)
                \/ SyncChecks(r) \/ KeepAliveFails(r) \/ Crash(r)
         PROVE  UNCHANGED Register!avars
    BY <2>10 DEF AcquireSessionMutex, AcquireTimeout, LoadMissing, LoadError,
       StopLease, Unlock, PlainRoute, Logout, AuthenticatedPrincipal,
       RefreshReload, ProviderAnswers, ExchangeReturns, SyncChecks,
       KeepAliveFails, Crash
  <2>11. CASE ExpireLock \/ UNCHANGED vars
    BY <2>11 DEF ExpireLock, vars
  <2> QED
    BY <2>1, <2>5, <2>6, <2>7, <2>8, <2>9, <2>10, <2>11
       DEF Next, Step, Middleware, Route
<1> QED
  BY <1>1, <1>2, Invariance, PTL DEF Spec, ImplementsRegister, Register!Spec
=============================================================================
