------------------------ MODULE KeyringManagerProofs ------------------------
(***************************************************************************)
(* Proofs about KeyringManager for any number of callers, any set of keys  *)
(* and any sequence of files: the keyring in use is whole and never goes   *)
(* back, Close is final for reloads and for the poller, and every verdict  *)
(* on an attestation was given by a keyring no older than the call.  Then  *)
(* about ServerLifecycle: the process stops in order.  Then about          *)
(* VaultEnvelope, the values sealed for a caller: what opens one, and to   *)
(* what.                                                                   *)
(***************************************************************************)
EXTENDS KeyringManager, ServerLifecycle, VaultEnvelope, FunctionTheorems, FiniteSetTheorems,
        SequenceTheorems, WellFoundedInduction, TLAPS

-----------------------------------------------------------------------------
(* The inductive invariant.                                                *)

\* Reloads are serialised from the check to the store, and what one of them
\* has read is no older than what the last one installed.
Serialised ==
    /\ confirmed.seq <= file.seq
    /\ \A t \in Threads :
          /\ pc[t] \in {"check", "read", "compare", "store"} => reloadMu = t
          /\ pc[t] \in {"compare", "store"} =>
                /\ data[t] # None
                /\ data[t].doc # Unreadable
                /\ confirmed.seq <= data[t].seq
                /\ data[t].seq <= file.seq
          /\ pc[t] = "store" => Parse(data[t].doc)

\* What a call of Close knows of the poller it waits for.
PollerLife ==
    /\ pc[Poller] = "off" => ~started
    /\ done => pc[Poller] = "exited"
    /\ ~started => pc[Poller] = "off"
    /\ \A t \in Callers :
          /\ pc[t] = "returning" => closed /\ ~started
          /\ pc[t] = "waiting" => closed
          /\ answer[t] = "closed" => closed /\ (started => done)

\* What users of the keyring have in hand.
Users ==
    \A t \in Callers :
        /\ floor[t] <= confirmed.seq
        /\ pc[t] \notin {"verified", "done"} => answer[t] = "none"
        /\ pc[t] = "signing" => data[t] # None /\ Parse(data[t].doc)
        /\ \/ pc[t] = "verified" /\ ~closed
           \/ pc[t] = "done" /\ answer[t] \in Verdicts
           => /\ data[t] # None
              /\ data[t].seq >= floor[t]
              /\ answer[t] = Verdict(data[t].doc, kid[t])

Inv == /\ TypeOK
       /\ SnapshotIsWhole
       /\ Serialised
       /\ PollerLife
       /\ Users

-----------------------------------------------------------------------------
(* Facts about the operators.                                              *)

\* A keyring that Parse accepts has a key to sign with.
LEMMA ActiveKIDType ==
    ASSUME NEW doc, Parse(doc)
    PROVE  ActiveKID(doc) \in Keys
BY DEF Parse, ActiveKID

\* A counter that wraps stays below its size.
LEMMA CounterType ==
    ASSUME NEW n \in Nat
    PROVE  (n + 1) % CounterSize \in 0..CounterSize - 1
BY KeyringAssumption

\* Verify's verdict is one of three.
LEMMA VerdictType ==
    ASSUME NEW doc, NEW k
    PROVE  Verdict(doc, k) \in Verdicts
BY DEF Verdict, Verdicts

-----------------------------------------------------------------------------
(* One lemma per conjunct, one step per action.                            *)

\* Every step keeps the types.
LEMMA TypeStep ==
    TypeOK /\ SnapshotIsWhole /\ Serialised /\ Users /\ [Next]_vars =>
         TypeOK'
<1> SUFFICES ASSUME TypeOK, SnapshotIsWhole, Serialised, Users, [Next]_vars
             PROVE  TypeOK'
  OBVIOUS
<1> USE KeyringAssumption
      DEF TypeOK, Labels, Answers, Files, Threads, Goto, Tell, lifecycle,
           counters, locals
<1>1. ASSUME NEW t \in Threads, LockReload(t)
      PROVE  TypeOK'
  BY <1>1 DEF LockReload
<1>2. ASSUME NEW t \in Threads, CheckClosed(t)
      PROVE  TypeOK'
  BY <1>2 DEF CheckClosed, Return, After
<1>3. ASSUME NEW t \in Threads, ReadBoundedFile(t)
      PROVE  TypeOK'
  BY <1>3, CounterType DEF ReadBoundedFile, Return, After, RejectReload
<1>4. ASSUME NEW t \in Threads, CompareAndParse(t)
      PROVE  TypeOK'
  BY <1>4, CounterType DEF CompareAndParse, Return, After, RejectReload,
       Serialised
<1>5. ASSUME NEW t \in Threads, StoreSnapshot(t)
      PROVE  TypeOK'
  BY <1>5, CounterType DEF StoreSnapshot, Return, After, Serialised
<1>6. ASSUME NEW t \in Callers, Call(t)
      PROVE  TypeOK'
  BY <1>6 DEF Call
<1>7. ASSUME NEW t \in Callers, Start(t)
      PROVE  TypeOK'
  <2>1. pc' \in [Threads -> Labels]
    BY <1>7 DEF Start
  <2>2. started' \in BOOLEAN
    BY <1>7, Zenon DEF Start
  <2>3. answer' \in [Threads -> Answers]
    BY <1>7 DEF Start
  <2> QED
    BY <1>7, <2>1, <2>2, <2>3 DEF Start
<1>8. ASSUME NEW t \in Callers, Close(t)
      PROVE  TypeOK'
  BY <1>8 DEF Close
<1>9. ASSUME NEW t \in Callers, CloseReturns(t)
      PROVE  TypeOK'
  BY <1>9 DEF CloseReturns
<1>10. ASSUME NEW t \in Callers, Ready(t)
      PROVE  TypeOK'
  BY <1>10 DEF Ready
<1>11. ASSUME NEW t \in Callers, SignTakesSnapshot(t)
      PROVE  TypeOK'
  BY <1>11 DEF SignTakesSnapshot, ReadySnapshot
<1>12. ASSUME NEW t \in Callers, SignReturns(t)
      PROVE  TypeOK'
  BY <1>12, ActiveKIDType DEF SignReturns, Users
<1>13. ASSUME NEW t \in Callers, Resolve(t)
      PROVE  TypeOK'
  <2>1. PICK k \in Keys :
           /\ kid' = [kid EXCEPT ![t] = k]
           /\ answer' = [answer EXCEPT ![t] =
                  IF closed THEN "unknown_key" ELSE Verdict(snapshot, k)]
    BY <1>13 DEF Resolve
  <2>2. Verdict(snapshot, k) \in Answers
    BY VerdictType
  <2>3. answer' \in [Threads -> Answers]
    BY <2>1, <2>2 DEF Verdicts
  <2>4. kid' \in [Threads -> Keys \cup {None}]
    BY <2>1
  <2> QED
    BY <1>13, <2>3, <2>4 DEF Resolve, ReadySnapshot
<1>14. ASSUME NEW t \in Callers, VerifyReturns(t)
      PROVE  TypeOK'
  BY <1>14 DEF VerifyReturns
<1>15. ASSUME PollerTick
      PROVE  TypeOK'
  BY <1>15 DEF PollerTick
<1>16. ASSUME PollerStops
      PROVE  TypeOK'
  BY <1>16 DEF PollerStops
<1>17. ASSUME PollerExits
      PROVE  TypeOK'
  BY <1>17 DEF PollerExits
<1>18. ASSUME NEW doc \in Documents, WriteFile(doc)
      PROVE  TypeOK'
  BY <1>18 DEF WriteFile
<1>19. ASSUME CancelContext
      PROVE  TypeOK'
  BY <1>19 DEF CancelContext
<1>20. CASE UNCHANGED vars
  BY <1>20 DEF vars
<1> QED
  BY <1>1, <1>2, <1>3, <1>4, <1>5, <1>6, <1>7, <1>8, <1>9, <1>10, <1>11,
       <1>12, <1>13, <1>14, <1>15, <1>16, <1>17, <1>18, <1>19, <1>20 DEF
       Next, Reload, CallStep, PollerStep

\* Every step installs a whole keyring or none.
LEMMA WholeStep ==
    TypeOK /\ SnapshotIsWhole /\ Serialised /\ [Next]_vars =>
         SnapshotIsWhole'
<1> SUFFICES ASSUME TypeOK, SnapshotIsWhole, Serialised, [Next]_vars
             PROVE  SnapshotIsWhole'
  OBVIOUS
<1> USE KeyringAssumption
      DEF TypeOK, SnapshotIsWhole, Threads, Goto, Tell, lifecycle, counters,
           locals
<1>1. ASSUME NEW t \in Threads, LockReload(t)
      PROVE  SnapshotIsWhole'
  BY <1>1 DEF LockReload
<1>2. ASSUME NEW t \in Threads, CheckClosed(t)
      PROVE  SnapshotIsWhole'
  BY <1>2 DEF CheckClosed, Return, After
<1>3. ASSUME NEW t \in Threads, ReadBoundedFile(t)
      PROVE  SnapshotIsWhole'
  BY <1>3 DEF ReadBoundedFile, Return, After, RejectReload
<1>4. ASSUME NEW t \in Threads, CompareAndParse(t)
      PROVE  SnapshotIsWhole'
  BY <1>4 DEF CompareAndParse, Return, After, RejectReload, Serialised
<1>5. ASSUME NEW t \in Threads, StoreSnapshot(t)
      PROVE  SnapshotIsWhole'
  BY <1>5 DEF StoreSnapshot, Return, After, Serialised, Parse
<1>6. ASSUME NEW t \in Callers, Call(t)
      PROVE  SnapshotIsWhole'
  BY <1>6 DEF Call
<1>7. ASSUME NEW t \in Callers, Start(t)
      PROVE  SnapshotIsWhole'
  BY <1>7 DEF Start
<1>8. ASSUME NEW t \in Callers, Close(t)
      PROVE  SnapshotIsWhole'
  BY <1>8 DEF Close
<1>9. ASSUME NEW t \in Callers, CloseReturns(t)
      PROVE  SnapshotIsWhole'
  BY <1>9 DEF CloseReturns
<1>10. ASSUME NEW t \in Callers, Ready(t)
      PROVE  SnapshotIsWhole'
  BY <1>10 DEF Ready
<1>11. ASSUME NEW t \in Callers, SignTakesSnapshot(t)
      PROVE  SnapshotIsWhole'
  BY <1>11 DEF SignTakesSnapshot, ReadySnapshot
<1>12. ASSUME NEW t \in Callers, SignReturns(t)
      PROVE  SnapshotIsWhole'
  BY <1>12 DEF SignReturns
<1>13. ASSUME NEW t \in Callers, Resolve(t)
      PROVE  SnapshotIsWhole'
  BY <1>13 DEF Resolve, ReadySnapshot
<1>14. ASSUME NEW t \in Callers, VerifyReturns(t)
      PROVE  SnapshotIsWhole'
  BY <1>14 DEF VerifyReturns
<1>15. ASSUME PollerTick
      PROVE  SnapshotIsWhole'
  BY <1>15 DEF PollerTick
<1>16. ASSUME PollerStops
      PROVE  SnapshotIsWhole'
  BY <1>16 DEF PollerStops
<1>17. ASSUME PollerExits
      PROVE  SnapshotIsWhole'
  BY <1>17 DEF PollerExits
<1>18. ASSUME NEW doc \in Documents, WriteFile(doc)
      PROVE  SnapshotIsWhole'
  BY <1>18 DEF WriteFile
<1>19. ASSUME CancelContext
      PROVE  SnapshotIsWhole'
  BY <1>19 DEF CancelContext
<1>20. CASE UNCHANGED vars
  BY <1>20 DEF vars
<1> QED
  BY <1>1, <1>2, <1>3, <1>4, <1>5, <1>6, <1>7, <1>8, <1>9, <1>10, <1>11,
       <1>12, <1>13, <1>14, <1>15, <1>16, <1>17, <1>18, <1>19, <1>20 DEF
       Next, Reload, CallStep, PollerStep

\* No reload is overtaken between its read and its store.
LEMMA SerialStep ==
    TypeOK /\ SnapshotIsWhole /\ Serialised /\ [Next]_vars => Serialised'
<1> SUFFICES ASSUME TypeOK, SnapshotIsWhole, Serialised, [Next]_vars
             PROVE  Serialised'
  OBVIOUS
<1> USE KeyringAssumption
      DEF TypeOK, Serialised, Files, Threads, Goto, Tell, lifecycle,
           counters, locals
<1>1. ASSUME NEW t \in Threads, LockReload(t)
      PROVE  Serialised'
  BY <1>1 DEF LockReload
<1>2. ASSUME NEW t \in Threads, CheckClosed(t)
      PROVE  Serialised'
  BY <1>2 DEF CheckClosed, Return, After
<1>3. ASSUME NEW t \in Threads, ReadBoundedFile(t)
      PROVE  Serialised'
  BY <1>3 DEF ReadBoundedFile, Return, After, RejectReload
<1>4. ASSUME NEW t \in Threads, CompareAndParse(t)
      PROVE  Serialised'
  BY <1>4 DEF CompareAndParse, Return, After, RejectReload
<1>5. ASSUME NEW t \in Threads, StoreSnapshot(t)
      PROVE  Serialised'
  BY <1>5 DEF StoreSnapshot, Return, After
<1>6. ASSUME NEW t \in Callers, Call(t)
      PROVE  Serialised'
  BY <1>6 DEF Call
<1>7. ASSUME NEW t \in Callers, Start(t)
      PROVE  Serialised'
  BY <1>7 DEF Start
<1>8. ASSUME NEW t \in Callers, Close(t)
      PROVE  Serialised'
  BY <1>8 DEF Close
<1>9. ASSUME NEW t \in Callers, CloseReturns(t)
      PROVE  Serialised'
  BY <1>9 DEF CloseReturns
<1>10. ASSUME NEW t \in Callers, Ready(t)
      PROVE  Serialised'
  BY <1>10 DEF Ready
<1>11. ASSUME NEW t \in Callers, SignTakesSnapshot(t)
      PROVE  Serialised'
  BY <1>11 DEF SignTakesSnapshot, ReadySnapshot
<1>12. ASSUME NEW t \in Callers, SignReturns(t)
      PROVE  Serialised'
  BY <1>12 DEF SignReturns
<1>13. ASSUME NEW t \in Callers, Resolve(t)
      PROVE  Serialised'
  BY <1>13 DEF Resolve, ReadySnapshot
<1>14. ASSUME NEW t \in Callers, VerifyReturns(t)
      PROVE  Serialised'
  BY <1>14 DEF VerifyReturns
<1>15. ASSUME PollerTick
      PROVE  Serialised'
  BY <1>15 DEF PollerTick
<1>16. ASSUME PollerStops
      PROVE  Serialised'
  BY <1>16 DEF PollerStops
<1>17. ASSUME PollerExits
      PROVE  Serialised'
  BY <1>17 DEF PollerExits
<1>18. ASSUME NEW doc \in Documents, WriteFile(doc)
      PROVE  Serialised'
  BY <1>18 DEF WriteFile
<1>19. ASSUME CancelContext
      PROVE  Serialised'
  BY <1>19 DEF CancelContext
<1>20. CASE UNCHANGED vars
  BY <1>20 DEF vars
<1> QED
  BY <1>1, <1>2, <1>3, <1>4, <1>5, <1>6, <1>7, <1>8, <1>9, <1>10, <1>11,
       <1>12, <1>13, <1>14, <1>15, <1>16, <1>17, <1>18, <1>19, <1>20 DEF
       Next, Reload, CallStep, PollerStep

\* No step leaves a poller behind a finished Close.
LEMMA PollerStepKeeps ==
    TypeOK /\ PollerLife /\ Users /\ [Next]_vars => PollerLife'
<1> SUFFICES ASSUME TypeOK, PollerLife, Users, [Next]_vars
             PROVE  PollerLife'
  OBVIOUS
<1> USE KeyringAssumption
      DEF TypeOK, PollerLife, Threads, Goto, Tell, lifecycle, counters,
           locals
<1>1. ASSUME NEW t \in Threads, LockReload(t)
      PROVE  PollerLife'
  BY <1>1 DEF LockReload
<1>2. ASSUME NEW t \in Threads, CheckClosed(t)
      PROVE  PollerLife'
  BY <1>2 DEF CheckClosed, Return, After
<1>3. ASSUME NEW t \in Threads, ReadBoundedFile(t)
      PROVE  PollerLife'
  BY <1>3 DEF ReadBoundedFile, Return, After, RejectReload
<1>4. ASSUME NEW t \in Threads, CompareAndParse(t)
      PROVE  PollerLife'
  BY <1>4 DEF CompareAndParse, Return, After, RejectReload
<1>5. ASSUME NEW t \in Threads, StoreSnapshot(t)
      PROVE  PollerLife'
  BY <1>5 DEF StoreSnapshot, Return, After
<1>6. ASSUME NEW t \in Callers, Call(t)
      PROVE  PollerLife'
  BY <1>6 DEF Call
<1>7. ASSUME NEW t \in Callers, Start(t)
      PROVE  PollerLife'
  BY <1>7 DEF Start
<1>8. ASSUME NEW t \in Callers, Close(t)
      PROVE  PollerLife'
  BY <1>8 DEF Close
<1>9. ASSUME NEW t \in Callers, CloseReturns(t)
      PROVE  PollerLife'
  BY <1>9 DEF CloseReturns
<1>10. ASSUME NEW t \in Callers, Ready(t)
      PROVE  PollerLife'
  BY <1>10 DEF Ready
<1>11. ASSUME NEW t \in Callers, SignTakesSnapshot(t)
      PROVE  PollerLife'
  BY <1>11 DEF SignTakesSnapshot, ReadySnapshot
<1>12. ASSUME NEW t \in Callers, SignReturns(t)
      PROVE  PollerLife'
  BY <1>12 DEF SignReturns
<1>13. ASSUME NEW t \in Callers, Resolve(t)
      PROVE  PollerLife'
  BY <1>13, VerdictType DEF Resolve, ReadySnapshot, Users, Verdicts
<1>14. ASSUME NEW t \in Callers, VerifyReturns(t)
      PROVE  PollerLife'
  BY <1>14 DEF VerifyReturns
<1>15. ASSUME PollerTick
      PROVE  PollerLife'
  BY <1>15 DEF PollerTick
<1>16. ASSUME PollerStops
      PROVE  PollerLife'
  BY <1>16 DEF PollerStops
<1>17. ASSUME PollerExits
      PROVE  PollerLife'
  BY <1>17 DEF PollerExits
<1>18. ASSUME NEW doc \in Documents, WriteFile(doc)
      PROVE  PollerLife'
  BY <1>18 DEF WriteFile
<1>19. ASSUME CancelContext
      PROVE  PollerLife'
  BY <1>19 DEF CancelContext
<1>20. CASE UNCHANGED vars
  BY <1>20 DEF vars
<1> QED
  BY <1>1, <1>2, <1>3, <1>4, <1>5, <1>6, <1>7, <1>8, <1>9, <1>10, <1>11,
       <1>12, <1>13, <1>14, <1>15, <1>16, <1>17, <1>18, <1>19, <1>20 DEF
       Next, Reload, CallStep, PollerStep

\* No step spoils what a user of the keyring has in hand.
LEMMA UserStep ==
    TypeOK /\ SnapshotIsWhole /\ Serialised /\ Users /\ [Next]_vars =>
         Users'
<1> SUFFICES ASSUME TypeOK, SnapshotIsWhole, Serialised, Users, [Next]_vars
             PROVE  Users'
  OBVIOUS
<1> USE KeyringAssumption
      DEF TypeOK, Users, Files, Threads, Goto, Tell, lifecycle, counters,
           locals
<1>1. ASSUME NEW t \in Threads, LockReload(t)
      PROVE  Users'
  BY <1>1 DEF LockReload
<1>2. ASSUME NEW t \in Threads, CheckClosed(t)
      PROVE  Users'
  BY <1>2 DEF CheckClosed, Return, After, Verdicts
<1>3. ASSUME NEW t \in Threads, ReadBoundedFile(t)
      PROVE  Users'
  BY <1>3 DEF ReadBoundedFile, Return, After, RejectReload, Verdicts
<1>4. ASSUME NEW t \in Threads, CompareAndParse(t)
      PROVE  Users'
  BY <1>4 DEF CompareAndParse, Return, After, RejectReload, Serialised,
       Verdicts
<1>5. ASSUME NEW t \in Threads, StoreSnapshot(t)
      PROVE  Users'
  BY <1>5 DEF StoreSnapshot, Return, After, Serialised, Verdicts
<1>6. ASSUME NEW t \in Callers, Call(t)
      PROVE  Users'
  BY <1>6 DEF Call
<1>7. ASSUME NEW t \in Callers, Start(t)
      PROVE  Users'
  BY <1>7 DEF Start, Verdicts
<1>8. ASSUME NEW t \in Callers, Close(t)
      PROVE  Users'
  BY <1>8 DEF Close
<1>9. ASSUME NEW t \in Callers, CloseReturns(t)
      PROVE  Users'
  BY <1>9 DEF CloseReturns, Verdicts
<1>10. ASSUME NEW t \in Callers, Ready(t)
      PROVE  Users'
  BY <1>10 DEF Ready, Verdicts
<1>11. ASSUME NEW t \in Callers, SignTakesSnapshot(t)
      PROVE  Users'
  BY <1>11 DEF SignTakesSnapshot, ReadySnapshot, SnapshotIsWhole, Parse,
       Verdicts
<1>12. ASSUME NEW t \in Callers, SignReturns(t)
      PROVE  Users'
  BY <1>12 DEF SignReturns, Verdicts
<1>13. ASSUME NEW t \in Callers, Resolve(t)
      PROVE  Users'
  BY <1>13 DEF Resolve, ReadySnapshot, SnapshotIsWhole
<1>14. ASSUME NEW t \in Callers, VerifyReturns(t)
      PROVE  Users'
  BY <1>14 DEF VerifyReturns, Verdicts
<1>15. ASSUME PollerTick
      PROVE  Users'
  BY <1>15 DEF PollerTick
<1>16. ASSUME PollerStops
      PROVE  Users'
  BY <1>16 DEF PollerStops
<1>17. ASSUME PollerExits
      PROVE  Users'
  BY <1>17 DEF PollerExits
<1>18. ASSUME NEW doc \in Documents, WriteFile(doc)
      PROVE  Users'
  BY <1>18 DEF WriteFile
<1>19. ASSUME CancelContext
      PROVE  Users'
  BY <1>19 DEF CancelContext
<1>20. CASE UNCHANGED vars
  BY <1>20 DEF vars
<1> QED
  BY <1>1, <1>2, <1>3, <1>4, <1>5, <1>6, <1>7, <1>8, <1>9, <1>10, <1>11,
       <1>12, <1>13, <1>14, <1>15, <1>16, <1>17, <1>18, <1>19, <1>20 DEF
       Next, Reload, CallStep, PollerStep

-----------------------------------------------------------------------------
(* The theorems.                                                           *)

\* A manager just created satisfies the invariant.
LEMMA InvInit == Init => Inv
<1> SUFFICES ASSUME Init PROVE Inv
  OBVIOUS
<1> USE KeyringAssumption DEF Init, Threads
<1>1. TypeOK
  <2>1. file \in Files /\ confirmed \in Files /\ snapshot \in Documents
    BY DEF Files
  <2>2. pc \in [Threads -> Labels]
    BY DEF Labels
  <2>3. answer \in [Threads -> Answers]
    BY DEF Answers
  <2>4. /\ closed \in BOOLEAN /\ started \in BOOLEAN
        /\ stop \in BOOLEAN /\ done \in BOOLEAN
        /\ cancelled \in BOOLEAN
    BY Zenon
  <2>5. /\ reloadMu \in Threads \cup {None}
        /\ successes \in 0..CounterSize - 1
        /\ failures \in 0..CounterSize - 1
        /\ floor \in [Threads -> Nat]
    OBVIOUS
  <2>6. /\ data \in [Threads -> Files \cup {None}]
        /\ kid \in [Threads -> Keys \cup {None}]
    OBVIOUS
  <2> QED
    BY <2>1, <2>2, <2>3, <2>4, <2>5, <2>6, Zenon DEF TypeOK
<1>2. SnapshotIsWhole
  BY DEF SnapshotIsWhole, Parse
<1>3. Serialised
  BY DEF Serialised
<1>4. PollerLife
  BY DEF PollerLife
<1>5. Users
  BY DEF Users, Verdicts
<1> QED
  BY <1>1, <1>2, <1>3, <1>4, <1>5 DEF Inv

\* Every step preserves the invariant.
LEMMA InvNext == Inv /\ [Next]_vars => Inv'
BY TypeStep, WholeStep, SerialStep, PollerStepKeeps, UserStep DEF Inv

\* The invariant holds in every reachable state.
THEOREM Invariance == Spec => []Inv
<1> QED
  BY InvInit, InvNext, PTL DEF Spec

\* Every variable keeps its type.
THEOREM TypeCorrect == Spec => []TypeOK
<1>1. Inv => TypeOK
  BY DEF Inv
<1> QED
  BY <1>1, Invariance, PTL

\* A rejected file changes nothing: the keyring in use is always a whole one,
\* the last that a reload accepted.
THEOREM KeyringIsWhole == Spec => []SnapshotIsWhole
<1>1. Inv => SnapshotIsWhole
  BY DEF Inv
<1> QED
  BY <1>1, Invariance, PTL

\* No interleaving of reloads brings back an older file.
THEOREM ReloadsNeverGoBack == Spec => NoRollback
<1>1. Inv /\ [Next]_vars => [confirmed'.seq >= confirmed.seq]_vars
  <2> SUFFICES ASSUME Inv, Next PROVE confirmed'.seq >= confirmed.seq
    OBVIOUS
  <2>1. confirmed.seq \in Nat
    BY DEF Inv, TypeOK, Files
  <2>2. ASSUME NEW t \in Threads, CompareAndParse(t) \/ StoreSnapshot(t)
        PROVE  confirmed' = confirmed \/ confirmed' = data[t]
    BY <2>2 DEF CompareAndParse, StoreSnapshot, RejectReload
  <2>3. ASSUME NEW t \in Threads, CompareAndParse(t) \/ StoreSnapshot(t)
        PROVE  confirmed.seq <= data[t].seq /\ data[t].seq \in Nat
    BY <2>3 DEF CompareAndParse, StoreSnapshot, Inv, Serialised, TypeOK, Files
  <2>4. \/ UNCHANGED confirmed
        \/ \E t \in Threads : CompareAndParse(t) \/ StoreSnapshot(t)
    BY DEF Next, Reload, CallStep, PollerStep, Threads, LockReload,
       CheckClosed, ReadBoundedFile, RejectReload, Call, Start, Close,
       CloseReturns, Ready, SignTakesSnapshot, SignReturns, Resolve,
       VerifyReturns, PollerTick, PollerStops, PollerExits, WriteFile,
       CancelContext
  <2> QED
    BY <2>1, <2>2, <2>3, <2>4
<1> QED
  BY <1>1, Invariance, PTL DEF Spec, NoRollback

\* A reload that Close overtakes does not install what it read.
THEOREM CloseIsFinal == Spec => NoSwapAfterClose
<1>1. [Next]_vars => [closed => UNCHANGED <<snapshot, successes>>]_vars
  BY DEF Next, Reload, CallStep, PollerStep, LockReload, CheckClosed,
     ReadBoundedFile, CompareAndParse, StoreSnapshot, RejectReload, Call,
     Start, Close, CloseReturns, Ready, SignTakesSnapshot, SignReturns,
     Resolve, VerifyReturns, PollerTick, PollerStops, PollerExits, WriteFile,
     CancelContext, counters, vars
<1> QED
  BY <1>1, PTL DEF Spec, NoSwapAfterClose

\* A finished Close leaves no poller, whatever calls of Start raced it.
THEOREM NoPollerAfterClose == Spec => []PollerIsGone
<1>1. Inv => PollerIsGone
  BY DEF Inv, PollerLife, PollerIsGone
<1> QED
  BY <1>1, Invariance, PTL

\* Every verdict comes from a keyring that was in use during the call or
\* later than its start, never from the manager being closed.
THEOREM VerdictsAreGenuine == Spec => []VerdictIsGenuine
<1>1. Inv => VerdictIsGenuine
  BY DEF Inv, Users, VerdictIsGenuine
<1> QED
  BY <1>1, Invariance, PTL

\* What signs and judges is a whole keyring, and no poller outlives Close.
THEOREM KeyringAlwaysGenuine == Spec => []KeyringIsGenuine
<1> QED
  BY TypeCorrect, KeyringIsWhole, NoPollerAfterClose, VerdictsAreGenuine, PTL
  DEF KeyringIsGenuine

\* The keyring in use moves only forward, and not at all after Close.
THEOREM SwapsAlwaysAdvance == Spec => SwapsAdvance
<1> QED
  BY ReloadsNeverGoBack, CloseIsFinal DEF SwapsAdvance

-----------------------------------------------------------------------------
(* The process around the manager.  run() of cmd/server opens the keyring  *)
(* manager and closes it in a deferred call (ServerLifecycle): a machine   *)
(* of its own.                                                             *)

\* What the first startup steps opened.
Opened(n) == {s \in Closable : \E i \in 1..n : Steps[i] = s}

\* What startup acquired stays open until run returns.
Dependencies ==
    /\ main \in {"starting", "serving", "draining", "joining", "returned"}
    /\ acquired \in Nat
    /\ main # "returned" => open = Opened(acquired)
    /\ main \in {"serving", "draining", "joining"} => acquired = Len(Steps)

\* Which requests there are: none before serving, and no new ones once the
\* process drains, for its listener is closed and is not opened again.
Serving ==
    /\ request \in [Requests -> {"none", "running", "over"}]
    /\ main = "starting" => listener = "none" /\ Running = {}
    /\ main \in {"draining", "joining"} => signalled /\ listener # "up"

\* What run will return: an error, unless it stopped cleanly.
Reporting ==
    /\ main \in {"starting", "serving", "draining"} => result = {"none"}
    /\ main = "joining" =>
          \/ result = {"none"} /\ Running = {}
          \/ result = {"shutdown"}
    /\ main = "returned" =>
          \/ result # {}
          \/ signalled /\ listener = "closed" /\ Running = {}

ProcessInv == Dependencies /\ Serving /\ Reporting

LEMMA ProcessStarts == ASSUME ProcessInit PROVE ProcessInv
BY DEF ProcessInit, ProcessInv, Dependencies, Serving, Reporting, Opened, Running

\* The steps of main that do not change which requests run.
LEMMA RequestsStay ==
    ASSUME UNCHANGED request
    PROVE  Running' = Running
BY DEF Running

LEMMA StartupKeeps ==
    ASSUME ProcessInv, StartupFails \/ StartupStep \/ Serve
    PROVE  ProcessInv'
<1> USE DEF ProcessInv, Dependencies, Serving, Reporting
<1>1. CASE StartupFails
  BY <1>1 DEF StartupFails, ReturnFromRun
<1>2. CASE StartupStep
  <2>1. UNCHANGED <<main, listener, signalled, request, result>> /\ Running' = Running
    BY <1>2, RequestsStay DEF StartupStep
  <2>2. main = "starting" /\ acquired \in Nat /\ acquired' = acquired + 1
    BY <1>2 DEF StartupStep
  <2>3. open' = Opened(acquired) \cup ({Steps[acquired + 1]} \cap Closable)
    BY <1>2 DEF StartupStep
  <2>4. Opened(acquired + 1) = Opened(acquired) \cup ({Steps[acquired + 1]} \cap Closable)
    <3>1. \A i : i \in 1..(acquired + 1) <=> i \in 1..acquired \/ i = acquired + 1
      BY <2>2
    <3> QED
      BY <3>1, Zenon DEF Opened
  <2>5. Dependencies'
    BY <2>1, <2>2, <2>3, <2>4 DEF Opened
  <2> QED
    BY <2>1, <2>2, <2>5
<1>3. CASE Serve
  <2>1. Running' = Running
    BY <1>3, RequestsStay DEF Serve
  <2> QED
    BY <1>3, <2>1 DEF Serve, Opened
<1> QED
  BY <1>1, <1>2, <1>3

LEMMA StopKeeps ==
    ASSUME ProcessInv,
           ServeFailed \/ BeginShutdown \/ Drained \/ DrainTimesOut \/ Join
    PROVE  ProcessInv'
<1> USE DEF ProcessInv, Dependencies, Serving, Reporting
<1>0. Running' = Running
  BY RequestsStay DEF ServeFailed, BeginShutdown, Drained, DrainTimesOut, Join
<1>1. CASE ServeFailed
  BY <1>0, <1>1 DEF ServeFailed, ReturnFromRun
<1>2. CASE BeginShutdown
  BY <1>0, <1>2 DEF BeginShutdown, Opened
<1>3. CASE Drained
  BY <1>0, <1>3 DEF Drained, Opened
<1>4. CASE DrainTimesOut
  BY <1>0, <1>4 DEF DrainTimesOut, Opened
<1>5. CASE Join
  <2>1. listener = "broken" => result' # {}
    BY <1>5 DEF Join, ReturnFromRun
  <2>2. result = {"shutdown"} => result' # {}
    <3>1. "shutdown" \in result => "shutdown" \in result'
      BY <1>5 DEF Join, ReturnFromRun
    <3> QED
      BY <3>1
  <2> QED
    BY <1>0, <1>5, <2>1, <2>2 DEF Join, ReturnFromRun
<1> QED
  BY <1>1, <1>2, <1>3, <1>4, <1>5

LEMMA AroundKeeps ==
    ASSUME ProcessInv,
           \/ ListenAndServe \/ Signal \/ Tick \/ UNCHANGED processVars
           \/ \E r \in Requests : Accept(r) \/ Finish(r)
    PROVE  ProcessInv'
<1> USE DEF ProcessInv, Dependencies, Serving, Reporting
<1>1. CASE ListenAndServe
  <2>1. Running' = Running
    BY <1>1, RequestsStay DEF ListenAndServe
  <2> QED
    BY <1>1, <2>1 DEF ListenAndServe, Opened
<1>2. CASE Signal \/ Tick \/ UNCHANGED processVars
  <2>1. Running' = Running
    BY <1>2, RequestsStay DEF Signal, Tick, processVars
  <2> QED
    BY <1>2, <2>1 DEF Signal, Tick, processVars, Opened
<1>3. ASSUME NEW r \in Requests, Accept(r)
      PROVE  ProcessInv'
  <2>1. main = "serving"
    BY <1>3 DEF Accept
  <2>2. request' \in [Requests -> {"none", "running", "over"}]
    BY <1>3 DEF Accept
  <2> QED
    BY <1>3, <2>1, <2>2 DEF Accept, Opened
<1>4. ASSUME NEW r \in Requests, Finish(r)
      PROVE  ProcessInv'
  <2>1. request' \in [Requests -> {"none", "running", "over"}]
    BY <1>4 DEF Finish
  <2>2. Running' \subseteq Running
    BY <1>4 DEF Finish, Running
  <2> QED
    BY <1>4, <2>1, <2>2 DEF Finish, Opened
<1> QED
  BY <1>1, <1>2, <1>3, <1>4

\* The invariant of the process, for any startup steps and any requests.
THEOREM ProcessInvariance == ProcessSpec => []ProcessInv
<1>1. ProcessInit => ProcessInv
  BY ProcessStarts
<1>2. ProcessInv /\ [ProcessNext]_processVars => ProcessInv'
  BY StartupKeeps, StopKeeps, AroundKeeps DEF ProcessNext, Main
<1> QED
  BY <1>1, <1>2, PTL DEF ProcessSpec

\* Requests end before what they use is closed, and run reports success only
\* when nothing was cut short (the shutdown sequence and defers of run).
THEOREM StopStaysOrderly == ProcessSpec => []StopIsOrderly
<1>1. ASSUME ProcessInv
      PROVE  StopIsOrderly
  <2>1. main \in {"serving", "draining", "joining"} => open = Opened(Len(Steps))
    BY <1>1 DEF ProcessInv, Dependencies
  <2> QED
    BY <1>1, <2>1 DEF ProcessInv, Dependencies, Serving, Reporting, Opened, StopIsOrderly,
       DependenciesOutliveRequests, SuccessIsCleanStop
<1> QED
  BY <1>1, ProcessInvariance, PTL

-----------------------------------------------------------------------------
(* What joining lines gives, by induction over their number.               *)

\* A set of naturals that is not empty has a least member.
LEMMA LeastMember ==
    ASSUME NEW T, T \subseteq Nat, T # {}
    PROVE  \E x \in T : \A y \in T : x <= y
<1> DEFINE R == OpToRel(<, Nat)
<1>1. IsWellFoundedOn(R, Nat)
  BY NatLessThanWellFounded
<1>2. \A y, x \in Nat : y < x => <<y, x>> \in R
  BY Zenon DEF OpToRel
<1> HIDE DEF R
<1>3. PICK x \in T : \A y \in T : ~(<<y, x>> \in R)
  BY <1>1, WFMin
<1>4. ASSUME NEW y \in T
      PROVE  x <= y
  <2>1. y \in Nat /\ x \in Nat
    OBVIOUS
  <2>2. ~(y < x)
    BY <2>1, <1>2, <1>3, Zenon
  <2> QED
    BY <2>1, <2>2
<1> QED
  BY <1>4

\* Induction: a set that holds 0, and the successor of what it holds, holds all naturals.
LEMMA Induction ==
    ASSUME NEW S, 0 \in S, \A m \in Nat : m \in S => m + 1 \in S
    PROVE  \A m \in Nat : m \in S
<1> DEFINE T == Nat \ S
<1>1. SUFFICES ASSUME T # {} PROVE FALSE
  OBVIOUS
<1>2. T \subseteq Nat /\ \A x \in T : x \in Nat /\ x \notin S
  OBVIOUS
<1>3. \A x \in Nat : x \notin S => x \in T
  OBVIOUS
<1> HIDE DEF T
<1>4. PICK x \in T : \A y \in T : x <= y
  BY <1>1, <1>2, LeastMember
<1>5. x \in Nat /\ x # 0
  BY <1>2
<1>6. x - 1 \in Nat /\ ~(x <= x - 1)
  BY <1>5
<1>7. x - 1 \in S
  BY <1>3, <1>4, <1>6
<1>8. (x - 1) + 1 \in S
  BY <1>6, <1>7
<1>9. (x - 1) + 1 = x
  BY <1>5
<1> QED
  BY <1>2, <1>4, <1>8, <1>9

\* The prefixes of the lines, joined.
Joined(seqs) ==
    CHOOSE f : f = [i \in 1..Len(seqs) |-> IF i = 1 THEN seqs[i] ELSE f[i - 1] \o seqs[i]]

LEMMA FlattenIsJoined ==
    ASSUME NEW seqs, Len(seqs) # 0
    PROVE  FlattenSeq(seqs) = Joined(seqs)[Len(seqs)]
  BY Zenon DEF FlattenSeq, Joined

IsJoin(f, seqs, m) ==
    f = [i \in 1..m |-> IF i = 1 THEN seqs[i] ELSE f[i - 1] \o seqs[i]]

LEMMA JoinExists ==
    ASSUME NEW S, NEW seqs \in Seq(Seq(S)), NEW k \in Nat, k <= Len(seqs)
    PROVE  \E f \in [1..k -> Seq(S)] : IsJoin(f, seqs, k)
<1> DEFINE T == {m \in Nat : m <= Len(seqs) => \E f \in [1..m -> Seq(S)] : IsJoin(f, seqs, m)}
<1>1. 0 \in T
  <2>1. [i \in 1..0 |-> <<>>] \in [1..0 -> Seq(S)]
    OBVIOUS
  <2>2. IsJoin([i \in 1..0 |-> <<>>], seqs, 0)
    BY DEF IsJoin
  <2> QED
    BY <2>1, <2>2
<1>2. ASSUME NEW m \in Nat, m \in T
      PROVE  m + 1 \in T
  <2>1. SUFFICES ASSUME m + 1 <= Len(seqs)
                 PROVE  \E g \in [1..(m + 1) -> Seq(S)] : IsJoin(g, seqs, m + 1)
    OBVIOUS
  <2>2. m <= Len(seqs)
    BY <2>1
  <2>3. PICK f \in [1..m -> Seq(S)] : IsJoin(f, seqs, m)
    BY <1>2, <2>2
  <2>x. \A i \in 1..m : f[i] = IF i = 1 THEN seqs[i] ELSE f[i - 1] \o seqs[i]
    BY <2>3, Zenon DEF IsJoin
  <2> DEFINE new == IF m + 1 = 1 THEN seqs[m + 1] ELSE f[m] \o seqs[m + 1]
             g == [i \in 1..(m + 1) |-> IF i = m + 1 THEN new ELSE f[i]]
  <2>4. seqs[m + 1] \in Seq(S)
    BY <2>1
  <2>5. new \in Seq(S)
    <3>1. CASE m = 0
      BY <3>1, <2>4
    <3>2. CASE m # 0
      <4>1. f[m] \in Seq(S) /\ m + 1 # 1
        BY <3>2
      <4> QED
        BY <4>1, <2>4, ConcatProperties
    <3> QED
      BY <3>1, <3>2
  <2>7. \A i \in 1..(m + 1) : g[i] = IF i = 1 THEN seqs[i] ELSE g[i - 1] \o seqs[i]
    <3> TAKE i \in 1..(m + 1)
    <3>1. CASE i = m + 1
      <4>1. g[i] = new
        BY <3>1
      <4>2. i # 1 => g[i - 1] = f[m]
        BY <3>1
      <4>3. CASE i = 1
        BY <3>1, <4>1, <4>3
      <4>4. CASE i # 1
        <5> HIDE DEF g
        <5>1. new = f[m] \o seqs[m + 1]
          BY <3>1, <4>4
        <5> HIDE DEF new
        <5> QED
          BY <3>1, <4>1, <4>2, <4>4, <5>1
      <4> QED
        BY <4>3, <4>4
    <3>2. CASE i # m + 1
      <4>0. i \in 1..m
        BY <3>2
      <4>1. f[i] = IF i = 1 THEN seqs[i] ELSE f[i - 1] \o seqs[i]
        BY <4>0, <2>x
      <4>2. g[i] = f[i] /\ (i # 1 => g[i - 1] = f[i - 1])
        BY <3>2, <4>0
      <4> HIDE DEF g
      <4> QED
        BY <4>1, <4>2, Zenon
    <3> QED
      BY <3>1, <3>2
  <2>6. g \in [1..(m + 1) -> Seq(S)]
    <3> HIDE DEF new
    <3> QED
      BY <2>5
  <2>9. g = [i \in 1..(m + 1) |-> g[i]]
    OBVIOUS
  <2>8. IsJoin(g, seqs, m + 1)
    <3> HIDE DEF g
    <3> QED
      BY <2>7, <2>9, Zenon DEF IsJoin
  <2> HIDE DEF g
  <2> QED
    BY <2>6, <2>8
<1> HIDE DEF T
<1>3. k \in T
  BY <1>1, <1>2, Induction
<1> QED
  BY <1>3 DEF T

\* What joining does: one line after the other.
LEMMA JoinedStep ==
    ASSUME NEW S, NEW seqs \in Seq(Seq(S))
    PROVE  /\ Joined(seqs) \in [1..Len(seqs) -> Seq(S)]
           /\ \A i \in 1..Len(seqs) :
                Joined(seqs)[i] = IF i = 1 THEN seqs[i] ELSE Joined(seqs)[i - 1] \o seqs[i]
<1> DEFINE n == Len(seqs)
<1>0. n \in Nat /\ n <= n
  OBVIOUS
<1>1. PICK f \in [1..n -> Seq(S)] : IsJoin(f, seqs, n)
  BY <1>0, JoinExists
<1>2. IsJoin(Joined(seqs), seqs, n)
  BY <1>1, Zenon DEF Joined, IsJoin
<1>3. \A i \in 1..n :
         Joined(seqs)[i] = IF i = 1 THEN seqs[i] ELSE Joined(seqs)[i - 1] \o seqs[i]
  BY <1>2, Zenon DEF IsJoin
<1>4. Joined(seqs) = [i \in 1..n |-> Joined(seqs)[i]]
  BY <1>2, <1>3, Zenon DEF IsJoin
<1> DEFINE T == {m \in Nat : m \in 1..n => Joined(seqs)[m] \in Seq(S)}
<1>6. 0 \in T
  OBVIOUS
<1>7. ASSUME NEW m \in Nat, m \in T
      PROVE  m + 1 \in T
  <2>1. SUFFICES ASSUME m + 1 \in 1..n
                 PROVE  Joined(seqs)[m + 1] \in Seq(S)
    OBVIOUS
  <2>4. seqs[m + 1] \in Seq(S)
    BY <2>1
  <2>2. CASE m = 0
    <3>1. Joined(seqs)[m + 1] = seqs[m + 1]
      <4>1. m + 1 = 1
        BY <2>2
      <4> QED
        BY <2>1, <4>1, <1>3, Zenon
    <3> QED
      BY <3>1, <2>4
  <2>3. CASE m # 0
    <3>1. m \in 1..n /\ (m + 1) - 1 = m /\ m + 1 # 1
      BY <2>1, <2>3
    <3>2. Joined(seqs)[m] \in Seq(S)
      BY <1>7, <3>1
    <3>3. Joined(seqs)[m + 1] = Joined(seqs)[m] \o seqs[m + 1]
      BY <3>1, <2>1, <1>3, Zenon
    <3> QED
      BY <3>2, <3>3, <2>4, ConcatProperties
  <2> QED
    BY <2>2, <2>3
<1>8. \A m \in Nat : m \in T
  <2> HIDE DEF T
  <2> QED
    BY <1>6, <1>7, Induction
<1>9. \A i \in 1..n : Joined(seqs)[i] \in Seq(S)
  BY <1>8
<1> HIDE DEF n
<1>10. Joined(seqs) \in [1..n -> Seq(S)]
  BY <1>4, <1>9, Zenon
<1> QED
  BY <1>3, <1>10 DEF n

LEMMA FlattenType ==
    ASSUME NEW S, NEW seqs \in Seq(Seq(S))
    PROVE  FlattenSeq(seqs) \in Seq(S)
<1>1. CASE Len(seqs) = 0
  <2>1. seqs = <<>>
    BY <1>1
  <2> QED
    BY <1>1, <2>1 DEF FlattenSeq
<1>2. CASE Len(seqs) # 0
  <2>1. Len(seqs) \in 1..Len(seqs)
    BY <1>2
  <2>2. Joined(seqs)[Len(seqs)] \in Seq(S)
    BY <2>1, JoinedStep
  <2> QED
    BY <1>2, <2>2, FlattenIsJoined
<1> QED
  BY <1>1, <1>2

LEMMA FlattenEmpty == FlattenSeq(<<>>) = <<>>
  BY DEF FlattenSeq

LEMMA FlattenSingle ==
    ASSUME NEW S, NEW line \in Seq(S)
    PROVE  FlattenSeq(<<line>>) = line
<1>1. <<line>> \in Seq(Seq(S)) /\ Len(<<line>>) = 1 /\ <<line>>[1] = line
  OBVIOUS
<1>2. \A i \in 1..1 : Joined(<<line>>)[i] = IF i = 1 THEN <<line>>[i] ELSE Joined(<<line>>)[i - 1] \o <<line>>[i]
  BY <1>1, JoinedStep
<1>3. Joined(<<line>>)[1] = line
  BY <1>1, <1>2
<1>4. FlattenSeq(<<line>>) = Joined(<<line>>)[Len(<<line>>)]
  <2>1. Len(<<line>>) # 0
    BY <1>1
  <2> DEFINE l == <<line>>
  <2> HIDE DEF l
  <2>2. Len(l) # 0 => FlattenSeq(l) = Joined(l)[Len(l)]
    BY FlattenIsJoined
  <2> QED
    BY <2>1, <2>2 DEF l
<1> QED
  BY <1>1, <1>3, <1>4

LEMMA JoinedPrefix ==
    ASSUME NEW S, NEW s \in Seq(Seq(S)), NEW t \in Seq(Seq(S)), NEW k \in 1..Len(s)
    PROVE  Joined(s \o t)[k] = Joined(s)[k]
<1> DEFINE u == s \o t
           T == {m \in Nat : m \in 1..Len(s) => Joined(u)[m] = Joined(s)[m]}
<1>1. u \in Seq(Seq(S)) /\ Len(u) = Len(s) + Len(t) /\ \A i \in 1..Len(s) : u[i] = s[i]
  BY ConcatProperties
<1> HIDE DEF u
<1>2. \A i \in 1..Len(u) : Joined(u)[i] = IF i = 1 THEN u[i] ELSE Joined(u)[i - 1] \o u[i]
  BY <1>1, JoinedStep
<1>3. \A i \in 1..Len(s) : Joined(s)[i] = IF i = 1 THEN s[i] ELSE Joined(s)[i - 1] \o s[i]
  BY JoinedStep
<1>4. 0 \in T
  OBVIOUS
<1>5. ASSUME NEW m \in Nat, m \in T
      PROVE  m + 1 \in T
  <2>1. SUFFICES ASSUME m + 1 \in 1..Len(s)
                 PROVE  Joined(u)[m + 1] = Joined(s)[m + 1]
    OBVIOUS
  <2>2. m + 1 \in 1..Len(u) /\ u[m + 1] = s[m + 1]
    BY <1>1, <2>1
  <2>3. CASE m = 0
    <3>1. m + 1 = 1
      BY <2>3
    <3> QED
      BY <3>1, <2>1, <2>2, <1>2, <1>3, Zenon
  <2>4. CASE m # 0
    <3>1. m \in 1..Len(s) /\ (m + 1) - 1 = m /\ m + 1 # 1
      BY <2>1, <2>4
    <3>2. Joined(u)[m] = Joined(s)[m]
      BY <1>5, <3>1
    <3>3. Joined(u)[m + 1] = Joined(u)[m] \o u[m + 1]
      BY <3>1, <2>2, <1>2, Zenon
    <3>4. Joined(s)[m + 1] = Joined(s)[m] \o s[m + 1]
      BY <3>1, <2>1, <1>3, Zenon
    <3> QED
      BY <3>2, <3>3, <3>4, <2>2
  <2> QED
    BY <2>3, <2>4
<1>6. \A m \in Nat : m \in T
  <2> HIDE DEF T
  <2> QED
    BY <1>4, <1>5, Induction
<1>7. k \in Nat
  OBVIOUS
<1>8. Joined(u)[k] = Joined(s)[k]
  BY <1>6, <1>7
<1> QED
  BY <1>8 DEF u

\* Joining two texts joins what they join to.
LEMMA FlattenConcat ==
    ASSUME NEW S, NEW s \in Seq(Seq(S)), NEW t \in Seq(Seq(S))
    PROVE  FlattenSeq(s \o t) = FlattenSeq(s) \o FlattenSeq(t)
<1> DEFINE u == s \o t
           F == FlattenSeq(s)
           n == Len(s)
           T == {m \in Nat : m \in 1..Len(t) => Joined(u)[n + m] = F \o Joined(t)[m]}
<1>1. /\ u \in Seq(Seq(S)) /\ Len(u) = n + Len(t)
      /\ \A i \in 1..n + Len(t) : u[i] = IF i <= n THEN s[i] ELSE t[i - n]
  BY ConcatProperties
<1>0. F \in Seq(S) /\ n \in Nat
  BY FlattenType
<1>p. \A i \in 1..n : Joined(u)[i] = Joined(s)[i]
  BY JoinedPrefix
<1>f. n # 0 => F = Joined(s)[n]
  BY FlattenIsJoined
<1>e. n = 0 => s = <<>> /\ F = <<>>
  <2>1. n = 0 => s = <<>>
    OBVIOUS
  <2> QED
    BY <2>1, FlattenEmpty
<1>a. \A a, b, c \in Seq(S) : (a \o b) \o c = a \o (b \o c)
  OBVIOUS
<1> HIDE DEF u, F
<1>2. \A i \in 1..Len(u) : Joined(u)[i] = IF i = 1 THEN u[i] ELSE Joined(u)[i - 1] \o u[i]
  BY <1>1, JoinedStep
<1>3. \A i \in 1..Len(t) : Joined(t)[i] = IF i = 1 THEN t[i] ELSE Joined(t)[i - 1] \o t[i]
  BY JoinedStep
<1>t. \A i \in 1..Len(t) : Joined(t)[i] \in Seq(S) /\ t[i] \in Seq(S)
  <2>1. Joined(t) \in [1..Len(t) -> Seq(S)]
    BY JoinedStep
  <2> QED
    BY <2>1
<1>4. 0 \in T
  OBVIOUS
<1>5. ASSUME NEW m \in Nat, m \in T
      PROVE  m + 1 \in T
  <2>1. SUFFICES ASSUME m + 1 \in 1..Len(t)
                 PROVE  Joined(u)[n + (m + 1)] = F \o Joined(t)[m + 1]
    OBVIOUS
  <2>0. /\ n + (m + 1) \in 1..Len(u) /\ n + (m + 1) \in 1..n + Len(t)
        /\ (n + (m + 1)) - 1 = n + m /\ ~(n + (m + 1) <= n) /\ (n + (m + 1)) - n = m + 1
    <3>1. n \in Nat /\ Len(t) \in Nat /\ m + 1 <= Len(t) /\ Len(u) = n + Len(t)
      BY <1>0, <1>1, <2>1
    <3> HIDE DEF n
    <3> QED
      BY <3>1
  <2>2. /\ n + (m + 1) \in 1..Len(u) /\ u[n + (m + 1)] = t[m + 1]
        /\ (n + (m + 1)) - 1 = n + m
    BY <2>0, <1>1
  <2>3. CASE m = 0
    <3>1. m + 1 = 1 /\ n + m = n
      BY <2>3, <1>0
    <3>2. Joined(t)[m + 1] = t[m + 1]
      BY <3>1, <2>1, <1>3, Zenon
    <3>3. CASE n = 0
      <4>1. n + (m + 1) = 1
        BY <3>1, <3>3
      <4>2. Joined(u)[n + (m + 1)] = t[m + 1]
        BY <4>1, <2>2, <1>2, Zenon
      <4>3. F = <<>>
        BY <3>3, <1>e
      <4>4. <<>> \o t[m + 1] = t[m + 1]
        BY <2>1, <1>t, ConcatEmptySeq
      <4> QED
        BY <4>2, <4>3, <4>4, <3>2
    <3>4. CASE n # 0
      <4>1. n + (m + 1) # 1 /\ n \in 1..n
        BY <3>4, <1>0
      <4>2. Joined(u)[n + (m + 1)] = Joined(u)[n] \o t[m + 1]
        BY <4>1, <3>1, <2>2, <1>2, Zenon
      <4>3. Joined(u)[n] = F
        BY <4>1, <3>4, <1>p, <1>f
      <4> QED
        BY <4>2, <4>3, <3>2
    <3> QED
      BY <3>3, <3>4
  <2>4. CASE m # 0
    <3>1. m \in 1..Len(t) /\ (m + 1) - 1 = m /\ m + 1 # 1 /\ n + (m + 1) # 1
      BY <2>1, <2>4, <1>0
    <3>2. Joined(u)[n + m] = F \o Joined(t)[m]
      BY <1>5, <3>1
    <3>3. Joined(u)[n + (m + 1)] = Joined(u)[n + m] \o t[m + 1]
      BY <3>1, <2>2, <1>2, Zenon
    <3>4. Joined(t)[m + 1] = Joined(t)[m] \o t[m + 1]
      BY <3>1, <2>1, <1>3, Zenon
    <3>5. (F \o Joined(t)[m]) \o t[m + 1] = F \o (Joined(t)[m] \o t[m + 1])
      <4>1. Joined(t)[m] \in Seq(S) /\ t[m + 1] \in Seq(S)
        BY <1>t, <3>1, <2>1
      <4> HIDE DEF T
      <4> QED
        BY <1>0, <1>a, <4>1, Zenon
    <3> QED
      BY <3>2, <3>3, <3>4, <3>5
  <2> QED
    BY <2>3, <2>4
<1>6. \A m \in Nat : m \in T
  <2> HIDE DEF T
  <2> QED
    BY <1>4, <1>5, Induction
<1>7. CASE Len(t) = 0
  <2>1. t = <<>>
    BY <1>7
  <2>2. u = s
    BY <2>1, ConcatEmptySeq DEF u
  <2>3. FlattenSeq(t) = <<>>
    BY <2>1, FlattenEmpty
  <2>4. F \o <<>> = F
    BY <1>0, ConcatEmptySeq
  <2> QED
    BY <2>2, <2>3, <2>4 DEF u, F
<1>8. CASE Len(t) # 0
  <2>1. Len(t) \in Nat /\ Len(t) \in 1..Len(t) /\ Len(u) # 0
    BY <1>8, <1>1, <1>0
  <2>2. Joined(u)[n + Len(t)] = F \o Joined(t)[Len(t)]
    BY <2>1, <1>6
  <2>3. FlattenSeq(u) = Joined(u)[n + Len(t)]
    BY <2>1, <1>1, FlattenIsJoined
  <2>4. FlattenSeq(t) = Joined(t)[Len(t)]
    BY <1>8, FlattenIsJoined
  <2> QED
    BY <2>2, <2>3, <2>4 DEF u, F
<1> QED
  BY <1>7, <1>8

-----------------------------------------------------------------------------
(* Vault envelopes: writing a body in lines and joining them again.        *)

\* The number of lines of a body, and where a line ends.
LEMMA LinesNeeded ==
    ASSUME NEW size \in Nat
    PROVE  LET n == (size + LineWidth - 1) \div LineWidth
           IN  /\ n \in Nat
               /\ n = 0 <=> size = 0
               /\ \A k \in Nat : k < n => k * LineWidth < size
               /\ n > 0 => size - (n - 1) * LineWidth \in 1..LineWidth
<1> DEFINE a == size + LineWidth - 1
           n == a \div LineWidth
<1>1. LineWidth \in Nat /\ LineWidth # 0 /\ a \in Nat
  BY EnvelopeAssumption
<1>2. n \in Nat /\ LineWidth * n <= a /\ a < LineWidth * n + LineWidth
  <2> HIDE DEF a
  <2> QED
    BY <1>1
<1> HIDE DEF n
<1>3. n = 0 <=> size = 0
  BY <1>1, <1>2
<1>4. ASSUME NEW k \in Nat, k < n
      PROVE  k * LineWidth < size
  <2>1. (k + 1) * LineWidth <= n * LineWidth
    BY <1>1, <1>2, <1>4
  <2>2. (k + 1) * LineWidth = k * LineWidth + LineWidth /\ n * LineWidth = LineWidth * n
    BY <1>1, <1>2
  <2>3. k * LineWidth \in Nat
    BY <1>1
  <2> QED
    BY <1>1, <1>2, <2>1, <2>2, <2>3
<1>5. ASSUME n > 0
      PROVE  size - (n - 1) * LineWidth \in 1..LineWidth
  <2>1. (n - 1) \in Nat /\ n - 1 < n
    BY <1>2, <1>5
  <2>2. (n - 1) * LineWidth < size
    BY <2>1, <1>4
  <2>3. (n - 1) * LineWidth = LineWidth * n - LineWidth /\ (n - 1) * LineWidth \in Nat
    BY <1>1, <1>2, <2>1
  <2>4. LineWidth * n \in Nat
    BY <1>1, <1>2
  <2> QED
    BY <1>1, <1>2, <2>2, <2>3, <2>4
<1> QED
  BY <1>2, <1>3, <1>4, <1>5 DEF n

LineCount(body) == (Len(body) + LineWidth - 1) \div LineWidth
LineEnd(body, k) == IF k = LineCount(body) THEN Len(body) ELSE k * LineWidth
LineOf(body, k) == SubSeq(body, (k - 1) * LineWidth + 1, LineEnd(body, k))

LEMMA WrapShape ==
    ASSUME NEW header, NEW body
    PROVE  LET t == serializeVaultEnvelope(header, body)
           IN  /\ t.header = header /\ t.eol = "lf" /\ t.final = 1
               /\ t.lines = [i \in 1..LineCount(body) |-> LineOf(body, i)]
  BY DEF serializeVaultEnvelope, LineCount, LineOf, LineEnd

LEMMA LineFacts ==
    ASSUME NEW S, NEW body \in Seq(S)
    PROVE  /\ LineCount(body) \in Nat
           /\ LineCount(body) = 0 <=> body = <<>>
           /\ \A k \in 1..LineCount(body) :
                /\ LineOf(body, k) \in Seq(S)
                /\ Len(LineOf(body, k)) \in 1..LineWidth
                /\ (k - 1) * LineWidth \in Nat
                /\ (k - 1) * LineWidth < LineEnd(body, k)
                /\ LineEnd(body, k) \in 1..Len(body)
                /\ k - 1 # 0 => LineEnd(body, k - 1) = (k - 1) * LineWidth
<1> DEFINE n == LineCount(body)
<1>1. Len(body) \in Nat /\ (Len(body) = 0 <=> body = <<>>)
  OBVIOUS
<1>2. /\ n \in Nat /\ (n = 0 <=> Len(body) = 0)
      /\ \A k \in Nat : k < n => k * LineWidth < Len(body)
      /\ n > 0 => Len(body) - (n - 1) * LineWidth \in 1..LineWidth
  BY <1>1, LinesNeeded DEF LineCount
<1>w. LineWidth \in Nat /\ LineWidth # 0
  BY EnvelopeAssumption
<1>3. ASSUME NEW k \in 1..n
      PROVE  /\ LineOf(body, k) \in Seq(S)
             /\ Len(LineOf(body, k)) \in 1..LineWidth
             /\ (k - 1) * LineWidth \in Nat
             /\ (k - 1) * LineWidth < LineEnd(body, k)
             /\ LineEnd(body, k) \in 1..Len(body)
             /\ k - 1 # 0 => LineEnd(body, k - 1) = (k - 1) * LineWidth
  <2> DEFINE from == (k - 1) * LineWidth
             end == LineEnd(body, k)
  <2>1. k \in Nat /\ k - 1 \in Nat /\ k - 1 < n /\ n \in Nat
    BY <1>2
  <2>2. from \in Nat /\ from < Len(body)
    BY <2>1, <1>2, <1>w
  <2>3. k * LineWidth = from + LineWidth /\ k * LineWidth \in Nat
    BY <2>1, <1>w
  <2>4. from < end /\ end \in 1..Len(body) /\ end - from \in 1..LineWidth
    <3>1. CASE k = n
      <4>1. end = Len(body)
        BY <3>1 DEF LineEnd
      <4>2. Len(body) - from \in 1..LineWidth
        BY <3>1, <2>1, <1>2
      <4> HIDE DEF from, end
      <4> QED
        BY <4>1, <4>2, <2>2, <1>1, <1>w
    <3>2. CASE k # n
      <4>1. end = k * LineWidth
        BY <3>2 DEF LineEnd
      <4>2. k < n
        BY <3>2, <2>1
      <4>3. k * LineWidth < Len(body)
        BY <4>2, <2>1, <1>2
      <4> HIDE DEF from, end
      <4> QED
        BY <4>1, <4>3, <2>2, <2>3, <1>1, <1>w
    <3> QED
      BY <3>1, <3>2
  <2>5. k - 1 # 0 => LineEnd(body, k - 1) = from
    <3>1. k - 1 # n
      BY <2>1
    <3> QED
      BY <3>1 DEF LineEnd
  <2>6. LineOf(body, k) = SubSeq(body, from + 1, end)
    BY DEF LineOf
  <2> HIDE DEF from, end, n
  <2>7. \A i \in from + 1..end : body[i] \in S
    BY <2>2, <2>4, <1>1
  <2>8. SubSeq(body, from + 1, end) \in Seq(S) /\ Len(SubSeq(body, from + 1, end)) = end - from
    BY <2>2, <2>4, <2>7, SubSeqProperties
  <2> QED
    BY <2>2, <2>4, <2>5, <2>6, <2>8 DEF from, end
<1> QED
  BY <1>1, <1>2, <1>3

LEMMA WrapType ==
    ASSUME NEW S, NEW header, NEW body \in Seq(S)
    PROVE  LET lines == serializeVaultEnvelope(header, body).lines
           IN  /\ lines \in Seq(Seq(S))
               /\ lines = <<>> <=> body = <<>>
               /\ \A i \in DOMAIN lines : Len(lines[i]) \in 1..LineWidth
<1> DEFINE n == LineCount(body)
           lines == [i \in 1..n |-> LineOf(body, i)]
<1>1. n \in Nat /\ (n = 0 <=> body = <<>>)
  BY LineFacts
<1>2. \A i \in 1..n : LineOf(body, i) \in Seq(S) /\ Len(LineOf(body, i)) \in 1..LineWidth
  BY LineFacts
<1>3. serializeVaultEnvelope(header, body).lines = lines
  BY WrapShape
<1> HIDE DEF n
<1>4. lines \in [1..n -> Seq(S)]
  BY <1>2
<1>5. lines \in Seq(Seq(S)) /\ Len(lines) = n
  BY <1>1, <1>4
<1>6. lines = <<>> <=> n = 0
  BY <1>1, <1>5, EmptySeq
<1>7. \A i \in DOMAIN lines : Len(lines[i]) \in 1..LineWidth
  BY <1>2
<1> HIDE DEF lines
<1> QED
  BY <1>1, <1>3, <1>5, <1>6, <1>7

\* A body that is cut into lines is what the lines join to.
LEMMA WrapFlattens ==
    ASSUME NEW S, NEW header, NEW body \in Seq(S)
    PROVE  FlattenSeq(serializeVaultEnvelope(header, body).lines) = body
<1> DEFINE n == LineCount(body)
           first(k) == [i \in 1..k |-> LineOf(body, i)]
           T == {k \in Nat : k \in 1..n => FlattenSeq(first(k)) = SubSeq(body, 1, LineEnd(body, k))}
<1>1. n \in Nat /\ (n = 0 <=> body = <<>>)
  BY LineFacts
<1>2. \A k \in 1..n :
        /\ LineOf(body, k) \in Seq(S)
        /\ (k - 1) * LineWidth \in Nat
        /\ (k - 1) * LineWidth < LineEnd(body, k)
        /\ LineEnd(body, k) \in 1..Len(body)
        /\ k - 1 # 0 => LineEnd(body, k - 1) = (k - 1) * LineWidth
        /\ LineOf(body, k) = SubSeq(body, (k - 1) * LineWidth + 1, LineEnd(body, k))
  BY LineFacts DEF LineOf
<1> HIDE DEF n
<1>3. 0 \in T
  OBVIOUS
<1>4. ASSUME NEW k \in Nat, k \in T
      PROVE  k + 1 \in T
  <2>1. SUFFICES ASSUME k + 1 \in 1..n
                 PROVE  FlattenSeq(first(k + 1)) = SubSeq(body, 1, LineEnd(body, k + 1))
    OBVIOUS
  <2> DEFINE line == LineOf(body, k + 1)
             from == k * LineWidth
             end == LineEnd(body, k + 1)
  <2>2. (k + 1) - 1 = k
    OBVIOUS
  <2>3. /\ line \in Seq(S) /\ from \in Nat /\ from < end /\ end \in 1..Len(body)
        /\ k # 0 => LineEnd(body, k) = from
        /\ line = SubSeq(body, from + 1, end)
    BY <1>2, <2>1, <2>2
  <2>4. CASE k = 0
    <3>1. from = 0
      <4>1. LineWidth \in Nat
        BY EnvelopeAssumption
      <4> QED
        BY <2>4, <4>1
    <3>2. first(k + 1) = <<line>>
      <4>1. k + 1 = 1
        BY <2>4
      <4>2. first(1) = <<LineOf(body, 1)>>
        OBVIOUS
      <4> QED
        BY <4>1, <4>2
    <3>3. FlattenSeq(<<line>>) = line
      BY <2>3, FlattenSingle
    <3> HIDE DEF line, end, first, from
    <3>4. from + 1 = 1
      BY <3>1
    <3>5. FlattenSeq(first(k + 1)) = SubSeq(body, 1, end)
      BY <2>3, <3>2, <3>3, <3>4
    <3> QED
      BY <3>5 DEF end
  <2>5. CASE k # 0
    <3>1. k \in 1..n
      BY <2>1, <2>5, <1>1
    <3>2. FlattenSeq(first(k)) = SubSeq(body, 1, from)
      BY <1>4, <3>1, <2>3, <2>5
    <3>3. first(k) \in Seq(Seq(S)) /\ <<line>> \in Seq(Seq(S)) /\ Len(first(k)) = k
      <4>1. \A i \in 1..k : LineOf(body, i) \in Seq(S)
        BY <1>2, <3>1, <1>1
      <4>2. first(k) \in [1..k -> Seq(S)]
        BY <4>1
      <4> HIDE DEF line, first
      <4> QED
        BY <4>2, <2>3
    <3>4. first(k + 1) = first(k) \o <<line>>
      <4>1. first(k) \o <<line>> = [i \in 1..k + 1 |-> IF i <= k THEN first(k)[i] ELSE <<line>>[i - k]]
        <5> HIDE DEF line, first
        <5> QED
          BY <3>3
      <4>2. \A i \in 1..k + 1 : first(k + 1)[i] = IF i <= k THEN first(k)[i] ELSE <<line>>[i - k]
        <5> TAKE i \in 1..k + 1
        <5>1. CASE i <= k
          BY <5>1
        <5>2. CASE ~(i <= k)
          <6>1. i = k + 1 /\ i - k = 1
            BY <5>2
          <6> QED
            BY <5>2, <6>1
        <5> QED
          BY <5>1, <5>2
      <4> QED
        BY <4>1, <4>2, Zenon
    <3>5. FlattenSeq(first(k) \o <<line>>) = FlattenSeq(first(k)) \o FlattenSeq(<<line>>)
      <4> HIDE DEF first, line
      <4> QED
        BY <3>3, FlattenConcat
    <3>6. FlattenSeq(<<line>>) = line
      BY <2>3, FlattenSingle
    <3>7. SubSeq(body, 1, from) \o SubSeq(body, from + 1, end) = SubSeq(body, 1, end)
      <4>1. Len(body) \in Nat /\ 1 \in 1..Len(body) + 1 /\ from \in 1 - 1..Len(body) /\ end \in from..Len(body)
        <5> HIDE DEF from, end
        <5> QED
          BY <2>3
      <4> HIDE DEF from, end
      <4> QED
        BY <4>1, ConcatAdjacentSubSeq
    <3> HIDE DEF first, line, from, end
    <3> QED
      BY <2>3, <3>2, <3>4, <3>5, <3>6, <3>7 DEF end
  <2> QED
    BY <2>4, <2>5
<1>5. \A k \in Nat : k \in T
  <2> HIDE DEF T
  <2> QED
    BY <1>3, <1>4, Induction
<1>6. serializeVaultEnvelope(header, body).lines = first(n)
  BY WrapShape DEF n
<1>7. CASE n = 0
  <2>1. body = <<>> /\ first(n) = <<>>
    BY <1>1, <1>7
  <2> QED
    BY <2>1, <1>6, FlattenEmpty
<1>8. CASE n # 0
  <2>1. n \in 1..n
    BY <1>1, <1>8
  <2>2. FlattenSeq(first(n)) = SubSeq(body, 1, LineEnd(body, n))
    BY <2>1, <1>1, <1>5
  <2>3. LineEnd(body, n) = Len(body)
    BY DEF LineEnd, n
  <2>4. SubSeq(body, 1, Len(body)) = body
    BY SubSeqFull
  <2> HIDE DEF first
  <2> QED
    BY <1>6, <2>2, <2>3, <2>4
<1> QED
  BY <1>7, <1>8

\* One symbol to a line: the lines join to the body.
LEMMA SymbolLines ==
    ASSUME NEW S, NEW body \in Seq(S)
    PROVE  /\ [i \in DOMAIN body |-> <<body[i]>>] \in Seq(Seq(S))
           /\ FlattenSeq([i \in DOMAIN body |-> <<body[i]>>]) = body
<1> DEFINE n == Len(body)
           first(k) == [i \in 1..k |-> <<body[i]>>]
           T == {k \in Nat : k \in 1..n => FlattenSeq(first(k)) = SubSeq(body, 1, k)}
<1>1. n \in Nat /\ DOMAIN body = 1..n /\ \A i \in 1..n : body[i] \in S /\ <<body[i]>> \in Seq(S)
  OBVIOUS
<1>2. \A k \in Nat : k <= n => first(k) \in Seq(Seq(S)) /\ Len(first(k)) = k
  <2> SUFFICES ASSUME NEW k \in Nat, k <= n
               PROVE  first(k) \in Seq(Seq(S)) /\ Len(first(k)) = k
    OBVIOUS
  <2>1. \A i \in 1..k : <<body[i]>> \in Seq(S)
    BY <1>1
  <2>2. first(k) \in [1..k -> Seq(S)]
    BY <2>1
  <2> HIDE DEF first
  <2> QED
    BY <2>2
<1>n. n = Len(body)
  OBVIOUS
<1> HIDE DEF n
<1>3. 0 \in T
  OBVIOUS
<1>4. ASSUME NEW k \in Nat, k \in T
      PROVE  k + 1 \in T
  <2>1. SUFFICES ASSUME k + 1 \in 1..n
                 PROVE  FlattenSeq(first(k + 1)) = SubSeq(body, 1, k + 1)
    OBVIOUS
  <2> DEFINE line == <<body[k + 1]>>
  <2>2. line \in Seq(S) /\ <<line>> \in Seq(Seq(S))
    BY <2>1, <1>1
  <2>3. FlattenSeq(<<line>>) = line
    BY <2>2, FlattenSingle
  <2>4. CASE k = 0
    <3>1. k + 1 = 1
      BY <2>4
    <3>2. first(1) = <<<<body[1]>>>>
      OBVIOUS
    <3>3. SubSeq(body, 1, 1) = <<body[1]>>
      <4>1. 1 \in 1..Len(body) /\ 1 - 1 = 0
        BY <2>1, <3>1, <1>n
      <4>2. SubSeq(body, 1, 1) = SubSeq(body, 1, 1 - 1) \o <<body[1]>>
        BY <4>1, SubSeqRecursiveSecond
      <4>3. SubSeq(body, 1, 0) = <<>>
        OBVIOUS
      <4>4. <<>> \o <<body[1]>> = <<body[1]>>
        OBVIOUS
      <4> QED
        BY <4>1, <4>2, <4>3, <4>4
    <3> QED
      BY <3>1, <3>2, <3>3, <2>3
  <2>5. CASE k # 0
    <3>1. k \in 1..n /\ k <= n
      BY <2>1, <2>5, <1>1
    <3>2. FlattenSeq(first(k)) = SubSeq(body, 1, k)
      BY <1>4, <3>1
    <3>3. first(k) \in Seq(Seq(S)) /\ Len(first(k)) = k
      BY <3>1, <1>2
    <3>4. first(k + 1) = first(k) \o <<line>>
      <4>1. first(k) \o <<line>> = [i \in 1..k + 1 |-> IF i <= k THEN first(k)[i] ELSE <<line>>[i - k]]
        <5> HIDE DEF line, first
        <5> QED
          BY <3>3, <2>2
      <4>2. \A i \in 1..k + 1 : first(k + 1)[i] = IF i <= k THEN first(k)[i] ELSE <<line>>[i - k]
        <5> TAKE i \in 1..k + 1
        <5>1. CASE i <= k
          BY <5>1
        <5>2. CASE ~(i <= k)
          <6>1. i = k + 1 /\ i - k = 1
            BY <5>2
          <6> QED
            BY <5>2, <6>1
        <5> QED
          BY <5>1, <5>2
      <4> QED
        BY <4>1, <4>2, Zenon
    <3>5. FlattenSeq(first(k) \o <<line>>) = FlattenSeq(first(k)) \o FlattenSeq(<<line>>)
      <4> HIDE DEF first, line
      <4> QED
        BY <3>3, <2>2, FlattenConcat
    <3>6. SubSeq(body, 1, k) \o line = SubSeq(body, 1, k + 1)
      <4>1. 1 \in 1..Len(body) /\ k + 1 \in 1..Len(body) /\ (k + 1) - 1 = k
        BY <2>1, <1>1, <1>n
      <4>2. SubSeq(body, 1, k + 1) = SubSeq(body, 1, (k + 1) - 1) \o <<body[k + 1]>>
        BY <4>1, SubSeqRecursiveSecond
      <4> QED
        BY <4>1, <4>2
    <3> HIDE DEF first, line
    <3> QED
      BY <2>3, <3>2, <3>4, <3>5, <3>6
  <2> QED
    BY <2>4, <2>5
<1>5. \A k \in Nat : k \in T
  <2> HIDE DEF T
  <2> QED
    BY <1>3, <1>4, Induction
<1>6. [i \in DOMAIN body |-> <<body[i]>>] = first(n)
  BY <1>1
<1>7. first(n) \in Seq(Seq(S))
  BY <1>1, <1>2
<1>8. FlattenSeq(first(n)) = body
  <2>1. CASE n = 0
    <3>1. body = <<>> /\ first(n) = <<>>
      BY <2>1, <1>n
    <3> QED
      BY <3>1, FlattenEmpty
  <2>2. CASE n # 0
    <3>0. n \in 1..n /\ n \in Nat
      BY <2>2, <1>1
    <3>1. FlattenSeq(first(n)) = SubSeq(body, 1, n)
      BY <3>0, <1>5
    <3>2. SubSeq(body, 1, n) = body
      BY <1>n, SubSeqFull
    <3> QED
      BY <3>1, <3>2
  <2> QED
    BY <2>1, <2>2
<1> QED
  BY <1>6, <1>7, <1>8

-----------------------------------------------------------------------------
(* Padding, and reading a body in lower case.                              *)

LEMMA FillsBlock ==
    ASSUME NEW a \in Nat, NEW b \in Nat, b # 0
    PROVE  (a + (b - (a % b))) % b = 0
  OBVIOUS

LEMMA PadArithmetic ==
    ASSUME NEW n \in Nat
    PROVE  /\ BlockSize - (n % BlockSize) \in 1..BlockSize
           /\ (n + (BlockSize - (n % BlockSize))) % BlockSize = 0
<1>1. BlockSize \in Nat /\ BlockSize # 0
  BY EnvelopeAssumption
<1>2. n % BlockSize \in 0..BlockSize - 1
  BY <1>1
<1>4. (n + (BlockSize - (n % BlockSize))) % BlockSize = 0
  BY <1>1, FillsBlock
<1>5. BlockSize - (n % BlockSize) \in 1..BlockSize
  BY <1>1, <1>2
<1> QED
  BY <1>4, <1>5

\* Padding fills the last block and is taken off again, whatever the value ends with.
LEMMA PadUnpad ==
    ASSUME NEW value \in Seq(Nat)
    PROVE  /\ pkcs7Pad(value) \in Seq(Nat)
           /\ Len(pkcs7Pad(value)) % BlockSize = 0
           /\ Len(pkcs7Pad(value)) >= BlockSize
           /\ pkcs7Unpad(pkcs7Pad(value)) = [ok |-> TRUE, value |-> value]
<1> DEFINE n == Len(value)
           p == BlockSize - (n % BlockSize)
           tail == [i \in 1..p |-> p]
           padded == value \o tail
<1>1. n \in Nat /\ BlockSize \in Nat /\ BlockSize # 0
  BY EnvelopeAssumption
<1>2. p \in 1..BlockSize /\ (n + p) % BlockSize = 0
  BY <1>1, PadArithmetic
<1>3. pkcs7Pad(value) = padded
  BY DEF pkcs7Pad
<1> HIDE DEF p
<1>4. tail \in Seq(Nat) /\ Len(tail) = p /\ \A i \in 1..p : tail[i] = p
  <2>1. p \in Nat
    BY <1>1, <1>2
  <2>2. tail \in [1..p -> Nat]
    BY <2>1
  <2> QED
    BY <2>1, <2>2
<1> HIDE DEF tail
<1>5. /\ padded \in Seq(Nat) /\ Len(padded) = n + p
      /\ \A i \in 1..n + p : padded[i] = IF i <= n THEN value[i] ELSE tail[i - n]
  BY <1>4, ConcatProperties
<1>6. \A i \in n + 1..n + p : padded[i] = p
  <2> TAKE i \in n + 1..n + p
  <2>1. i \in 1..n + p /\ ~(i <= n) /\ i - n \in 1..p
    BY <1>1, <1>2
  <2> QED
    BY <2>1, <1>4, <1>5
<1>7. SubSeq(padded, 1, n) = value
  <2>1. \A i \in 1..n : padded[i] = value[i] /\ value[i] \in Nat
    BY <1>1, <1>2, <1>5
  <2>2. SubSeq(padded, 1, n) \in Seq(Nat) /\ Len(SubSeq(padded, 1, n)) = n
    BY <2>1, <1>1, SubSeqProperties
  <2>3. \A i \in 1..n : SubSeq(padded, 1, n)[i] = value[i]
    BY <2>1, <1>1, SubSeqProperties
  <2> HIDE DEF padded
  <2> QED
    BY <2>2, <2>3, SeqEqual
<1> HIDE DEF padded, n
<1>8. Last(padded) = p
  <2>1. n + p \in n + 1..n + p
    BY <1>1, <1>2
  <2> QED
    BY <2>1, <1>5, <1>6 DEF Last
<1>9. Len(padded) # 0 /\ Len(padded) >= BlockSize /\ Len(padded) % BlockSize = 0 /\ Len(padded) - p = n
  <2>1. n + p # 0 /\ (n + p) - p = n
    BY <1>1, <1>2
  <2>2. n + p >= BlockSize
    BY <1>1, <1>2 DEF p, n
  <2> QED
    BY <2>1, <2>2, <1>2, <1>5
<1>10. pkcs7Unpad(padded) = [ok |-> TRUE, value |-> SubSeq(padded, 1, Len(padded) - p)]
  <2>1. \A i \in Len(padded) - p + 1..Len(padded) : padded[i] = p
    BY <1>5, <1>6, <1>9
  <2> QED
    BY <2>1, <1>2, <1>8, <1>9 DEF pkcs7Unpad
<1> QED
  BY <1>3, <1>5, <1>7, <1>9, <1>10

SymbolKinds == {"salt", "separator", "mac", "cipher", "not hex"}
Atoms == Passwords \cup Salts \cup Nat
Symbols == [kind : SymbolKinds, data : Seq(Atoms), upper : BOOLEAN]

Unmarked(x) == [x EXCEPT !.upper = FALSE]

LEMMA UnmarkedFacts ==
    ASSUME NEW x \in Symbols
    PROVE  /\ Unmarked(x) \in Symbols
           /\ Unmarked(x).kind = x.kind /\ Unmarked(x).data = x.data /\ Unmarked(x).upper = FALSE
           /\ Unmarked(Unmarked(x)) = Unmarked(x)
           /\ x.upper = FALSE => Unmarked(x) = x
  BY DEF Symbols, Unmarked

LEMMA LowerFacts ==
    ASSUME NEW body \in Seq(Symbols)
    PROVE  /\ Lower(body) \in Seq(Symbols)
           /\ Len(Lower(body)) = Len(body)
           /\ \A i \in 1..Len(body) : Lower(body)[i] = Unmarked(body[i])
<1>1. DOMAIN body = 1..Len(body) /\ Len(body) \in Nat /\ \A i \in 1..Len(body) : body[i] \in Symbols
  OBVIOUS
<1>2. Lower(body) = [i \in 1..Len(body) |-> Unmarked(body[i])]
  BY <1>1 DEF Lower, Unmarked
<1>3. \A i \in 1..Len(body) : Unmarked(body[i]) \in Symbols
  BY <1>1, UnmarkedFacts
<1> QED
  BY <1>1, <1>2, <1>3

LEMMA LowerTwice ==
    ASSUME NEW body \in Seq(Symbols)
    PROVE  Lower(Lower(body)) = Lower(body)
<1> DEFINE v == Lower(body)
<1>1. v \in Seq(Symbols) /\ Len(v) = Len(body) /\ \A i \in 1..Len(body) : v[i] = Unmarked(body[i])
  BY LowerFacts
<1>2. \A i \in 1..Len(body) : body[i] \in Symbols
  OBVIOUS
<1> HIDE DEF v
<1>3. Lower(v) \in Seq(Symbols) /\ Len(Lower(v)) = Len(v) /\ \A i \in 1..Len(v) : Lower(v)[i] = Unmarked(v[i])
  BY <1>1, LowerFacts
<1>4. ASSUME NEW i \in 1..Len(v)
      PROVE  Lower(v)[i] = v[i]
  <2>1. body[i] \in Symbols /\ v[i] = Unmarked(body[i]) /\ Lower(v)[i] = Unmarked(v[i])
    BY <1>1, <1>2, <1>3
  <2>2. Unmarked(Unmarked(body[i])) = Unmarked(body[i])
    BY <2>1, UnmarkedFacts
  <2> QED
    BY <2>1, <2>2
<1>5. Lower(v) = v
  BY <1>1, <1>3, <1>4, SeqEqual
<1> QED
  BY <1>5 DEF v

LEMMA LowerConcat ==
    ASSUME NEW a \in Seq(Symbols), NEW b \in Seq(Symbols)
    PROVE  Lower(a \o b) = Lower(a) \o Lower(b)
<1> DEFINE u == a \o b
           la == Lower(a)
           lb == Lower(b)
           v == la \o lb
<1>1. /\ u \in Seq(Symbols) /\ Len(u) = Len(a) + Len(b)
      /\ \A i \in 1..Len(a) + Len(b) : u[i] = IF i <= Len(a) THEN a[i] ELSE b[i - Len(a)]
  BY ConcatProperties
<1>2. /\ la \in Seq(Symbols) /\ Len(la) = Len(a)
      /\ lb \in Seq(Symbols) /\ Len(lb) = Len(b)
      /\ \A i \in 1..Len(a) : la[i] = Unmarked(a[i])
      /\ \A i \in 1..Len(b) : lb[i] = Unmarked(b[i])
  BY LowerFacts
<1> HIDE DEF la, lb
<1>3. /\ v \in Seq(Symbols) /\ Len(v) = Len(a) + Len(b)
      /\ \A i \in 1..Len(a) + Len(b) : v[i] = IF i <= Len(a) THEN la[i] ELSE lb[i - Len(a)]
  <2>1. /\ v \in Seq(Symbols) /\ Len(v) = Len(la) + Len(lb)
        /\ \A i \in 1..Len(la) + Len(lb) : v[i] = IF i <= Len(la) THEN la[i] ELSE lb[i - Len(la)]
    <3>1. la \in Seq(Symbols) /\ lb \in Seq(Symbols)
      BY <1>2
    <3> QED
      BY <3>1, ConcatProperties
  <2> QED
    BY <1>2, <2>1
<1> HIDE DEF u, v
<1>4. Lower(u) \in Seq(Symbols) /\ Len(Lower(u)) = Len(u)
      /\ \A i \in 1..Len(u) : Lower(u)[i] = Unmarked(u[i])
  BY <1>1, LowerFacts
<1>5. ASSUME NEW i \in 1..Len(a) + Len(b)
      PROVE  Lower(u)[i] = v[i]
  <2>1. Lower(u)[i] = Unmarked(u[i])
    BY <1>1, <1>4
  <2>2. CASE i <= Len(a)
    <3>1. i \in 1..Len(a)
      BY <2>2
    <3> QED
      BY <2>1, <2>2, <3>1, <1>1, <1>2, <1>3
  <2>3. CASE ~(i <= Len(a))
    <3>1. i - Len(a) \in 1..Len(b)
      BY <2>3
    <3> QED
      BY <2>1, <2>3, <3>1, <1>1, <1>2, <1>3
  <2> QED
    BY <2>2, <2>3
<1>6. Lower(u) = v
  BY <1>1, <1>3, <1>4, <1>5, SeqEqual
<1> QED
  BY <1>6 DEF u, v, la, lb

LEMMA LowerSubSeq ==
    ASSUME NEW body \in Seq(Symbols), NEW m \in 1..Len(body) + 1, NEW n \in 0..Len(body)
    PROVE  /\ SubSeq(body, m, n) \in Seq(Symbols)
           /\ Lower(SubSeq(body, m, n)) = SubSeq(Lower(body), m, n)
<1> DEFINE u == SubSeq(body, m, n)
           v == SubSeq(Lower(body), m, n)
<1>1. Len(body) \in Nat /\ m \in Int /\ n \in Int /\ \A i \in m..n : i \in 1..Len(body)
  OBVIOUS
<1>2. /\ Lower(body) \in Seq(Symbols) /\ Len(Lower(body)) = Len(body)
      /\ \A i \in 1..Len(body) : Lower(body)[i] = Unmarked(body[i])
                                 /\ Lower(body)[i] \in Symbols /\ body[i] \in Symbols
  BY LowerFacts
<1>3. /\ u \in Seq(Symbols) /\ Len(u) = (IF m <= n THEN n - m + 1 ELSE 0)
      /\ \A i \in 1..n - m + 1 : u[i] = body[m + i - 1]
  BY <1>1, <1>2, SubSeqProperties
<1>4. /\ v \in Seq(Symbols) /\ Len(v) = (IF m <= n THEN n - m + 1 ELSE 0)
      /\ \A i \in 1..n - m + 1 : v[i] = Lower(body)[m + i - 1]
  BY <1>1, <1>2, SubSeqProperties
<1> HIDE DEF u, v
<1>5. Lower(u) \in Seq(Symbols) /\ Len(Lower(u)) = Len(u)
      /\ \A i \in 1..Len(u) : Lower(u)[i] = Unmarked(u[i])
  BY <1>3, LowerFacts
<1>6. ASSUME NEW i \in 1..Len(u)
      PROVE  Lower(u)[i] = v[i]
  <2>1. i \in 1..n - m + 1 /\ m + i - 1 \in 1..Len(body)
    BY <1>1, <1>3
  <2> QED
    BY <2>1, <1>2, <1>3, <1>4, <1>5
<1>7. Lower(u) = v
  BY <1>3, <1>4, <1>5, <1>6, SeqEqual
<1> QED
  BY <1>3, <1>7 DEF u, v

-----------------------------------------------------------------------------
(* What the parser reads.                                                  *)

LEMMA AppendToOne ==
    ASSUME NEW a, NEW x
    PROVE  Append(<<a>>, x) = <<a, x>>
<1> DEFINE S == {a, x}
           s == <<a>>
           t == <<a, x>>
           u == Append(s, x)
<1>1. s \in Seq(S) /\ x \in S /\ Len(s) = 1 /\ s[1] = a
  OBVIOUS
<1>2. t \in Seq(S) /\ Len(t) = 2 /\ t[1] = a /\ t[2] = x
  OBVIOUS
<1> HIDE DEF s, t, S
<1>3. u \in Seq(S) /\ Len(u) = Len(s) + 1 /\ (\A i \in 1..Len(s) : u[i] = s[i]) /\ u[Len(s) + 1] = x
  <2>1. s \in Seq(S) /\ x \in S
    BY <1>1
  <2> QED
    BY <2>1, AppendProperties
<1> HIDE DEF u
<1>4. \A i \in 1..2 : u[i] = t[i]
  BY <1>1, <1>2, <1>3
<1>5. u = t
  BY <1>1, <1>2, <1>3, <1>4, SeqEqual
<1> QED
  BY <1>5 DEF u, s, t
LEMMA AppendToTwo ==
    ASSUME NEW a, NEW b, NEW x
    PROVE  Append(<<a, b>>, x) = <<a, b, x>>
<1> DEFINE S == {a, b, x}
           s == <<a, b>>
           t == <<a, b, x>>
           u == Append(s, x)
<1>1. s \in Seq(S) /\ x \in S /\ Len(s) = 2 /\ s[1] = a /\ s[2] = b
  OBVIOUS
<1>2. t \in Seq(S) /\ Len(t) = 3 /\ t[1] = a /\ t[2] = b /\ t[3] = x
  OBVIOUS
<1> HIDE DEF s, t, S
<1>3. u \in Seq(S) /\ Len(u) = Len(s) + 1 /\ (\A i \in 1..Len(s) : u[i] = s[i]) /\ u[Len(s) + 1] = x
  <2>1. s \in Seq(S) /\ x \in S
    BY <1>1
  <2> QED
    BY <2>1, AppendProperties
<1> HIDE DEF u
<1>4. \A i \in 1..3 : u[i] = t[i]
  BY <1>1, <1>2, <1>3
<1>5. u = t
  BY <1>1, <1>2, <1>3, <1>4, SeqEqual
<1> QED
  BY <1>5 DEF u, s, t

\* What the parser asks of the text around its symbols, and of the symbols.
Framed(t) ==
    /\ t.eol # "cr" /\ ~(t.final > 1) /\ t.lines # <<>> /\ t.header \in Supported
    /\ \A i \in DOMAIN t.lines : Len(t.lines[i]) \in 1..LineWidth

Separators(body) == {i \in DOMAIN body : body[i].kind = "separator"}

Readable(body) ==
    /\ \A i \in DOMAIN body : body[i].kind # "not hex"
    /\ Separators(body) = {2, 4}
    /\ ~(Len(body) < 5)
    /\ (Len(body) - 4) % BlockSize = 0

CipherPart(body) == SubSeq(body, 5, Len(body))

\* Opening a body in lower case.
OpenBody(body, pw) ==
    IF /\ Readable(body)
       /\ body[1].kind = "salt"
       /\ body[3] = Mac(<<pw, body[1].data[1]>>, CipherPart(body))
    THEN pkcs7Unpad([i \in DOMAIN CipherPart(body) |-> Last(CipherPart(body)[i].data)])
    ELSE Unopened

LEMMA PartsOfBody ==
    ASSUME NEW body
    PROVE  /\ Readable(body) => payloadParts(body) = [ok |-> TRUE, salt |-> body[1],
                                   mac |-> body[3], cipher |-> CipherPart(body)]
           /\ ~Readable(body) /\ (\A i \in DOMAIN body : body[i].kind # "not hex")
                => payloadParts(body) = Unopened
  BY Zenon DEF payloadParts, Readable, CipherPart, Separators

LEMMA ParseReads ==
    ASSUME NEW t
    PROVE  LET body == FlattenSeq(t.lines)
           IN  parseEnvelope(t) =
                 IF Framed(t) /\ Readable(body)
                 THEN [ok |-> TRUE, header |-> t.header, body |-> body, parts |-> payloadParts(body)]
                 ELSE Unopened
<1> DEFINE body == FlattenSeq(t.lines)
<1>1. CASE Framed(t) /\ Readable(body)
  <2>1. payloadParts(body).ok = TRUE
    <3> HIDE DEF body
    <3>1. payloadParts(body) = [ok |-> TRUE, salt |-> body[1], mac |-> body[3], cipher |-> CipherPart(body)]
      BY <1>1, PartsOfBody
    <3> QED
      BY <3>1
  <2>2. ~(\E i \in DOMAIN body : body[i].kind = "not hex")
    BY <1>1 DEF Readable
  <2>3. ~(\E i \in DOMAIN t.lines : Len(t.lines[i]) \notin 1..LineWidth)
    BY <1>1 DEF Framed
  <2> HIDE DEF body
  <2> QED
    BY <1>1, <2>1, <2>2, <2>3, Zenon DEF parseEnvelope, Framed, body
<1>2. CASE ~Framed(t)
  <2> HIDE DEF body
  <2>1. CASE \E i \in DOMAIN t.lines : Len(t.lines[i]) \notin 1..LineWidth
    BY <1>2, <2>1, Zenon DEF parseEnvelope
  <2>2. CASE ~(\E i \in DOMAIN t.lines : Len(t.lines[i]) \notin 1..LineWidth)
    <3>1. t.eol = "cr" \/ t.final > 1 \/ t.lines = <<>> \/ t.header \notin Supported
      BY <1>2, <2>2 DEF Framed
    <3> QED
      BY <1>2, <3>1, Zenon DEF parseEnvelope
  <2> QED
    BY <2>1, <2>2
<1>3. CASE Framed(t) /\ ~Readable(body)
  <2>1. CASE \E i \in DOMAIN body : body[i].kind = "not hex"
    BY <1>3, <2>1, Zenon DEF parseEnvelope
  <2>2. CASE ~(\E i \in DOMAIN body : body[i].kind = "not hex")
    <3>1. payloadParts(body) = Unopened
      <4>1. \A i \in DOMAIN body : body[i].kind # "not hex"
        BY <2>2
      <4> HIDE DEF body
      <4> QED
        BY <1>3, <4>1, PartsOfBody
    <3>2. ~payloadParts(body).ok
      BY <3>1 DEF Unopened
    <3> HIDE DEF body
    <3> QED
      BY <1>3, <3>2, Zenon DEF parseEnvelope, body
  <2> QED
    BY <2>1, <2>2
<1> QED
  BY <1>1, <1>2, <1>3

LEMMA ReadableLower ==
    ASSUME NEW body \in Seq(Symbols)
    PROVE  Readable(Lower(body)) <=> Readable(body)
<1> DEFINE v == Lower(body)
<1>1. v \in Seq(Symbols) /\ Len(v) = Len(body) /\ \A i \in 1..Len(body) : v[i] = Unmarked(body[i])
  BY LowerFacts
<1> HIDE DEF v
<1>2. \A i \in 1..Len(body) : v[i].kind = body[i].kind
  <2> TAKE i \in 1..Len(body)
  <2>1. body[i] \in Symbols
    OBVIOUS
  <2> QED
    BY <2>1, <1>1, UnmarkedFacts
<1>3. DOMAIN v = DOMAIN body /\ DOMAIN body = 1..Len(body)
  BY <1>1
<1>4. Separators(v) = Separators(body)
  BY <1>2, <1>3 DEF Separators
<1> QED
  BY <1>1, <1>2, <1>3, <1>4 DEF Readable, v

LEMMA ReadableLength ==
    ASSUME NEW S, NEW body \in Seq(S), Readable(body)
    PROVE  Len(body) >= 5 /\ {1, 2, 3, 4} \subseteq 1..Len(body)
<1>1. Len(body) \in Nat /\ ~(Len(body) < 5)
  <2>1. ~(Len(body) < 5)
    BY Zenon DEF Readable
  <2> QED
    BY <2>1
<1> QED
  BY <1>1

LEMMA CipherPartLower ==
    ASSUME NEW body \in Seq(Symbols), Len(body) >= 4
    PROVE  /\ CipherPart(body) \in Seq(Symbols)
           /\ Lower(CipherPart(body)) = CipherPart(Lower(body))
<1>1. 5 \in 1..Len(body) + 1 /\ Len(body) \in 0..Len(body)
  OBVIOUS
<1>2. Len(Lower(body)) = Len(body)
  BY LowerFacts
<1> QED
  BY <1>1, <1>2, LowerSubSeq DEF CipherPart

\* A text opens to what its body opens to, if it is framed.
LEMMA DecryptOpens ==
    ASSUME NEW t, NEW pw, t.lines \in Seq(Seq(Symbols))
    PROVE  Decrypt(t, pw) = IF Framed(t) THEN OpenBody(Lower(FlattenSeq(t.lines)), pw)
                            ELSE Unopened
<1> DEFINE body == FlattenSeq(t.lines)
           low == Lower(body)
           e == parseEnvelope(t)
<1>1. body \in Seq(Symbols)
  BY FlattenType
<1> HIDE DEF body
<1>2. CASE ~(Framed(t) /\ Readable(body))
  <2>1. e = Unopened
    BY <1>2, ParseReads DEF body
  <2>2. ~e.ok
    BY <2>1 DEF Unopened
  <2>3. Decrypt(t, pw) = Unopened
    <3> HIDE DEF e
    <3> QED
      BY <2>2, Zenon DEF Decrypt, e
  <2>4. Framed(t) => OpenBody(low, pw) = Unopened
    <3>1. Framed(t) => ~Readable(low)
      BY <1>1, <1>2, ReadableLower
    <3> HIDE DEF low
    <3> QED
      BY <3>1 DEF OpenBody
  <2> QED
    BY <2>3, <2>4 DEF body
<1>3. CASE Framed(t) /\ Readable(body)
  <2>1. e = [ok |-> TRUE, header |-> t.header, body |-> body, parts |-> payloadParts(body)]
    BY <1>3, ParseReads DEF body
  <2>2. payloadParts(body) = [ok |-> TRUE, salt |-> body[1], mac |-> body[3], cipher |-> CipherPart(body)]
    BY <1>3, PartsOfBody
  <2>3. e.ok = TRUE /\ e.parts.salt = body[1] /\ e.parts.mac = body[3] /\ e.parts.cipher = CipherPart(body)
    BY <2>1, <2>2
  <2>4. Len(body) >= 5 /\ 1 \in 1..Len(body) /\ 3 \in 1..Len(body)
    BY <1>1, <1>3, ReadableLength
  <2>5. body[1] \in Symbols /\ body[3] \in Symbols
    BY <1>1, <2>4
  <2>6. low \in Seq(Symbols) /\ low[1] = Unmarked(body[1]) /\ low[3] = Unmarked(body[3])
    BY <1>1, <2>4, LowerFacts
  <2>7. low[1].kind = body[1].kind /\ low[1].data = body[1].data
    BY <2>5, <2>6, UnmarkedFacts
  <2>8. Lower(e.parts.cipher) = CipherPart(low)
    BY <1>1, <2>3, <2>4, CipherPartLower
  <2>9. [e.parts.mac EXCEPT !.upper = FALSE] = low[3]
    BY <2>3, <2>6 DEF Unmarked
  <2>10. Append(<<pw>>, e.parts.salt.data[1]) = <<pw, low[1].data[1]>>
    <3>1. Append(<<pw>>, low[1].data[1]) = <<pw, low[1].data[1]>>
      BY AppendToOne, Zenon
    <3> QED
      BY <2>3, <2>7, <3>1
  <2>11. Readable(low)
    BY <1>1, <1>3, ReadableLower
  <2>12. e.parts.salt.kind = low[1].kind
    BY <2>3, <2>7
  <2> HIDE DEF e, low
  <2>13. Decrypt(t, pw) = IF \/ ~e.ok
                             \/ low[1].kind # "salt"
                             \/ low[3] # Mac(<<pw, low[1].data[1]>>, CipherPart(low))
                          THEN Unopened
                          ELSE pkcs7Unpad([i \in DOMAIN CipherPart(low) |-> Last(CipherPart(low)[i].data)])
    BY <2>8, <2>9, <2>10, <2>12, Zenon DEF Decrypt, e
  <2>14. Decrypt(t, pw) = OpenBody(low, pw)
    BY <2>3, <2>11, <2>13, Zenon DEF OpenBody
  <2> QED
    BY <2>14, <1>3 DEF body, low
<1> QED
  BY <1>2, <1>3

\* A cut of a sequence that starts or ends in its second part.
LEMMA SubSeqAfter ==
    ASSUME NEW S, NEW h \in Seq(S), NEW c \in Seq(S), NEW m \in 1..Len(c) + 1, NEW n \in 0..Len(c)
    PROVE  SubSeq(h \o c, Len(h) + m, Len(h) + n) = SubSeq(c, m, n)
  OBVIOUS

LEMMA SubSeqThrough ==
    ASSUME NEW S, NEW h \in Seq(S), NEW c \in Seq(S), NEW n \in 0..Len(c)
    PROVE  SubSeq(h \o c, 1, Len(h) + n) = h \o SubSeq(c, 1, n)
  OBVIOUS

LEMMA ConcatParts ==
    ASSUME NEW S, NEW h \in Seq(S), NEW c \in Seq(S)
    PROVE  /\ h \o c \in Seq(S) /\ Len(h \o c) = Len(h) + Len(c)
           /\ Len(h) \in Nat /\ Len(c) \in Nat
           /\ \A i \in 1..Len(h) : (h \o c)[i] = h[i]
  OBVIOUS

LEMMA CipherAfter ==
    ASSUME NEW S, NEW h \in Seq(S), NEW c \in Seq(S), Len(h) = 4
    PROVE  CipherPart(h \o c) = c
<1>1. Len(h \o c) = Len(h) + Len(c) /\ 5 = Len(h) + 1
  <2>1. Len(h \o c) = Len(h) + Len(c)
    BY ConcatParts
  <2>2. 5 = Len(h) + 1
    OBVIOUS
  <2> QED
    BY <2>1, <2>2
<1>2. 1 \in 1..Len(c) + 1 /\ Len(c) \in 0..Len(c)
  OBVIOUS
<1>3. SubSeq(h \o c, 5, Len(h \o c)) = SubSeq(c, 1, Len(c))
  BY <1>1, <1>2, SubSeqAfter
<1>4. SubSeq(c, 1, Len(c)) = c
  BY SubSeqFull
<1> QED
  BY <1>3, <1>4 DEF CipherPart

-----------------------------------------------------------------------------
(* What a sealed body consists of.                                         *)

CipherOf(value, pw, salt) ==
    [i \in DOMAIN pkcs7Pad(value) |-> Sym("cipher", Append(<<pw, salt>>, pkcs7Pad(value)[i]))]

SealedHead(value, pw, salt) ==
    <<Sym("salt", <<salt>>), Separator, Mac(<<pw, salt>>, CipherOf(value, pw, salt)), Separator>>

SealedBody(value, pw, salt) == SealedHead(value, pw, salt) \o CipherOf(value, pw, salt)

LEMMA EncryptWraps ==
    ASSUME NEW value, NEW pw, NEW salt, NEW header
    PROVE  EncryptWithVaultID(value, pw, salt, header)
             = serializeVaultEnvelope(header, SealedBody(value, pw, salt))
  BY Zenon DEF EncryptWithVaultID, SealedBody, SealedHead, CipherOf

\* The bytes a MAC is taken over.
DataOf(body) == FlattenSeq([i \in DOMAIN body |-> body[i].data])

LEMMA MacIs ==
    ASSUME NEW key, NEW body
    PROVE  /\ Mac(key, body).kind = "mac" /\ Mac(key, body).upper = FALSE
           /\ Mac(key, body).data = key \o DataOf(body)
  BY DEF Mac, Sym, DataOf

LEMMA DatasType ==
    ASSUME NEW body \in Seq(Symbols)
    PROVE  /\ [i \in DOMAIN body |-> body[i].data] \in Seq(Seq(Atoms))
           /\ Len([i \in DOMAIN body |-> body[i].data]) = Len(body)
<1>1. DOMAIN body = 1..Len(body) /\ Len(body) \in Nat /\ \A i \in 1..Len(body) : body[i] \in Symbols
  OBVIOUS
<1>2. \A i \in 1..Len(body) : body[i].data \in Seq(Atoms)
  BY <1>1 DEF Symbols
<1> DEFINE d == [i \in 1..Len(body) |-> body[i].data]
<1>3. d \in [1..Len(body) -> Seq(Atoms)]
  BY <1>2
<1>4. d \in Seq(Seq(Atoms)) /\ Len(d) = Len(body)
  BY <1>1, <1>3
<1> QED
  BY <1>1, <1>4

LEMMA DataOfType ==
    ASSUME NEW body \in Seq(Symbols)
    PROVE  DataOf(body) \in Seq(Atoms)
  BY DatasType, FlattenType DEF DataOf

LEMMA DataOfConcat ==
    ASSUME NEW a \in Seq(Symbols), NEW b \in Seq(Symbols)
    PROVE  DataOf(a \o b) = DataOf(a) \o DataOf(b)
<1> DEFINE u == a \o b
           da == [i \in DOMAIN a |-> a[i].data]
           db == [i \in DOMAIN b |-> b[i].data]
           du == [i \in DOMAIN u |-> u[i].data]
<1>1. /\ u \in Seq(Symbols) /\ Len(u) = Len(a) + Len(b)
      /\ \A i \in 1..Len(a) + Len(b) : u[i] = IF i <= Len(a) THEN a[i] ELSE b[i - Len(a)]
  BY ConcatProperties
<1>2. DOMAIN a = 1..Len(a) /\ DOMAIN b = 1..Len(b) /\ Len(a) \in Nat /\ Len(b) \in Nat
  OBVIOUS
<1>u. DOMAIN u = 1..Len(a) + Len(b)
  BY <1>1
<1>3. da \in Seq(Seq(Atoms)) /\ Len(da) = Len(a)
  BY DatasType
<1>4. db \in Seq(Seq(Atoms)) /\ Len(db) = Len(b)
  BY DatasType
<1> HIDE DEF u
<1>5. du \in Seq(Seq(Atoms)) /\ Len(du) = Len(u)
  BY <1>1, DatasType
<1>6. \A i \in 1..Len(a) : da[i] = a[i].data
  BY <1>2
<1>7. \A i \in 1..Len(b) : db[i] = b[i].data
  BY <1>2
<1>8. \A i \in 1..Len(a) + Len(b) : du[i] = u[i].data
  BY <1>u
<1> HIDE DEF da, db, du
<1>9. /\ da \o db \in Seq(Seq(Atoms)) /\ Len(da \o db) = Len(da) + Len(db)
      /\ \A i \in 1..Len(da) + Len(db) : (da \o db)[i] = IF i <= Len(da) THEN da[i] ELSE db[i - Len(da)]
  <2>1. da \in Seq(Seq(Atoms)) /\ db \in Seq(Seq(Atoms))
    BY <1>3, <1>4
  <2> QED
    BY <2>1, ConcatProperties
<1>10. ASSUME NEW i \in 1..Len(a) + Len(b)
       PROVE  du[i] = (da \o db)[i]
  <2>1. CASE i <= Len(a)
    <3>1. i \in 1..Len(a)
      BY <2>1
    <3> QED
      BY <2>1, <3>1, <1>1, <1>3, <1>4, <1>6, <1>8, <1>9
  <2>2. CASE ~(i <= Len(a))
    <3>1. i - Len(a) \in 1..Len(b)
      BY <2>2, <1>2
    <3> QED
      BY <2>2, <3>1, <1>1, <1>3, <1>4, <1>7, <1>8, <1>9
  <2> QED
    BY <2>1, <2>2
<1>11. du = da \o db
  <2>1. du \in Seq(Seq(Atoms)) /\ da \o db \in Seq(Seq(Atoms)) /\ Len(du) = Len(da \o db)
    BY <1>1, <1>3, <1>4, <1>5, <1>9
  <2>2. Len(du) = Len(a) + Len(b)
    BY <1>1, <1>5
  <2> QED
    BY <2>1, <2>2, <1>10, SeqEqual
<1>12. FlattenSeq(da \o db) = FlattenSeq(da) \o FlattenSeq(db)
  <2>1. da \in Seq(Seq(Atoms)) /\ db \in Seq(Seq(Atoms))
    BY <1>3, <1>4
  <2> QED
    BY <2>1, FlattenConcat
<1> QED
  BY <1>11, <1>12 DEF DataOf, da, db, du, u

LEMMA DataOfOne ==
    ASSUME NEW x \in Symbols
    PROVE  <<x>> \in Seq(Symbols) /\ DataOf(<<x>>) = x.data
<1>1. x.data \in Seq(Atoms)
  BY DEF Symbols
<1>2. [i \in DOMAIN <<x>> |-> <<x>>[i].data] = <<x.data>>
  OBVIOUS
<1>3. FlattenSeq(<<x.data>>) = x.data
  BY <1>1, FlattenSingle, Zenon
<1> QED
  BY <1>2, <1>3 DEF DataOf

\* A body is what stands before a symbol, the symbol, and what follows it.
LEMMA SplitAt ==
    ASSUME NEW S, NEW body \in Seq(S), NEW j \in 1..Len(body)
    PROVE  /\ SubSeq(body, 1, j - 1) \in Seq(S) /\ SubSeq(body, j + 1, Len(body)) \in Seq(S)
           /\ body = (SubSeq(body, 1, j - 1) \o <<body[j]>>) \o SubSeq(body, j + 1, Len(body))
<1>1. /\ Len(body) \in Nat /\ j \in Int /\ j - 1 \in 1 - 1..Len(body) /\ j \in 1..Len(body)
      /\ 1 \in 1..Len(body) /\ 1 \in 1..Len(body) + 1 /\ j \in 1 - 1..Len(body) /\ Len(body) \in j..Len(body)
  OBVIOUS
<1>2. SubSeq(body, 1, j) \o SubSeq(body, j + 1, Len(body)) = SubSeq(body, 1, Len(body))
  BY <1>1, ConcatAdjacentSubSeq
<1>3. SubSeq(body, 1, Len(body)) = body
  BY SubSeqFull
<1>4. SubSeq(body, 1, j) = SubSeq(body, 1, j - 1) \o <<body[j]>>
  <2>1. j \in 1..Len(body)
    OBVIOUS
  <2> QED
    BY <1>1, <2>1, SubSeqRecursiveSecond
<1>5. SubSeq(body, 1, j - 1) \in Seq(S)
  <2>1. \A i \in 1..j - 1 : body[i] \in S
    OBVIOUS
  <2> QED
    BY <2>1, SubSeqProperties
<1>6. SubSeq(body, j + 1, Len(body)) \in Seq(S)
  <2>1. \A i \in j + 1..Len(body) : body[i] \in S
    <3>1. \A i \in j + 1..Len(body) : i \in 1..Len(body)
      OBVIOUS
    <3>2. \A i \in 1..Len(body) : body[i] \in S
      BY ElementOfSeq
    <3> QED
      BY <3>1, <3>2, Zenon
  <2> QED
    BY <2>1, SubSeqProperties
<1> QED
  BY <1>2, <1>3, <1>4, <1>5, <1>6, Zenon

LEMMA ExceptSplit ==
    ASSUME NEW S, NEW c \in Seq(S), NEW j \in 1..Len(c), NEW s \in S
    PROVE  /\ [c EXCEPT ![j] = s] \in Seq(S)
           /\ [c EXCEPT ![j] = s] = (SubSeq(c, 1, j - 1) \o <<s>>) \o SubSeq(c, j + 1, Len(c))
<1> DEFINE k == [c EXCEPT ![j] = s]
<1>1. k \in Seq(S) /\ Len(k) = Len(c) /\ k[j] = s
  OBVIOUS
<1>2. SubSeq(k, 1, j - 1) = SubSeq(c, 1, j - 1)
  OBVIOUS
<1>3. SubSeq(k, j + 1, Len(c)) = SubSeq(c, j + 1, Len(c))
  OBVIOUS
<1> HIDE DEF k
<1>4. k = (SubSeq(k, 1, j - 1) \o <<k[j]>>) \o SubSeq(k, j + 1, Len(k))
  BY <1>1, SplitAt
<1> QED
  BY <1>1, <1>2, <1>3, <1>4, Zenon DEF k

LEMMA SymType ==
    ASSUME NEW kind \in SymbolKinds, NEW content \in Seq(Atoms)
    PROVE  /\ Sym(kind, content) \in Symbols
           /\ Sym(kind, content).kind = kind /\ Sym(kind, content).data = content
           /\ Sym(kind, content).upper = FALSE
  BY DEF Sym, Symbols

LEMMA CipherFacts ==
    ASSUME NEW value \in Seq(Nat), NEW pw \in Passwords, NEW salt \in Salts
    PROVE  LET c == CipherOf(value, pw, salt)
               padded == pkcs7Pad(value)
           IN  /\ c \in Seq(Symbols)
               /\ Len(c) = Len(padded) /\ Len(c) % BlockSize = 0 /\ Len(c) >= BlockSize
               /\ \A i \in 1..Len(c) : /\ c[i].kind = "cipher" /\ c[i].upper = FALSE
                                       /\ c[i].data = <<pw, salt, padded[i]>>
<1> DEFINE c == CipherOf(value, pw, salt)
           padded == pkcs7Pad(value)
<1>1. padded \in Seq(Nat) /\ Len(padded) % BlockSize = 0 /\ Len(padded) >= BlockSize
  BY PadUnpad
<1> HIDE DEF padded
<1>2. DOMAIN padded = 1..Len(padded) /\ Len(padded) \in Nat /\ \A i \in 1..Len(padded) : padded[i] \in Nat
  BY <1>1
<1>3. c = [i \in 1..Len(padded) |-> Sym("cipher", <<pw, salt, padded[i]>>)]
  BY <1>2, AppendToTwo DEF CipherOf, padded
<1> HIDE DEF c
<1>4. "cipher" \in SymbolKinds
  BY DEF SymbolKinds
<1>5. \A i \in 1..Len(padded) : <<pw, salt, padded[i]>> \in Seq(Atoms)
  BY <1>2 DEF Atoms
<1>6. \A i \in 1..Len(padded) : /\ c[i] \in Symbols /\ c[i].kind = "cipher" /\ c[i].upper = FALSE
                                /\ c[i].data = <<pw, salt, padded[i]>>
  BY <1>3, <1>4, <1>5, SymType
<1>7. c \in [1..Len(padded) -> Symbols]
  BY <1>3, <1>6
<1>8. c \in Seq(Symbols) /\ Len(c) = Len(padded)
  BY <1>2, <1>7, SMT
<1> QED
  BY <1>1, <1>6, <1>8 DEF c, padded

LEMMA SaltSymbol ==
    ASSUME NEW salt \in Salts
    PROVE  LET z == Sym("salt", <<salt>>)
           IN  z \in Symbols /\ z.kind = "salt" /\ z.data = <<salt>> /\ z.upper = FALSE
<1>1. <<salt>> \in Seq(Atoms) /\ "salt" \in SymbolKinds
  BY DEF Atoms, SymbolKinds
<1> QED
  BY <1>1, SymType

LEMMA SeparatorSymbol ==
    /\ Separator \in Symbols /\ Separator.kind = "separator" /\ Separator.upper = FALSE
<1>1. <<>> \in Seq(Atoms) /\ "separator" \in SymbolKinds
  BY DEF SymbolKinds
<1> QED
  BY <1>1, SymType DEF Separator

LEMMA MacSymbol ==
    ASSUME NEW value \in Seq(Nat), NEW pw \in Passwords, NEW salt \in Salts
    PROVE  LET m == Mac(<<pw, salt>>, CipherOf(value, pw, salt))
           IN  /\ m \in Symbols /\ m.kind = "mac" /\ m.upper = FALSE
               /\ m.data = <<pw, salt>> \o DataOf(CipherOf(value, pw, salt))
<1> DEFINE c == CipherOf(value, pw, salt)
           d == <<pw, salt>> \o DataOf(c)
<1>1. c \in Seq(Symbols)
  BY CipherFacts
<1>2. Mac(<<pw, salt>>, c) = Sym("mac", d)
  BY Zenon DEF Mac, DataOf
<1> HIDE DEF c
<1>3. DataOf(c) \in Seq(Atoms)
  BY <1>1, DataOfType
<1>4. <<pw, salt>> \in Seq(Atoms) /\ "mac" \in SymbolKinds
  BY DEF Atoms, SymbolKinds
<1>5. d \in Seq(Atoms)
  BY <1>3, <1>4, ConcatProperties
<1> HIDE DEF d
<1>6. LET m == Sym("mac", d)
      IN  m \in Symbols /\ m.kind = "mac" /\ m.data = d /\ m.upper = FALSE
  BY <1>4, <1>5, SymType
<1> QED
  BY <1>2, <1>6, Zenon DEF c, d

LEMMA FourOf ==
    ASSUME NEW S, NEW a \in S, NEW b \in S, NEW c \in S, NEW d \in S
    PROVE  /\ <<a, b, c, d>> \in Seq(S) /\ Len(<<a, b, c, d>>) = 4
           /\ <<a, b, c, d>>[1] = a /\ <<a, b, c, d>>[2] = b
           /\ <<a, b, c, d>>[3] = c /\ <<a, b, c, d>>[4] = d
  OBVIOUS

LEMMA HeadIs ==
    ASSUME NEW value \in Seq(Nat), NEW pw \in Passwords, NEW salt \in Salts
    PROVE  /\ SealedHead(value, pw, salt) \in Seq(Symbols)
           /\ Len(SealedHead(value, pw, salt)) = 4
           /\ SealedHead(value, pw, salt)[1] = Sym("salt", <<salt>>)
           /\ SealedHead(value, pw, salt)[2] = Separator
           /\ SealedHead(value, pw, salt)[3] = Mac(<<pw, salt>>, CipherOf(value, pw, salt))
           /\ SealedHead(value, pw, salt)[4] = Separator
<1> DEFINE z == Sym("salt", <<salt>>)
           m == Mac(<<pw, salt>>, CipherOf(value, pw, salt))
<1>1. z \in Symbols /\ m \in Symbols /\ Separator \in Symbols
  BY SaltSymbol, MacSymbol, SeparatorSymbol, Zenon
<1>2. SealedHead(value, pw, salt) = <<z, Separator, m, Separator>>
  BY Zenon DEF SealedHead
<1> HIDE DEF m, z
<1>3. /\ <<z, Separator, m, Separator>> \in Seq(Symbols) /\ Len(<<z, Separator, m, Separator>>) = 4
      /\ <<z, Separator, m, Separator>>[1] = z /\ <<z, Separator, m, Separator>>[2] = Separator
      /\ <<z, Separator, m, Separator>>[3] = m /\ <<z, Separator, m, Separator>>[4] = Separator
  BY <1>1, FourOf, Zenon
<1> QED
  BY <1>2, <1>3, Zenon DEF m, z

LEMMA HeadFacts ==
    ASSUME NEW value \in Seq(Nat), NEW pw \in Passwords, NEW salt \in Salts
    PROVE  /\ SealedHead(value, pw, salt)[1].kind = "salt"
           /\ SealedHead(value, pw, salt)[1].data = <<salt>>
           /\ SealedHead(value, pw, salt)[2].kind = "separator"
           /\ SealedHead(value, pw, salt)[3].kind = "mac"
           /\ SealedHead(value, pw, salt)[3].data = <<pw, salt>> \o DataOf(CipherOf(value, pw, salt))
           /\ SealedHead(value, pw, salt)[4].kind = "separator"
<1>1. SealedHead(value, pw, salt)[1].kind = "salt" /\ SealedHead(value, pw, salt)[1].data = <<salt>>
  BY SaltSymbol, HeadIs, Zenon
<1>2. SealedHead(value, pw, salt)[2].kind = "separator" /\ SealedHead(value, pw, salt)[4].kind = "separator"
  BY SeparatorSymbol, HeadIs, Zenon
<1>3. /\ SealedHead(value, pw, salt)[3].kind = "mac"
      /\ SealedHead(value, pw, salt)[3].data = <<pw, salt>> \o DataOf(CipherOf(value, pw, salt))
  <2>1. /\ Mac(<<pw, salt>>, CipherOf(value, pw, salt)).kind = "mac"
        /\ Mac(<<pw, salt>>, CipherOf(value, pw, salt)).data = <<pw, salt>> \o DataOf(CipherOf(value, pw, salt))
    BY MacSymbol
  <2>2. SealedHead(value, pw, salt)[3] = Mac(<<pw, salt>>, CipherOf(value, pw, salt))
    BY HeadIs, Zenon
  <2> QED
    BY <2>1, <2>2, Zenon
<1> QED
  BY <1>1, <1>2, <1>3, Zenon

LEMMA HeadIsLower ==
    ASSUME NEW value \in Seq(Nat), NEW pw \in Passwords, NEW salt \in Salts, NEW i \in 1..4
    PROVE  SealedHead(value, pw, salt)[i].upper = FALSE
<1>1. i = 1 \/ i = 2 \/ i = 3 \/ i = 4
  OBVIOUS
<1>2. SealedHead(value, pw, salt)[1].upper = FALSE
  BY SaltSymbol, HeadIs, Zenon
<1>3. SealedHead(value, pw, salt)[2].upper = FALSE /\ SealedHead(value, pw, salt)[4].upper = FALSE
  BY SeparatorSymbol, HeadIs, Zenon
<1>4. SealedHead(value, pw, salt)[3].upper = FALSE
  <2>1. Mac(<<pw, salt>>, CipherOf(value, pw, salt)).upper = FALSE
    BY MacSymbol
  <2>2. SealedHead(value, pw, salt)[3] = Mac(<<pw, salt>>, CipherOf(value, pw, salt))
    BY HeadIs, Zenon
  <2> QED
    BY <2>1, <2>2, Zenon
<1> QED
  BY <1>1, <1>2, <1>3, <1>4, Zenon

LEMMA SealedFacts ==
    ASSUME NEW value \in Seq(Nat), NEW pw \in Passwords, NEW salt \in Salts
    PROVE  LET b == SealedBody(value, pw, salt)
               h == SealedHead(value, pw, salt)
               c == CipherOf(value, pw, salt)
           IN  /\ b \in Seq(Symbols) /\ Len(b) = 4 + Len(c)
               /\ \A i \in 1..4 : b[i] = h[i]
               /\ \A i \in 1..Len(c) : b[i + 4] = c[i]
               /\ CipherPart(b) = c
               /\ Lower(b) = b
<1> DEFINE c == CipherOf(value, pw, salt)
           h == SealedHead(value, pw, salt)
           b == h \o c
<1>0. c \in Seq(Symbols)
  BY CipherFacts
<1>00. \A i \in 1..Len(c) : c[i].upper = FALSE
  BY CipherFacts
<1>1. c \in Seq(Symbols) /\ Len(c) \in Nat /\ \A i \in 1..Len(c) : c[i].upper = FALSE
  BY <1>0, <1>00
<1>2. h \in Seq(Symbols) /\ Len(h) = 4 /\ \A i \in 1..4 : h[i].upper = FALSE
  BY HeadIs, HeadIsLower
<1>3. SealedBody(value, pw, salt) = b
  BY DEF SealedBody
<1> HIDE DEF c, h
<1>4. /\ b \in Seq(Symbols) /\ Len(b) = Len(h) + Len(c)
      /\ \A i \in 1..Len(h) + Len(c) : b[i] = IF i <= Len(h) THEN h[i] ELSE c[i - Len(h)]
  <2>1. h \in Seq(Symbols) /\ c \in Seq(Symbols)
    BY <1>1, <1>2
  <2> QED
    BY <2>1, ConcatProperties
<1> HIDE DEF b
<1>5. ASSUME NEW i \in 1..4
      PROVE  b[i] = h[i]
  <2>1. i \in 1..4 + Len(c) /\ i <= 4
    BY <1>1
  <2> QED
    BY <2>1, <1>2, <1>4
<1>6. ASSUME NEW i \in 1..Len(c)
      PROVE  b[i + 4] = c[i]
  <2>1. i + 4 \in 1..4 + Len(c) /\ ~(i + 4 <= 4) /\ (i + 4) - 4 = i
    BY <1>1
  <2> QED
    BY <2>1, <1>2, <1>4
<1>7. CipherPart(h \o c) = c
  BY <1>1, <1>2, CipherAfter
<1>8. Lower(b) = b
  <2>1. Lower(b) \in Seq(Symbols) /\ Len(Lower(b)) = Len(b) /\ \A i \in 1..Len(b) : Lower(b)[i] = Unmarked(b[i])
    BY <1>4, LowerFacts
  <2>2. ASSUME NEW i \in 1..Len(b)
        PROVE  Lower(b)[i] = b[i]
    <3>1. b[i] \in Symbols
      BY <1>4
    <3>2. b[i].upper = FALSE
      <4>1. CASE i <= 4
        <5>1. i \in 1..4
          BY <4>1
        <5> QED
          BY <5>1, <1>2, <1>5
      <4>2. CASE ~(i <= 4)
        <5>1. i - 4 \in 1..Len(c) /\ (i - 4) + 4 = i
          BY <4>2, <1>1, <1>2, <1>4
        <5> QED
          BY <5>1, <1>1, <1>6
      <4> QED
        BY <4>1, <4>2
    <3> QED
      BY <3>1, <3>2, <2>1, UnmarkedFacts
  <2> QED
    BY <1>4, <2>1, <2>2, SeqEqual
<1>9. Len(b) = 4 + Len(c)
  BY <1>2, <1>4
<1> QED
  BY <1>3, <1>4, <1>5, <1>6, <1>7, <1>8, <1>9 DEF b, c, h

-----------------------------------------------------------------------------
(* What opening tells about a body: the MAC binds the key and the bytes.   *)

\* What a body may open to when `value` was sealed with `secret`.
OpensToWhole(body, secret, value) ==
    \A pw \in Passwords :
      OpenBody(body, pw) \in {Unopened} \cup
        (IF pw = secret THEN {[ok |-> TRUE, value |-> value]} ELSE {})

LEMMA SealedReadable ==
    ASSUME NEW value \in Seq(Nat), NEW pw \in Passwords, NEW salt \in Salts
    PROVE  Readable(SealedBody(value, pw, salt))
<1> DEFINE b == SealedBody(value, pw, salt)
           c == CipherOf(value, pw, salt)
           h == SealedHead(value, pw, salt)
<1>1. Len(c) % BlockSize = 0 /\ Len(c) >= BlockSize /\ c \in Seq(Symbols)
  BY CipherFacts
<1>2. \A i \in 1..Len(c) : c[i].kind = "cipher"
  BY CipherFacts
<1>3. h[1].kind = "salt" /\ h[2].kind = "separator" /\ h[3].kind = "mac" /\ h[4].kind = "separator"
  BY HeadFacts
<1>4. /\ b \in Seq(Symbols) /\ Len(b) = 4 + Len(c)
      /\ \A i \in 1..4 : b[i] = h[i]
      /\ \A i \in 1..Len(c) : b[i + 4] = c[i]
  BY SealedFacts
<1> HIDE DEF b, c, h
<1>5. Len(c) \in Nat /\ Len(c) >= 1 /\ DOMAIN b = 1..4 + Len(c)
  <2>1. BlockSize \in Nat /\ BlockSize # 0
    BY EnvelopeAssumption
  <2> QED
    BY <1>1, <1>4, <2>1
<1>6. \A i \in 1..4 + Len(c) : i \in 1..4 \/ (i - 4 \in 1..Len(c) /\ (i - 4) + 4 = i)
  BY <1>5
<1>7. ASSUME NEW i \in 1..4 + Len(c)
      PROVE  b[i].kind # "not hex" /\ (b[i].kind = "separator" <=> i \in {2, 4})
  <2>1. CASE i \in 1..4
    <3>1. i = 1 \/ i = 2 \/ i = 3 \/ i = 4
      BY <2>1
    <3> QED
      BY <2>1, <3>1, <1>3, <1>4
  <2>2. CASE i - 4 \in 1..Len(c) /\ (i - 4) + 4 = i
    <3>1. b[i].kind = "cipher"
      <4>1. b[(i - 4) + 4] = c[i - 4] /\ c[i - 4].kind = "cipher"
        BY <2>2, <1>2, <1>4
      <4> QED
        BY <4>1, <2>2
    <3>2. i \notin {2, 4}
      BY <2>2, <1>2
    <3> QED
      BY <3>1, <3>2
  <2> QED
    BY <2>1, <2>2, <1>6
<1>8. Separators(b) = {2, 4}
  <2>1. 2 \in 1..4 + Len(c) /\ 4 \in 1..4 + Len(c)
    BY <1>5
  <2> QED
    BY <2>1, <1>5, <1>7 DEF Separators
<1>9. (Len(b) - 4) % BlockSize = 0
  <2>1. Len(b) - 4 = Len(c)
    BY <1>4, <1>5
  <2> QED
    BY <2>1, <1>1
<1>10. ~(Len(b) < 5)
  BY <1>4, <1>5
<1>11. Readable(b)
  <2>1. \A i \in DOMAIN b : b[i].kind # "not hex"
    BY <1>5, <1>7
  <2> QED
    BY <1>8, <1>9, <1>10, <2>1, Zenon DEF Readable
<1> QED
  BY <1>11 DEF b

\* A sealed body opens with its password to what was sealed, with no other to anything.
LEMMA SealedOpens ==
    ASSUME NEW value \in Seq(Nat), NEW pw \in Passwords, NEW salt \in Salts
    PROVE  OpenBody(SealedBody(value, pw, salt), pw) = [ok |-> TRUE, value |-> value]
<1> DEFINE b == SealedBody(value, pw, salt)
           c == CipherOf(value, pw, salt)
           h == SealedHead(value, pw, salt)
           padded == pkcs7Pad(value)
<1>1. Readable(b)
  BY SealedReadable
<1>2. (\A i \in 1..4 : b[i] = h[i]) /\ CipherPart(b) = c
  BY SealedFacts
<1>3. h[1].kind = "salt" /\ h[1].data = <<salt>> /\ h[3] = Mac(<<pw, salt>>, c)
  BY HeadFacts, HeadIs
<1>4. c \in Seq(Symbols) /\ Len(c) = Len(padded)
  BY CipherFacts
<1>5. \A i \in 1..Len(c) : c[i].data = <<pw, salt, padded[i]>>
  BY CipherFacts
<1>6. padded \in Seq(Nat) /\ pkcs7Unpad(padded) = [ok |-> TRUE, value |-> value]
  BY PadUnpad
<1> HIDE DEF b, c, h, padded
<1>7. [i \in DOMAIN c |-> Last(c[i].data)] = padded
  <2>1. DOMAIN c = 1..Len(c) /\ padded = [i \in 1..Len(c) |-> padded[i]]
    BY <1>4, <1>6
  <2>2. \A x : Last(<<pw, salt, x>>) = x
    BY DEF Last
  <2> QED
    BY <2>1, <2>2, <1>5
<1>8. b[1].kind = "salt" /\ b[1].data[1] = salt /\ b[3] = Mac(<<pw, salt>>, CipherPart(b))
  BY <1>2, <1>3
<1>9. OpenBody(b, pw) = pkcs7Unpad([i \in DOMAIN c |-> Last(c[i].data)])
  BY <1>1, <1>2, <1>8, Zenon DEF OpenBody
<1> QED
  BY <1>6, <1>7, <1>9 DEF b

Keyed(a, b, F) == <<a, b>> \o F

LEMMA KeyPrefix ==
    ASSUME NEW S, NEW a, NEW b, NEW p, NEW q, NEW F \in Seq(S), NEW G \in Seq(S),
           Keyed(a, b, F) = Keyed(p, q, G)
    PROVE  a = p /\ b = q /\ F = G
<1> DEFINE K == Keyed(a, b, F)
           L == Keyed(p, q, G)
<1>1. Len(K) = 2 + Len(F) /\ K[1] = a /\ K[2] = b /\ \A i \in 1..Len(F) : K[i + 2] = F[i]
  BY DEF Keyed
<1>2. Len(L) = 2 + Len(G) /\ L[1] = p /\ L[2] = q /\ \A i \in 1..Len(G) : L[i + 2] = G[i]
  BY DEF Keyed
<1>3. K = L
  OBVIOUS
<1> HIDE DEF K, L
<1>4. Len(F) = Len(G) /\ \A i \in 1..Len(F) : F[i] = G[i]
  BY <1>1, <1>2, <1>3
<1>5. F = G
  BY <1>4, SeqEqual
<1> QED
  BY <1>1, <1>2, <1>3, <1>5

\* A body that opens under the MAC of a sealed one was opened with its password
\* and holds its bytes.
LEMMA MacBinds ==
    ASSUME NEW value \in Seq(Nat), NEW secret \in Passwords, NEW salt \in Salts,
           NEW body \in Seq(Symbols), NEW pw,
           body[3] = SealedBody(value, secret, salt)[3],
           OpenBody(body, pw) # Unopened
    PROVE  /\ Readable(body) /\ body[1].kind = "salt"
           /\ pw = secret /\ body[1].data[1] = salt
           /\ DataOf(CipherPart(body)) = DataOf(CipherOf(value, secret, salt))
<1> DEFINE c == CipherOf(value, secret, salt)
           x == body[1].data[1]
           d == CipherPart(body)
<1>1. Readable(body) /\ body[1].kind = "salt" /\ body[3] = Mac(<<pw, x>>, d)
  BY Zenon DEF OpenBody
<1>2. body[3] = SealedHead(value, secret, salt)[3]
  BY SealedFacts
<1>3. body[3].data = <<secret, salt>> \o DataOf(c)
  BY <1>2, HeadFacts
<1>4. body[3].data = <<pw, x>> \o DataOf(d)
  BY <1>1, MacIs
<1>5. c \in Seq(Symbols)
  BY CipherFacts
<1>6. d \in Seq(Symbols)
  <2>1. Len(body) >= 5
    BY <1>1, ReadableLength
  <2> QED
    BY <2>1, CipherPartLower
<1>7. DataOf(c) \in Seq(Atoms) /\ DataOf(d) \in Seq(Atoms)
  BY <1>5, <1>6, DataOfType
<1> DEFINE F == DataOf(c)
           G == DataOf(d)
<1>8. F \in Seq(Atoms) /\ G \in Seq(Atoms) /\ Keyed(secret, salt, F) = Keyed(pw, x, G)
  BY <1>3, <1>4, <1>7 DEF Keyed
<1> HIDE DEF F, G, x
<1>9. secret = pw /\ salt = x /\ F = G
  BY <1>8, KeyPrefix
<1> QED
  BY <1>1, <1>9 DEF F, G, x

LEMMA SealedIsSafe ==
    ASSUME NEW value \in Seq(Nat), NEW secret \in Passwords, NEW salt \in Salts
    PROVE  OpensToWhole(SealedBody(value, secret, salt), secret, value)
<1> DEFINE b == SealedBody(value, secret, salt)
<1>1. b \in Seq(Symbols)
  BY SealedFacts
<1> SUFFICES ASSUME NEW pw \in Passwords, OpenBody(b, pw) # Unopened
             PROVE  pw = secret /\ OpenBody(b, pw) = [ok |-> TRUE, value |-> value]
  BY DEF OpensToWhole
<1>2. pw = secret
  BY <1>1, MacBinds
<1> QED
  BY <1>2, SealedOpens

\* Opening nothing is safe.
LEMMA ClosedIsSafe ==
    ASSUME NEW body, NEW secret, NEW value,
           \A pw \in Passwords : OpenBody(body, pw) = Unopened
    PROVE  OpensToWhole(body, secret, value)
  BY DEF OpensToWhole

LEMMA UnreadableIsClosed ==
    ASSUME NEW body, ~Readable(body)
    PROVE  \A pw : OpenBody(body, pw) = Unopened
  BY DEF OpenBody

-----------------------------------------------------------------------------
(* Changed bodies: replaced, dropped, cut off and doubled symbols.         *)

LEMMA CancelAround ==
    ASSUME NEW S, NEW p \in Seq(S), NEW x \in Seq(S), NEW y \in Seq(S), NEW q \in Seq(S),
           (p \o x) \o q = (p \o y) \o q
    PROVE  x = y
<1>1. /\ p \o x \in Seq(S) /\ Len(p \o x) = Len(p) + Len(x)
      /\ \A i \in 1..Len(p) + Len(x) : (p \o x)[i] = IF i <= Len(p) THEN p[i] ELSE x[i - Len(p)]
  BY ConcatProperties
<1>2. /\ p \o y \in Seq(S) /\ Len(p \o y) = Len(p) + Len(y)
      /\ \A i \in 1..Len(p) + Len(y) : (p \o y)[i] = IF i <= Len(p) THEN p[i] ELSE y[i - Len(p)]
  BY ConcatProperties
<1> DEFINE u == p \o x
           v == p \o y
<1>e. u \o q = v \o q
  OBVIOUS
<1> HIDE DEF u, v
<1>3. u \in Seq(S) /\ v \in Seq(S)
  BY <1>1, <1>2 DEF u, v
<1>4. u = v
  <2>1. /\ Len(u \o q) = Len(u) + Len(q)
        /\ \A i \in 1..Len(u) + Len(q) : (u \o q)[i] = IF i <= Len(u) THEN u[i] ELSE q[i - Len(u)]
    BY <1>3, ConcatProperties
  <2>2. /\ Len(v \o q) = Len(v) + Len(q)
        /\ \A i \in 1..Len(v) + Len(q) : (v \o q)[i] = IF i <= Len(v) THEN v[i] ELSE q[i - Len(v)]
    BY <1>3, ConcatProperties
  <2>3. Len(u) = Len(v) /\ Len(u) \in Nat /\ Len(q) \in Nat
    BY <1>e, <1>3, <2>1, <2>2
  <2>4. ASSUME NEW i \in 1..Len(u)
        PROVE  u[i] = v[i]
    <3>1. i \in 1..Len(u) + Len(q) /\ i <= Len(u)
      BY <2>3
    <3> QED
      BY <3>1, <1>e, <2>1, <2>2, <2>3
  <2> QED
    BY <1>3, <2>3, <2>4, SeqEqual
<1>5. Len(x) = Len(y)
  BY <1>1, <1>2, <1>4 DEF u, v
<1>6. ASSUME NEW i \in 1..Len(x)
      PROVE  x[i] = y[i]
  <2>1. Len(p) + i \in 1..Len(p) + Len(x) /\ ~(Len(p) + i <= Len(p)) /\ (Len(p) + i) - Len(p) = i
    OBVIOUS
  <2>2. u[Len(p) + i] = x[i]
    BY <2>1, <1>1 DEF u
  <2>3. v[Len(p) + i] = y[i]
    BY <2>1, <1>2, <1>5 DEF v
  <2> QED
    BY <2>2, <2>3, <1>4
<1> QED
  BY <1>5, <1>6, SeqEqual

LEMMA Longer ==
    ASSUME NEW S, NEW p \in Seq(S), NEW x \in Seq(S), NEW q \in Seq(S), Len(x) # 0
    PROVE  (p \o x) \o q # p \o q
<1>1. Len((p \o x) \o q) = Len(p) + Len(x) + Len(q)
  OBVIOUS
<1>2. Len(p \o q) = Len(p) + Len(q)
  OBVIOUS
<1>3. Len(p) \in Nat /\ Len(x) \in Nat /\ Len(q) \in Nat
  OBVIOUS
<1> QED
  BY <1>1, <1>2, <1>3

LEMMA DataOfSplit ==
    ASSUME NEW p \in Seq(Symbols), NEW x \in Symbols, NEW q \in Seq(Symbols)
    PROVE  /\ DataOf((p \o <<x>>) \o q) = (DataOf(p) \o x.data) \o DataOf(q)
           /\ DataOf(p \o q) = DataOf(p) \o DataOf(q)
           /\ DataOf(p) \in Seq(Atoms) /\ DataOf(q) \in Seq(Atoms) /\ x.data \in Seq(Atoms)
<1>1. <<x>> \in Seq(Symbols) /\ DataOf(<<x>>) = x.data
  BY DataOfOne
<1>2. p \o <<x>> \in Seq(Symbols)
  BY <1>1, ConcatProperties
<1>3. DataOf((p \o <<x>>) \o q) = DataOf(p \o <<x>>) \o DataOf(q)
  BY <1>2, DataOfConcat
<1>4. DataOf(p \o <<x>>) = DataOf(p) \o DataOf(<<x>>)
  BY <1>1, DataOfConcat
<1>5. DataOf(p) \in Seq(Atoms) /\ DataOf(q) \in Seq(Atoms) /\ DataOf(<<x>>) \in Seq(Atoms)
  BY <1>1, DataOfType
<1> QED
  BY <1>1, <1>3, <1>4, <1>5, DataOfConcat

\* One symbol replaced: the joined bytes differ unless its bytes are the same.
LEMMA DataOfReplaced ==
    ASSUME NEW c \in Seq(Symbols), NEW j \in 1..Len(c), NEW s \in Symbols,
           DataOf([c EXCEPT ![j] = s]) = DataOf(c)
    PROVE  s.data = c[j].data
<1> DEFINE k == [c EXCEPT ![j] = s]
           p == SubSeq(c, 1, j - 1)
           q == SubSeq(c, j + 1, Len(c))
<1>e. DataOf(k) = DataOf(c)
  OBVIOUS
<1>4. p \in Seq(Symbols) /\ q \in Seq(Symbols) /\ c = (p \o <<c[j]>>) \o q
  BY SplitAt
<1>5. k = (p \o <<s>>) \o q
  BY ExceptSplit
<1> HIDE DEF k
<1> HIDE DEF p, q
<1>6. c[j] \in Symbols
  OBVIOUS
<1>7. DataOf(k) = (DataOf(p) \o s.data) \o DataOf(q)
  BY <1>4, <1>5, DataOfSplit
<1>8. DataOf(c) = (DataOf(p) \o c[j].data) \o DataOf(q)
  <2> DEFINE z == c[j]
  <2>1. z \in Symbols /\ c = (p \o <<z>>) \o q
    BY <1>4, <1>6
  <2> HIDE DEF z
  <2>2. DataOf((p \o <<z>>) \o q) = (DataOf(p) \o z.data) \o DataOf(q)
    BY <1>4, <2>1, DataOfSplit
  <2> QED
    BY <2>1, <2>2 DEF z
<1>9. DataOf(p) \in Seq(Atoms) /\ DataOf(q) \in Seq(Atoms) /\ s.data \in Seq(Atoms) /\ c[j].data \in Seq(Atoms)
  BY <1>4, <1>6, DataOfSplit
<1> DEFINE P == DataOf(p)
           Q == DataOf(q)
           x == s.data
           y == c[j].data
<1>10. P \in Seq(Atoms) /\ Q \in Seq(Atoms) /\ x \in Seq(Atoms) /\ y \in Seq(Atoms)
       /\ (P \o x) \o Q = (P \o y) \o Q
  BY <1>e, <1>7, <1>8, <1>9
<1> HIDE DEF P, Q, x, y
<1>11. x = y
  BY <1>10, CancelAround
<1> QED
  BY <1>11 DEF x, y

LEMMA DataOfNotEmpty ==
    ASSUME NEW c \in Seq(Symbols), Len(c) # 0, \A i \in 1..Len(c) : Len(c[i].data) # 0
    PROVE  Len(DataOf(c)) # 0
<1>1. 1 \in 1..Len(c) /\ c[1] \in Symbols
  OBVIOUS
<1> DEFINE p == SubSeq(c, 1, 1 - 1)
           q == SubSeq(c, 1 + 1, Len(c))
           x == c[1]
<1>2. p \in Seq(Symbols) /\ q \in Seq(Symbols) /\ c = (p \o <<x>>) \o q
  BY <1>1, SplitAt
<1>3. x \in Symbols /\ Len(x.data) # 0
  BY <1>1
<1> HIDE DEF p, q, x
<1>4. DataOf(c) = (DataOf(p) \o x.data) \o DataOf(q)
  BY <1>2, <1>3, DataOfSplit
<1>5. DataOf(p) \in Seq(Atoms) /\ DataOf(q) \in Seq(Atoms) /\ x.data \in Seq(Atoms)
  BY <1>2, <1>3, DataOfSplit
<1> DEFINE P == DataOf(p)
           Q == DataOf(q)
           y == x.data
<1>6. P \in Seq(Atoms) /\ Q \in Seq(Atoms) /\ y \in Seq(Atoms) /\ Len(y) # 0 /\ DataOf(c) = (P \o y) \o Q
  BY <1>3, <1>4, <1>5
<1> HIDE DEF P, Q, y
<1>7. Len((P \o y) \o Q) = Len(P) + Len(y) + Len(Q) /\ Len(P) \in Nat /\ Len(y) \in Nat /\ Len(Q) \in Nat
  BY <1>6
<1> QED
  BY <1>6, <1>7

LEMMA ForeignFacts ==
    ASSUME NEW s \in ForeignSymbols
    PROVE  /\ s \in Symbols /\ s.upper = FALSE
           /\ \/ s.kind = "not hex" /\ s.data = <<>>
              \/ s.kind = "salt" /\ s.data = << 2 >>
              \/ s.kind = "separator" /\ s.data = <<>>
              \/ s.kind = "cipher" /\ s.data = <<1, 1, 1>>
              \/ s.kind = "mac" /\ s.data = <<1, 1>>
<1>1. ForeignKey = <<1, 1>>
  BY AppendToOne DEF ForeignKey
<1>2. Append(ForeignKey, 1) = <<1, 1, 1>>
  BY <1>1, AppendToTwo
<1>3. Mac(ForeignKey, <<>>) = Sym("mac", <<1, 1>>)
  <2>1. [i \in DOMAIN <<>> |-> <<>>[i].data] = <<>>
    OBVIOUS
  <2>2. Mac(ForeignKey, <<>>) = Sym("mac", <<1, 1>> \o FlattenSeq([i \in DOMAIN <<>> |-> <<>>[i].data]))
    BY <1>1 DEF Mac
  <2>3. <<1, 1>> \o <<>> = <<1, 1>>
    <3>1. <<1, 1>> \in Seq(Nat)
      OBVIOUS
    <3> QED
      BY <3>1, ConcatEmptySeq
  <2> QED
    BY <2>1, <2>2, <2>3, FlattenEmpty
<1>4. {"not hex", "salt", "separator", "cipher", "mac"} \subseteq SymbolKinds
  BY DEF SymbolKinds
<1>5. /\ <<>> \in Seq(Atoms) /\ << 2 >> \in Seq(Atoms) /\ <<1, 1>> \in Seq(Atoms)
      /\ <<1, 1, 1>> \in Seq(Atoms)
  BY DEF Atoms
<1>6. \E kind \in SymbolKinds, content \in Seq(Atoms) :
         /\ s = Sym(kind, content)
         /\ \/ kind = "not hex" /\ content = <<>>
            \/ kind = "salt" /\ content = << 2 >>
            \/ kind = "separator" /\ content = <<>>
            \/ kind = "cipher" /\ content = <<1, 1, 1>>
            \/ kind = "mac" /\ content = <<1, 1>>
  <2>1. CASE s = Sym("not hex", <<>>)
    BY <2>1, <1>4, <1>5
  <2>2. CASE s = Sym("salt", << 2 >>)
    BY <2>2, <1>4, <1>5
  <2>3. CASE s = Separator
    BY <2>3, <1>4, <1>5 DEF Separator
  <2>4. CASE s = Sym("cipher", Append(ForeignKey, 1))
    BY <2>4, <1>2, <1>4, <1>5
  <2>5. CASE s = Mac(ForeignKey, <<>>)
    BY <2>5, <1>3, <1>4, <1>5
  <2> QED
    BY <2>1, <2>2, <2>3, <2>4, <2>5 DEF ForeignSymbols
<1>7. PICK kind \in SymbolKinds, content \in Seq(Atoms) :
         /\ s = Sym(kind, content)
         /\ \/ kind = "not hex" /\ content = <<>>
            \/ kind = "salt" /\ content = << 2 >>
            \/ kind = "separator" /\ content = <<>>
            \/ kind = "cipher" /\ content = <<1, 1, 1>>
            \/ kind = "mac" /\ content = <<1, 1>>
  BY <1>6, Zenon
<1>8. s \in Symbols /\ s.kind = kind /\ s.data = content /\ s.upper = FALSE
  <2>1. Sym(kind, content) \in Symbols /\ Sym(kind, content).kind = kind /\ Sym(kind, content).data = content
        /\ Sym(kind, content).upper = FALSE
    BY SymType
  <2> QED
    BY <1>7, <2>1, Zenon
<1> QED
  BY <1>7, <1>8, Zenon

LEMMA SameSymbol ==
    ASSUME NEW x \in Symbols, NEW y \in Symbols,
           x.kind = y.kind, x.data = y.data, x.upper = y.upper
    PROVE  x = y
  BY DEF Symbols

\* The parts of a sealed body, for the lemmas on what is done to it.
LEMMA SealedCipher ==
    ASSUME NEW value \in Seq(Nat), NEW secret \in Passwords, NEW salt \in Salts
    PROVE  /\ CipherOf(value, secret, salt) \in Seq(Symbols)
           /\ Len(CipherOf(value, secret, salt)) \in Nat
           /\ Len(CipherOf(value, secret, salt)) >= BlockSize
           /\ Len(CipherOf(value, secret, salt)) >= 1
<1> DEFINE c == CipherOf(value, secret, salt)
<1>1. c \in Seq(Symbols) /\ Len(c) >= BlockSize
  BY CipherFacts
<1> HIDE DEF c
<1>2. BlockSize \in Nat /\ BlockSize # 0
  BY EnvelopeAssumption
<1>3. Len(c) \in Nat /\ Len(c) >= 1
  BY <1>1, <1>2
<1> QED
  BY <1>1, <1>3 DEF c

LEMMA SealedSymbols ==
    ASSUME NEW value \in Seq(Nat), NEW secret \in Passwords, NEW salt \in Salts,
           NEW i \in 1..Len(CipherOf(value, secret, salt))
    PROVE  /\ CipherOf(value, secret, salt)[i].kind = "cipher"
           /\ CipherOf(value, secret, salt)[i].upper = FALSE
           /\ Len(CipherOf(value, secret, salt)[i].data) = 3
<1> DEFINE x == CipherOf(value, secret, salt)[i]
<1>1. x.kind = "cipher" /\ x.upper = FALSE
  BY CipherFacts
<1>2. x.data = <<secret, salt, pkcs7Pad(value)[i]>>
  BY CipherFacts
<1>3. Len(<<secret, salt, pkcs7Pad(value)[i]>>) = 3
  OBVIOUS
<1> QED
  BY <1>1, <1>2, <1>3

LEMMA SealedData ==
    ASSUME NEW value \in Seq(Nat), NEW secret \in Passwords, NEW salt \in Salts
    PROVE  /\ Len(DataOf(CipherOf(value, secret, salt))) # 0
           /\ DataOf(CipherOf(value, secret, salt)) \in Seq(Atoms)
<1> DEFINE c == CipherOf(value, secret, salt)
<1>1. c \in Seq(Symbols) /\ Len(c) \in Nat /\ Len(c) >= 1
  BY SealedCipher
<1>2. \A i \in 1..Len(c) : Len(c[i].data) = 3
  BY SealedSymbols
<1> HIDE DEF c
<1>3. \A i \in 1..Len(c) : Len(c[i].data) # 0
  <2> TAKE i \in 1..Len(c)
  <2>1. Len(c[i].data) = 3
    BY <1>2
  <2> QED
    BY <2>1
<1>4. Len(c) # 0
  BY <1>1
<1>5. Len(DataOf(c)) # 0 /\ DataOf(c) \in Seq(Atoms)
  BY <1>1, <1>3, <1>4, DataOfNotEmpty, DataOfType
<1> QED
  BY <1>5 DEF c

LEMMA SealedSizes ==
    ASSUME NEW value \in Seq(Nat), NEW secret \in Passwords, NEW salt \in Salts
    PROVE  /\ SealedBody(value, secret, salt) \in Seq(Symbols)
           /\ Len(SealedBody(value, secret, salt)) = 4 + Len(CipherOf(value, secret, salt))
           /\ CipherPart(SealedBody(value, secret, salt)) = CipherOf(value, secret, salt)
  BY SealedFacts

LEMMA SealedSymbolAt ==
    ASSUME NEW value \in Seq(Nat), NEW secret \in Passwords, NEW salt \in Salts,
           NEW i \in 1..Len(CipherOf(value, secret, salt))
    PROVE  SealedBody(value, secret, salt)[i + 4] = CipherOf(value, secret, salt)[i]
  BY SealedFacts

LEMMA SealedHeadIs ==
    ASSUME NEW value \in Seq(Nat), NEW secret \in Passwords, NEW salt \in Salts
    PROVE  /\ SealedBody(value, secret, salt)[1].kind = "salt"
           /\ SealedBody(value, secret, salt)[1].data = <<salt>>
           /\ SealedBody(value, secret, salt)[1].upper = FALSE
           /\ SealedBody(value, secret, salt)[2] = Separator
           /\ SealedBody(value, secret, salt)[4] = Separator
<1> DEFINE b == SealedBody(value, secret, salt)
           h == SealedHead(value, secret, salt)
<1>1. h[1].kind = "salt" /\ h[1].data = <<salt>>
  BY HeadFacts
<1>2. h[2] = Separator /\ h[4] = Separator
  BY HeadIs
<1>3. \A i \in 1..4 : h[i].upper = FALSE
  BY HeadIsLower
<1>4. \A i \in 1..4 : b[i] = h[i]
  BY SealedFacts
<1> HIDE DEF b, h
<1>5. b[1] = h[1] /\ b[2] = h[2] /\ b[4] = h[4] /\ h[1].upper = FALSE
  BY <1>3, <1>4
<1>6. b[1].kind = "salt" /\ b[1].data = <<salt>> /\ b[1].upper = FALSE /\ b[2] = Separator /\ b[4] = Separator
  BY <1>1, <1>2, <1>5
<1> QED
  BY <1>6 DEF b

\* A body that changed is safe when opening it proves it is the sealed one.
LEMMA SafeIfSame ==
    ASSUME NEW value \in Seq(Nat), NEW secret \in Passwords, NEW salt \in Salts, NEW body,
           \A pw \in Passwords : OpenBody(body, pw) # Unopened => body = SealedBody(value, secret, salt)
    PROVE  OpensToWhole(body, secret, value)
<1>1. OpensToWhole(SealedBody(value, secret, salt), secret, value)
  BY SealedIsSafe
<1> SUFFICES ASSUME NEW pw \in Passwords
             PROVE  OpenBody(body, pw) \in {Unopened} \cup
                      (IF pw = secret THEN {[ok |-> TRUE, value |-> value]} ELSE {})
  BY Zenon DEF OpensToWhole
<1>2. CASE OpenBody(body, pw) = Unopened
  BY <1>2
<1>3. CASE OpenBody(body, pw) # Unopened
  <2>1. body = SealedBody(value, secret, salt)
    BY <1>3
  <2> QED
    BY <1>1, <2>1, Zenon DEF OpensToWhole
<1> QED
  BY <1>2, <1>3

LEMMA ReplacedIsSafe ==
    ASSUME NEW value \in Seq(Nat), NEW secret \in Passwords, NEW salt \in Salts,
           NEW i \in 1..Len(SealedBody(value, secret, salt)), NEW s \in ForeignSymbols
    PROVE  OpensToWhole([SealedBody(value, secret, salt) EXCEPT ![i] = s], secret, value)
<1> DEFINE b == SealedBody(value, secret, salt)
           c == CipherOf(value, secret, salt)
           x == [b EXCEPT ![i] = s]
<1>1. s \in Symbols /\ s.upper = FALSE
  BY ForeignFacts
<1>s. \/ s.kind = "not hex" /\ s.data = <<>>
      \/ s.kind = "salt" /\ s.data = << 2 >>
      \/ s.kind = "separator" /\ s.data = <<>>
      \/ s.kind = "cipher" /\ s.data = <<1, 1, 1>>
      \/ s.kind = "mac" /\ s.data = <<1, 1>>
  BY ForeignFacts
<1>2. /\ b \in Seq(Symbols) /\ c \in Seq(Symbols)
      /\ Len(b) = 4 + Len(c) /\ Len(c) \in Nat /\ Len(c) >= 1
      /\ CipherPart(b) = c /\ Len(DataOf(c)) # 0 /\ DataOf(c) \in Seq(Atoms)
  BY SealedCipher, SealedSizes, SealedData
<1>3. b[1].kind = "salt" /\ b[1].data = <<salt>> /\ b[1].upper = FALSE /\ b[2] = Separator /\ b[4] = Separator
  BY SealedHeadIs
<1>4. \A k \in 1..Len(c) : /\ b[k + 4] = c[k] /\ c[k].kind = "cipher"
                           /\ c[k].upper = FALSE /\ Len(c[k].data) = 3
  BY SealedSymbols, SealedSymbolAt
<1>i. i \in 1..Len(b)
  OBVIOUS
<1> HIDE DEF b, c
<1>5. x \in Seq(Symbols) /\ Len(x) = Len(b) /\ x[i] = s /\ \A k \in 1..Len(b) : k # i => x[k] = b[k]
  <2>1. b \in Seq(Symbols) /\ i \in 1..Len(b) /\ s \in Symbols
    BY <1>1, <1>2, <1>i
  <2> QED
    BY <2>1, ExceptSeq
<1>6. s = b[i] => x = b
  <2>1. ASSUME s = b[i]
        PROVE  \A k \in 1..Len(x) : x[k] = b[k]
    BY <1>5, <2>1
  <2> HIDE DEF x
  <2> QED
    BY <1>2, <1>5, <2>1, SeqEqual
<1> HIDE DEF x
<1>7. ASSUME NEW pw \in Passwords, OpenBody(x, pw) # Unopened
      PROVE  s = b[i]
  <2>1. Readable(x) /\ x[1].kind = "salt" /\ x[3] = Mac(<<pw, x[1].data[1]>>, CipherPart(x))
    BY <1>7, Zenon DEF OpenBody
  <2>2. DOMAIN x = 1..Len(x) /\ {1, 2, 3, 4} \subseteq 1..Len(x)
    BY <1>2, <1>5
  <2>3. \A k \in 1..Len(x) : x[k].kind # "not hex" /\ (x[k].kind = "separator" <=> k \in {2, 4})
    <3>1. (\A k \in DOMAIN x : x[k].kind # "not hex") /\ Separators(x) = {2, 4}
      BY <2>1, Zenon DEF Readable
    <3>2. \A k \in DOMAIN x : k \in Separators(x) <=> x[k].kind = "separator"
      BY DEF Separators
    <3> QED
      BY <3>1, <3>2, <2>2
  <2>4. s.kind # "not hex" /\ (s.kind = "separator" <=> i \in {2, 4})
    BY <2>3, <1>5, <1>i
  <2>5. CASE i \in {2, 4}
    <3>1. s.kind = "separator" /\ s.data = <<>>
      BY <2>4, <2>5, <1>s
    <3>2. Separator.kind = "separator" /\ Separator.data = <<>> /\ Separator.upper = FALSE
      BY DEF Separator, Sym
    <3>3. b[i] = Separator /\ b[i] \in Symbols
      BY <2>5, <1>2, <1>3, <1>i
    <3>4. s.kind = Separator.kind /\ s.data = Separator.data /\ s.upper = Separator.upper /\ Separator \in Symbols
      BY <1>1, <3>1, <3>2, <3>3
    <3>5. s = Separator
      BY <1>1, <3>4, SameSymbol
    <3> QED
      BY <3>3, <3>5
  <2>6. CASE i = 1
    <3>1. x[3] = b[3]
      BY <2>6, <2>2, <1>5
    <3>2. x[1].data[1] = salt
      <4>1. x[3] = SealedBody(value, secret, salt)[3]
        BY <3>1, Zenon DEF b
      <4>2. x \in Seq(Symbols)
        BY <1>5
      <4> QED
        BY <4>1, <4>2, <1>7, MacBinds
    <3>3. x[1] = s /\ s.kind = "salt" /\ s.data = << 2 >>
      <4>1. x[1] = s
        BY <2>6, <1>5
      <4>2. s.kind = "salt"
        BY <4>1, <2>1
      <4> QED
        BY <4>1, <4>2, <1>s
    <3>4. s.data = <<salt>>
      <4>1. << 2 >>[1] = 2
        OBVIOUS
      <4> QED
        BY <3>2, <3>3, <4>1
    <3>5. b[1] \in Symbols
      BY <1>2
    <3>6. s.kind = b[1].kind /\ s.data = b[1].data /\ s.upper = b[1].upper
      BY <3>3, <3>4, <1>1, <1>3
    <3>7. s = b[1]
      BY <3>5, <3>6, <1>1, SameSymbol
    <3> QED
      BY <2>6, <3>7
  <2>7. CASE i = 3
    <3>1. x[3] = s
      BY <2>7, <1>5
    <3> DEFINE y == x[1].data[1]
               d == CipherPart(x)
    <3>2. s.kind = "mac" /\ s.data = <<pw, y>> \o DataOf(d)
      BY <2>1, <3>1, MacIs
    <3>3. s.data = <<1, 1>>
      BY <3>2, <1>s
    <3>4. d \in Seq(Symbols) /\ Len(d) # 0 /\ (\A k \in 1..Len(d) : d[k] = x[k + 4])
      <4>1. \A k \in 5..Len(x) : x[k] \in Symbols
        BY <1>5
      <4>2. /\ SubSeq(x, 5, Len(x)) \in Seq(Symbols)
            /\ Len(SubSeq(x, 5, Len(x))) = (IF 5 <= Len(x) THEN Len(x) - 5 + 1 ELSE 0)
            /\ \A k \in 1..Len(x) - 5 + 1 : SubSeq(x, 5, Len(x))[k] = x[5 + k - 1]
        BY <4>1, <1>2, <1>5, SubSeqProperties
      <4>3. Len(x) \in Nat /\ Len(x) >= 5
        BY <1>2, <1>5
      <4> HIDE DEF d
      <4>4. d = SubSeq(x, 5, Len(x))
        BY DEF d, CipherPart
      <4>5. d \in Seq(Symbols) /\ Len(d) = Len(x) - 5 + 1 /\ \A k \in 1..Len(x) - 5 + 1 : d[k] = x[5 + k - 1]
        BY <4>2, <4>3, <4>4
      <4>6. \A k \in 1..Len(d) : d[k] = x[k + 4]
        <5> TAKE k \in 1..Len(d)
        <5>1. k \in 1..Len(x) - 5 + 1 /\ 5 + k - 1 = k + 4
          BY <4>3, <4>5
        <5> QED
          BY <5>1, <4>5
      <4>7. Len(d) # 0
        <5>1. Len(d) = Len(x) - 5 + 1 /\ Len(x) \in Nat /\ Len(x) >= 5
          BY <4>3, <4>5
        <5> DEFINE n == Len(x)
                   m == Len(d)
        <5>2. n \in Nat /\ n >= 5 /\ m = n - 5 + 1
          BY <5>1
        <5> HIDE DEF m, n
        <5>3. m # 0
          BY <5>2
        <5> QED
          BY <5>3 DEF m
      <4> QED
        BY <4>5, <4>6, <4>7
    <3>5. \A k \in 1..Len(d) : Len(d[k].data) # 0
      <4> TAKE k \in 1..Len(d)
      <4>1. k + 4 \in 1..Len(b) /\ k \in 1..Len(c) /\ k + 4 # 3
        <5>1. Len(d) = Len(x) - 4
          <6>1. 5 \in 1..Len(x) + 1
            BY <1>2, <1>5
          <6>2. \A k1 \in 5..Len(x) : x[k1] \in Symbols
            BY <1>5
          <6>3. Len(SubSeq(x, 5, Len(x))) = IF 5 <= Len(x) THEN Len(x) - 5 + 1 ELSE 0
            BY <6>2, <1>2, <1>5, SubSeqProperties
          <6> QED
            BY <6>3, <1>2, <1>5 DEF CipherPart
        <5> HIDE DEF d
        <5> QED
          BY <5>1, <1>2, <1>5
      <4>2. d[k] = b[k + 4]
        BY <4>1, <3>4, <2>7, <1>5
      <4>3. Len(c[k].data) = 3 /\ b[k + 4] = c[k]
        BY <4>1, <1>4
      <4> HIDE DEF d
      <4>4. d[k] = c[k]
        BY <4>2, <4>3
      <4>5. Len(d[k].data) = 3
        BY <4>3, <4>4, Zenon
      <4> QED
        BY <4>5
    <3> HIDE DEF d, y
    <3>6. Len(DataOf(d)) # 0 /\ DataOf(d) \in Seq(Atoms)
      BY <3>4, <3>5, DataOfNotEmpty, DataOfType
    <3> DEFINE F == DataOf(d)
    <3>7. F \in Seq(Atoms) /\ Len(F) # 0 /\ Keyed(1, 1, <<>>) = Keyed(pw, y, F)
      <4>1. <<1, 1>> \o <<>> = <<1, 1>>
        <5>1. <<1, 1>> \in Seq(Nat)
          OBVIOUS
        <5> QED
          BY <5>1, ConcatEmptySeq
      <4> QED
        BY <4>1, <3>2, <3>3, <3>6 DEF Keyed
    <3> HIDE DEF F
    <3>8. <<>> \in Seq(Atoms)
      OBVIOUS
    <3> DEFINE E == <<>>
               one == 1
    <3>9. E \in Seq(Atoms) /\ Keyed(one, one, E) = Keyed(pw, y, F) /\ Len(E) = 0
      BY <3>7, <3>8
    <3> HIDE DEF E, one
    <3>10. one = pw /\ one = y /\ E = F
      <4>1. E \in Seq(Atoms) /\ F \in Seq(Atoms) /\ Keyed(one, one, E) = Keyed(pw, y, F)
        BY <3>7, <3>9
      <4> QED
        BY <4>1, KeyPrefix
    <3> QED
      BY <3>7, <3>9, <3>10
  <2>8. CASE i \notin {1, 2, 3, 4}
    <3>1. x[3] = b[3] /\ x[1] = b[1]
      BY <2>8, <2>2, <1>5
    <3>2. DataOf(CipherPart(x)) = DataOf(c)
      BY <1>2, <1>5, <1>7, <3>1, MacBinds DEF b, c
    <3> DEFINE j == i - 4
    <3>3. j \in 1..Len(c) /\ j + 4 = i
      BY <2>8, <1>2, <1>i
    <3>4. CipherPart(x) = [c EXCEPT ![j] = s]
      <4> DEFINE k == [c EXCEPT ![j] = s]
                 d == SubSeq(x, 5, Len(x))
      <4>0. c \in Seq(Symbols) /\ j \in 1..Len(c) /\ s \in Symbols
        BY <1>1, <1>2, <3>3
      <4> HIDE DEF j
      <4>1. k \in Seq(Symbols) /\ Len(k) = Len(c) /\ k[j] = s /\ \A m \in 1..Len(c) : m # j => k[m] = c[m]
        BY <4>0, ExceptSeq
      <4>2. \A m \in 5..Len(x) : x[m] \in Symbols
        BY <1>5
      <4>3. /\ d \in Seq(Symbols) /\ Len(d) = (IF 5 <= Len(x) THEN Len(x) - 5 + 1 ELSE 0)
            /\ \A m \in 1..Len(x) - 5 + 1 : d[m] = x[5 + m - 1]
        BY <4>2, <1>2, <1>5, SubSeqProperties
      <4> HIDE DEF k, d
      <4>4. Len(d) = Len(c)
        BY <4>3, <1>2, <1>5
      <4>5. ASSUME NEW m \in 1..Len(d)
            PROVE  d[m] = k[m]
        <5>1. m \in 1..Len(c) /\ m \in 1..Len(x) - 5 + 1 /\ 5 + m - 1 = m + 4 /\ m + 4 \in 1..Len(b)
          BY <4>4, <1>2, <1>5
        <5>2. d[m] = x[m + 4]
          BY <5>1, <4>3
        <5>3. CASE m = j
          BY <5>2, <5>3, <3>3, <4>1, <1>5
        <5>4. CASE m # j
          <6>1. m + 4 # i
            BY <5>1, <5>4, <3>3
          <6>2. x[m + 4] = c[m]
            BY <6>1, <5>1, <1>4, <1>5
          <6> QED
            BY <6>2, <5>1, <5>2, <5>4, <4>1
        <5> QED
          BY <5>3, <5>4
      <4>6. d = k
        BY <4>1, <4>3, <4>4, <4>5, SeqEqual
      <4> QED
        BY <4>6 DEF d, k, CipherPart
    <3> HIDE DEF j
    <3>5. s.data = c[j].data
      <4>1. c \in Seq(Symbols) /\ j \in 1..Len(c) /\ s \in Symbols
        BY <1>1, <1>2, <3>3
      <4>2. DataOf([c EXCEPT ![j] = s]) = DataOf(c)
        BY <3>2, <3>4, Zenon
      <4> QED
        BY <4>1, <4>2, DataOfReplaced, Zenon
    <3>6. Len(s.data) = 3
      BY <3>3, <3>5, <1>4
    <3>7. s.kind = "cipher"
      <4>1. Len(<<>>) = 0 /\ Len(<< 2 >>) = 1 /\ Len(<<1, 1>>) = 2
        OBVIOUS
      <4>2. s.data # <<>>
        <5> SUFFICES ASSUME s.data = <<>> PROVE FALSE
          OBVIOUS
        <5>1. Len(<<>>) = 3
          BY <3>6, Zenon
        <5> QED
          BY <4>1, <5>1
      <4>3. s.data # << 2 >>
        <5> SUFFICES ASSUME s.data = << 2 >> PROVE FALSE
          OBVIOUS
        <5>1. Len(<< 2 >>) = 3
          BY <3>6, Zenon
        <5> QED
          BY <4>1, <5>1
      <4>4. s.data # <<1, 1>>
        <5> SUFFICES ASSUME s.data = <<1, 1>> PROVE FALSE
          OBVIOUS
        <5>1. Len(<<1, 1>>) = 3
          BY <3>6, Zenon
        <5> QED
          BY <4>1, <5>1
      <4> QED
        BY <4>2, <4>3, <4>4, <1>s, Zenon
    <3>8. c[j] \in Symbols /\ c[j].kind = "cipher" /\ c[j].upper = FALSE /\ b[i] = c[j]
      BY <3>3, <1>2, <1>4
    <3>9. s = c[j]
      BY <1>1, <3>5, <3>7, <3>8, SameSymbol
    <3> QED
      BY <3>8, <3>9
  <2> QED
    BY <2>5, <2>6, <2>7, <2>8
<1>8. \A pw \in Passwords : OpenBody(x, pw) # Unopened => x = b
  BY <1>6, <1>7
<1>9. OpensToWhole(x, secret, value)
  BY <1>8, SafeIfSame DEF b
<1> QED
  BY <1>9 DEF x, b

LEMMA RemovedAfter ==
    ASSUME NEW S, NEW h \in Seq(S), NEW c \in Seq(S), NEW j \in 1..Len(c)
    PROVE  RemoveAt(h \o c, Len(h) + j) = h \o (SubSeq(c, 1, j - 1) \o SubSeq(c, j + 1, Len(c)))
<1> DEFINE p == SubSeq(c, 1, j - 1)
           q == SubSeq(c, j + 1, Len(c))
           k == Len(h) + j
<1>1. j - 1 \in 0..Len(c) /\ j + 1 \in 1..Len(c) + 1 /\ Len(c) \in 0..Len(c)
  OBVIOUS
<1>2. k - 1 = Len(h) + (j - 1) /\ k + 1 = Len(h) + (j + 1) /\ Len(h \o c) = Len(h) + Len(c)
  OBVIOUS
<1>3. SubSeq(h \o c, 1, k - 1) = h \o p
  BY <1>1, <1>2, SubSeqThrough
<1>4. SubSeq(h \o c, k + 1, Len(h \o c)) = q
  BY <1>1, <1>2, SubSeqAfter
<1>5. p \in Seq(S) /\ q \in Seq(S)
  BY SplitAt
<1> HIDE DEF p, q, k
<1>6. (h \o p) \o q = h \o (p \o q)
  <2>1. h \in Seq(S) /\ p \in Seq(S) /\ q \in Seq(S)
    BY <1>5
  <2> QED
    BY <2>1, ConcatAssociative, SMTT(20)
<1>7. RemoveAt(h \o c, k) = h \o (p \o q)
  BY <1>3, <1>4, <1>6, Zenon DEF RemoveAt
<1> QED
  BY <1>7 DEF p, q, k

LEMMA LongerEnd ==
    ASSUME NEW S, NEW p \in Seq(S), NEW x \in Seq(S), Len(x) # 0
    PROVE  p \o x # p
<1>1. Len(p \o x) = Len(p) + Len(x) /\ Len(p) \in Nat /\ Len(x) \in Nat
  OBVIOUS
<1> QED
  BY <1>1

\* The head of a sealed body opens over no bytes but its own.
LEMMA OtherBytesAreSafe ==
    ASSUME NEW value \in Seq(Nat), NEW secret \in Passwords, NEW salt \in Salts,
           NEW d \in Seq(Symbols), DataOf(d) # DataOf(CipherOf(value, secret, salt))
    PROVE  OpensToWhole(SealedHead(value, secret, salt) \o d, secret, value)
<1> DEFINE h == SealedHead(value, secret, salt)
           x == h \o d
           b == SealedBody(value, secret, salt)
<1>1. h \in Seq(Symbols) /\ Len(h) = 4
  BY HeadIs
<1>2. b[3] = h[3]
  BY SealedFacts
<1> HIDE DEF h, b
<1>3. x \in Seq(Symbols) /\ x[3] = h[3]
  <2>1. h \in Seq(Symbols)
    BY <1>1
  <2>2. h \o d \in Seq(Symbols) /\ \A i \in 1..Len(h) : (h \o d)[i] = h[i]
    BY <2>1, ConcatParts
  <2>3. 3 \in 1..Len(h)
    BY <1>1
  <2> QED
    BY <2>2, <2>3
<1>4. CipherPart(x) = d
  BY <1>1, CipherAfter
<1> HIDE DEF x
<1>5. ASSUME NEW pw \in Passwords
      PROVE  OpenBody(x, pw) = Unopened
  <2> SUFFICES ASSUME OpenBody(x, pw) # Unopened
               PROVE  FALSE
    OBVIOUS
  <2>1. x[3] = SealedBody(value, secret, salt)[3]
    BY <1>2, <1>3 DEF b
  <2>2. DataOf(CipherPart(x)) = DataOf(CipherOf(value, secret, salt))
    BY <1>3, <2>1, MacBinds
  <2> QED
    BY <1>4, <2>2
<1>6. OpensToWhole(x, secret, value)
  BY <1>5, ClosedIsSafe
<1> QED
  BY <1>6 DEF x, h

LEMMA DoubledIsSafe ==
    ASSUME NEW value \in Seq(Nat), NEW secret \in Passwords, NEW salt \in Salts
    PROVE  LET b == SealedBody(value, secret, salt)
           IN  OpensToWhole(b \o SubSeq(b, Len(b) - BlockSize + 1, Len(b)), secret, value)
<1> DEFINE b == SealedBody(value, secret, salt)
           h == SealedHead(value, secret, salt)
           c == CipherOf(value, secret, salt)
           last == SubSeq(c, Len(c) - BlockSize + 1, Len(c))
<1>1. h \in Seq(Symbols) /\ Len(h) = 4
  BY HeadIs
<1>2. c \in Seq(Symbols) /\ Len(c) \in Nat /\ Len(c) >= BlockSize
  BY SealedCipher
<1>3. \A i \in 1..Len(c) : Len(c[i].data) = 3
  BY SealedSymbols
<1>4. b = h \o c
  BY DEF SealedBody
<1> HIDE DEF b, h, c
<1>5. BlockSize \in Nat /\ BlockSize >= 1
  BY EnvelopeAssumption
<1>6. Len(c) - BlockSize + 1 \in 1..Len(c) + 1 /\ Len(c) \in 0..Len(c)
  BY <1>2, <1>5
<1>7. /\ last \in Seq(Symbols) /\ Len(last) = BlockSize
      /\ \A k \in 1..BlockSize : last[k] = c[Len(c) - BlockSize + 1 + k - 1]
  <2> DEFINE m == Len(c) - BlockSize + 1
             n == Len(c)
  <2>1. \A i \in m..n : c[i] \in Symbols
    BY <1>2, <1>5, <1>6
  <2>2. m \in Int /\ n \in Int /\ m <= n /\ n - m + 1 = BlockSize
    BY <1>2, <1>5
  <2> HIDE DEF m, n
  <2>3. /\ SubSeq(c, m, n) \in Seq(Symbols) /\ Len(SubSeq(c, m, n)) = BlockSize
        /\ \A k \in 1..BlockSize : SubSeq(c, m, n)[k] = c[m + k - 1]
    BY <2>1, <2>2, SubSeqProperties
  <2> QED
    BY <2>3 DEF m, n
<1>8. \A k \in 1..Len(last) : Len(last[k].data) # 0
  <2> TAKE k \in 1..Len(last)
  <2> DEFINE j == Len(c) - BlockSize + 1 + k - 1
  <2>1. j \in 1..Len(c) /\ k \in 1..BlockSize
    BY <1>2, <1>5, <1>7
  <2>2. last[k] = c[j]
    BY <1>7, <2>1
  <2> HIDE DEF j, last
  <2>3. Len(last[k].data) = 3
    BY <1>3, <2>1, <2>2
  <2> QED
    BY <2>3
<1>9. SubSeq(b, Len(b) - BlockSize + 1, Len(b)) = last
  <2> DEFINE m == Len(c) - BlockSize + 1
  <2>1. h \in Seq(Symbols) /\ c \in Seq(Symbols)
    BY <1>1, <1>2
  <2>2. Len(b) = Len(h) + Len(c)
    BY <2>1, <1>4, ConcatParts
  <2>3. Len(b) - BlockSize + 1 = Len(h) + m
    BY <2>2, <1>1, <1>2, <1>5
  <2>4. m \in 1..Len(c) + 1 /\ Len(c) \in 0..Len(c)
    BY <1>6
  <2> HIDE DEF m
  <2>5. SubSeq(h \o c, Len(h) + m, Len(h) + Len(c)) = SubSeq(c, m, Len(c))
    BY <2>1, <2>4, SubSeqAfter
  <2> QED
    BY <1>4, <2>2, <2>3, <2>5, Zenon DEF m
<1> HIDE DEF last
<1>10. Len(DataOf(last)) # 0
  <2>1. last \in Seq(Symbols) /\ Len(last) # 0
    BY <1>5, <1>7
  <2> QED
    BY <1>8, <2>1, DataOfNotEmpty
<1>11. DataOf(c \o last) = DataOf(c) \o DataOf(last)
  BY <1>2, <1>7, DataOfConcat
<1>12. DataOf(c) \in Seq(Atoms) /\ DataOf(last) \in Seq(Atoms)
  BY <1>2, <1>7, DataOfType
<1>13. DataOf(c) \o DataOf(last) # DataOf(c)
  BY <1>10, <1>12, LongerEnd
<1>14. c \o last \in Seq(Symbols)
  BY <1>2, <1>7, ConcatProperties
<1>15. DataOf(c \o last) # DataOf(CipherOf(value, secret, salt))
  BY <1>11, <1>13 DEF c
<1>16. OpensToWhole(SealedHead(value, secret, salt) \o (c \o last), secret, value)
  BY <1>14, <1>15, OtherBytesAreSafe
<1>17. b \o last = h \o (c \o last)
  <2>1. h \in Seq(Symbols) /\ c \in Seq(Symbols) /\ last \in Seq(Symbols)
    BY <1>1, <1>2, <1>7
  <2>2. (h \o c) \o last = h \o (c \o last)
    BY <2>1, ConcatAssociative
  <2> QED
    BY <1>4, <2>2, Zenon
<1> QED
  BY <1>9, <1>16, <1>17 DEF b, h

LEMMA DroppedIsSafe ==
    ASSUME NEW value \in Seq(Nat), NEW secret \in Passwords, NEW salt \in Salts
    PROVE  LET b == SealedBody(value, secret, salt)
           IN  OpensToWhole(SubSeq(b, 1, Len(b) - BlockSize), secret, value)
<1> DEFINE b == SealedBody(value, secret, salt)
           h == SealedHead(value, secret, salt)
           c == CipherOf(value, secret, salt)
           n == Len(c) - BlockSize
           kept == SubSeq(c, 1, n)
           rest == SubSeq(c, n + 1, Len(c))
<1>1. h \in Seq(Symbols) /\ Len(h) = 4
  BY HeadIs
<1>2. c \in Seq(Symbols) /\ Len(c) \in Nat /\ Len(c) >= BlockSize
  BY SealedCipher
<1>3. \A i \in 1..Len(c) : Len(c[i].data) = 3
  BY SealedSymbols
<1>4. b = h \o c
  BY DEF SealedBody
<1> HIDE DEF b, h, c
<1>5. BlockSize \in Nat /\ BlockSize >= 1
  BY EnvelopeAssumption
<1>6. n \in Nat /\ n \in 0..Len(c) /\ n + 1 \in 1..Len(c)
  BY <1>2, <1>5
<1>0. h \in Seq(Symbols) /\ c \in Seq(Symbols)
  BY <1>1, <1>2
<1>7. Len(b) - BlockSize = Len(h) + n
  <2>1. Len(b) = Len(h) + Len(c)
    BY <1>0, <1>4, ConcatParts
  <2> QED
    BY <2>1, <1>1, <1>2, <1>5
<1>8. SubSeq(b, 1, Len(b) - BlockSize) = h \o kept
  <2> HIDE DEF n
  <2>1. n \in 0..Len(c)
    BY <1>6
  <2>2. SubSeq(h \o c, 1, Len(h) + n) = h \o SubSeq(c, 1, n)
    BY <1>0, <2>1, SubSeqThrough
  <2> QED
    BY <1>4, <1>7, <2>2, Zenon
<1> HIDE DEF n
<1>9. /\ rest \in Seq(Symbols) /\ Len(rest) = Len(c) - n
      /\ \A k \in 1..Len(c) - n : rest[k] = c[n + k]
  <2> DEFINE m == n + 1
  <2>1. \A i \in m..Len(c) : c[i] \in Symbols
    BY <1>2, <1>6
  <2>2. m \in Int /\ Len(c) \in Int /\ m <= Len(c) /\ Len(c) - m + 1 = Len(c) - n
        /\ \A k \in 1..Len(c) - n : m + k - 1 = n + k
    BY <1>2, <1>6
  <2> HIDE DEF m
  <2>3. /\ SubSeq(c, m, Len(c)) \in Seq(Symbols) /\ Len(SubSeq(c, m, Len(c))) = Len(c) - n
        /\ \A k \in 1..Len(c) - n : SubSeq(c, m, Len(c))[k] = c[m + k - 1]
    BY <2>1, <2>2, SubSeqProperties
  <2>4. \A k \in 1..Len(c) - n : SubSeq(c, m, Len(c))[k] = c[n + k]
    BY <2>2, <2>3
  <2> QED
    BY <2>3, <2>4 DEF m
<1>10. kept \in Seq(Symbols)
  BY <1>2, <1>6, LowerSubSeq
<1>11. c = kept \o rest
  BY <1>2, <1>6, ConcatAdjacentSubSeq, SubSeqFull
<1> HIDE DEF kept, rest
<1>12. \A k \in 1..Len(rest) : Len(rest[k].data) # 0
  <2> TAKE k \in 1..Len(rest)
  <2> DEFINE j == n + k
  <2>1. j \in 1..Len(c) /\ k \in 1..Len(c) - n
    BY <1>2, <1>6, <1>9
  <2>2. rest[k] = c[j]
    BY <1>9, <2>1
  <2> HIDE DEF j
  <2>3. Len(rest[k].data) = 3
    BY <1>3, <2>1, <2>2
  <2> QED
    BY <2>3
<1>13. Len(DataOf(rest)) # 0
  <2>1. rest \in Seq(Symbols) /\ Len(rest) # 0
    BY <1>2, <1>6, <1>9
  <2> QED
    BY <1>12, <2>1, DataOfNotEmpty
<1>14. DataOf(c) = DataOf(kept) \o DataOf(rest)
  BY <1>9, <1>10, <1>11, DataOfConcat
<1>15. DataOf(kept) \in Seq(Atoms) /\ DataOf(rest) \in Seq(Atoms)
  BY <1>9, <1>10, DataOfType
<1>16. DataOf(kept) # DataOf(c)
  BY <1>13, <1>14, <1>15, LongerEnd
<1>17. DataOf(kept) # DataOf(CipherOf(value, secret, salt))
  BY <1>16 DEF c
<1>18. OpensToWhole(SealedHead(value, secret, salt) \o kept, secret, value)
  BY <1>10, <1>17, OtherBytesAreSafe
<1> QED
  BY <1>8, <1>18 DEF b, h

LEMMA RemovedIsSafe ==
    ASSUME NEW value \in Seq(Nat), NEW secret \in Passwords, NEW salt \in Salts,
           NEW i \in 1..Len(SealedBody(value, secret, salt))
    PROVE  OpensToWhole(RemoveAt(SealedBody(value, secret, salt), i), secret, value)
<1> DEFINE b == SealedBody(value, secret, salt)
           h == SealedHead(value, secret, salt)
           c == CipherOf(value, secret, salt)
<1>1. h \in Seq(Symbols) /\ Len(h) = 4
  BY HeadIs
<1>2. b \in Seq(Symbols) /\ c \in Seq(Symbols)
  BY SealedCipher, SealedSizes
<1>3. Len(b) = 4 + Len(c) /\ Len(c) \in Nat /\ Len(c) >= 1
  BY SealedCipher, SealedSizes
<1>4. \A k \in 1..Len(c) : b[k + 4] = c[k] /\ c[k].kind = "cipher"
  BY SealedSymbols, SealedSymbolAt
<1>5. \A k \in 1..Len(c) : Len(c[k].data) = 3
  BY SealedSymbols
<1>6. b = h \o c
  BY DEF SealedBody
<1>7. i \in 1..Len(b)
  OBVIOUS
<1> HIDE DEF b, h, c
<1>8. CASE i <= 4
  <2> DEFINE p == SubSeq(b, 1, i - 1)
             q == SubSeq(b, i + 1, Len(b))
             x == p \o q
             m == i + 1
  <2>1. p \in Seq(Symbols) /\ q \in Seq(Symbols)
    BY <1>2, <1>7, SplitAt
  <2>2. Len(p) = i - 1
    BY <1>2, <1>7
  <2>3. Len(q) = Len(b) - i /\ \A k \in 1..Len(b) - i : q[k] = b[i + k]
    <3>1. \A k \in m..Len(b) : b[k] \in Symbols
      BY <1>2, <1>7
    <3>2. m \in Int /\ Len(b) \in Int
      BY <1>3
    <3> HIDE DEF m
    <3>3. /\ Len(SubSeq(b, m, Len(b))) = (IF m <= Len(b) THEN Len(b) - m + 1 ELSE 0)
          /\ \A k \in 1..Len(b) - m + 1 : SubSeq(b, m, Len(b))[k] = b[m + k - 1]
      BY <3>1, <3>2, SubSeqProperties
    <3>4. Len(SubSeq(b, m, Len(b))) = Len(b) - i
      BY <3>3, <1>3, <1>7 DEF m
    <3>5. ASSUME NEW k \in 1..Len(b) - i
          PROVE  SubSeq(b, m, Len(b))[k] = b[i + k]
      <4>1. k \in 1..Len(b) - m + 1 /\ m + k - 1 = i + k
        BY <1>3, <1>7 DEF m
      <4> QED
        BY <3>3, <4>1
    <3> QED
      BY <3>4, <3>5 DEF m
  <2> HIDE DEF p, q
  <2>4. x \in Seq(Symbols) /\ Len(x) = Len(p) + Len(q)
    BY <2>1, ConcatParts
  <2>5. x[4] = q[5 - i]
    <3>1. \A k \in 1..Len(p) + Len(q) : x[k] = IF k <= Len(p) THEN p[k] ELSE q[k - Len(p)]
      BY <2>1, ConcatProperties
    <3>2. 4 \in 1..Len(p) + Len(q) /\ ~(4 <= Len(p)) /\ 4 - Len(p) = 5 - i
      BY <1>3, <1>7, <1>8, <2>2, <2>3
    <3> QED
      BY <3>1, <3>2
  <2>6. q[5 - i] = b[5]
    <3>1. 5 - i \in 1..Len(b) - i /\ i + (5 - i) = 5
      BY <1>3, <1>7, <1>8
    <3> QED
      BY <2>3, <3>1
  <2>7. b[5].kind = "cipher"
    <3>1. 1 \in 1..Len(c) /\ 1 + 4 = 5
      BY <1>3
    <3>2. b[1 + 4] = c[1] /\ c[1].kind = "cipher"
      BY <1>4, <3>1
    <3> QED
      BY <3>1, <3>2
  <2>8. x[4].kind = "cipher"
    BY <2>5, <2>6, <2>7
  <2>9. 4 \in DOMAIN x
    BY <2>2, <2>3, <2>4, <1>3, <1>7
  <2> HIDE DEF x
  <2>10. ~Readable(x)
    <3>1. 4 \notin Separators(x)
      BY <2>8 DEF Separators
    <3> QED
      BY <3>1 DEF Readable
  <2>11. OpensToWhole(x, secret, value)
    BY <2>10, UnreadableIsClosed, ClosedIsSafe
  <2>12. RemoveAt(b, i) = x
    BY DEF RemoveAt, x, p, q
  <2> QED
    BY <2>11, <2>12 DEF b
<1>9. CASE i > 4
  <2> DEFINE j == i - 4
             p == SubSeq(c, 1, j - 1)
             q == SubSeq(c, j + 1, Len(c))
             d == c[j].data
  <2>1. j \in 1..Len(c) /\ i = Len(h) + j
    BY <1>1, <1>3, <1>7, <1>9
  <2> HIDE DEF j
  <2>2. RemoveAt(b, i) = h \o (p \o q)
    BY <1>1, <1>2, <1>6, <2>1, RemovedAfter
  <2>3. p \in Seq(Symbols) /\ q \in Seq(Symbols) /\ c = (p \o <<c[j]>>) \o q
    BY <1>2, <2>1, SplitAt
  <2>4. c[j] \in Symbols /\ Len(d) # 0
    <3>1. Len(d) = 3
      BY <1>5, <2>1
    <3>2. c[j] \in Symbols
      BY <1>2, <2>1
    <3> HIDE DEF d
    <3> QED
      BY <3>1, <3>2
  <2> HIDE DEF p, q
  <2>5. DataOf((p \o <<c[j]>>) \o q) = (DataOf(p) \o d) \o DataOf(q)
    BY <2>3, <2>4, DataOfSplit
  <2>6. /\ DataOf(p \o q) = DataOf(p) \o DataOf(q)
        /\ DataOf(p) \in Seq(Atoms) /\ DataOf(q) \in Seq(Atoms) /\ d \in Seq(Atoms)
    BY <2>3, <2>4, DataOfSplit
  <2> HIDE DEF d
  <2>7. (DataOf(p) \o d) \o DataOf(q) # DataOf(p) \o DataOf(q)
    BY <2>4, <2>6, Longer
  <2>8. DataOf(p \o q) # DataOf(c)
    BY <2>3, <2>5, <2>6, <2>7, Zenon
  <2>9. p \o q \in Seq(Symbols)
    BY <2>3, ConcatParts
  <2>10. DataOf(p \o q) # DataOf(CipherOf(value, secret, salt))
    BY <2>8 DEF c
  <2>11. OpensToWhole(SealedHead(value, secret, salt) \o (p \o q), secret, value)
    BY <2>9, <2>10, OtherBytesAreSafe
  <2> QED
    BY <2>2, <2>11 DEF b, h
<1> QED
  BY <1>7, <1>8, <1>9, <1>3

-----------------------------------------------------------------------------
(* Steps of the envelope, and the invariant.                               *)

\* Reading a body in lower case goes along with what is done to it.
LEMMA LowerReplaced ==
    ASSUME NEW b \in Seq(Symbols), NEW i \in 1..Len(b), NEW s \in Symbols, s.upper = FALSE
    PROVE  /\ [b EXCEPT ![i] = s] \in Seq(Symbols)
           /\ Lower([b EXCEPT ![i] = s]) = [Lower(b) EXCEPT ![i] = s]
<1> DEFINE k == [b EXCEPT ![i] = s]
           low == Lower(b)
           m == [low EXCEPT ![i] = s]
<1>1. k \in Seq(Symbols) /\ Len(k) = Len(b) /\ \A j \in 1..Len(b) : k[j] = IF j = i THEN s ELSE b[j]
  BY ExceptSeq
<1>2. low \in Seq(Symbols) /\ Len(low) = Len(b) /\ \A j \in 1..Len(b) : low[j] = Unmarked(b[j])
  BY LowerFacts
<1> HIDE DEF low
<1>3. m \in Seq(Symbols) /\ Len(m) = Len(b) /\ \A j \in 1..Len(b) : m[j] = IF j = i THEN s ELSE low[j]
  <2>1. low \in Seq(Symbols) /\ i \in 1..Len(low)
    BY <1>2
  <2>2. m \in Seq(Symbols) /\ Len(m) = Len(low) /\ \A j \in 1..Len(low) : m[j] = IF j = i THEN s ELSE low[j]
    BY <2>1, ExceptSeq
  <2> QED
    BY <1>2, <2>2
<1> HIDE DEF k, m
<1>4. Lower(k) \in Seq(Symbols) /\ Len(Lower(k)) = Len(k) /\ \A j \in 1..Len(k) : Lower(k)[j] = Unmarked(k[j])
  BY <1>1, LowerFacts
<1>5. Unmarked(s) = s
  BY UnmarkedFacts
<1>6. \A j \in 1..Len(Lower(k)) : Lower(k)[j] = m[j]
  BY <1>1, <1>2, <1>3, <1>4, <1>5
<1>7. Lower(k) = m
  BY <1>1, <1>3, <1>4, <1>6, SeqEqual
<1> QED
  BY <1>1, <1>7 DEF k, m, low

LEMMA LowerRemoved ==
    ASSUME NEW b \in Seq(Symbols), NEW i \in 1..Len(b)
    PROVE  /\ RemoveAt(b, i) \in Seq(Symbols)
           /\ Lower(RemoveAt(b, i)) = RemoveAt(Lower(b), i)
<1> DEFINE p == SubSeq(b, 1, i - 1)
           q == SubSeq(b, i + 1, Len(b))
<1>1. 1 \in 1..Len(b) + 1 /\ i - 1 \in 0..Len(b) /\ i + 1 \in 1..Len(b) + 1 /\ Len(b) \in 0..Len(b)
  OBVIOUS
<1>2. p \in Seq(Symbols) /\ Lower(p) = SubSeq(Lower(b), 1, i - 1)
  BY <1>1, LowerSubSeq
<1>3. q \in Seq(Symbols) /\ Lower(q) = SubSeq(Lower(b), i + 1, Len(b))
  BY <1>1, LowerSubSeq
<1>4. Len(Lower(b)) = Len(b)
  BY LowerFacts
<1>5. RemoveAt(b, i) = p \o q
  BY DEF RemoveAt
<1>6. RemoveAt(Lower(b), i) = Lower(p) \o Lower(q)
  BY <1>2, <1>3, <1>4, Zenon DEF RemoveAt
<1> HIDE DEF p, q
<1>7. p \o q \in Seq(Symbols) /\ Lower(p \o q) = Lower(p) \o Lower(q)
  BY <1>2, <1>3, LowerConcat, ConcatParts
<1> QED
  BY <1>5, <1>6, <1>7

LEMMA LowerDoubled ==
    ASSUME NEW b \in Seq(Symbols), Len(b) >= BlockSize
    PROVE  LET d == b \o SubSeq(b, Len(b) - BlockSize + 1, Len(b))
           IN  /\ d \in Seq(Symbols)
               /\ Lower(d) = Lower(b) \o SubSeq(Lower(b), Len(Lower(b)) - BlockSize + 1, Len(Lower(b)))
<1> DEFINE m == Len(b) - BlockSize + 1
           q == SubSeq(b, m, Len(b))
<1>1. m \in 1..Len(b) + 1 /\ Len(b) \in 0..Len(b)
  BY EnvelopeAssumption
<1>2. Len(Lower(b)) = Len(b)
  BY LowerFacts
<1>3. q \in Seq(Symbols) /\ Lower(q) = SubSeq(Lower(b), m, Len(b))
  <2> HIDE DEF m
  <2> QED
    BY <1>1, LowerSubSeq
<1> HIDE DEF q
<1>4. b \o q \in Seq(Symbols) /\ Lower(b \o q) = Lower(b) \o Lower(q)
  BY <1>3, LowerConcat, ConcatParts
<1> QED
  BY <1>2, <1>3, <1>4, Zenon DEF q

LEMMA LowerDropped ==
    ASSUME NEW b \in Seq(Symbols), Len(b) >= BlockSize
    PROVE  /\ SubSeq(b, 1, Len(b) - BlockSize) \in Seq(Symbols)
           /\ Lower(SubSeq(b, 1, Len(b) - BlockSize)) = SubSeq(Lower(b), 1, Len(Lower(b)) - BlockSize)
<1> DEFINE n == Len(b) - BlockSize
<1>1. 1 \in 1..Len(b) + 1 /\ n \in 0..Len(b)
  BY EnvelopeAssumption
<1>2. Len(Lower(b)) = Len(b)
  BY LowerFacts
<1>3. SubSeq(b, 1, n) \in Seq(Symbols) /\ Lower(SubSeq(b, 1, n)) = SubSeq(Lower(b), 1, n)
  <2> HIDE DEF n
  <2> QED
    BY <1>1, LowerSubSeq
<1> QED
  BY <1>2, <1>3, Zenon

\* Writing one symbol of a line in the other case.
LEMMA RecasedLine ==
    ASSUME NEW l \in Seq(Symbols)
    PROVE  /\ [l EXCEPT ![1].upper = ~@] \in Seq(Symbols)
           /\ Len([l EXCEPT ![1].upper = ~@]) = Len(l)
           /\ Lower([l EXCEPT ![1].upper = ~@]) = Lower(l)
<1> DEFINE r == [l EXCEPT ![1].upper = ~@]
           x == [l[1] EXCEPT !.upper = ~@]
<1>1. CASE Len(l) = 0
  <2>1. r = l
    BY <1>1
  <2> QED
    BY <2>1
<1>2. CASE Len(l) # 0
  <2>1. 1 \in 1..Len(l) /\ l[1] \in Symbols
    BY <1>2
  <2>2. x \in Symbols /\ Unmarked(x) = Unmarked(l[1])
    BY <2>1 DEF Symbols, Unmarked
  <2>3. r = [l EXCEPT ![1] = x]
    OBVIOUS
  <2> HIDE DEF x
  <2>4. [l EXCEPT ![1] = x] \in Seq(Symbols) /\ Len([l EXCEPT ![1] = x]) = Len(l)
        /\ \A j \in 1..Len(l) : [l EXCEPT ![1] = x][j] = IF j = 1 THEN x ELSE l[j]
    BY <2>1, <2>2, ExceptSeq
  <2>5. r \in Seq(Symbols) /\ Len(r) = Len(l) /\ \A j \in 1..Len(l) : r[j] = IF j = 1 THEN x ELSE l[j]
    BY <2>3, <2>4
  <2> HIDE DEF r
  <2>6. Lower(r) \in Seq(Symbols) /\ Len(Lower(r)) = Len(l) /\ \A j \in 1..Len(l) : Lower(r)[j] = Unmarked(r[j])
    BY <2>5, LowerFacts
  <2>7. Lower(l) \in Seq(Symbols) /\ Len(Lower(l)) = Len(l) /\ \A j \in 1..Len(l) : Lower(l)[j] = Unmarked(l[j])
    BY LowerFacts
  <2>8. \A j \in 1..Len(Lower(r)) : Lower(r)[j] = Lower(l)[j]
    BY <2>2, <2>5, <2>6, <2>7
  <2>9. Lower(r) = Lower(l)
    BY <2>6, <2>7, <2>8, SeqEqual
  <2> QED
    BY <2>5, <2>9 DEF r
<1> QED
  BY <1>1, <1>2

LEMMA RecasedText ==
    ASSUME NEW lines \in Seq(Seq(Symbols)), NEW i \in DOMAIN lines
    PROVE  LET new == [lines EXCEPT ![i][1].upper = ~@]
           IN  /\ new \in Seq(Seq(Symbols)) /\ Len(new) = Len(lines)
               /\ \A k \in 1..Len(lines) : Len(new[k]) = Len(lines[k])
               /\ Lower(FlattenSeq(new)) = Lower(FlattenSeq(lines))
<1> DEFINE new == [lines EXCEPT ![i][1].upper = ~@]
           l == lines[i]
           r == [l EXCEPT ![1].upper = ~@]
           p == SubSeq(lines, 1, i - 1)
           q == SubSeq(lines, i + 1, Len(lines))
<1>1. i \in 1..Len(lines) /\ l \in Seq(Symbols)
  OBVIOUS
<1>2. new = [lines EXCEPT ![i] = r]
  OBVIOUS
<1> HIDE DEF l
<1>3. r \in Seq(Symbols) /\ Len(r) = Len(l) /\ Lower(r) = Lower(l)
  BY <1>1, RecasedLine
<1> HIDE DEF r, new
<1>4. new \in Seq(Seq(Symbols)) /\ Len(new) = Len(lines) /\ \A k \in 1..Len(lines) : new[k] = IF k = i THEN r ELSE lines[k]
  BY <1>1, <1>2, <1>3, ExceptSeq
<1>5. \A k \in 1..Len(lines) : Len(new[k]) = Len(lines[k])
  <2> TAKE k \in 1..Len(lines)
  <2>1. CASE k = i
    <3>1. new[k] = r /\ lines[k] = l
      BY <1>4, <2>1 DEF l
    <3> QED
      BY <3>1, <1>3
  <2>2. CASE k # i
    BY <1>4, <2>2
  <2> QED
    BY <2>1, <2>2
<1>6. p \in Seq(Seq(Symbols)) /\ q \in Seq(Seq(Symbols)) /\ lines = (p \o <<l>>) \o q
  BY <1>1, SplitAt DEF l
<1>7. new = (p \o <<r>>) \o q
  <2> DEFINE L == Seq(Symbols)
  <2>1. lines \in Seq(L) /\ i \in 1..Len(lines) /\ r \in L
    BY <1>1, <1>3
  <2> HIDE DEF L
  <2>2. [lines EXCEPT ![i] = r] = (SubSeq(lines, 1, i - 1) \o <<r>>) \o SubSeq(lines, i + 1, Len(lines))
    BY <2>1, ExceptSplit
  <2> QED
    BY <1>2, <2>2, Zenon
<1> HIDE DEF p, q
<1>8. ASSUME NEW z \in Seq(Symbols)
      PROVE  /\ Lower(FlattenSeq((p \o <<z>>) \o q))
                  = (Lower(FlattenSeq(p)) \o Lower(z)) \o Lower(FlattenSeq(q))
  <2>1. <<z>> \in Seq(Seq(Symbols)) /\ FlattenSeq(<<z>>) = z
    BY FlattenSingle
  <2> DEFINE one == <<z>>
  <2>2. one \in Seq(Seq(Symbols)) /\ FlattenSeq(one) = z
    BY <2>1
  <2> HIDE DEF one
  <2>3. p \o one \in Seq(Seq(Symbols)) /\ FlattenSeq(p \o one) = FlattenSeq(p) \o z
    BY <1>6, <2>2, FlattenConcat, ConcatParts
  <2>4. FlattenSeq((p \o one) \o q) = (FlattenSeq(p) \o z) \o FlattenSeq(q)
    BY <1>6, <2>3, FlattenConcat
  <2>5. FlattenSeq(p) \in Seq(Symbols) /\ FlattenSeq(q) \in Seq(Symbols)
    BY <1>6, FlattenType
  <2> DEFINE fp == FlattenSeq(p)
             fq == FlattenSeq(q)
  <2>6. fp \in Seq(Symbols) /\ fq \in Seq(Symbols)
    BY <2>5
  <2> HIDE DEF fp, fq
  <2>7. fp \o z \in Seq(Symbols) /\ Lower(fp \o z) = Lower(fp) \o Lower(z)
    BY <2>6, LowerConcat, ConcatParts
  <2>8. Lower((fp \o z) \o fq) = Lower(fp \o z) \o Lower(fq)
    BY <2>6, <2>7, LowerConcat
  <2> QED
    BY <2>4, <2>7, <2>8 DEF one, fp, fq
<1>9. Lower(FlattenSeq(new)) = Lower(FlattenSeq(lines))
  BY <1>1, <1>3, <1>6, <1>7, <1>8
<1> QED
  BY <1>4, <1>5, <1>9 DEF new

TextHeaders == Supported \cup {"none", "unsupported"}
Texts == [header : TextHeaders, lines : Seq(Seq(Symbols)), eol : {"lf", "crlf", "cr"}, final : 0..2]

SealedText(value, pw, salt) == serializeVaultEnvelope("1.2;label", SealedBody(value, pw, salt))

\* The text as it is now was sealed with that salt, and says what it says.
SealedAs(salt) ==
    /\ plain \in Seq(Nat) /\ password \in Passwords
    /\ sealed = SealedText(plain, password, salt)
    /\ harmless => /\ Framed(vaultText)
                   /\ Lower(Body) = SealedBody(plain, password, salt)
                   /\ relabelled \/ vaultText.header = "1.2;label"
    /\ OpensToWhole(Lower(Body), password, plain)

\* A text is one that can be written; nothing is sealed yet, or one value is.
EnvelopeInv ==
    /\ vaultText \in Texts
    /\ IF sealed = NoText THEN vaultText = NoText /\ harmless /\ ~relabelled
       ELSE \E salt \in Salts : SealedAs(salt)

LEMMA WrappedIsText ==
    ASSUME NEW header \in TextHeaders, NEW body \in Seq(Symbols)
    PROVE  /\ serializeVaultEnvelope(header, body) \in Texts
           /\ FlattenSeq(serializeVaultEnvelope(header, body).lines) = body
           /\ serializeVaultEnvelope(header, body).header = header
           /\ header \in Supported /\ body # <<>> => Framed(serializeVaultEnvelope(header, body))
<1> DEFINE t == serializeVaultEnvelope(header, body)
<1>1. t = [header |-> t.header, eol |-> t.eol, final |-> t.final, lines |-> t.lines]
  BY DEF serializeVaultEnvelope
<1>2. t.header = header /\ t.eol = "lf" /\ t.final = 1
  BY WrapShape
<1>3. t.lines \in Seq(Seq(Symbols)) /\ (t.lines = <<>> <=> body = <<>>)
  BY WrapType
<1>4. \A i \in DOMAIN t.lines : Len(t.lines[i]) \in 1..LineWidth
  BY WrapType
<1>5. FlattenSeq(t.lines) = body
  BY WrapFlattens
<1> HIDE DEF t
<1>6. t \in Texts
  BY <1>1, <1>2, <1>3 DEF Texts
<1>7. header \in Supported /\ body # <<>> => Framed(t)
  BY <1>2, <1>3, <1>4 DEF Framed
<1> QED
  BY <1>2, <1>5, <1>6, <1>7 DEF t

LEMMA SealedTextFacts ==
    ASSUME NEW value \in Seq(Nat), NEW pw \in Passwords, NEW salt \in Salts
    PROVE  LET t == SealedText(value, pw, salt)
           IN  /\ t \in Texts /\ t # NoText /\ Framed(t)
               /\ t.header = "1.2;label"
               /\ FlattenSeq(t.lines) = SealedBody(value, pw, salt)
<1> DEFINE b == SealedBody(value, pw, salt)
           t == SealedText(value, pw, salt)
<1>1. b \in Seq(Symbols) /\ Len(b) = 4 + Len(CipherOf(value, pw, salt)) /\ Len(CipherOf(value, pw, salt)) \in Nat
  BY SealedCipher, SealedSizes
<1> HIDE DEF b
<1>2. b # <<>>
  BY <1>1
<1>3. "1.2;label" \in TextHeaders /\ "1.2;label" \in Supported
  BY DEF TextHeaders, Supported
<1>4. t = serializeVaultEnvelope("1.2;label", b)
  BY DEF SealedText, b
<1>5. t \in Texts /\ FlattenSeq(t.lines) = b /\ t.header = "1.2;label" /\ Framed(t)
  BY <1>1, <1>2, <1>3, <1>4, WrappedIsText
<1> HIDE DEF t
<1>6. t # NoText
  <2>1. NoText.header = "none"
    BY DEF NoText
  <2> QED
    BY <1>5, <2>1
<1> QED
  BY <1>5, <1>6 DEF t, b

LEMMA EnvelopeInitInv ==
    EnvelopeInit => EnvelopeInv
  BY DEF EnvelopeInit, EnvelopeInv, NoText, Texts, TextHeaders

LEMMA SealTextInv ==
    ASSUME EnvelopeInv, NEW value \in Plaintexts, NEW pw \in Passwords, NEW salt \in Salts,
           SealText(value, pw, salt)
    PROVE  EnvelopeInv'
<1> DEFINE t == SealedText(value, pw, salt)
           b == SealedBody(value, pw, salt)
<1>1. value \in Seq(Nat)
  BY EnvelopeAssumption
<1>2. vaultText' = t /\ sealed' = t /\ plain' = value /\ password' = pw
  BY EncryptWraps, Zenon DEF SealText, SealedText
<1>3. harmless' /\ ~relabelled'
  BY DEF SealText, EnvelopeInv
<1>4. t \in Texts /\ t # NoText /\ Framed(t) /\ t.header = "1.2;label" /\ FlattenSeq(t.lines) = b
  BY <1>1, SealedTextFacts
<1>5. Lower(b) = b
  BY <1>1, SealedFacts
<1>6. OpensToWhole(b, pw, value)
  BY <1>1, SealedIsSafe
<1>7. Body' = b
  BY <1>2, <1>4 DEF Body
<1> HIDE DEF t, b
<1>8. Framed(vaultText)' /\ Lower(Body)' = b
  BY <1>2, <1>4, <1>5, <1>7 DEF Framed, Lower
<1>9. OpensToWhole(Lower(Body), password, plain)'
  BY <1>2, <1>5, <1>6, <1>7 DEF OpensToWhole, OpenBody, Lower
<1>10. SealedAs(salt)'
  BY <1>1, <1>2, <1>3, <1>4, <1>8, <1>9 DEF SealedAs, t, b
<1> QED
  BY <1>2, <1>4, <1>10 DEF EnvelopeInv

\* A step to a text that opens to what was sealed or not at all.
LEMMA TextStepInv ==
    ASSUME EnvelopeInv, sealed # NoText, NEW t \in Texts, vaultText' = t,
           UNCHANGED <<sealed, plain, password>>,
           OpensToWhole(Lower(FlattenSeq(t.lines)), password, plain),
           harmless' => /\ harmless /\ Framed(t)
                        /\ Lower(FlattenSeq(t.lines)) = Lower(Body)
                        /\ relabelled' \/ (~relabelled /\ t.header = vaultText.header)
    PROVE  EnvelopeInv'
<1>1. PICK salt \in Salts : SealedAs(salt)
  BY DEF EnvelopeInv
<1>2. plain' = plain /\ password' = password /\ sealed' = sealed
  OBVIOUS
<1>3. Body' = FlattenSeq(t.lines)
  BY DEF Body
<1>4. Lower(Body)' = Lower(FlattenSeq(t.lines))
  BY <1>3 DEF Lower
<1>5. plain \in Seq(Nat) /\ password \in Passwords /\ sealed = SealedText(plain, password, salt)
  BY <1>1 DEF SealedAs
<1>6. harmless => Lower(Body) = SealedBody(plain, password, salt) /\ (relabelled \/ vaultText.header = "1.2;label")
  BY <1>1 DEF SealedAs
<1>7. OpensToWhole(Lower(Body), password, plain)'
  BY <1>2, <1>4 DEF OpensToWhole
<1>8. harmless' => /\ Framed(vaultText)'
                   /\ Lower(Body)' = SealedBody(plain, password, salt)
                   /\ relabelled' \/ vaultText'.header = "1.2;label"
  BY <1>4, <1>6 DEF Framed
<1>9. SealedAs(salt)'
  BY <1>2, <1>5, <1>7, <1>8 DEF SealedAs
<1>10. vaultText' \in Texts /\ sealed' # NoText
  BY <1>2
<1> QED
  BY <1>9, <1>10 DEF EnvelopeInv

LEMMA ReformattedFacts ==
    ASSUME vaultText \in Texts, NEW t \in Reformatted
    PROVE  /\ t \in Texts /\ t.header = vaultText.header
           /\ Lower(FlattenSeq(t.lines)) = Lower(Body)
           /\ Framed(vaultText) /\ Body # <<>> => Framed(t)
<1>0. vaultText.lines \in Seq(Seq(Symbols))
  BY DEF Texts
<1>b. Body \in Seq(Symbols)
  BY <1>0, FlattenType DEF Body
<1>1. CASE \E e \in {"lf", "crlf"} : t = [vaultText EXCEPT !.eol = e]
  <2>1. PICK e \in {"lf", "crlf"} : t = [vaultText EXCEPT !.eol = e]
    BY <1>1
  <2>2. t \in Texts /\ t.header = vaultText.header /\ t.lines = vaultText.lines /\ t.final = vaultText.final /\ t.eol = e
    BY <2>1 DEF Texts
  <2>3. Framed(vaultText) => Framed(t)
    BY <2>2 DEF Framed
  <2> QED
    BY <2>2, <2>3 DEF Body
<1>2. CASE \E n \in {0, 1} : t = [vaultText EXCEPT !.final = n]
  <2>1. PICK n \in {0, 1} : t = [vaultText EXCEPT !.final = n]
    BY <1>2
  <2>0. n \in 0..2
    OBVIOUS
  <2>a. t.header = vaultText.header /\ t.lines = vaultText.lines /\ t.eol = vaultText.eol /\ t.final = n
    BY <2>1 DEF Texts
  <2>2. t \in Texts
    BY <2>0, <2>1 DEF Texts
  <2>3. Framed(vaultText) => Framed(t)
    <3>1. ~(t.final > 1)
      BY <2>a
    <3> QED
      BY <2>a, <3>1 DEF Framed
  <2> QED
    BY <2>a, <2>2, <2>3 DEF Body
<1>3. CASE \E i \in DOMAIN vaultText.lines, j \in {1} : t = [vaultText EXCEPT !.lines[i][j].upper = ~@]
  <2>1. PICK i \in DOMAIN vaultText.lines : t = [vaultText EXCEPT !.lines[i][1].upper = ~@]
    BY <1>3
  <2> DEFINE lines == vaultText.lines
             new == [lines EXCEPT ![i][1].upper = ~@]
  <2>2. new \in Seq(Seq(Symbols)) /\ Len(new) = Len(lines)
    BY <1>0, RecasedText
  <2>3. \A k \in 1..Len(lines) : Len(new[k]) = Len(lines[k])
    BY <1>0, RecasedText
  <2>4. Lower(FlattenSeq(new)) = Lower(FlattenSeq(lines))
    BY <1>0, RecasedText
  <2>5. t = [vaultText EXCEPT !.lines = new]
    BY <2>1
  <2>6. lines \in Seq(Seq(Symbols))
    BY <1>0
  <2> HIDE DEF new
  <2>7. t \in Texts /\ t.header = vaultText.header /\ t.lines = new /\ t.eol = vaultText.eol /\ t.final = vaultText.final
    BY <2>2, <2>5 DEF Texts
  <2>8. Framed(vaultText) => Framed(t)
    <3>1. DOMAIN new = DOMAIN lines /\ DOMAIN lines = 1..Len(lines) /\ (new = <<>> => lines = <<>>)
      BY <2>2, <2>6
    <3> QED
      BY <3>1, <2>3, <2>7 DEF Framed
  <2> QED
    BY <2>4, <2>7, <2>8 DEF Body
<1>4. CASE t = [vaultText EXCEPT !.lines = [i \in DOMAIN Body |-> <<Body[i]>>]]
  <2> DEFINE new == [i \in DOMAIN Body |-> <<Body[i]>>]
  <2>1. new \in Seq(Seq(Symbols)) /\ FlattenSeq(new) = Body
    BY <1>b, SymbolLines
  <2>2. \A i \in DOMAIN new : Len(new[i]) \in 1..LineWidth
    BY EnvelopeAssumption
  <2>3. Body # <<>> => new # <<>>
    BY <1>b
  <2>4. t = [vaultText EXCEPT !.lines = new]
    BY <1>4
  <2> HIDE DEF new
  <2>5. t \in Texts /\ t.header = vaultText.header /\ t.lines = new /\ t.eol = vaultText.eol /\ t.final = vaultText.final
    BY <2>1, <2>4 DEF Texts
  <2>6. Framed(vaultText) /\ Body # <<>> => Framed(t)
    BY <2>2, <2>3, <2>5 DEF Framed
  <2> QED
    BY <2>1, <2>5, <2>6
<1> QED
  BY <1>1, <1>2, <1>3, <1>4 DEF Reformatted

LEMMA HarmlessBody ==
    ASSUME EnvelopeInv, sealed # NoText, harmless
    PROVE  Framed(vaultText) /\ Body \in Seq(Symbols) /\ Len(Body) >= 5 /\ Len(Body) >= BlockSize
<1>1. PICK salt \in Salts : SealedAs(salt)
  BY DEF EnvelopeInv
<1> DEFINE b == SealedBody(plain, password, salt)
           c == CipherOf(plain, password, salt)
<1>2. plain \in Seq(Nat) /\ password \in Passwords /\ Framed(vaultText) /\ Lower(Body) = b
  BY <1>1 DEF SealedAs
<1>3. Len(b) = 4 + Len(c) /\ Len(c) \in Nat /\ Len(c) >= BlockSize /\ Len(c) >= 1
  BY <1>2, SealedCipher, SealedSizes
<1>4. vaultText.lines \in Seq(Seq(Symbols))
  BY DEF EnvelopeInv, Texts
<1>5. Body \in Seq(Symbols)
  BY <1>4, FlattenType DEF Body
<1>6. Len(Lower(Body)) = Len(Body)
  BY <1>5, LowerFacts
<1> HIDE DEF b, c
<1> QED
  BY <1>2, <1>3, <1>5, <1>6, EnvelopeAssumption

LEMMA ReformatInv ==
    ASSUME EnvelopeInv, sealed # NoText, NEW t \in Reformatted, Reformat(t)
    PROVE  EnvelopeInv'
<1>1. /\ vaultText' = t /\ UNCHANGED <<sealed, plain, password, harmless, relabelled>>
  BY DEF Reformat
<1>2. vaultText \in Texts /\ \E salt \in Salts : SealedAs(salt)
  BY DEF EnvelopeInv
<1>3. /\ t \in Texts /\ t.header = vaultText.header
      /\ Lower(FlattenSeq(t.lines)) = Lower(Body)
      /\ Framed(vaultText) /\ Body # <<>> => Framed(t)
  BY <1>2, ReformattedFacts
<1>4. OpensToWhole(Lower(FlattenSeq(t.lines)), password, plain)
  BY <1>2, <1>3 DEF SealedAs
<1>5. harmless => Framed(t)
  <2>1. harmless => Framed(vaultText) /\ Body # <<>>
    BY HarmlessBody
  <2> QED
    BY <1>3, <2>1
<1> QED
  BY <1>1, <1>3, <1>4, <1>5, TextStepInv

LEMMA RelabelInv ==
    ASSUME EnvelopeInv, sealed # NoText, NEW h \in Supported, Relabel(h)
    PROVE  EnvelopeInv'
<1> DEFINE t == [vaultText EXCEPT !.header = h]
<1>1. vaultText' = t /\ UNCHANGED <<sealed, plain, password, harmless>> /\ relabelled' = TRUE
  BY DEF Relabel
<1>2. vaultText \in Texts /\ \E salt \in Salts : SealedAs(salt)
  BY DEF EnvelopeInv
<1>3. t \in Texts /\ t.lines = vaultText.lines /\ t.header = h /\ t.eol = vaultText.eol /\ t.final = vaultText.final
  BY <1>2 DEF Texts, TextHeaders
<1> HIDE DEF t
<1>4. Lower(FlattenSeq(t.lines)) = Lower(Body)
  BY <1>3 DEF Body
<1>5. OpensToWhole(Lower(FlattenSeq(t.lines)), password, plain)
  BY <1>2, <1>4 DEF SealedAs
<1>6. harmless => Framed(t)
  BY <1>3, HarmlessBody DEF Framed
<1> QED
  BY <1>1, <1>3, <1>4, <1>5, <1>6, TextStepInv

\* A body that is damaged opens to the whole of what was sealed or not at all.
LEMMA DamagedIsSafe ==
    ASSUME EnvelopeInv, sealed # NoText, harmless, NEW d \in DamagedBodies(Body)
    PROVE  d \in Seq(Symbols) /\ OpensToWhole(Lower(d), password, plain)
<1>1. PICK salt \in Salts : SealedAs(salt)
  BY DEF EnvelopeInv
<1> DEFINE b == SealedBody(plain, password, salt)
           B == Body
<1>2. plain \in Seq(Nat) /\ password \in Passwords /\ Lower(B) = b
  BY <1>1 DEF SealedAs
<1>3. B \in Seq(Symbols) /\ Len(B) >= BlockSize
  BY HarmlessBody
<1>4. Len(Lower(B)) = Len(B)
  BY <1>3, LowerFacts
<1>5. Len(B) = Len(b) /\ DOMAIN B = 1..Len(b)
  BY <1>2, <1>3, <1>4
<1> DEFINE value == plain
           secret == password
<1>6. value \in Seq(Nat) /\ secret \in Passwords /\ b = SealedBody(value, secret, salt)
  BY <1>2
<1>7. ASSUME NEW i \in DOMAIN B, NEW s \in ForeignSymbols
      PROVE  [B EXCEPT ![i] = s] \in Seq(Symbols) /\ OpensToWhole(Lower([B EXCEPT ![i] = s]), secret, value)
  <2>1. s \in Symbols /\ s.upper = FALSE
    BY ForeignFacts
  <2>2. i \in 1..Len(B) /\ i \in 1..Len(SealedBody(value, secret, salt))
    BY <1>3, <1>5
  <2> HIDE DEF B, b, value, secret
  <2>3. [B EXCEPT ![i] = s] \in Seq(Symbols) /\ Lower([B EXCEPT ![i] = s]) = [Lower(B) EXCEPT ![i] = s]
    BY <1>3, <2>1, <2>2, LowerReplaced
  <2>4. OpensToWhole([SealedBody(value, secret, salt) EXCEPT ![i] = s], secret, value)
    BY <1>6, <2>2, ReplacedIsSafe
  <2> QED
    BY <1>2, <1>6, <2>3, <2>4
<1>8. ASSUME NEW i \in DOMAIN B
      PROVE  RemoveAt(B, i) \in Seq(Symbols) /\ OpensToWhole(Lower(RemoveAt(B, i)), secret, value)
  <2>2. i \in 1..Len(B) /\ i \in 1..Len(SealedBody(value, secret, salt))
    BY <1>3, <1>5
  <2> HIDE DEF B, b, value, secret
  <2>3. RemoveAt(B, i) \in Seq(Symbols) /\ Lower(RemoveAt(B, i)) = RemoveAt(Lower(B), i)
    BY <1>3, <2>2, LowerRemoved
  <2>4. OpensToWhole(RemoveAt(SealedBody(value, secret, salt), i), secret, value)
    BY <1>6, <2>2, RemovedIsSafe
  <2> QED
    BY <1>2, <1>6, <2>3, <2>4
<1>9. ASSUME d = B \o SubSeq(B, Len(B) - BlockSize + 1, Len(B))
      PROVE  d \in Seq(Symbols) /\ OpensToWhole(Lower(d), secret, value)
  <2> HIDE DEF B, b, value, secret
  <2>1. /\ B \o SubSeq(B, Len(B) - BlockSize + 1, Len(B)) \in Seq(Symbols)
        /\ Lower(B \o SubSeq(B, Len(B) - BlockSize + 1, Len(B)))
             = Lower(B) \o SubSeq(Lower(B), Len(Lower(B)) - BlockSize + 1, Len(Lower(B)))
    BY <1>3, LowerDoubled
  <2>2. OpensToWhole(b \o SubSeq(b, Len(b) - BlockSize + 1, Len(b)), secret, value)
    BY <1>6, DoubledIsSafe
  <2> QED
    BY <1>2, <1>9, <2>1, <2>2, Zenon
<1>10. ASSUME d = SubSeq(B, 1, Len(B) - BlockSize)
       PROVE  d \in Seq(Symbols) /\ OpensToWhole(Lower(d), secret, value)
  <2> HIDE DEF B, b, value, secret
  <2>1. /\ SubSeq(B, 1, Len(B) - BlockSize) \in Seq(Symbols)
        /\ Lower(SubSeq(B, 1, Len(B) - BlockSize)) = SubSeq(Lower(B), 1, Len(Lower(B)) - BlockSize)
    BY <1>3, LowerDropped
  <2>2. OpensToWhole(SubSeq(b, 1, Len(b) - BlockSize), secret, value)
    BY <1>6, DroppedIsSafe
  <2> QED
    BY <1>2, <1>10, <2>1, <2>2, Zenon
<1>11. \/ \E i \in DOMAIN B, s \in ForeignSymbols : d = [B EXCEPT ![i] = s]
       \/ \E i \in DOMAIN B : d = RemoveAt(B, i)
       \/ d = B \o SubSeq(B, Len(B) - BlockSize + 1, Len(B))
       \/ d = SubSeq(B, 1, Len(B) - BlockSize)
  BY DEF DamagedBodies
<1> QED
  BY <1>7, <1>8, <1>9, <1>10, <1>11, Zenon

\* Texts that a damage leaves: their bytes changed, or only how they are framed.
LEMMA DamagedFacts ==
    ASSUME EnvelopeInv, sealed # NoText, harmless, NEW t \in DamagedTexts
    PROVE  t \in Texts /\ OpensToWhole(Lower(FlattenSeq(t.lines)), password, plain)
<1>1. vaultText \in Texts /\ vaultText.header \in TextHeaders /\ vaultText.lines \in Seq(Seq(Symbols))
  BY DEF EnvelopeInv, Texts
<1>2. Body \in Seq(Symbols)
  BY HarmlessBody
<1>3. OpensToWhole(Lower(Body), password, plain)
  BY DEF EnvelopeInv, SealedAs
<1>4. CASE \E body \in DamagedBodies(Body) : t = serializeVaultEnvelope(vaultText.header, body)
  <2>1. PICK body \in DamagedBodies(Body) : t = serializeVaultEnvelope(vaultText.header, body)
    BY <1>4
  <2>2. body \in Seq(Symbols) /\ OpensToWhole(Lower(body), password, plain)
    BY DamagedIsSafe
  <2>3. t \in Texts /\ FlattenSeq(t.lines) = body
    BY <1>1, <2>1, <2>2, WrappedIsText
  <2> QED
    BY <2>2, <2>3
<1>5. CASE t \in {[vaultText EXCEPT !.final = 2], [vaultText EXCEPT !.eol = "cr"],
                  [vaultText EXCEPT !.header = "unsupported"]}
  <2>1. t.lines = vaultText.lines
    BY <1>1, <1>5 DEF Texts
  <2>2. t \in Texts
    <3>1. 2 \in 0..2 /\ "cr" \in {"lf", "crlf", "cr"} /\ "unsupported" \in TextHeaders
      BY DEF TextHeaders
    <3>2. CASE t = [vaultText EXCEPT !.final = 2]
      BY <1>1, <3>1, <3>2 DEF Texts
    <3>3. CASE t = [vaultText EXCEPT !.eol = "cr"]
      BY <1>1, <3>1, <3>3 DEF Texts
    <3>4. CASE t = [vaultText EXCEPT !.header = "unsupported"]
      BY <1>1, <3>1, <3>4 DEF Texts
    <3> QED
      BY <1>5, <3>2, <3>3, <3>4
  <2> QED
    BY <1>3, <2>1, <2>2 DEF Body
<1>6. CASE t = [vaultText EXCEPT !.lines = <<Body>>]
  <2>1. <<Body>> \in Seq(Seq(Symbols)) /\ FlattenSeq(<<Body>>) = Body
    BY <1>2, FlattenSingle
  <2> DEFINE lines == <<Body>>
  <2>2. lines \in Seq(Seq(Symbols)) /\ FlattenSeq(lines) = Body /\ t = [vaultText EXCEPT !.lines = lines]
    BY <1>6, <2>1
  <2> HIDE DEF lines
  <2>3. t \in Texts /\ t.lines = lines
    BY <1>1, <2>2 DEF Texts
  <2> QED
    BY <1>3, <2>2, <2>3
<1> QED
  BY <1>4, <1>5, <1>6 DEF DamagedTexts

LEMMA DamageInv ==
    ASSUME EnvelopeInv, sealed # NoText, harmless, NEW t \in DamagedTexts, Damage(t)
    PROVE  EnvelopeInv'
<1>1. vaultText' = t /\ UNCHANGED <<sealed, plain, password>> /\ harmless' = FALSE
  BY DEF Damage
<1>2. t \in Texts /\ OpensToWhole(Lower(FlattenSeq(t.lines)), password, plain)
  BY DamagedFacts
<1> QED
  BY <1>1, <1>2, TextStepInv

(* The invariant of a Vault envelope, for any values, passwords, salts,    *)
(* block size, line width and bound on a text: as long as only its format  *)
(* was edited it holds the sealed body, and never opens to anything but    *)
(* what was sealed (EncryptWithVaultID, parseEnvelope, Decrypt).           *)
THEOREM EnvelopeInvariance == EnvelopeSpec => []EnvelopeInv
<1>1. EnvelopeInit => EnvelopeInv
  BY EnvelopeInitInv
<1>2. EnvelopeInv /\ [EnvelopeNext]_envelopeVars => EnvelopeInv'
  <2> SUFFICES ASSUME EnvelopeInv, [EnvelopeNext]_envelopeVars
               PROVE  EnvelopeInv'
    OBVIOUS
  <2>1. CASE \E value \in Plaintexts, pw \in Passwords, salt \in Salts : SealText(value, pw, salt)
    BY <2>1, SealTextInv
  <2>2. CASE sealed # NoText /\ \E t \in Reformatted : Reformat(t)
    BY <2>2, ReformatInv
  <2>3. CASE sealed # NoText /\ \E h \in Supported : Relabel(h)
    BY <2>3, RelabelInv
  <2>4. CASE sealed # NoText /\ harmless /\ \E t \in DamagedTexts : Damage(t)
    BY <2>4, DamageInv
  <2>5. CASE UNCHANGED envelopeVars
    BY <2>5, Zenon DEF EnvelopeInv, SealedAs, Body, Framed, envelopeVars
  <2> QED
    BY <2>1, <2>2, <2>3, <2>4, <2>5, Zenon DEF EnvelopeNext
<1> QED
  BY <1>1, <1>2, PTL DEF EnvelopeSpec

LEMMA TextSizeType ==
    ASSUME NEW t \in Texts
    PROVE  TextSize(t) \in Nat
<1>1. t.lines \in Seq(Seq(Symbols)) /\ t.final \in Nat
  BY DEF Texts
<1>2. FlattenSeq(t.lines) \in Seq(Symbols)
  BY <1>1, FlattenType
<1>3. Len(FlattenSeq(t.lines)) \in Nat /\ Len(t.lines) \in Nat
  BY <1>1, <1>2
<1> DEFINE width == IF t.eol = "crlf" THEN 2 ELSE 1
<1>4. width \in Nat
  OBVIOUS
<1> HIDE DEF width
<1>5. width * Len(t.lines) \in Nat
  BY <1>3, <1>4
<1> DEFINE product == width * Len(t.lines)
<1>6. product \in Nat
  BY <1>5
<1> HIDE DEF product
<1>7. Len(FlattenSeq(t.lines)) + product + t.final \in Nat
  BY <1>1, <1>3, <1>6
<1> QED
  BY <1>7 DEF TextSize, product, width

LEMMA CanonicalIs ==
    ASSUME NEW t
    PROVE  CanonicalEnvelope(t) =
             IF ~(TextSize(t) > MaxText) /\ Framed(t) /\ Readable(FlattenSeq(t.lines))
             THEN serializeVaultEnvelope(t.header, Lower(FlattenSeq(t.lines)))
             ELSE NoText
<1> DEFINE e == parseEnvelope(t)
           body == FlattenSeq(t.lines)
<1>1. CASE Framed(t) /\ Readable(body)
  <2>1. e = [ok |-> TRUE, header |-> t.header, body |-> body, parts |-> payloadParts(body)]
    BY <1>1, ParseReads
  <2>2. e.ok = TRUE /\ e.header = t.header /\ e.body = body
    BY <2>1
  <2> HIDE DEF e
  <2> QED
    BY <1>1, <2>2, Zenon DEF CanonicalEnvelope, e
<1>2. CASE ~(Framed(t) /\ Readable(body))
  <2>1. e = Unopened
    BY <1>2, ParseReads
  <2>2. ~e.ok
    BY <2>1 DEF Unopened
  <2> HIDE DEF e
  <2> QED
    BY <1>2, <2>2, Zenon DEF CanonicalEnvelope, e
<1> QED
  BY <1>1, <1>2

LEMMA InvOpens == EnvelopeInv => Opens
<1> SUFFICES ASSUME EnvelopeInv, sealed # NoText, harmless
             PROVE  Decrypt(vaultText, password) = [ok |-> TRUE, value |-> plain]
  BY DEF Opens
<1>1. PICK salt \in Salts : SealedAs(salt)
  BY DEF EnvelopeInv
<1>2. plain \in Seq(Nat) /\ password \in Passwords /\ Framed(vaultText)
      /\ Lower(Body) = SealedBody(plain, password, salt)
  BY <1>1 DEF SealedAs
<1>3. vaultText.lines \in Seq(Seq(Symbols))
  BY DEF EnvelopeInv, Texts
<1>4. Decrypt(vaultText, password) = OpenBody(Lower(Body), password)
  BY <1>2, <1>3, DecryptOpens DEF Body
<1>5. OpenBody(SealedBody(plain, password, salt), password) = [ok |-> TRUE, value |-> plain]
  BY <1>2, SealedOpens
<1> QED
  BY <1>2, <1>4, <1>5

LEMMA InvOpensOnlyWhole == EnvelopeInv => OpensOnlyWhole
<1> SUFFICES ASSUME EnvelopeInv, NEW pw \in Passwords
             PROVE  Decrypt(vaultText, pw) \in {Unopened} \cup
                      (IF pw = password THEN {[ok |-> TRUE, value |-> plain]} ELSE {})
  BY Zenon DEF OpensOnlyWhole
<1>1. vaultText.lines \in Seq(Seq(Symbols))
  BY DEF EnvelopeInv, Texts
<1>2. Decrypt(vaultText, pw) = IF Framed(vaultText) THEN OpenBody(Lower(Body), pw) ELSE Unopened
  BY <1>1, DecryptOpens DEF Body
<1>3. CASE sealed = NoText
  <2>1. vaultText = NoText
    BY <1>3 DEF EnvelopeInv
  <2>2. ~Framed(vaultText)
    BY <2>1 DEF Framed, NoText
  <2> QED
    BY <1>2, <2>2
<1>4. CASE sealed # NoText
  <2>1. OpensToWhole(Lower(Body), password, plain)
    BY <1>4 DEF EnvelopeInv, SealedAs
  <2>2. OpenBody(Lower(Body), pw) \in {Unopened} \cup
          (IF pw = password THEN {[ok |-> TRUE, value |-> plain]} ELSE {})
    BY <2>1, Zenon DEF OpensToWhole
  <2> QED
    BY <1>2, <2>2, Zenon
<1> QED
  BY <1>3, <1>4

LEMMA InvCanonicalForgetsFormat == EnvelopeInv => CanonicalForgetsFormat
<1> SUFFICES ASSUME EnvelopeInv, sealed # NoText, TextSize(sealed) <= MaxText
             PROVE  /\ CanonicalEnvelope(sealed) = sealed
                    /\ harmless /\ ~relabelled /\ TextSize(vaultText) <= MaxText
                         => CanonicalEnvelope(vaultText) = sealed
  BY DEF CanonicalForgetsFormat
<1>1. PICK salt \in Salts : SealedAs(salt)
  BY DEF EnvelopeInv
<1> DEFINE b == SealedBody(plain, password, salt)
<1>2. plain \in Seq(Nat) /\ password \in Passwords
      /\ sealed = SealedText(plain, password, salt)
  BY <1>1 DEF SealedAs
<1>3. harmless => Framed(vaultText) /\ Lower(Body) = b /\ (relabelled \/ vaultText.header = "1.2;label")
  BY <1>1 DEF SealedAs
<1>4. Framed(sealed) /\ sealed.header = "1.2;label" /\ FlattenSeq(sealed.lines) = b
  BY <1>2, SealedTextFacts
<1>5. Readable(b) /\ Lower(b) = b
  BY <1>2, SealedReadable, SealedFacts
<1>6. sealed = serializeVaultEnvelope("1.2;label", b)
  BY <1>2 DEF SealedText
<1> HIDE DEF b
<1>7. \A t \in Texts : TextSize(t) <= MaxText => ~(TextSize(t) > MaxText)
  BY TextSizeType, EnvelopeAssumption
<1>a. sealed \in Texts /\ vaultText \in Texts
  BY <1>2, SealedTextFacts DEF EnvelopeInv
<1>8. CanonicalEnvelope(sealed) = sealed
  BY <1>4, <1>5, <1>6, <1>7, <1>a, CanonicalIs
<1>9. ASSUME harmless, ~relabelled, TextSize(vaultText) <= MaxText
      PROVE  CanonicalEnvelope(vaultText) = sealed
  <2>1. Body \in Seq(Symbols)
    BY <1>9, HarmlessBody
  <2>2. Readable(Body)
    BY <1>3, <1>5, <1>9, <2>1, ReadableLower
  <2>3. FlattenSeq(vaultText.lines) = Body
    BY DEF Body
  <2> QED
    BY <1>3, <1>6, <1>7, <1>9, <1>a, <2>2, <2>3, CanonicalIs
<1> QED
  BY <1>8, <1>9

LEMMA InvCanonicalKeepsContent == EnvelopeInv => CanonicalKeepsContent
<1> DEFINE c == CanonicalEnvelope(vaultText)
           low == Lower(Body)
<1> SUFFICES ASSUME EnvelopeInv, c # NoText
             PROVE  /\ c.header = vaultText.header
                    /\ \A pw \in Passwords : Decrypt(c, pw) = Decrypt(vaultText, pw)
                    /\ TextSize(c) <= MaxText => CanonicalEnvelope(c) = c
  BY DEF CanonicalKeepsContent
<1>1. vaultText.lines \in Seq(Seq(Symbols)) /\ vaultText.header \in TextHeaders
  BY DEF EnvelopeInv, Texts
<1>2. Framed(vaultText) /\ Readable(Body) /\ c = serializeVaultEnvelope(vaultText.header, low)
  BY CanonicalIs DEF Body
<1>3. vaultText.header \in Supported
  BY <1>2 DEF Framed
<1>4. Body \in Seq(Symbols)
  BY <1>1, FlattenType DEF Body
<1>5. low \in Seq(Symbols) /\ Lower(low) = low /\ Readable(low)
  BY <1>2, <1>4, LowerFacts, LowerTwice, ReadableLower
<1> HIDE DEF c, low
<1>6. low # <<>>
  BY <1>5, ReadableLength
<1>7. c \in Texts /\ FlattenSeq(c.lines) = low /\ c.header = vaultText.header /\ Framed(c)
  BY <1>1, <1>2, <1>3, <1>5, <1>6, WrappedIsText
<1>8. c.lines \in Seq(Seq(Symbols))
  BY <1>7 DEF Texts
<1>9. ASSUME NEW pw \in Passwords
      PROVE  Decrypt(c, pw) = Decrypt(vaultText, pw)
  <2>1. Decrypt(c, pw) = OpenBody(Lower(low), pw)
    BY <1>7, <1>8, DecryptOpens
  <2>2. Decrypt(vaultText, pw) = OpenBody(Lower(Body), pw)
    BY <1>1, <1>2, DecryptOpens DEF Body
  <2> QED
    BY <1>5, <2>1, <2>2 DEF low
<1>10. ASSUME TextSize(c) <= MaxText
       PROVE  CanonicalEnvelope(c) = c
  <2>1. ~(TextSize(c) > MaxText)
    BY <1>7, <1>10, TextSizeType, EnvelopeAssumption
  <2> QED
    BY <1>2, <1>5, <1>7, <2>1, CanonicalIs
<1> QED
  BY <1>7, <1>9, <1>10

(* What Encrypt sealed is opened again however the text was reformatted,   *)
(* anything else opens to nothing, and CanonicalEnvelope keeps what a text *)
(* says and forgets how it is written.                                     *)
THEOREM EnvelopesAreFaithful == EnvelopeSpec => []EnvelopeIsFaithful
<1>1. EnvelopeInv => EnvelopeIsFaithful
  BY InvOpens, InvOpensOnlyWhole, InvCanonicalForgetsFormat, InvCanonicalKeepsContent DEF EnvelopeIsFaithful
<1> QED
  BY <1>1, EnvelopeInvariance, PTL
=============================================================================
