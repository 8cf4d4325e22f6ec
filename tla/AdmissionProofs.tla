--------------------------- MODULE AdmissionProofs ---------------------------
(***************************************************************************)
(* Proofs about Admission for any finite set of requests, any number of    *)
(* goroutines per request and any capacity: every slot is accounted for,   *)
(* work holds its slot, the work in progress is bounded by the capacity,   *)
(* and a prepared operation is executed at most once.  Then about what     *)
(* runs under a slot: Generate, what a call draws and what leaves it,      *)
(* X509Request, which keys are drawn and what a request names, and         *)
(* SurrogateScan, which strings are let through to be decoded.             *)
(***************************************************************************)
EXTENDS Admission, Generate, X509Request, SurrogateScan, FunctionTheorems, FiniteSetTheorems, TLAPS

-----------------------------------------------------------------------------
(* The inductive invariant.                                                *)

\* A call inside one of the lease's critical sections holds its mutex.
MutexHeld ==
    \A r \in Requests, c \in Calls :
        pc[r][c] \in {"held", "work", "unhold", "draining", "counting"}
            => mutex[r] = c

\* Only an existing lease is active or used; it is active while work is done
\* under it and no longer active once a release has begun.
LeaseLife ==
    \A r \in Requests :
        /\ active[r] => Leased(r)
        /\ \A c \in Calls :
              /\ pc[r][c] # "idle" => Leased(r)
              /\ pc[r][c] \in {"held", "work", "unhold"} => active[r]
              /\ pc[r][c] \in {"draining", "counting"} => ~active[r]

\* The compare-and-swap lets one call of a prepared operation past.
OneRunner ==
    \A r \in Requests :
        /\ executed[r] <= 1
        /\ ~started[r] => executed[r] = 0
        /\ started[r] => stage[r] = "prepared"
        /\ \A c \in Calls :
              pc[r][c] \in {"hold", "held"} =>
                 \/ stage[r] = "generating"
                 \/ /\ stage[r] = "prepared" /\ started[r] /\ executed[r] = 0
                    /\ \A d \in Calls \ {c} : pc[r][d] \notin {"hold", "held"}

Inv == /\ TypeOK
       /\ MutexHeld
       /\ LeaseLife
       /\ OneRunner
       /\ SlotsAccounted
       /\ GaugeAccounted

-----------------------------------------------------------------------------
(* One lemma per conjunct, one step per action.                            *)

\* The requests that hold a slot are finitely many.
LEMMA HoldingFinite == IsFiniteSet(Holding) /\ Cardinality(Holding) \in Nat
<1>1. IsFiniteSet(Holding)
  BY AdmissionAssumption, FS_Subset DEF Holding
<1> QED
  BY <1>1, FS_CardinalityType

\* So are those the gauge counts.
LEMMA CountedFinite == IsFiniteSet(Counted) /\ Cardinality(Counted) \in Nat
<1>1. IsFiniteSet(Counted)
  BY AdmissionAssumption, FS_Subset DEF Counted
<1> QED
  BY <1>1, FS_CardinalityType

\* Every step keeps the types; a token only goes back if there is one.
LEMMA TypeStep ==
    TypeOK /\ SlotsAccounted /\ [Next]_vars => TypeOK'
<1> SUFFICES ASSUME TypeOK, SlotsAccounted, [Next]_vars
             PROVE  TypeOK'
  OBVIOUS
<1> USE AdmissionAssumption
      DEF TypeOK, Stages, Labels, Goto, Advance, counters, lease
<1>1. ASSUME NEW r \in Requests, TryAcquireCancelled(r)
      PROVE  TypeOK'
  BY <1>1 DEF TryAcquireCancelled
<1>2. ASSUME NEW r \in Requests, TryAcquireSaturated(r)
      PROVE  TypeOK'
  BY <1>2 DEF TryAcquireSaturated
<1>3. ASSUME NEW r \in Requests, TakeToken(r)
      PROVE  TypeOK'
  BY <1>3 DEF TakeToken
<1>4. ASSUME NEW r \in Requests, ReturnToken(r) PROVE TypeOK'
  <2>1. r \in Holding
    BY <1>4 DEF ReturnToken, Holding
  <2>2. Cardinality(Holding) # 0
    BY <2>1, HoldingFinite, FS_EmptySet
  <2>3. tokens > 0
    BY <2>2, HoldingFinite DEF SlotsAccounted
  <2> QED
    BY <1>4, <2>3 DEF ReturnToken
<1>5. ASSUME NEW r \in Requests, GrantLease(r)
      PROVE  TypeOK'
  BY <1>5 DEF GrantLease
<1>6. ASSUME NEW r \in Requests, IssueContext(r)
      PROVE  TypeOK'
  BY <1>6 DEF IssueContext
<1>7. ASSUME NEW r \in Requests, PrepareChecksLease(r)
      PROVE  TypeOK'
  BY <1>7 DEF PrepareChecksLease, Live
<1>8. ASSUME NEW r \in Requests, PrepareFinishes(r)
      PROVE  TypeOK'
  BY <1>8 DEF PrepareFinishes
<1>9. ASSUME NEW r \in Requests, Cancel(r)
      PROVE  TypeOK'
  BY <1>9 DEF Cancel
<1>10. ASSUME NEW r \in Requests, NEW c \in Calls, Run(r, c)
      PROVE  TypeOK'
  BY <1>10 DEF Run
<1>11. ASSUME NEW r \in Requests, NEW c \in Calls, Generate(r, c)
      PROVE  TypeOK'
  BY <1>11 DEF Generate, Live
<1>12. ASSUME NEW r \in Requests, NEW c \in Calls, NoRun(r, c)
      PROVE  TypeOK'
  BY <1>12 DEF NoRun, Leased
<1>13. ASSUME NEW r \in Requests, NEW c \in Calls, HoldForContext(r, c)
      PROVE  TypeOK'
  BY <1>13 DEF HoldForContext, Live
<1>14. ASSUME NEW r \in Requests, NEW c \in Calls, StartWork(r, c)
      PROVE  TypeOK'
  BY <1>14 DEF StartWork
<1>15. ASSUME NEW r \in Requests, NEW c \in Calls, FinishWork(r, c)
      PROVE  TypeOK'
  BY <1>15 DEF FinishWork
<1>16. ASSUME NEW r \in Requests, NEW c \in Calls, ReleaseHold(r, c)
      PROVE  TypeOK'
  BY <1>16 DEF ReleaseHold
<1>17. ASSUME NEW r \in Requests, NEW c \in Calls, Release(r, c)
      PROVE  TypeOK'
  BY <1>17 DEF Release
<1>18. ASSUME NEW r \in Requests, NEW c \in Calls, ReleaseToken(r, c)
      PROVE  TypeOK'
  BY <1>18 DEF ReleaseToken
<1>19. ASSUME NEW r \in Requests, NEW c \in Calls, ReleaseCount(r, c)
      PROVE  TypeOK'
  BY <1>19 DEF ReleaseCount
<1>20. CASE UNCHANGED vars
  BY <1>20 DEF vars
<1> QED
  BY <1>1, <1>2, <1>3, <1>4, <1>5, <1>6, <1>7, <1>8, <1>9, <1>10, <1>11,
       <1>12, <1>13, <1>14, <1>15, <1>16, <1>17, <1>18, <1>19, <1>20 DEF
       Next, Acquiring, Working, Releasing

\* No step enters a critical section without the mutex.
LEMMA MutexStep ==
    TypeOK /\ MutexHeld /\ [Next]_vars => MutexHeld'
<1> SUFFICES ASSUME TypeOK, MutexHeld, [Next]_vars
             PROVE  MutexHeld'
  OBVIOUS
<1> USE AdmissionAssumption
      DEF TypeOK, MutexHeld, Goto, Advance, counters, lease
<1>1. ASSUME NEW r \in Requests, TryAcquireCancelled(r)
      PROVE  MutexHeld'
  BY <1>1 DEF TryAcquireCancelled
<1>2. ASSUME NEW r \in Requests, TryAcquireSaturated(r)
      PROVE  MutexHeld'
  BY <1>2 DEF TryAcquireSaturated
<1>3. ASSUME NEW r \in Requests, TakeToken(r)
      PROVE  MutexHeld'
  BY <1>3 DEF TakeToken
<1>4. ASSUME NEW r \in Requests, ReturnToken(r)
      PROVE  MutexHeld'
  BY <1>4 DEF ReturnToken
<1>5. ASSUME NEW r \in Requests, GrantLease(r)
      PROVE  MutexHeld'
  BY <1>5 DEF GrantLease
<1>6. ASSUME NEW r \in Requests, IssueContext(r)
      PROVE  MutexHeld'
  BY <1>6 DEF IssueContext
<1>7. ASSUME NEW r \in Requests, PrepareChecksLease(r)
      PROVE  MutexHeld'
  BY <1>7 DEF PrepareChecksLease, Live
<1>8. ASSUME NEW r \in Requests, PrepareFinishes(r)
      PROVE  MutexHeld'
  BY <1>8 DEF PrepareFinishes
<1>9. ASSUME NEW r \in Requests, Cancel(r)
      PROVE  MutexHeld'
  BY <1>9 DEF Cancel
<1>10. ASSUME NEW r \in Requests, NEW c \in Calls, Run(r, c)
      PROVE  MutexHeld'
  BY <1>10 DEF Run
<1>11. ASSUME NEW r \in Requests, NEW c \in Calls, Generate(r, c)
      PROVE  MutexHeld'
  BY <1>11 DEF Generate, Live
<1>12. ASSUME NEW r \in Requests, NEW c \in Calls, NoRun(r, c)
      PROVE  MutexHeld'
  BY <1>12 DEF NoRun, Leased
<1>13. ASSUME NEW r \in Requests, NEW c \in Calls, HoldForContext(r, c)
      PROVE  MutexHeld'
  BY <1>13 DEF HoldForContext, Live
<1>14. ASSUME NEW r \in Requests, NEW c \in Calls, StartWork(r, c)
      PROVE  MutexHeld'
  BY <1>14 DEF StartWork
<1>15. ASSUME NEW r \in Requests, NEW c \in Calls, FinishWork(r, c)
      PROVE  MutexHeld'
  BY <1>15 DEF FinishWork
<1>16. ASSUME NEW r \in Requests, NEW c \in Calls, ReleaseHold(r, c)
      PROVE  MutexHeld'
  BY <1>16 DEF ReleaseHold
<1>17. ASSUME NEW r \in Requests, NEW c \in Calls, Release(r, c)
      PROVE  MutexHeld'
  BY <1>17 DEF Release
<1>18. ASSUME NEW r \in Requests, NEW c \in Calls, ReleaseToken(r, c)
      PROVE  MutexHeld'
  BY <1>18 DEF ReleaseToken
<1>19. ASSUME NEW r \in Requests, NEW c \in Calls, ReleaseCount(r, c)
      PROVE  MutexHeld'
  BY <1>19 DEF ReleaseCount
<1>20. CASE UNCHANGED vars
  BY <1>20 DEF vars
<1> QED
  BY <1>1, <1>2, <1>3, <1>4, <1>5, <1>6, <1>7, <1>8, <1>9, <1>10, <1>11,
       <1>12, <1>13, <1>14, <1>15, <1>16, <1>17, <1>18, <1>19, <1>20 DEF
       Next, Acquiring, Working, Releasing

\* No step releases a lease under work or uses one that does not exist.
LEMMA LeaseStep ==
    TypeOK /\ MutexHeld /\ LeaseLife /\ [Next]_vars => LeaseLife'
<1> SUFFICES ASSUME TypeOK, MutexHeld, LeaseLife, [Next]_vars
             PROVE  LeaseLife'
  OBVIOUS
<1> USE AdmissionAssumption
      DEF TypeOK, MutexHeld, LeaseLife, Leased, Goto, Advance, counters,
           lease
<1>1. ASSUME NEW r \in Requests, TryAcquireCancelled(r)
      PROVE  LeaseLife'
  BY <1>1 DEF TryAcquireCancelled
<1>2. ASSUME NEW r \in Requests, TryAcquireSaturated(r)
      PROVE  LeaseLife'
  BY <1>2 DEF TryAcquireSaturated
<1>3. ASSUME NEW r \in Requests, TakeToken(r)
      PROVE  LeaseLife'
  BY <1>3 DEF TakeToken
<1>4. ASSUME NEW r \in Requests, ReturnToken(r)
      PROVE  LeaseLife'
  BY <1>4 DEF ReturnToken
<1>5. ASSUME NEW r \in Requests, GrantLease(r)
      PROVE  LeaseLife'
  BY <1>5 DEF GrantLease
<1>6. ASSUME NEW r \in Requests, IssueContext(r)
      PROVE  LeaseLife'
  BY <1>6 DEF IssueContext
<1>7. ASSUME NEW r \in Requests, PrepareChecksLease(r)
      PROVE  LeaseLife'
  BY <1>7 DEF PrepareChecksLease, Live
<1>8. ASSUME NEW r \in Requests, PrepareFinishes(r)
      PROVE  LeaseLife'
  BY <1>8 DEF PrepareFinishes
<1>9. ASSUME NEW r \in Requests, Cancel(r)
      PROVE  LeaseLife'
  BY <1>9 DEF Cancel
<1>10. ASSUME NEW r \in Requests, NEW c \in Calls, Run(r, c)
      PROVE  LeaseLife'
  BY <1>10 DEF Run
<1>11. ASSUME NEW r \in Requests, NEW c \in Calls, Generate(r, c)
      PROVE  LeaseLife'
  BY <1>11 DEF Generate, Live
<1>12. ASSUME NEW r \in Requests, NEW c \in Calls, NoRun(r, c)
      PROVE  LeaseLife'
  BY <1>12 DEF NoRun
<1>13. ASSUME NEW r \in Requests, NEW c \in Calls, HoldForContext(r, c)
      PROVE  LeaseLife'
  BY <1>13 DEF HoldForContext, Live
<1>14. ASSUME NEW r \in Requests, NEW c \in Calls, StartWork(r, c)
      PROVE  LeaseLife'
  BY <1>14 DEF StartWork
<1>15. ASSUME NEW r \in Requests, NEW c \in Calls, FinishWork(r, c)
      PROVE  LeaseLife'
  BY <1>15 DEF FinishWork
<1>16. ASSUME NEW r \in Requests, NEW c \in Calls, ReleaseHold(r, c)
      PROVE  LeaseLife'
  BY <1>16 DEF ReleaseHold
<1>17. ASSUME NEW r \in Requests, NEW c \in Calls, Release(r, c)
      PROVE  LeaseLife'
  BY <1>17 DEF Release
<1>18. ASSUME NEW r \in Requests, NEW c \in Calls, ReleaseToken(r, c)
      PROVE  LeaseLife'
  BY <1>18 DEF ReleaseToken
<1>19. ASSUME NEW r \in Requests, NEW c \in Calls, ReleaseCount(r, c)
      PROVE  LeaseLife'
  BY <1>19 DEF ReleaseCount
<1>20. CASE UNCHANGED vars
  BY <1>20 DEF vars
<1> QED
  BY <1>1, <1>2, <1>3, <1>4, <1>5, <1>6, <1>7, <1>8, <1>9, <1>10, <1>11,
       <1>12, <1>13, <1>14, <1>15, <1>16, <1>17, <1>18, <1>19, <1>20 DEF
       Next, Acquiring, Working, Releasing

\* No step lets a second call run the prepared operation.
LEMMA RunnerStep ==
    TypeOK /\ MutexHeld /\ OneRunner /\ [Next]_vars => OneRunner'
<1> SUFFICES ASSUME TypeOK, MutexHeld, OneRunner, [Next]_vars
             PROVE  OneRunner'
  OBVIOUS
<1> USE AdmissionAssumption
      DEF TypeOK, MutexHeld, OneRunner, Goto, Advance, counters, lease
<1>1. ASSUME NEW r \in Requests, TryAcquireCancelled(r)
      PROVE  OneRunner'
  BY <1>1 DEF TryAcquireCancelled
<1>2. ASSUME NEW r \in Requests, TryAcquireSaturated(r)
      PROVE  OneRunner'
  BY <1>2 DEF TryAcquireSaturated
<1>3. ASSUME NEW r \in Requests, TakeToken(r)
      PROVE  OneRunner'
  BY <1>3 DEF TakeToken
<1>4. ASSUME NEW r \in Requests, ReturnToken(r)
      PROVE  OneRunner'
  BY <1>4 DEF ReturnToken
<1>5. ASSUME NEW r \in Requests, GrantLease(r)
      PROVE  OneRunner'
  BY <1>5 DEF GrantLease
<1>6. ASSUME NEW r \in Requests, IssueContext(r)
      PROVE  OneRunner'
  BY <1>6 DEF IssueContext
<1>7. ASSUME NEW r \in Requests, PrepareChecksLease(r)
      PROVE  OneRunner'
  BY <1>7 DEF PrepareChecksLease, Live
<1>8. ASSUME NEW r \in Requests, PrepareFinishes(r)
      PROVE  OneRunner'
  BY <1>8 DEF PrepareFinishes
<1>9. ASSUME NEW r \in Requests, Cancel(r)
      PROVE  OneRunner'
  BY <1>9 DEF Cancel
<1>10. ASSUME NEW r \in Requests, NEW c \in Calls, Run(r, c)
      PROVE  OneRunner'
  BY <1>10 DEF Run
<1>11. ASSUME NEW r \in Requests, NEW c \in Calls, Generate(r, c)
      PROVE  OneRunner'
  BY <1>11 DEF Generate, Live
<1>12. ASSUME NEW r \in Requests, NEW c \in Calls, NoRun(r, c)
      PROVE  OneRunner'
  BY <1>12 DEF NoRun, Leased
<1>13. ASSUME NEW r \in Requests, NEW c \in Calls, HoldForContext(r, c)
      PROVE  OneRunner'
  BY <1>13 DEF HoldForContext, Live
<1>14. ASSUME NEW r \in Requests, NEW c \in Calls, StartWork(r, c)
      PROVE  OneRunner'
  BY <1>14 DEF StartWork
<1>15. ASSUME NEW r \in Requests, NEW c \in Calls, FinishWork(r, c)
      PROVE  OneRunner'
  BY <1>15 DEF FinishWork
<1>16. ASSUME NEW r \in Requests, NEW c \in Calls, ReleaseHold(r, c)
      PROVE  OneRunner'
  BY <1>16 DEF ReleaseHold
<1>17. ASSUME NEW r \in Requests, NEW c \in Calls, Release(r, c)
      PROVE  OneRunner'
  BY <1>17 DEF Release
<1>18. ASSUME NEW r \in Requests, NEW c \in Calls, ReleaseToken(r, c)
      PROVE  OneRunner'
  BY <1>18 DEF ReleaseToken
<1>19. ASSUME NEW r \in Requests, NEW c \in Calls, ReleaseCount(r, c)
      PROVE  OneRunner'
  BY <1>19 DEF ReleaseCount
<1>20. CASE UNCHANGED vars
  BY <1>20 DEF vars
<1> QED
  BY <1>1, <1>2, <1>3, <1>4, <1>5, <1>6, <1>7, <1>8, <1>9, <1>10, <1>11,
       <1>12, <1>13, <1>14, <1>15, <1>16, <1>17, <1>18, <1>19, <1>20 DEF
       Next, Acquiring, Working, Releasing

\* Every token put into or taken from the channel is matched by a request
\* that starts or stops holding a slot.
LEMMA SlotsStep ==
    TypeOK /\ MutexHeld /\ LeaseLife /\ SlotsAccounted /\ [Next]_vars
        => SlotsAccounted'
<1> SUFFICES ASSUME TypeOK, MutexHeld, LeaseLife, SlotsAccounted, [Next]_vars
             PROVE  SlotsAccounted'
  OBVIOUS
<1> USE AdmissionAssumption
     DEF TypeOK, Goto, Advance, counters, lease
<1>1. ASSUME tokens' = tokens, Holding' = Holding PROVE SlotsAccounted'
  BY <1>1 DEF SlotsAccounted
<1>2. ASSUME NEW r \in Requests, TakeToken(r) PROVE SlotsAccounted'
  <2>1. r \notin Holding
    BY <1>2 DEF TakeToken, Holding, LeaseLife, Leased
  <2>2. Holding' = Holding \cup {r}
    BY <1>2 DEF TakeToken, Holding
  <2>3. Cardinality(Holding') = Cardinality(Holding) + 1
    BY <2>1, <2>2, HoldingFinite, FS_AddElement
  <2> QED
    BY <1>2, <2>3 DEF TakeToken, SlotsAccounted
<1>3. ASSUME NEW r \in Requests, ReturnToken(r) PROVE SlotsAccounted'
  <2>1. r \in Holding
    BY <1>3 DEF ReturnToken, Holding
  <2>2. Holding' = Holding \ {r}
    BY <1>3 DEF ReturnToken, Holding, LeaseLife, Leased
  <2>3. Cardinality(Holding') = Cardinality(Holding) - 1
    BY <2>1, <2>2, HoldingFinite, FS_RemoveElement
  <2> QED
    BY <1>3, <2>3 DEF ReturnToken, SlotsAccounted
<1>4. ASSUME NEW r \in Requests, NEW c \in Calls, ReleaseToken(r, c)
      PROVE  SlotsAccounted'
  <2>1. r \in Holding
    BY <1>4 DEF ReleaseToken, Holding
  <2>2. \A d \in Calls \ {c} : pc[r][d] # "draining"
    BY <1>4 DEF ReleaseToken, MutexHeld
  <2>3. stage[r] # "taken" /\ ~active[r]
    BY <1>4 DEF ReleaseToken, LeaseLife, Leased
  <2>4. Holding' = Holding \ {r}
    BY <1>4, <2>2, <2>3 DEF ReleaseToken, Holding
  <2>5. Cardinality(Holding') = Cardinality(Holding) - 1
    BY <2>1, <2>4, HoldingFinite, FS_RemoveElement
  <2> QED
    BY <1>4, <2>5 DEF ReleaseToken, SlotsAccounted
<1>5. ASSUME NEW r \in Requests,
             \/ TryAcquireCancelled(r) \/ TryAcquireSaturated(r)
             \/ GrantLease(r) \/ IssueContext(r) \/ PrepareChecksLease(r)
             \/ PrepareFinishes(r) \/ Cancel(r)
      PROVE  SlotsAccounted'
  <2>1. Holding' = Holding
    BY <1>5 DEF TryAcquireCancelled, TryAcquireSaturated, GrantLease,
       IssueContext, PrepareChecksLease, PrepareFinishes, Cancel, Holding,
       LeaseLife, Leased
  <2>2. tokens' = tokens
    BY <1>5 DEF TryAcquireCancelled, TryAcquireSaturated, GrantLease,
       IssueContext, PrepareChecksLease, PrepareFinishes, Cancel
  <2> QED
    BY <1>1, <2>1, <2>2
<1>6. ASSUME NEW r \in Requests, NEW c \in Calls, Working(r, c)
      PROVE  SlotsAccounted'
  <2>1. Holding' = Holding
    BY <1>6 DEF Working, Run, Generate, NoRun, HoldForContext, StartWork,
       FinishWork, ReleaseHold, Holding
  <2>2. tokens' = tokens
    BY <1>6 DEF Working, Run, Generate, NoRun, HoldForContext, StartWork,
       FinishWork, ReleaseHold
  <2> QED
    BY <1>1, <2>1, <2>2
<1>7. ASSUME NEW r \in Requests, NEW c \in Calls,
             Release(r, c) \/ ReleaseCount(r, c)
      PROVE  SlotsAccounted'
  <2>1. Holding' = Holding
    BY <1>7 DEF Release, ReleaseCount, Holding
  <2>2. tokens' = tokens
    BY <1>7 DEF Release, ReleaseCount
  <2> QED
    BY <1>1, <2>1, <2>2
<1>8. CASE UNCHANGED vars
  BY <1>1, <1>8 DEF vars, Holding
<1> QED
  BY <1>2, <1>3, <1>4, <1>5, <1>6, <1>7, <1>8 DEF Next, Acquiring, Releasing

\* The gauge is raised when a lease begins and lowered by the one call that
\* released it, after its token.
LEMMA GaugeStep ==
    TypeOK /\ MutexHeld /\ LeaseLife /\ GaugeAccounted /\ [Next]_vars
        => GaugeAccounted'
<1> SUFFICES ASSUME TypeOK, MutexHeld, LeaseLife, GaugeAccounted, [Next]_vars
             PROVE  GaugeAccounted'
  OBVIOUS
<1> USE AdmissionAssumption
     DEF TypeOK, Goto, Advance, counters, lease
<1>1. ASSUME inUse' = inUse, Counted' = Counted PROVE GaugeAccounted'
  BY <1>1 DEF GaugeAccounted
<1>2. ASSUME NEW r \in Requests, GrantLease(r) PROVE GaugeAccounted'
  <2>1. r \notin Counted
    BY <1>2 DEF GrantLease, Counted, LeaseLife, Leased
  <2>2. Counted' = Counted \cup {r}
    BY <1>2 DEF GrantLease, Counted
  <2>3. Cardinality(Counted') = Cardinality(Counted) + 1
    BY <2>1, <2>2, CountedFinite, FS_AddElement
  <2> QED
    BY <1>2, <2>3 DEF GrantLease, GaugeAccounted
<1>3. ASSUME NEW r \in Requests, NEW c \in Calls, ReleaseCount(r, c)
      PROVE  GaugeAccounted'
  <2>1. r \in Counted
    BY <1>3 DEF ReleaseCount, Counted
  <2>2. \A d \in Calls \ {c} : pc[r][d] \notin {"draining", "counting"}
    BY <1>3 DEF ReleaseCount, MutexHeld
  <2>3. ~active[r]
    BY <1>3 DEF ReleaseCount, LeaseLife
  <2>4. Counted' = Counted \ {r}
    BY <1>3, <2>2, <2>3 DEF ReleaseCount, Counted
  <2>5. Cardinality(Counted') = Cardinality(Counted) - 1
    BY <2>1, <2>4, CountedFinite, FS_RemoveElement
  <2> QED
    BY <1>3, <2>5 DEF ReleaseCount, GaugeAccounted
<1>4. ASSUME NEW r \in Requests,
             \/ TryAcquireCancelled(r) \/ TryAcquireSaturated(r)
             \/ TakeToken(r) \/ ReturnToken(r) \/ IssueContext(r)
             \/ PrepareChecksLease(r) \/ PrepareFinishes(r) \/ Cancel(r)
      PROVE  GaugeAccounted'
  <2>1. Counted' = Counted
    BY <1>4 DEF TryAcquireCancelled, TryAcquireSaturated, TakeToken,
       ReturnToken, IssueContext, PrepareChecksLease, PrepareFinishes, Cancel,
       Counted
  <2>2. inUse' = inUse
    BY <1>4 DEF TryAcquireCancelled, TryAcquireSaturated, TakeToken,
       ReturnToken, IssueContext, PrepareChecksLease, PrepareFinishes, Cancel
  <2> QED
    BY <1>1, <2>1, <2>2
<1>5. ASSUME NEW r \in Requests, NEW c \in Calls, Working(r, c)
      PROVE  GaugeAccounted'
  <2>1. Counted' = Counted
    BY <1>5 DEF Working, Run, Generate, NoRun, HoldForContext, StartWork,
       FinishWork, ReleaseHold, Counted
  <2>2. inUse' = inUse
    BY <1>5 DEF Working, Run, Generate, NoRun, HoldForContext, StartWork,
       FinishWork, ReleaseHold
  <2> QED
    BY <1>1, <2>1, <2>2
<1>6. ASSUME NEW r \in Requests, NEW c \in Calls,
             Release(r, c) \/ ReleaseToken(r, c)
      PROVE  GaugeAccounted'
  <2>1. Counted' = Counted
    BY <1>6 DEF Release, ReleaseToken, Counted
  <2>2. inUse' = inUse
    BY <1>6 DEF Release, ReleaseToken
  <2> QED
    BY <1>1, <2>1, <2>2
<1>7. CASE UNCHANGED vars
  BY <1>1, <1>7 DEF vars, Counted
<1> QED
  BY <1>2, <1>3, <1>4, <1>5, <1>6, <1>7 DEF Next, Acquiring, Releasing

-----------------------------------------------------------------------------
(* The theorems.                                                           *)

\* An empty pool satisfies the invariant.
LEMMA InvInit == Init => Inv
<1> SUFFICES ASSUME Init PROVE Inv
  OBVIOUS
<1>1. TypeOK /\ MutexHeld /\ LeaseLife /\ OneRunner
  BY AdmissionAssumption DEF Init, TypeOK, MutexHeld, LeaseLife, OneRunner,
     Stages, Labels, Leased
<1>2. Holding = {} /\ Counted = {}
  BY DEF Init, Holding, Counted
<1> QED
  BY <1>1, <1>2, FS_EmptySet DEF Init, Inv, SlotsAccounted, GaugeAccounted

\* Every step preserves the invariant.
LEMMA InvNext == Inv /\ [Next]_vars => Inv'
BY TypeStep, MutexStep, LeaseStep, RunnerStep, SlotsStep, GaugeStep DEF Inv

\* The invariant holds in every reachable state.
THEOREM Invariance == Spec => []Inv
<1> QED
  BY InvInit, InvNext, PTL DEF Spec

\* The channel of slots keeps its bounds and every variable its type.
THEOREM TypeCorrect == Spec => []TypeOK
<1>1. Inv => TypeOK
  BY DEF Inv
<1> QED
  BY <1>1, Invariance, PTL

\* Slots are neither lost nor given back twice.
THEOREM EverySlotAccounted == Spec => []SlotsAccounted
<1>1. Inv => SlotsAccounted
  BY DEF Inv
<1> QED
  BY <1>1, Invariance, PTL

\* The gauge is the number of leases not yet released and uncounted.
THEOREM GaugeIsAccounted == Spec => []GaugeAccounted
<1>1. Inv => GaugeAccounted
  BY DEF Inv
<1> QED
  BY <1>1, Invariance, PTL

\* No release takes effect while the lease is in use by vault work.
THEOREM WorkKeepsItsSlot == Spec => []WorkHoldsSlot
<1>1. Inv => WorkHoldsSlot
  BY DEF Inv, WorkHoldsSlot, MutexHeld, LeaseLife
<1> QED
  BY <1>1, Invariance, PTL

\* The two goroutines that may run a prepared operation execute it once.
THEOREM OperationRunsOnce == Spec => []ExecutedAtMostOnce
<1>1. Inv => ExecutedAtMostOnce
  BY DEF Inv, OneRunner, ExecutedAtMostOnce
<1> QED
  BY <1>1, Invariance, PTL

\* At most Capacity vault operations run at any time.
THEOREM WorkBounded == Spec => []WorkIsBounded
<1>1. Inv => WorkIsBounded
  <2> SUFFICES ASSUME Inv PROVE WorkIsBounded
    OBVIOUS
  <2> DEFINE Busy == {t \in Threads : pc[t[1]][t[2]] = "work"}
             Owner == [t \in Busy |-> t[1]]
  <2>1. \A t \in Busy : t[1] \in Holding
    BY DEF Inv, LeaseLife, Holding, Threads
  <2>2. Owner \in [Busy -> Holding]
    BY <2>1
  <2>3. \A s, t \in Busy : s[1] = t[1] => s = t
    BY DEF Inv, MutexHeld, Threads
  <2>4. \A s, t \in Busy : Owner[s] = Owner[t] => s = t
    BY <2>3
  <2> HIDE DEF Busy, Owner
  <2>5. Owner \in Injection(Busy, Holding)
    BY <2>2, <2>4, Fun_IsInj
  <2>6. Cardinality(Busy) <= Cardinality(Holding) /\ IsFiniteSet(Busy)
    BY <2>5, HoldingFinite, FS_Injection
  <2>7. Cardinality(Busy) \in Nat
    BY <2>6, FS_CardinalityType
  <2>8. Cardinality(Holding) <= Capacity
    BY DEF Inv, TypeOK, SlotsAccounted
  <2>9. Cardinality(Busy) <= Capacity
    BY <2>6, <2>7, <2>8, HoldingFinite, AdmissionAssumption
  <2> QED
    BY <2>9 DEF WorkIsBounded, Busy
<1> QED
  BY <1>1, Invariance, PTL

\* Work runs once, under a lease held throughout, within the capacity.
THEOREM WorkAlwaysLeased == Spec => []WorkIsLeased
<1> QED
  BY TypeCorrect, WorkKeepsItsSlot, WorkBounded, OperationRunsOnce, PTL
  DEF WorkIsLeased

-----------------------------------------------------------------------------
(* A Generate call under its lease: a machine of its own beside the pool.  *)

Before == {"decode", "preflight", "hold"}
Checked == {"resolve", "generate", "generated", "invalid", "failed", "seal", "sealed",
            "checked"}
Clearing == {"generated", "seal", "sealed", "checked"}

\* The command is the one the call describes.
CommandIsCalled ==
    at \notin {"decode", "answered"} =>
        /\ call \in GenerateCalls
        /\ command.profile = call.profile
        /\ command.kind = call.kind
        /\ command.good = call.good
        /\ ~command.overflow => ~(call.kind = "x509_csr" /\ call.overflow)
        /\ call.surface = "direct" => command.variants = call.variants

\* How far a call gets says what was found out about its caller ...
CallerIsChecked ==
    /\ at \in {"hold", "authorize"} \cup Checked => (call.actor = "bearer" => call.scope)
    /\ at \in Checked => call.actor = "anonymous" \/ call.policy = "allow"
    /\ at \in Checked \ {"resolve"} =>
          command.profile = "known" /\ validVariant(command)

\* ... and who has the mutex and the private bytes.
Containment ==
    /\ at \in Before => ~hold /\ private # "held"
    /\ at \in {"authorize"} \cup Checked => hold /\ live
    /\ private = "held" => at \in Clearing
    /\ at \in Clearing => (command.kind \in PairKinds => material.public = material.private)
    /\ at \in {"sealed", "checked"} => text.holds = material.private
    /\ at = "checked" => text.label = command.profile /\ text.canonical
    /\ at # "answered" => answer = None
    /\ at = "answered" => ~hold

GenerateInv ==
    /\ at \in Before \cup {"authorize", "answered"} \cup Checked
    /\ {ended, live, hold, drew} \subseteq BOOLEAN
    /\ at = "decode" => command = None /\ ~drew
    /\ at \in Before => ~drew
    /\ CommandIsCalled /\ CallerIsChecked /\ Containment
    /\ DrawnIsAllowed /\ DeniedLearnsNothing /\ ResultIsSealed

\* No refusal is a result.
LEMMA RefusalIsNoResult ==
    ASSUME NEW c, NEW code, code # "result"
    PROVE  Reported(c, code) # "result"
  BY DEF Reported

LEMMA GenerateStarts ==
    ASSUME GenerateInit
    PROVE  GenerateInv
  BY GenerateAssumption DEF GenerateInit, GenerateInv, CommandIsCalled, CallerIsChecked, Containment,
     Before, Checked, Clearing, DrawnIsAllowed, DeniedLearnsNothing, ResultIsSealed

LEMMA DecodeKeeps ==
    ASSUME GenerateInv, NEW c \in GenerateCalls, Decode(c)
    PROVE  GenerateInv'
<1> DEFINE read == IF c.surface = "mcp" THEN decodeMCPGenerateCommand(c)
                   ELSE IF c.surface = "rest" THEN parseGenerateCommand(c.kind, c)
                   ELSE [ok |-> TRUE,
                         command |-> [profile |-> c.profile, kind |-> c.kind,
                                      variants |-> c.variants, overflow |-> c.overflow,
                                      good |-> c.good]]
<1>1. /\ at = "decode" /\ call' = c
      /\ UNCHANGED <<ended, live, hold, drew, private, material, text>>
      /\ IF read.ok
         THEN command' = read.command /\ at' = "preflight" /\ UNCHANGED answer
         ELSE /\ at' = "answered"
              /\ answer' = IF c.surface = "mcp" THEN "tool_invalid" ELSE "invalid_request"
              /\ UNCHANGED command
  BY DEF Decode
<1>2. read.ok =>
        /\ read.command.profile = c.profile
        /\ read.command.kind = c.kind
        /\ read.command.good = c.good
        /\ ~read.command.overflow => ~(c.kind = "x509_csr" /\ c.overflow)
        /\ c.surface = "direct" => read.command.variants = c.variants
  BY DEF decodeMCPGenerateCommand, parseGenerateCommand
<1> HIDE DEF read
<1>3. CASE read.ok
  BY <1>1, <1>2, <1>3, GenerateAssumption DEF GenerateInv, CommandIsCalled, CallerIsChecked,
     Containment, Before, Checked, Clearing, DrawnIsAllowed, DeniedLearnsNothing, ResultIsSealed
<1>4. CASE ~read.ok
  BY <1>1, <1>4 DEF GenerateInv, CommandIsCalled, CallerIsChecked, Containment,
     Before, Checked, Clearing, DrawnIsAllowed, DeniedLearnsNothing, ResultIsSealed
<1> QED
  BY <1>3, <1>4

\* A return before or after the material is there: the mutex is let go, the
\* bytes are cleared, and a denied caller was told nothing but the denial.
LEMMA LeavingKeeps ==
    ASSUME GenerateInv, NEW code, code # "result", Leave(code),
           private' # "held", UNCHANGED <<call, command, ended, live, material>>,
           drew' = drew,
           \/ ended \/ ~live
           \/ ~(call.actor # "anonymous" /\ call.policy = "deny" /\ call.scope)
           \/ command.profile = "malformed" \/ command.kind \notin Kinds
           \/ code = "denied" /\ call.actor # "anonymous"
    PROVE  GenerateInv'
<1>1. at' = "answered" /\ answer' = Reported(call, code) /\ hold' = FALSE
  BY DEF Leave
<1>2. answer' # "result"
  BY <1>1, RefusalIsNoResult
<1>3. code = "denied" /\ call.actor # "anonymous" => answer' = "forbidden"
  BY <1>1 DEF Reported
<1>4. CommandIsCalled' /\ CallerIsChecked' /\ Containment'
  BY <1>1 DEF CommandIsCalled, CallerIsChecked, Containment, Before, Checked, Clearing
<1>5. (DrawnIsAllowed)' /\ (ResultIsSealed)'
  BY <1>2 DEF GenerateInv, DrawnIsAllowed, ResultIsSealed, Entitled
<1>6. (DeniedLearnsNothing)'
  BY <1>1, <1>3 DEF DeniedLearnsNothing
<1> QED
  BY <1>1, <1>4, <1>5, <1>6 DEF GenerateInv, Before, Checked

LEMMA ServiceKeeps ==
    ASSUME GenerateInv,
           Preflight \/ Hold \/ Authorize \/ Resolve
    PROVE  GenerateInv'
<1>0. UNCHANGED <<call, command, ended, live, drew, private, material, text>>
  BY DEF Preflight, Hold, Authorize, Resolve
<1>1. private # "held"
  BY DEF GenerateInv, Containment, Clearing, Preflight, Hold, Authorize, Resolve
<1> USE DEF GenerateInv, CommandIsCalled, CallerIsChecked, Containment, Before, Checked,
            Clearing, DrawnIsAllowed, DeniedLearnsNothing, ResultIsSealed
<1>2. CASE Preflight
  <2>1. CASE ended \/ (call.actor = "bearer" /\ ~call.scope)
    <3>1. \E code \in {"unavailable", "forbidden"} : Leave(code)
      BY <1>2, <2>1 DEF Preflight
    <3> HIDE DEF GenerateInv
    <3> QED
      BY <1>0, <1>1, <2>1, <3>1, LeavingKeeps
  <2>2. CASE ~ended /\ ~(call.actor = "bearer" /\ ~call.scope)
    <3>1. at = "preflight" /\ at' = "hold" /\ UNCHANGED <<answer, hold>>
      BY <1>2, <2>2 DEF Preflight
    <3> QED
      BY <1>0, <2>2, <3>1, GenerateAssumption
  <2> QED
    BY <2>1, <2>2
<1>3. CASE Hold
  <2>1. CASE ended \/ ~live \/ command.profile = "malformed" \/ command.kind \notin Kinds
    <3>1. \E code \in {"unavailable", "not_ready", "invalid_request"} : Leave(code)
      BY <1>3, <2>1 DEF Hold
    <3> HIDE DEF GenerateInv
    <3> QED
      BY <1>0, <1>1, <2>1, <3>1, LeavingKeeps
  <2>2. CASE ~(ended \/ ~live \/ command.profile = "malformed" \/ command.kind \notin Kinds)
    <3>1. at = "hold" /\ at' = "authorize" /\ hold' = TRUE /\ answer' = answer
      BY <1>3, <2>2 DEF Hold
    <3> QED
      BY <1>0, <1>1, <2>2, <3>1, GenerateAssumption
  <2> QED
    BY <2>1, <2>2
<1>4. CASE Authorize
  <2>1. CASE ended \/ (call.actor # "anonymous" /\ call.policy = "broken")
    <3>1. \E code \in {"unavailable", "not_ready"} : Leave(code)
      BY <1>4, <2>1 DEF Authorize
    <3> HIDE DEF GenerateInv
    <3> QED
      BY <1>0, <1>1, <2>1, <3>1, LeavingKeeps
  <2>2. CASE ~ended /\ call.actor # "anonymous" /\ call.policy = "deny"
    <3>1. Leave("denied")
      BY <1>4, <2>2 DEF Authorize
    <3> HIDE DEF GenerateInv
    <3> QED
      BY <1>0, <1>1, <2>2, <3>1, LeavingKeeps
  <2>3. CASE ~ended /\ (call.actor = "anonymous" \/ call.policy \notin {"deny", "broken"})
    <3>1. at = "authorize" /\ at' = "resolve" /\ UNCHANGED <<answer, hold>>
      BY <1>4, <2>3 DEF Authorize
    <3>2. call.actor = "anonymous" \/ call.policy = "allow"
      BY <2>3, <3>1, GenerateAssumption
    <3> QED
      BY <1>0, <3>1, <3>2, GenerateAssumption
  <2> QED
    BY <2>1, <2>2, <2>3
<1>5. CASE Resolve
  <2>1. CASE command.profile # "known" \/ ~validVariant(command) \/ ended
    <3>1. \E code \in {"not_found", "forbidden", "invalid_request", "unavailable"} :
             Leave(code)
      BY <1>5, <2>1 DEF Resolve, AccessError
    <3>2. ~(call.actor # "anonymous" /\ call.policy = "deny" /\ call.scope)
      BY <1>5 DEF Resolve
    <3> HIDE DEF GenerateInv
    <3> QED
      BY <1>0, <1>1, <3>1, <3>2, LeavingKeeps
  <2>2. CASE ~(command.profile # "known" \/ ~validVariant(command) \/ ended)
    <3>1. at = "resolve" /\ at' = "generate" /\ UNCHANGED <<answer, hold>>
      BY <1>5, <2>2 DEF Resolve
    <3> QED
      BY <1>0, <2>2, <3>1, GenerateAssumption
  <2> QED
    BY <2>1, <2>2
<1> QED
  BY <1>2, <1>3, <1>4, <1>5

LEMMA MaterialKeeps ==
    ASSUME GenerateInv, GenerateMaterial
    PROVE  GenerateInv'
<1>0. at = "generate" /\ UNCHANGED <<call, command, ended, live, hold, text, answer>>
  BY DEF GenerateMaterial
<1> USE DEF GenerateInv, CommandIsCalled, CallerIsChecked, Containment, Before, Checked,
            Clearing, DrawnIsAllowed, DeniedLearnsNothing, ResultIsSealed
<1>1. CASE /\ drew' = drew /\ at' = "invalid" /\ UNCHANGED <<private, material>>
  BY <1>0, <1>1, GenerateAssumption
<1>2. ASSUME command.good, drew' = TRUE,
             \/ at' = "failed" /\ UNCHANGED <<private, material>>
             \/ /\ at' = "generated" /\ private' = "held"
                /\ command.kind \in PairKinds => material'.public = material'.private
      PROVE  GenerateInv'
  <2>1. (DrawnIsAllowed)'
    BY <1>0, <1>2 DEF Entitled, validVariant
  <2> QED
    BY <1>0, <1>2, <2>1, GenerateAssumption
<1>3. \/ drew' = drew /\ at' = "invalid" /\ UNCHANGED <<private, material>>
      \/ /\ command.good /\ drew' = TRUE
         /\ \/ at' = "failed" /\ UNCHANGED <<private, material>>
            \/ /\ at' = "generated" /\ private' = "held"
               /\ command.kind \in PairKinds => material'.public = material'.private
  BY DEF GenerateMaterial, derivePublic
<1> QED
  BY <1>1, <1>2, <1>3

LEMMA SealingKeeps ==
    ASSUME GenerateInv,
           AfterGenerate \/ Seal \/ CheckText \/ Return
    PROVE  GenerateInv'
<1>0. /\ at \in Checked \ {"resolve", "generate"}
      /\ UNCHANGED <<call, command, ended, live, drew, material>>
  BY DEF AfterGenerate, Seal, CheckText, Return, Checked
<1>1. ~(call.actor # "anonymous" /\ call.policy = "deny" /\ call.scope)
  BY <1>0 DEF GenerateInv, CallerIsChecked
<1>2. ASSUME NEW code \in {"unavailable", "invalid_request", "operation_failed"},
             Leave(code), Clear
      PROVE  GenerateInv'
  <2>1. private' # "held"
    BY <1>2 DEF Clear
  <2> QED
    BY <1>0, <1>1, <1>2, <2>1, LeavingKeeps
<1> USE DEF GenerateInv, CommandIsCalled, CallerIsChecked, Containment, Before, Checked,
            Clearing, DrawnIsAllowed, DeniedLearnsNothing, ResultIsSealed
<1>3. CASE at = "generated" /\ at' = "seal" /\ UNCHANGED <<answer, hold, private, text>>
  BY <1>0, <1>3, GenerateAssumption
<1>4. CASE /\ at = "seal" /\ at' = "sealed" /\ UNCHANGED <<answer, hold, private>>
           /\ text'.holds = material.private
  BY <1>0, <1>4, GenerateAssumption
<1>5. CASE /\ at = "sealed" /\ at' = "checked" /\ UNCHANGED <<answer, hold, private, text>>
           /\ text.label = command.profile /\ text.canonical
  BY <1>0, <1>5, GenerateAssumption
<1>6. CASE /\ at = "checked" /\ at' = "answered" /\ answer' = "result" /\ hold' = FALSE
           /\ Clear /\ text' = text
  BY <1>0, <1>1, <1>6, GenerateAssumption DEF Clear
<1> HIDE DEF GenerateInv, CommandIsCalled, CallerIsChecked, Containment, Before, Checked,
             Clearing, DrawnIsAllowed, DeniedLearnsNothing, ResultIsSealed
<1>7. CASE AfterGenerate
  BY <1>2, <1>3, <1>7 DEF AfterGenerate
<1>8. CASE Seal
  BY <1>2, <1>4, <1>8 DEF Seal
<1>9. CASE CheckText
  BY <1>2, <1>5, <1>9 DEF CheckText, validGeneratedVaultText
<1>10. CASE Return
  BY <1>2, <1>6, <1>10, Zenon DEF Return
<1> QED
  BY <1>7, <1>8, <1>9, <1>10

LEMMA OutsideKeeps ==
    ASSUME GenerateInv,
           ContextEnds \/ ReleaseElsewhere \/ UNCHANGED generateVars
    PROVE  GenerateInv'
<1> USE DEF GenerateInv, CommandIsCalled, CallerIsChecked, Containment, Before, Checked,
            Clearing, DrawnIsAllowed, DeniedLearnsNothing, ResultIsSealed, Entitled
<1>1. CASE ContextEnds
  BY <1>1 DEF ContextEnds
<1>2. CASE ReleaseElsewhere
  BY <1>2 DEF ReleaseElsewhere
<1>3. CASE UNCHANGED generateVars
  BY <1>3 DEF generateVars
<1> QED
  BY <1>1, <1>2, <1>3

\* The invariant of a Generate call, for every call that may be made.
THEOREM GenerateInvariance == GenerateSpec => []GenerateInv
<1>1. GenerateInit => GenerateInv
  BY GenerateStarts
<1>2. GenerateInv /\ [GenerateNext]_generateVars => GenerateInv'
  BY DecodeKeeps, ServiceKeeps, MaterialKeeps, SealingKeeps, OutsideKeeps
     DEF GenerateNext, generateVars
<1> QED
  BY <1>1, <1>2, PTL DEF GenerateSpec

\* Nothing is drawn for a caller without the right to it, and one the policy
\* denies learns nothing (the order of the checks in Service.Generate).
THEOREM OnlyTheEntitledGenerate == GenerateSpec => []OnlyForEntitled
<1>1. GenerateInv => OnlyForEntitled
  BY DEF GenerateInv, OnlyForEntitled
<1> QED
  BY <1>1, GenerateInvariance, PTL

\* The safety part of PrivateIsContained: what is returned is sealed, every way
\* out clears the private bytes and the mutex, and the slot outlives the work.
THEOREM PrivateStaysContained == GenerateSpec => [](ResultIsSealed /\ LeavesClean /\ SlotCoversWork)
<1>1. GenerateInv => ResultIsSealed /\ LeavesClean /\ SlotCoversWork
  BY DEF GenerateInv, Containment, Checked, Clearing, LeavesClean, SlotCoversWork
<1> QED
  BY <1>1, GenerateInvariance, PTL

-----------------------------------------------------------------------------
(* A certificate request.                                                  *)

\* An array of strings as the decoder can read it, and as validation accepts it.
Readable(array) == array \in Seq(STRING) /\ ToSet(array) \cap NotString = {}

Strings(array, maximum) ==
    /\ Readable(array)
    /\ Len(array) \in 1..maximum
    /\ ToSet(array) \cap Invalid = {}
    /\ Distinct(array)

SubjectAccepted(s) ==
    /\ s.cn # Absent \/ Supplied(s.dn) # {}
    /\ s.cn # Absent => s.cn \notin NotString \cup Invalid
    /\ \A f \in Supplied(s.dn) : Strings(s.dn[f], MaxSubjectValues)

SansAccepted(s) ==
    /\ Supplied(s) # {}
    /\ \A f \in Supplied(s) : Strings(s[f], MaxSANs)
    /\ Count(s) <= MaxSANs

SubjectRead(s) == s.cn \notin NotString /\ \A f \in Supplied(s.dn) : Readable(s.dn[f])

\* An array that does not exceed its bound is read whole.
LEMMA ArrayIsRead ==
    ASSUME NEW array \in Seq(STRING) \cup {NotArray}, NEW n \in Int
    PROVE  /\ decodeJSONStringArray(array, n).err <=> ~Readable(array)
           /\ Readable(array) =>
                /\ decodeJSONStringArray(array, n).exceeded <=> Len(array) > n
                /\ Len(array) <= n => decodeJSONStringArray(array, n).values = array
<1>1. decodeJSONStringArray(array, n).err <=> ~Readable(array)
  BY RequestAssumption DEF decodeJSONStringArray, Readable
<1>2. ASSUME Readable(array)
      PROVE  /\ decodeJSONStringArray(array, n).exceeded <=> Len(array) > n
             /\ decodeJSONStringArray(array, n).values = SubSeq(array, 1, Min({n, Len(array)}))
  BY <1>2, RequestAssumption DEF decodeJSONStringArray, Readable
<1>3. ASSUME Readable(array), Len(array) <= n
      PROVE  SubSeq(array, 1, Min({n, Len(array)})) = array
  <2>1. array \in Seq(STRING) /\ Len(array) \in Nat
    BY <1>3 DEF Readable
  <2>2. Min({n, Len(array)}) = Len(array)
    BY <1>3, <2>1 DEF Min
  <2> QED
    BY <2>1, <2>2
<1> QED
  BY <1>1, <1>2, <1>3

\* What Acceptable says of an array, part by part.
LEMMA AcceptableParts ==
    ASSUME NEW b \in Bodies
    PROVE  Acceptable(b) <=>
             /\ b.alg \in Algorithms
             /\ b.subject # Absent => SubjectAccepted(b.subject)
             /\ b.sans # Absent => SansAccepted(b.sans)
             /\ (b.subject # Absent /\ b.subject.cn # Absent) \/ b.sans # Absent
<1> DEFINE strings(array, maximum) ==
            /\ array # NotArray
            /\ Len(array) \in 1..maximum
            /\ \A i \in DOMAIN array : array[i] \notin NotString \cup Invalid
            /\ \A i, j \in DOMAIN array : array[i] = array[j] => i = j
<1>1. ASSUME NEW array \in Seq(STRING) \cup {NotArray}, NEW m
      PROVE  strings(array, m) <=> Strings(array, m)
  BY RequestAssumption DEF Strings, Readable, ToSet, Distinct, IsInjective
<1>2. b.subject # Absent => b.subject \in SubjectObjects
  BY RequestAssumption
<1>3. b.sans # Absent => b.sans \in SanObjects
  BY RequestAssumption
<1>4. b.subject # Absent =>
        \A f \in Supplied(b.subject.dn) : b.subject.dn[f] \in Seq(STRING) \cup {NotArray}
  BY <1>2 DEF SubjectObjects, JsonArrays, Supplied
<1>5. b.sans # Absent => \A f \in Supplied(b.sans) : b.sans[f] \in Seq(STRING) \cup {NotArray}
  BY <1>3 DEF SanObjects, JsonArrays, Supplied
<1>6. Acceptable(b) <=>
        /\ b.alg \in Algorithms
        /\ b.subject # Absent =>
             /\ b.subject.cn # Absent \/ Supplied(b.subject.dn) # {}
             /\ b.subject.cn # Absent => b.subject.cn \notin NotString \cup Invalid
             /\ \A f \in Supplied(b.subject.dn) : strings(b.subject.dn[f], MaxSubjectValues)
        /\ b.sans # Absent =>
             /\ Supplied(b.sans) # {}
             /\ \A f \in Supplied(b.sans) : strings(b.sans[f], MaxSANs)
             /\ Count(b.sans) <= MaxSANs
        /\ (b.subject # Absent /\ b.subject.cn # Absent) \/ b.sans # Absent
  BY DEF Acceptable
<1> HIDE DEF strings
<1> QED
  BY <1>1, <1>4, <1>5, <1>6 DEF SubjectAccepted, SansAccepted

\* The SAN strings are counted field by field.
LEMMA CountBounds ==
    ASSUME NEW s \in SanObjects, \A f \in Supplied(s) : s[f] \in Seq(STRING)
    PROVE  /\ \A f \in SanFields : Size(s[f]) \in Nat
           /\ Count(s) \in Nat
           /\ \A f \in SanFields : Size(s[f]) <= Count(s)
<1>1. \A f \in SanFields : Size(s[f]) \in Nat
  BY DEF Size, Supplied, SanObjects
<1>2. {"dns", "ip", "email", "uri"} \subseteq SanFields
  BY DEF SanFields
<1>3. Size(s["dns"]) \in Nat /\ Size(s["ip"]) \in Nat /\ Size(s["email"]) \in Nat /\ Size(s["uri"]) \in Nat
  BY <1>1, <1>2
<1> QED
  BY <1>1, <1>3 DEF Count, SanFields

\* The parameters are acceptable exactly if they can be read and are valid:
\* what the documentation accepts is what the code accepts.
LEMMA AcceptableIsValid ==
    ASSUME NEW b \in Bodies
    PROVE  Acceptable(b) <=> Plain(b) /\ validateX509CSRParameters(b)
<1>1. /\ b.subject # Absent => b.subject \in SubjectObjects
      /\ b.sans # Absent => b.sans \in SanObjects
  BY RequestAssumption
<1>2. ASSUME b.subject # Absent
      PROVE  /\ SubjectRead(b.subject) <=>
                  /\ b.subject.cn \notin NotString
                  /\ \A f \in Supplied(b.subject.dn) :
                       ~decodeJSONStringArray(b.subject.dn[f], MaxSANs).err
             /\ SubjectAccepted(b.subject) <=>
                  SubjectRead(b.subject) /\ validateX509Subject(b.subject)
  <2>1. \A f \in Supplied(b.subject.dn) : b.subject.dn[f] \in Seq(STRING) \cup {NotArray}
    BY <1>1, <1>2 DEF SubjectObjects, JsonArrays, Supplied
  <2>2. MaxSANs \in Int /\ Absent \notin NotString \cup Invalid
    BY RequestAssumption
  <2>3. Supplied(b.subject.dn) = {f \in DNFields : b.subject.dn[f] # Absent}
    BY <1>1, <1>2 DEF SubjectObjects, Supplied
  <2>4. SubjectRead(b.subject) <=>
          /\ b.subject.cn \notin NotString
          /\ \A f \in Supplied(b.subject.dn) :
               ~decodeJSONStringArray(b.subject.dn[f], MaxSANs).err
    BY <2>1, <2>2, ArrayIsRead DEF SubjectRead
  <2>5. SubjectAccepted(b.subject) <=> SubjectRead(b.subject) /\ validateX509Subject(b.subject)
    BY <2>2, <2>3 DEF SubjectAccepted, SubjectRead, validateX509Subject, validDNValues, Strings
  <2> QED
    BY <2>4, <2>5
<1>3. ASSUME b.sans # Absent
      PROVE  /\ (\A f \in Supplied(b.sans) : Readable(b.sans[f])) <=>
                  \A f \in Supplied(b.sans) : ~decodeJSONStringArray(b.sans[f], MaxSANs).err
             /\ SansAccepted(b.sans) <=>
                  /\ \A f \in Supplied(b.sans) : Readable(b.sans[f])
                  /\ validateX509SANs(b.sans)
             /\ SansAccepted(b.sans) => Count(b.sans) > 0
  <2>1. \A f \in Supplied(b.sans) : b.sans[f] \in Seq(STRING) \cup {NotArray}
    BY <1>1, <1>3 DEF SanObjects, JsonArrays, Supplied
  <2>2. MaxSANs \in Int
    BY RequestAssumption
  <2>3. (\A f \in Supplied(b.sans) : Readable(b.sans[f])) <=>
          \A f \in Supplied(b.sans) : ~decodeJSONStringArray(b.sans[f], MaxSANs).err
    BY <2>1, <2>2, ArrayIsRead
  <2>4. ASSUME \A f \in Supplied(b.sans) : Readable(b.sans[f])
        PROVE  /\ Count(b.sans) \in Nat
               /\ \A f \in Supplied(b.sans) : Len(b.sans[f]) \in Nat /\ Len(b.sans[f]) <= Count(b.sans)
    <3>1. \A f \in Supplied(b.sans) : b.sans[f] \in Seq(STRING) /\ f \in SanFields /\ b.sans[f] # Absent
      BY <1>1, <1>3, <2>4 DEF Readable, Supplied, SanObjects
    <3> QED
      BY <1>1, <1>3, <3>1, CountBounds DEF Size
  <2>5. SansAccepted(b.sans) => Count(b.sans) > 0
    BY <2>4 DEF SansAccepted, Strings
  <2>6. SansAccepted(b.sans) <=>
          /\ \A f \in Supplied(b.sans) : Readable(b.sans[f])
          /\ validateX509SANs(b.sans)
    BY <2>2, <2>4, <2>5 DEF SansAccepted, Strings, validateX509SANs
  <2> QED
    BY <2>3, <2>5, <2>6
<1>4. Plain(b) <=> /\ b.subject # Absent => SubjectRead(b.subject)
                   /\ b.sans # Absent => \A f \in Supplied(b.sans) : Readable(b.sans[f])
  BY <1>2, <1>3 DEF Plain
<1>5. b.sans # Absent /\ validateX509SANs(b.sans) => Count(b.sans) > 0
  BY RequestAssumption DEF validateX509SANs
<1> QED
  BY <1>2, <1>3, <1>4, <1>5, AcceptableParts DEF validateX509CSRParameters

-----------------------------------------------------------------------------
(* The invariant.                                                          *)

\* The SANs as far as the decoder has visited them.
Visited(sans, left) == [f \in SanFields |-> IF f \in left THEN Absent ELSE sans[f]]

\* While the SANs are decoded: what was visited can be read and, unless
\* something did not fit, is kept whole and counted.
Decoding ==
    /\ body.sans # Absent
    /\ pending \subseteq Supplied(body.sans)
    /\ body.subject # Absent => SubjectRead(body.subject)
    /\ \A f \in Supplied(body.sans) \ pending : Readable(body.sans[f])
    /\ ~overflow =>
          /\ parameters = [alg |-> body.alg, subject |-> body.subject,
                           sans |-> Visited(body.sans, pending)]
          /\ remaining = MaxSANs - Count(Visited(body.sans, pending))

RequestInv ==
    /\ phase \in {"idle", "sans", "decoded", "valid", "built", "refused", "failed"}
    /\ phase = "idle" => ~overflow /\ remaining = MaxSANs
    /\ phase # "idle" => body \in Bodies
    /\ phase = "sans" => Decoding
    /\ phase \in {"decoded", "valid", "built", "failed"} =>
          Plain(body) /\ (~overflow => parameters = body)
    /\ overflow \in BOOLEAN
    /\ overflow \/ phase = "refused" => ~Acceptable(body)
    /\ phase \in {"valid", "built", "failed"} =>
          ~overflow /\ validateX509CSRParameters(parameters)
    /\ keyed => phase \in {"built", "failed"}
    /\ healthy /\ phase \in {"built", "failed"} => (phase = "failed" <=> Misread(body))
    /\ phase = "built" =>
          /\ parseAndCheckCSR(csr, parameters)
          /\ \A f \in DNFields : IsFiniteSet(DOMAIN csr.dn[f])

LEMMA RequestStarts == ASSUME RequestInit PROVE RequestInv
BY DEF RequestInit, RequestInv

\* The subject is refused or overflows only if it is not acceptable, and is
\* otherwise read as it was sent.
LEMMA SubjectIsRead ==
    ASSUME NEW s \in SubjectObjects
    PROVE  LET p == parseX509Subject(s)
           IN  /\ p.err => ~SubjectAccepted(s)
               /\ p.err \in BOOLEAN /\ p.exceeded \in BOOLEAN
               /\ ~p.err => SubjectRead(s)
               /\ ~p.err /\ p.exceeded => ~SubjectAccepted(s)
               /\ ~p.err /\ ~p.exceeded => p.subject = s
<1> DEFINE read == [f \in Supplied(s.dn) |-> decodeJSONStringArray(s.dn[f], MaxSubjectValues)]
           p == parseX509Subject(s)
<1>1. /\ p.err <=> \/ s.cn = Absent /\ Supplied(s.dn) = {}
                   \/ s.cn # Absent /\ s.cn \in NotString
                   \/ \E f \in Supplied(s.dn) : read[f].err
      /\ p.exceeded <=> \E f \in Supplied(s.dn) : read[f].exceeded
      /\ p.subject = [cn |-> s.cn, dn |-> [f \in DNFields |->
                        IF f \in Supplied(s.dn) THEN read[f].values ELSE Absent]]
      /\ p.err \in BOOLEAN /\ p.exceeded \in BOOLEAN
  BY DEF parseX509Subject
<1>2. \A f \in Supplied(s.dn) : s.dn[f] \in Seq(STRING) \cup {NotArray}
  BY DEF SubjectObjects, JsonArrays, Supplied
<1>3. Supplied(s.dn) = {f \in DNFields : s.dn[f] # Absent}
  BY DEF SubjectObjects, Supplied
<1>4. MaxSubjectValues \in Int
  BY RequestAssumption
<1>5. \A f \in Supplied(s.dn) :
        /\ read[f].err <=> ~Readable(s.dn[f])
        /\ Readable(s.dn[f]) =>
             /\ read[f].exceeded <=> Len(s.dn[f]) > MaxSubjectValues
             /\ Len(s.dn[f]) <= MaxSubjectValues => read[f].values = s.dn[f]
  BY <1>2, <1>4, ArrayIsRead
<1> HIDE DEF read, p
<1>6. Absent \notin NotString
  BY RequestAssumption
<1>7. p.err => ~SubjectAccepted(s)
  BY <1>1, <1>5 DEF SubjectAccepted, Strings
<1>8. ~p.err => SubjectRead(s)
  BY <1>1, <1>5, <1>6 DEF SubjectRead
<1>9. \A f \in Supplied(s.dn) : Readable(s.dn[f]) => Len(s.dn[f]) \in Nat
  BY DEF Readable
<1>10. ~p.err /\ p.exceeded => ~SubjectAccepted(s)
  BY <1>1, <1>4, <1>5, <1>9 DEF SubjectAccepted, Strings
<1>11. ASSUME ~p.err, ~p.exceeded
       PROVE  p.subject = s
  <2>1. \A f \in Supplied(s.dn) : read[f].values = s.dn[f]
    BY <1>1, <1>4, <1>5, <1>9, <1>11
  <2>2. \A f \in DNFields : (IF f \in Supplied(s.dn) THEN read[f].values ELSE Absent) = s.dn[f]
    BY <2>1, <1>3
  <2>3. s.dn = [f \in DNFields |-> s.dn[f]] /\ s = [cn |-> s.cn, dn |-> s.dn]
    BY DEF SubjectObjects
  <2>4. [f \in DNFields |-> IF f \in Supplied(s.dn) THEN read[f].values ELSE Absent] = s.dn
    BY <2>2, <2>3
  <2> QED
    BY <1>1, <2>3, <2>4
<1> QED
  BY <1>1, <1>7, <1>8, <1>10, <1>11 DEF p

LEMMA DecodeParametersKeeps ==
    ASSUME RequestInv, NEW b \in Bodies, DecodeParameters(b)
    PROVE  RequestInv'
<1> DEFINE s == IF b.subject = Absent
                THEN [err |-> FALSE, exceeded |-> FALSE, subject |-> Absent]
                ELSE parseX509Subject(b.subject)
<1>1. /\ phase = "idle" /\ body' = b /\ overflow' = s.exceeded
      /\ parameters' = [alg |-> b.alg, subject |-> s.subject,
                        sans |-> IF b.sans = Absent THEN Absent ELSE NoSans]
      /\ pending' = IF b.sans = Absent THEN {} ELSE Supplied(b.sans)
      /\ phase' = IF s.err THEN "refused"
                  ELSE IF b.sans = Absent THEN "decoded"
                  ELSE IF Supplied(b.sans) = {} THEN "refused" ELSE "sans"
      /\ UNCHANGED <<remaining, keyed, healthy, csr>>
  BY DEF DecodeParameters
<1>2. /\ s.err \in BOOLEAN /\ s.exceeded \in BOOLEAN
      /\ s.err \/ s.exceeded => b.subject # Absent /\ ~SubjectAccepted(b.subject)
      /\ ~s.err /\ b.subject # Absent => SubjectRead(b.subject)
      /\ ~s.err /\ ~s.exceeded => s.subject = b.subject
  <2>1. CASE b.subject = Absent
    BY <2>1
  <2>2. CASE b.subject # Absent
    <3>1. b.subject \in SubjectObjects
      BY <2>2, RequestAssumption
    <3> QED
      BY <2>2, <3>1, SubjectIsRead
  <2> QED
    BY <2>1, <2>2
<1> HIDE DEF s
<1>3. s.err \/ s.exceeded => ~Acceptable(b)
  BY <1>2, AcceptableParts
<1>4. b.sans # Absent /\ Supplied(b.sans) = {} => ~Acceptable(b)
  BY AcceptableParts DEF SansAccepted
<1>5. ~keyed
  BY <1>1 DEF RequestInv
<1>6. CASE s.err
  BY <1>1, <1>2, <1>3, <1>5, <1>6 DEF RequestInv
<1>7. CASE ~s.err /\ b.sans = Absent
  <2>1. Plain(b)
    <3>1. ASSUME b.subject # Absent
          PROVE  \A f \in Supplied(b.subject.dn) :
                    ~decodeJSONStringArray(b.subject.dn[f], MaxSANs).err
      <4>1. \A f \in Supplied(b.subject.dn) : Readable(b.subject.dn[f])
        BY <1>2, <1>7, <3>1 DEF SubjectRead
      <4> QED
        BY <4>1, ArrayIsRead, RequestAssumption DEF Readable
    <3> QED
      BY <1>2, <1>7, <3>1 DEF Plain, SubjectRead
  <2>2. ~s.exceeded => parameters' = b
    BY <1>1, <1>2, <1>7, RequestAssumption
  <2> QED
    BY <1>1, <1>2, <1>3, <1>5, <1>7, <2>1, <2>2 DEF RequestInv
<1>8. CASE ~s.err /\ b.sans # Absent /\ Supplied(b.sans) = {}
  BY <1>1, <1>2, <1>3, <1>4, <1>5, <1>8 DEF RequestInv
<1>9. CASE ~s.err /\ b.sans # Absent /\ Supplied(b.sans) # {}
  <2>1. NoSans = Visited(b.sans, Supplied(b.sans))
    <3>1. b.sans \in SanObjects
      BY <1>9, RequestAssumption
    <3> QED
      BY <3>1 DEF NoSans, Visited, Supplied, SanObjects
  <2>2. Count(NoSans) = 0
    BY DEF Count, Size, NoSans, SanFields
  <2>3. remaining' = MaxSANs - Count(NoSans)
    BY <1>1, <2>2, RequestAssumption DEF RequestInv
  <2>4. Decoding'
    BY <1>1, <1>2, <1>9, <2>1, <2>3 DEF Decoding
  <2> QED
    BY <1>1, <1>2, <1>3, <1>5, <1>9, <2>4 DEF RequestInv
<1> QED
  BY <1>6, <1>7, <1>8, <1>9

LEMMA DecodeSanKeeps ==
    ASSUME RequestInv, NEW f \in SanFields, DecodeSan(f)
    PROVE  RequestInv'
<1> DEFINE array == body.sans[f]
           read == decodeJSONStringArray(array, remaining)
<1>0. /\ phase = "sans" /\ f \in pending /\ pending' = pending \ {f}
      /\ IF read.err
         THEN phase' = "refused" /\ UNCHANGED <<parameters, remaining, overflow>>
         ELSE /\ parameters' = [parameters EXCEPT !.sans[f] = read.values]
              /\ remaining' = remaining - Len(read.values)
              /\ overflow' = (overflow \/ read.exceeded)
              /\ phase' = IF pending' = {} THEN "decoded" ELSE "sans"
      /\ UNCHANGED <<body, keyed, healthy, csr>>
  BY DEF DecodeSan
<1>1. /\ body \in Bodies /\ body.sans \in SanObjects /\ body.sans # Absent
      /\ Decoding /\ ~keyed
  BY <1>0, RequestAssumption DEF RequestInv, Decoding
<1>2. f \in Supplied(body.sans) /\ array \in Seq(STRING) \cup {NotArray}
  BY <1>0, <1>1 DEF Decoding, SanObjects, JsonArrays, Supplied
<1>3. read.err <=> ~Readable(array)
  BY <1>2, RequestAssumption DEF decodeJSONStringArray, Readable
<1>4. Acceptable(body) => SansAccepted(body.sans)
  BY <1>1, AcceptableParts
<1> HIDE DEF read
<1>5. CASE read.err
  <2>1. ~Acceptable(body)
    BY <1>2, <1>3, <1>4, <1>5 DEF SansAccepted, Strings
  <2> QED
    BY <1>0, <1>1, <1>5, <2>1 DEF RequestInv
<1> DEFINE before == Visited(body.sans, pending)
           after == Visited(body.sans, pending \ {f})
<1>6. CASE ~read.err
  <2>1. Readable(array) /\ array \in Seq(STRING) /\ Len(array) \in Nat
    BY <1>3, <1>6 DEF Readable
  <2>2. \A g \in Supplied(body.sans) \ (pending \ {f}) : Readable(body.sans[g])
    BY <1>1, <2>1 DEF Decoding
  \* what the two stages count
  <2>3. /\ before \in SanObjects /\ after \in SanObjects
        /\ \A g \in Supplied(after) : after[g] \in Seq(STRING)
        /\ \A g \in Supplied(before) : before[g] \in Seq(STRING)
    <3>1. /\ before \in SanObjects /\ after \in SanObjects
          /\ \A g \in Supplied(after) : g \in Supplied(body.sans) \ (pending \ {f}) /\ after[g] = body.sans[g]
          /\ \A g \in Supplied(before) : g \in Supplied(body.sans) \ pending /\ before[g] = body.sans[g]
      BY <1>1 DEF Visited, Supplied, SanObjects, JsonArrays
    <3> QED
      BY <2>2, <3>1 DEF Readable
  <2>4. /\ after = [before EXCEPT ![f] = array] /\ before[f] = Absent
    BY <1>0, <1>1 DEF Visited, SanObjects
  <2>5. Count(before) \in Nat /\ Count(after) = Count(before) + Len(array)
    <3>1. /\ \A g \in SanFields : Size(before[g]) \in Nat
          /\ Count(before) \in Nat
      BY <2>3, CountBounds
    <3>2. Size(before[f]) = 0 /\ Size(after[f]) = Len(array)
      BY <1>2, <2>3, <2>4 DEF Size, SanObjects, Supplied
    <3>3. \A g \in SanFields \ {f} : Size(after[g]) = Size(before[g])
      BY <2>3, <2>4 DEF SanObjects
    <3> HIDE DEF before, after, array
    <3>4. f \in {"dns", "ip", "email", "uri"}
      BY DEF SanFields
    <3>5. /\ Size(before["dns"]) \in Nat /\ Size(before["ip"]) \in Nat
          /\ Size(before["email"]) \in Nat /\ Size(before["uri"]) \in Nat
      BY <3>1 DEF SanFields
    <3>6. CASE f = "dns"
      BY <2>1, <3>1, <3>2, <3>3, <3>5, <3>6 DEF Count, SanFields
    <3>7. CASE f = "ip"
      BY <2>1, <3>1, <3>2, <3>3, <3>5, <3>7 DEF Count, SanFields
    <3>8. CASE f = "email"
      BY <2>1, <3>1, <3>2, <3>3, <3>5, <3>8 DEF Count, SanFields
    <3>9. CASE f = "uri"
      BY <2>1, <3>1, <3>2, <3>3, <3>5, <3>9 DEF Count, SanFields
    <3> QED
      BY <3>1, <3>4, <3>6, <3>7, <3>8, <3>9
  <2>6. ASSUME ~overflow
        PROVE  /\ read.exceeded <=> Len(array) > MaxSANs - Count(before)
               /\ ~read.exceeded => read.values = array
    <3>1. remaining = MaxSANs - Count(before) /\ remaining \in Int
      BY <1>1, <2>5, <2>6, RequestAssumption DEF Decoding
    <3> QED
      BY <1>2, <2>1, <3>1, ArrayIsRead DEF read
  <2>7. Acceptable(body) => Len(array) <= MaxSANs - Count(before)
    <3>1. ASSUME SansAccepted(body.sans)
          PROVE  Count(after) <= MaxSANs
      <4>1. \A g \in Supplied(body.sans) : body.sans[g] \in Seq(STRING)
        BY <3>1 DEF SansAccepted, Strings, Readable
      <4>2. \A g \in SanFields : Size(body.sans[g]) \in Nat
        BY <1>1, <4>1, CountBounds
      <4>3. \A g \in SanFields : Size(after[g]) \in Nat /\ Size(after[g]) <= Size(body.sans[g])
        BY <4>2 DEF Visited, Size
      <4>4. Count(after) <= Count(body.sans) /\ Count(body.sans) \in Nat /\ Count(after) \in Nat
        <5> HIDE DEF after
        <5> QED
          BY <4>2, <4>3 DEF Count, SanFields
      <4> QED
        BY <3>1, <4>4, RequestAssumption DEF SansAccepted
    <3> QED
      BY <1>4, <2>1, <2>5, <3>1, RequestAssumption
  <2>8. overflow' \in BOOLEAN /\ (overflow' => ~Acceptable(body))
    <3>1. overflow \in BOOLEAN /\ (overflow => ~Acceptable(body))
      BY DEF RequestInv
    <3>2. MaxSANs - Count(before) \in Int
      BY <2>5, RequestAssumption
    <3>3. ~overflow /\ read.exceeded => ~Acceptable(body)
      BY <2>1, <2>6, <2>7, <3>2
    <3> QED
      BY <1>0, <1>6, <3>1, <3>3
  <2>9. ~overflow' =>
          /\ parameters' = [alg |-> body.alg, subject |-> body.subject, sans |-> after]
          /\ remaining' = MaxSANs - Count(after)
    <3>1. ASSUME ~overflow, ~read.exceeded
          PROVE  /\ parameters' = [alg |-> body.alg, subject |-> body.subject, sans |-> after]
                 /\ remaining' = MaxSANs - Count(after)
      <4>1. /\ parameters = [alg |-> body.alg, subject |-> body.subject, sans |-> before]
            /\ remaining = MaxSANs - Count(before)
        BY <1>1, <3>1 DEF Decoding
      <4>2. read.values = array
        BY <2>6, <3>1
      <4>3. parameters' = [parameters EXCEPT !.sans[f] = array] /\ remaining' = remaining - Len(array)
        BY <1>0, <1>6, <4>2
      <4> HIDE DEF before, after, array
      <4> QED
        BY <2>1, <2>4, <2>5, <4>1, <4>3, RequestAssumption
    <3> QED
      BY <1>0, <1>6, <3>1
  <2>10. CASE pending \ {f} # {}
    <3>1. Decoding'
      BY <1>0, <1>1, <1>6, <2>2, <2>9 DEF Decoding
    <3> QED
      BY <1>0, <1>1, <1>6, <2>8, <2>10, <3>1 DEF RequestInv
  <2>11. CASE pending \ {f} = {}
    <3>1. \A g \in Supplied(body.sans) : Readable(body.sans[g])
      BY <2>2, <2>11
    <3>2. after = body.sans
      BY <1>1, <2>11 DEF Visited, SanObjects
    <3>3. body = [alg |-> body.alg, subject |-> body.subject, sans |-> body.sans]
      BY <1>1, RequestAssumption
    <3>4. Plain(body)
      <4>1. \A g \in Supplied(body.sans) :
              body.sans[g] \in Seq(STRING) \cup {NotArray} /\ ~decodeJSONStringArray(body.sans[g], MaxSANs).err
        BY <3>1, ArrayIsRead, RequestAssumption DEF Readable
      <4>2. body.subject # Absent =>
              /\ body.subject.cn \notin NotString
              /\ \A g \in Supplied(body.subject.dn) :
                    ~decodeJSONStringArray(body.subject.dn[g], MaxSANs).err
        BY <1>1, ArrayIsRead, RequestAssumption DEF Decoding, SubjectRead, Readable
      <4> QED
        BY <4>1, <4>2 DEF Plain
    <3>5. ~overflow' => parameters' = body
      BY <2>9, <3>2, <3>3
    <3> QED
      BY <1>0, <1>1, <1>6, <2>8, <2>11, <3>4, <3>5 DEF RequestInv
  <2> QED
    BY <2>10, <2>11
<1> QED
  BY <1>5, <1>6

LEMMA ValidationKeeps ==
    ASSUME RequestInv,
           Validate \/ (\E b \in Bodies : Plain(b) /\ CallDirectly(b)) \/ UNCHANGED requestVars
    PROVE  RequestInv'
<1>1. CASE Validate
  <2>1. /\ body \in Bodies /\ Plain(body) /\ ~keyed
        /\ ~overflow => parameters = body
        /\ overflow => ~Acceptable(body)
    BY <1>1 DEF Validate, RequestInv
  <2>2. ~overflow => (Acceptable(body) <=> validateX509CSRParameters(parameters))
    BY <2>1, AcceptableIsValid
  <2> QED
    BY <1>1, <2>1, <2>2 DEF Validate, RequestInv
<1>2. ASSUME NEW b \in Bodies, Plain(b), CallDirectly(b)
      PROVE  RequestInv'
  BY <1>2 DEF CallDirectly, RequestInv
<1>3. CASE UNCHANGED requestVars
  BY <1>3 DEF requestVars, RequestInv, Decoding
<1> QED
  BY <1>1, <1>2, <1>3

-----------------------------------------------------------------------------
(* The request and the reading back of it.                                 *)

\* The subject values and SANs of valid parameters are lists without repetition.
LEMMA ValuesAreLists ==
    ASSUME NEW c \in Bodies, Plain(c), validateX509CSRParameters(c)
    PROVE  /\ \A f \in DNFields : /\ Values(Subject(c).dn, f) \in Seq(STRING)
                                   /\ Distinct(Values(Subject(c).dn, f))
           /\ (c.sans = Absent) <=> \A f \in SanFields : Values(c.sans, f) = <<>>
<1>1. Acceptable(c)
  BY AcceptableIsValid
<1>2. c.subject # Absent => c.subject \in SubjectObjects /\ SubjectAccepted(c.subject)
  BY <1>1, AcceptableParts, RequestAssumption
<1>3. c.sans # Absent => c.sans \in SanObjects /\ SansAccepted(c.sans)
  BY <1>1, AcceptableParts, RequestAssumption
<1>4. <<>> \in Seq(STRING) /\ Distinct(<<>>)
  BY DEF Distinct, IsInjective
<1>5. ASSUME NEW f \in DNFields
      PROVE  Values(Subject(c).dn, f) \in Seq(STRING) /\ Distinct(Values(Subject(c).dn, f))
  <2>1. CASE c.subject = Absent
    BY <1>4, <2>1 DEF Values, Subject
  <2>2. CASE c.subject # Absent /\ (c.subject.dn = Absent \/ c.subject.dn[f] = Absent)
    BY <1>4, <2>2 DEF Values, Subject
  <2>3. CASE c.subject # Absent /\ ~(c.subject.dn = Absent \/ c.subject.dn[f] = Absent)
    <3>1. f \in Supplied(c.subject.dn) /\ Values(Subject(c).dn, f) = c.subject.dn[f]
      BY <1>2, <2>3 DEF Values, Subject, Supplied, SubjectObjects
    <3> QED
      BY <1>2, <2>3, <3>1 DEF SubjectAccepted, Strings, Readable
  <2> QED
    BY <2>1, <2>2, <2>3
<1>6. ASSUME c.sans # Absent
      PROVE  \E f \in SanFields : Values(c.sans, f) # <<>>
  <2>1. PICK f \in Supplied(c.sans) : Len(c.sans[f]) \in 1..MaxSANs
    BY <1>3, <1>6 DEF SansAccepted, Strings
  <2>2. f \in SanFields /\ Values(c.sans, f) = c.sans[f]
    BY <1>3, <1>6, <2>1 DEF Values, Supplied, SanObjects
  <2>3. Len(<<>>) = 0
    OBVIOUS
  <2> QED
    BY <2>1, <2>2, <2>3
<1> QED
  BY <1>5, <1>6 DEF Values

\* A DER SET gives back the caller's values, each once, in any order.
LEMMA SetOrderMatches ==
    ASSUME NEW c \in Bodies, Plain(c), validateX509CSRParameters(c),
           NEW dn \in SetOrders(c), NEW f \in DNFields
    PROVE  /\ IsFiniteSet(DOMAIN dn[f]) /\ Len(dn[f]) \in Nat
           /\ DOMAIN dn[f] = 1..Len(dn[f])
           /\ sameStringSet(dn[f], Values(Subject(c).dn, f))
<1> DEFINE left == dn[f]
           right == Values(Subject(c).dn, f)
<1>1. /\ \A g \in DNFields : Values(Subject(c).dn, g) \in Seq(STRING)
      /\ Distinct(right)
  BY ValuesAreLists
<1>2. /\ dn[f] \in UNION {SetToSeqs(ToSet(Values(Subject(c).dn, g))) : g \in DNFields}
      /\ Len(left) = Len(right) /\ ToSet(left) = ToSet(right)
  BY DEF SetOrders
<1>3. PICK g \in DNFields : left \in SetToSeqs(ToSet(Values(Subject(c).dn, g)))
  BY <1>2
<1> DEFINE S == ToSet(Values(Subject(c).dn, g))
<1>4. IsFiniteSet(S) /\ Cardinality(S) \in Nat
  <2>1. Values(Subject(c).dn, g) \in Seq(STRING)
    BY <1>1
  <2> DEFINE v == Values(Subject(c).dn, g)
  <2>2. v \in [1..Len(v) -> STRING] /\ Len(v) \in Nat /\ DOMAIN v = 1..Len(v)
    BY <2>1
  <2>3. IsFiniteSet(1..Len(v))
    BY <2>2, FS_Interval
  <2>4. v \in Surjection(1..Len(v), S)
    BY <2>2 DEF ToSet, Surjection
  <2> HIDE DEF v, S
  <2> QED
    BY <2>3, <2>4, FS_Surjection, FS_CardinalityType
<1>5. /\ left \in [1..Cardinality(S) -> S]
      /\ \A i, j \in 1..Cardinality(S) : i # j => left[i] # left[j]
  BY <1>3 DEF SetToSeqs
<1>6. IsFiniteSet(DOMAIN left) /\ DOMAIN left = 1..Cardinality(S)
  BY <1>4, <1>5, FS_Interval
<1>7. Len(left) = Cardinality(S)
  BY <1>4, <1>6
<1>8. ASSUME NEW v \in ToSet(left) \cup ToSet(right)
      PROVE  Cardinality({i \in DOMAIN left : left[i] = v})
               = Cardinality({i \in DOMAIN right : right[i] = v})
  <2>1. PICK i \in DOMAIN left : left[i] = v
    BY <1>2, <1>8 DEF ToSet
  <2>2. PICK j \in DOMAIN right : right[j] = v
    BY <1>2, <1>8 DEF ToSet
  <2>3. {k \in DOMAIN left : left[k] = v} = {i}
    BY <1>5, <1>6, <2>1
  <2>4. {k \in DOMAIN right : right[k] = v} = {j}
    BY <1>1, <2>2 DEF Distinct, IsInjective
  <2> QED
    BY <2>3, <2>4, FS_Singleton
<1> QED
  BY <1>2, <1>4, <1>6, <1>7, <1>8 DEF sameStringSet

\* While the library works, what was built matches what was asked for unless
\* the library cannot read it.
LEMMA EncodedMatches ==
    ASSUME NEW c \in Bodies, Plain(c), validateX509CSRParameters(c),
           NEW dn \in SetOrders(c)
    PROVE  parseAndCheckCSR(Encoded(c, dn), c) <=> ~Misread(c)
<1> DEFINE r == Encoded(c, dn)
<1>1. /\ r.signature = signatureAlgorithm(c.alg) /\ r.signed /\ r.spki = "generated"
      /\ r.cn = Subject(c).cn /\ r.dn = dn
      /\ r.sans = [f \in SanFields |-> Values(c.sans, f)]
      /\ r.extensions = IF c.sans = Absent THEN {} ELSE {"subjectAltName"}
  BY DEF Encoded
<1> HIDE DEF r
<1>2. "uri" \in SanFields
  BY DEF SanFields
<1>3. Parses(r) \/ (ExpectsIPvFuture(c) /\ parseCSRWithIPvFuture(r)) <=> ~Misread(c)
  <2> DEFINE uris == ToSet(Values(c.sans, "uri"))
  <2>1. r.sans["uri"] = Values(c.sans, "uri")
    BY <1>1, <1>2
  <2>2. c.alg \in Algorithms
    BY DEF validateX509CSRParameters
  <2>3. parseCSRWithIPvFuture(r)
    BY <1>1, <2>2 DEF parseCSRWithIPvFuture
  <2>4. Misread(c) <=> uris \cap OddHost # {} /\ uris \cap IPvFuture = {}
    <3>1. CASE c.sans = Absent \/ c.sans["uri"] = Absent
      <4>1. uris = {}
        BY <3>1 DEF Values, ToSet
      <4> QED
        BY <3>1, <4>1 DEF Misread
    <3>2. CASE ~(c.sans = Absent \/ c.sans["uri"] = Absent)
      BY <3>2 DEF Values, Misread
    <3> QED
      BY <3>1, <3>2
  <2>5. Parses(r) <=> uris \cap (IPvFuture \cup OddHost) = {}
    BY <2>1 DEF Parses
  <2>6. ExpectsIPvFuture(c) <=> uris \cap IPvFuture # {}
    BY DEF ExpectsIPvFuture
  <2> HIDE DEF uris
  <2> QED
    BY <2>3, <2>4, <2>5, <2>6
<1>4. x509CSRMatches(r, c)
  <2>1. \A f \in DNFields : sameStringSet(r.dn[f], Values(Subject(c).dn, f))
    BY <1>1, SetOrderMatches
  <2>2. /\ \A f \in SanFields \ {"uri"} : r.sans[f] = Values(c.sans, f)
        /\ rawURIs(r) = Values(c.sans, "uri")
    BY <1>1, <1>2 DEF rawURIs
  <2>3. r.extensions = IF \A f \in SanFields : Values(c.sans, f) = <<>> THEN {}
                       ELSE {"subjectAltName"}
    BY <1>1, ValuesAreLists
  <2> QED
    BY <1>1, <2>1, <2>2, <2>3 DEF x509CSRMatches
<1> QED
  BY <1>1, <1>3, <1>4 DEF parseAndCheckCSR, r

\* Whatever a faulty library hands back still has lists of subject values.
LEMMA DamagedIsFinite ==
    ASSUME NEW c \in Bodies, Plain(c), validateX509CSRParameters(c),
           NEW dn \in SetOrders(c), NEW r \in Damaged(Encoded(c, dn)) \cup {Encoded(c, dn)},
           NEW f \in DNFields
    PROVE  IsFiniteSet(DOMAIN r.dn[f])
<1> DEFINE e == Encoded(c, dn)
<1>1. e.dn = dn /\ DOMAIN dn = DNFields
  BY DEF Encoded, SetOrders
<1>2. \A g \in DNFields : /\ IsFiniteSet(DOMAIN dn[g]) /\ Len(dn[g]) \in Nat
                          /\ DOMAIN dn[g] = 1..Len(dn[g])
  BY SetOrderMatches
<1>3. r.dn = dn \/ \E g \in DNFields : r.dn = [dn EXCEPT ![g] = Front(dn[g])]
  <2>1. e = [signature |-> e.signature, signed |-> e.signed, spki |-> e.spki, cn |-> e.cn,
             dn |-> dn, sans |-> e.sans, extensions |-> e.extensions]
    BY DEF Encoded
  <2> HIDE DEF e
  <2> QED
    BY <1>1, <2>1 DEF Damaged, e
<1>4. \A g \in DNFields : IsFiniteSet(DOMAIN Front(dn[g]))
  <2> TAKE g \in DNFields
  <2>1. DOMAIN Front(dn[g]) = 1..(Len(dn[g]) - 1)
    BY <1>2 DEF Front
  <2>2. Len(dn[g]) - 1 \in Int
    BY <1>2
  <2> QED
    BY <2>1, <2>2, FS_Interval
<1> QED
  BY <1>1, <1>2, <1>3, <1>4

LEMMA GenerationKeeps ==
    ASSUME RequestInv, GenerateX509CSR \/ GenerateFaulty
    PROVE  RequestInv'
<1>1. /\ phase = "valid" /\ body \in Bodies /\ Plain(body) /\ parameters = body
      /\ ~overflow /\ validateX509CSRParameters(body)
  BY DEF RequestInv, GenerateX509CSR, GenerateFaulty
<1>2. UNCHANGED <<body, parameters, overflow>> /\ keyed' = TRUE
  BY DEF GenerateX509CSR, GenerateFaulty
<1>3. /\ \/ phase' = "failed"
         \/ /\ phase' = "built" /\ parseAndCheckCSR(csr', parameters)
            /\ \A f \in DNFields : IsFiniteSet(DOMAIN csr'.dn[f])
      /\ healthy' => (phase' = "failed" <=> Misread(body))
  <2>1. CASE GenerateX509CSR
    <3>1. PICK dn \in SetOrders(parameters) :
            LET r == Encoded(parameters, dn)
            IN  IF parseAndCheckCSR(r, parameters) THEN phase' = "built" /\ csr' = r
                ELSE phase' = "failed" /\ csr' = csr
      BY <2>1 DEF GenerateX509CSR
    <3>2. parseAndCheckCSR(Encoded(parameters, dn), parameters) <=> ~Misread(body)
      BY <1>1, EncodedMatches
    <3>3. \A f \in DNFields : IsFiniteSet(DOMAIN Encoded(parameters, dn).dn[f])
      BY <1>1, DamagedIsFinite
    <3> QED
      BY <3>1, <3>2, <3>3
  <2>2. CASE GenerateFaulty
    <3>1. ~healthy'
      BY <2>2 DEF GenerateFaulty
    <3>2. \/ phase' = "failed"
          \/ \E dn \in SetOrders(parameters) : \E r \in Damaged(Encoded(parameters, dn)) :
               parseAndCheckCSR(r, parameters) /\ phase' = "built" /\ csr' = r
      BY <2>2 DEF GenerateFaulty
    <3> QED
      BY <1>1, <3>1, <3>2, DamagedIsFinite
  <2> QED
    BY <2>1, <2>2
<1> QED
  BY <1>1, <1>2, <1>3 DEF RequestInv

\* The invariant of a certificate request, for any parameters and bounds.
THEOREM RequestInvariance == RequestSpec => []RequestInv
<1>1. RequestInit => RequestInv
  BY RequestStarts
<1>2. RequestInv /\ [RequestNext]_requestVars => RequestInv'
  BY DecodeParametersKeeps, DecodeSanKeeps, ValidationKeeps, GenerationKeeps DEF RequestNext
<1> QED
  BY <1>1, <1>2, PTL DEF RequestSpec

\* What the check compares without order is the same set of values.
LEMMA SameStrings ==
    ASSUME NEW left, IsFiniteSet(DOMAIN left), NEW right \in Seq(STRING),
           sameStringSet(left, right)
    PROVE  ToSet(left) = ToSet(right) /\ Len(left) = Len(right)
<1>1. IsFiniteSet(DOMAIN right)
  <2>1. DOMAIN right = 1..Len(right) /\ Len(right) \in Nat
    OBVIOUS
  <2> QED
    BY <2>1, FS_Interval
<1>2. ASSUME NEW v \in ToSet(left) \cup ToSet(right)
      PROVE  v \in ToSet(left) <=> v \in ToSet(right)
  <2> DEFINE L == {i \in DOMAIN left : left[i] = v}
             R == {i \in DOMAIN right : right[i] = v}
  <2>1. Cardinality(L) = Cardinality(R)
    BY <1>2 DEF sameStringSet
  <2>2. L \subseteq DOMAIN left /\ R \subseteq DOMAIN right
    OBVIOUS
  <2>3. IsFiniteSet(L) /\ IsFiniteSet(R)
    BY <1>1, <2>2, FS_Subset
  <2>4. L = {} <=> R = {}
    BY <2>1, <2>3, FS_EmptySet
  <2> QED
    BY <2>4 DEF ToSet
<1> QED
  BY <1>2 DEF sameStringSet

\* A key only for parameters that are acceptable as sent, in whatever order the
\* decoder visits the arrays; while the library works the parameters decide, and
\* acceptable ones end in a request unless the library cannot read it back; and a
\* request names what was asked for whatever the library does
\* (parseX509CSRParameters, GenerateX509CSR).
THEOREM CertificatesAreAsked == RequestSpec => []CertificateIsAsked
<1>1. ASSUME RequestInv
      PROVE  CertificateIsAsked
  <2>1. phase \in {"valid", "built", "failed"} =>
          /\ body \in Bodies /\ Plain(body) /\ parameters = body
          /\ validateX509CSRParameters(body) /\ Acceptable(body)
    BY <1>1, AcceptableIsValid DEF RequestInv
  <2>2. KeyOnlyForAcceptable
    BY <1>1, <2>1 DEF RequestInv, KeyOnlyForAcceptable
  <2>3. ParametersDecide
    BY <1>1, <2>1 DEF RequestInv, ParametersDecide
  <2>4. ASSUME phase = "built"
        PROVE  /\ csr.signed /\ csr.spki = "generated"
               /\ csr.cn = Subject(body).cn
               /\ \A f \in SanFields : csr.sans[f] = Values(body.sans, f)
               /\ \A f \in DNFields : /\ ToSet(csr.dn[f]) = ToSet(Values(Subject(body).dn, f))
                                      /\ Len(csr.dn[f]) = Len(Values(Subject(body).dn, f))
               /\ csr.extensions \subseteq {"subjectAltName"}
    <3>1. /\ parseAndCheckCSR(csr, body)
          /\ \A f \in DNFields : IsFiniteSet(DOMAIN csr.dn[f])
      BY <1>1, <2>1, <2>4 DEF RequestInv
    <3>2. csr.signed /\ csr.spki = "generated" /\ x509CSRMatches(csr, body)
      BY <3>1 DEF parseAndCheckCSR
    <3>3. \A f \in DNFields : sameStringSet(csr.dn[f], Values(Subject(body).dn, f))
      BY <3>2 DEF x509CSRMatches
    <3>4. \A f \in DNFields : Values(Subject(body).dn, f) \in Seq(STRING)
      BY <2>1, <2>4, ValuesAreLists
    <3>5. \A f \in DNFields : /\ ToSet(csr.dn[f]) = ToSet(Values(Subject(body).dn, f))
                              /\ Len(csr.dn[f]) = Len(Values(Subject(body).dn, f))
      BY <3>1, <3>3, <3>4, SameStrings
    <3> QED
      BY <3>2, <3>5 DEF x509CSRMatches, rawURIs
  <2> QED
    BY <2>2, <2>3, <2>4 DEF CertificateIsAsked, BuiltIsRequested
<1> QED
  BY <1>1, RequestInvariance, PTL

-----------------------------------------------------------------------------
(* SurrogateScan: the scan stands between the escapes.                     *)

\* The backslashes right before a place are counted in one way.
LEMMA OneRun ==
    ASSUME NEW s, NEW i \in Nat, NEW n \in 0..i - 1, NEW m \in 0..i - 1,
           \A j \in i - n..i - 1 : s[j] = Backslash, n < i - 1 => s[i - n - 1] # Backslash,
           \A j \in i - m..i - 1 : s[j] = Backslash, m < i - 1 => s[i - m - 1] # Backslash
    PROVE  n = m
<1>1. ~(n < m)
  <2> SUFFICES ASSUME n < m PROVE FALSE
    OBVIOUS
  <2>1. i - n - 1 \in i - m..i - 1 /\ n < i - 1
    OBVIOUS
  <2> QED
    BY <2>1
<1>2. ~(m < n)
  <2> SUFFICES ASSUME m < n PROVE FALSE
    OBVIOUS
  <2>1. i - m - 1 \in i - n..i - 1 /\ m < i - 1
    OBVIOUS
  <2> QED
    BY <2>1
<1> QED
  BY <1>1, <1>2

LEMMA EvenAtStart ==
    ASSUME NEW s
    PROVE  EvenBefore(s, 1)
<1>1. 0 \in 0..1 - 1 /\ 0 % 2 = 0 /\ (\A j \in 1 - 0..1 - 1 : s[j] = Backslash) /\ ~(0 < 1 - 1)
  OBVIOUS
<1> QED
  BY <1>1 DEF EvenBefore

LEMMA EvenAfterText ==
    ASSUME NEW s, NEW i \in Nat, i # 0, s[i] # Backslash
    PROVE  EvenBefore(s, i + 1)
<1>1. 0 \in 0..(i + 1) - 1 /\ 0 % 2 = 0 /\ (\A j \in (i + 1) - 0..(i + 1) - 1 : s[j] = Backslash)
      /\ s[(i + 1) - 0 - 1] # Backslash
  OBVIOUS
<1> QED
  BY <1>1 DEF EvenBefore

LEMMA EvenAfterPair ==
    ASSUME NEW s, NEW i \in Nat, i # 0, Escapes(s, i), s[i + 1] = Backslash
    PROVE  EvenBefore(s, i + 2) /\ ~EvenBefore(s, i + 1)
<1>1. PICK n \in 0..i - 1 : /\ n % 2 = 0
                            /\ \A j \in i - n..i - 1 : s[j] = Backslash
                            /\ n < i - 1 => s[i - n - 1] # Backslash
  BY DEF Escapes, EvenBefore
<1>2. s[i] = Backslash
  BY DEF Escapes
<1>3. EvenBefore(s, i + 2)
  <2> DEFINE m == n + 2
  <2>1. m \in 0..(i + 2) - 1 /\ m % 2 = 0
    BY <1>1
  <2>2. \A j \in (i + 2) - m..(i + 2) - 1 : s[j] = Backslash
    <3> SUFFICES ASSUME NEW j \in (i + 2) - m..(i + 2) - 1 PROVE s[j] = Backslash
      OBVIOUS
    <3>1. j \in i - n..i - 1 \/ j = i \/ j = i + 1
      OBVIOUS
    <3> QED
      BY <3>1, <1>1, <1>2
  <2>3. m < (i + 2) - 1 => s[(i + 2) - m - 1] # Backslash
    <3>1. (i + 2) - m - 1 = i - n - 1 /\ (m < (i + 2) - 1 => n < i - 1)
      OBVIOUS
    <3> QED
      BY <3>1, <1>1
  <2> HIDE DEF m
  <2> QED
    BY <2>1, <2>2, <2>3 DEF EvenBefore
<1>4. ~EvenBefore(s, i + 1)
  <2> SUFFICES ASSUME EvenBefore(s, i + 1) PROVE FALSE
    OBVIOUS
  <2> DEFINE k == i + 1
             r == n + 1
  <2>1. PICK m \in 0..k - 1 : /\ m % 2 = 0
                              /\ \A j \in k - m..k - 1 : s[j] = Backslash
                              /\ m < k - 1 => s[k - m - 1] # Backslash
    BY DEF EvenBefore
  <2>2. k \in Nat /\ r \in 0..k - 1
    OBVIOUS
  <2>3. \A j \in k - r..k - 1 : s[j] = Backslash
    <3> SUFFICES ASSUME NEW j \in k - r..k - 1 PROVE s[j] = Backslash
      OBVIOUS
    <3>1. j \in i - n..i - 1 \/ j = i
      OBVIOUS
    <3> QED
      BY <3>1, <1>1, <1>2
  <2>4. r < k - 1 => s[k - r - 1] # Backslash
    <3>1. k - r - 1 = i - n - 1 /\ (r < k - 1 => n < i - 1)
      OBVIOUS
    <3> QED
      BY <3>1, <1>1
  <2>5. r % 2 = 1
    BY <1>1
  <2> HIDE DEF k, r
  <2>6. m = r
    BY <2>1, <2>2, <2>3, <2>4, OneRun
  <2> QED
    BY <2>1, <2>5, <2>6
<1> QED
  BY <1>3, <1>4

\* What stands before k has been read: whole escapes, and every surrogate with
\* its other half.
ReadTo(s, k) ==
    \A i \in 1..k - 1 : Names(s, i) =>
      /\ i + 3 <= k
      /\ s[i + 2] = "H" => i + 6 <= k /\ Names(s, i + 3) /\ s[i + 5] = "L"
      /\ s[i + 2] = "L" => i > 3 /\ Names(s, i - 3) /\ s[i - 1] = "H"

ScanInv ==
    /\ raw \in Seq(Characters) /\ index \in Nat /\ index # 0
    /\ verdict \in {"idle", "scanning", "valid", "unpaired"}
    /\ verdict = "idle" => index = 1
    /\ verdict # "idle" => WellFormed(raw)
    /\ verdict = "scanning" => /\ index <= Len(raw) + 1
                               /\ EvenBefore(raw, index)
                               /\ ReadTo(raw, index)
    /\ verdict = "valid" => Lossless(raw)
    /\ verdict = "unpaired" => ~Lossless(raw)

LEMMA ScanBegins == ScanInv /\ Begin => ScanInv'
<1> SUFFICES ASSUME ScanInv, Begin PROVE ScanInv'
  OBVIOUS
<1>1. raw' \in Seq(Characters) /\ WellFormed(raw')
  <2>1. PICK m \in 0..MaxSymbols : raw' \in [1..m -> Characters]
    BY DEF Begin, BoundedSeq, SeqOf
  <2>2. m \in Nat
    BY ScanAssumption
  <2>3. raw' \in Seq(Characters)
    BY <2>1, <2>2
  <2> QED
    BY <2>3 DEF Begin
<1>2. index' = 1 /\ verdict' = "scanning"
  BY DEF Begin, ScanInv
<1>3. EvenBefore(raw', 1)
  BY EvenAtStart
<1>4. ReadTo(raw', 1)
  BY DEF ReadTo
<1>5. 1 <= Len(raw') + 1
  BY <1>1
<1> QED
  BY <1>1, <1>2, <1>3, <1>4, <1>5 DEF ScanInv

LEMMA ScanText == ScanInv /\ Text => ScanInv'
<1> SUFFICES ASSUME ScanInv, Text PROVE ScanInv'
  OBVIOUS
<1> DEFINE k == index
<1>1. /\ raw \in Seq(Characters) /\ k \in Nat /\ k # 0 /\ k <= Len(raw) /\ raw[k] # Backslash
      /\ WellFormed(raw) /\ ReadTo(raw, k) /\ Len(raw) \in Nat
  BY DEF ScanInv, Text, Scanning
<1>2. raw' = raw /\ index' = k + 1 /\ verdict' = "scanning"
  BY DEF Text, Scanning
<1> HIDE DEF k
<1>3. EvenBefore(raw, k + 1)
  BY <1>1, EvenAfterText
<1>4. ReadTo(raw, k + 1)
  <2> SUFFICES ASSUME NEW i \in 1..(k + 1) - 1, Names(raw, i)
               PROVE  /\ i + 3 <= k + 1
                      /\ raw[i + 2] = "H" => i + 6 <= k + 1 /\ Names(raw, i + 3) /\ raw[i + 5] = "L"
                      /\ raw[i + 2] = "L" => i > 3 /\ Names(raw, i - 3) /\ raw[i - 1] = "H"
    BY DEF ReadTo
  <2>1. i # k
    BY <1>1 DEF Names, Escapes
  <2>2. i \in 1..k - 1
    BY <1>1, <2>1
  <2> QED
    BY <1>1, <2>2 DEF ReadTo
<1> QED
  BY <1>1, <1>2, <1>3, <1>4 DEF ScanInv

LEMMA ScanEscape == ScanInv /\ Escape => ScanInv'
<1> SUFFICES ASSUME ScanInv, Escape PROVE ScanInv'
  OBVIOUS
<1> DEFINE k == index
<1>1. /\ raw \in Seq(Characters) /\ k \in Nat /\ k # 0 /\ k <= Len(raw) /\ raw[k] = Backslash
      /\ WellFormed(raw) /\ ReadTo(raw, k) /\ EvenBefore(raw, k) /\ Len(raw) \in Nat
  BY DEF ScanInv, Escape, Scanning
<1>2. raw' = raw /\ index' = k + 2 /\ verdict' = "scanning"
  BY DEF Escape, Scanning
<1>a. k + 1 <= Len(raw) => raw[k + 1] # "u"
  BY <1>1 DEF Escape, At
<1> HIDE DEF k
<1>3. Escapes(raw, k)
  BY <1>1 DEF Escapes
<1>4. k < Len(raw) /\ raw[k + 1] \in {Backslash, "c"}
  <2>1. k \in 1..Len(raw)
    BY <1>1
  <2>2. k < Len(raw) /\ (raw[k + 1] \in {Backslash, "c"} \/ raw[k + 1] = "u")
    BY <1>1, <1>3, <2>1 DEF WellFormed
  <2> QED
    BY <1>1, <1>a, <2>2
<1>5. ~Names(raw, k) /\ ~Escapes(raw, k + 1) /\ EvenBefore(raw, k + 2)
  <2>1. ~Names(raw, k)
    BY <1>1, <1>4, <1>a DEF Names
  <2>2. CASE raw[k + 1] = Backslash
    BY <1>1, <1>3, <2>1, <2>2, EvenAfterPair DEF Escapes
  <2>3. CASE raw[k + 1] # Backslash
    <3> DEFINE j == k + 1
    <3>1. j \in Nat /\ j # 0 /\ raw[j] # Backslash /\ j + 1 = k + 2
      BY <1>1, <2>3
    <3> HIDE DEF j
    <3>2. EvenBefore(raw, j + 1)
      BY <3>1, EvenAfterText
    <3> QED
      BY <2>1, <2>3, <3>1, <3>2 DEF Escapes
  <2> QED
    BY <2>2, <2>3
<1>6. ReadTo(raw, k + 2)
  <2> SUFFICES ASSUME NEW i \in 1..(k + 2) - 1, Names(raw, i)
               PROVE  /\ i + 3 <= k + 2
                      /\ raw[i + 2] = "H" => i + 6 <= k + 2 /\ Names(raw, i + 3) /\ raw[i + 5] = "L"
                      /\ raw[i + 2] = "L" => i > 3 /\ Names(raw, i - 3) /\ raw[i - 1] = "H"
    BY DEF ReadTo
  <2>1. i # k /\ i # k + 1
    BY <1>5 DEF Names
  <2>2. i \in 1..k - 1
    BY <1>1, <2>1
  <2> QED
    BY <1>1, <2>2 DEF ReadTo
<1> QED
  BY <1>1, <1>2, <1>4, <1>5, <1>6 DEF ScanInv

LEMMA ScanUnit == ScanInv /\ Unit => ScanInv'
<1> SUFFICES ASSUME ScanInv, Unit PROVE ScanInv'
  OBVIOUS
<1> DEFINE k == index
<1>1. /\ raw \in Seq(Characters) /\ k \in Nat /\ k # 0 /\ k <= Len(raw) /\ raw[k] = Backslash
      /\ WellFormed(raw) /\ ReadTo(raw, k) /\ EvenBefore(raw, k) /\ Len(raw) \in Nat
  BY DEF ScanInv, Unit, Scanning
<1>2. /\ raw' = raw /\ At(k + 1) = "u"
      /\ index' = IF At(k + 2) = "H" THEN k + 6 ELSE k + 3
      /\ verdict' = IF \/ At(k + 2) = "L"
                       \/ At(k + 2) = "H" /\ <<At(k + 3), At(k + 4), At(k + 5)>> # <<Backslash, "u", "L">>
                    THEN "unpaired" ELSE verdict
      /\ verdict = "scanning"
  BY DEF Unit, Scanning
<1>a. \A i \in Nat : At(i) = IF i <= Len(raw) THEN raw[i] ELSE "quote"
  BY DEF At
<1> HIDE DEF k
<1>3. Escapes(raw, k)
  BY <1>1 DEF Escapes
<1>4. raw[k + 1] = "u"
  BY <1>1, <1>2, <1>a
<1>5. k + 2 <= Len(raw) /\ raw[k + 2] \in Quads /\ At(k + 2) = raw[k + 2]
  <2>1. k \in 1..Len(raw)
    BY <1>1
  <2>2. \/ raw[k + 1] \in {Backslash, "c"}
        \/ raw[k + 1] = "u" /\ k + 1 < Len(raw) /\ raw[k + 2] \in Quads
    BY <1>1, <1>3, <2>1 DEF WellFormed
  <2>3. k + 1 < Len(raw) /\ raw[k + 2] \in Quads
    BY <1>4, <2>2 DEF Backslash
  <2> QED
    BY <1>1, <1>a, <2>3
<1>6. Names(raw, k)
  <2>1. k \in 1..Len(raw) - 2
    BY <1>1, <1>5
  <2> QED
    BY <1>3, <1>4, <2>1 DEF Names
<1>7. ~Escapes(raw, k + 1) /\ ~Escapes(raw, k + 2)
  BY <1>4, <1>5 DEF Escapes, Backslash, Quads
<1>8. CASE raw[k + 2] = "L"
  <2>1. verdict' = "unpaired" /\ index' = k + 3
    BY <1>2, <1>5, <1>8
  <2>2. ~Lossless(raw)
    <3> SUFFICES ASSUME Lossless(raw) PROVE FALSE
      OBVIOUS
    <3> DEFINE i == k - 3
    <3>1. k > 3 /\ Names(raw, i) /\ raw[k - 1] = "H"
      BY <1>1, <1>6, <1>8 DEF Lossless
    <3>2. i \in 1..k - 1 /\ i + 2 = k - 1 /\ ~(i + 6 <= k)
      BY <1>1, <3>1
    <3> HIDE DEF i
    <3> QED
      BY <1>1, <3>1, <3>2 DEF ReadTo
  <2>3. k + 3 \in Nat /\ k + 3 # 0
    BY <1>1
  <2> QED
    BY <1>1, <1>2, <2>1, <2>2, <2>3 DEF ScanInv
<1>9. CASE raw[k + 2] = "H" /\ <<At(k + 3), At(k + 4), At(k + 5)>> # <<Backslash, "u", "L">>
  <2>1. verdict' = "unpaired" /\ index' = k + 6
    BY <1>2, <1>5, <1>9
  <2>2. ~Lossless(raw)
    <3> SUFFICES ASSUME Lossless(raw) PROVE FALSE
      OBVIOUS
    <3> DEFINE i == k + 3
    <3>1. Names(raw, i) /\ raw[k + 5] = "L"
      BY <1>1, <1>6, <1>9 DEF Lossless
    <3>2. i \in 1..Len(raw) - 2 /\ raw[i] = Backslash /\ raw[i + 1] = "u"
      BY <3>1 DEF Names, Escapes
    <3>3. At(k + 3) = Backslash /\ At(k + 4) = "u" /\ At(k + 5) = "L"
      BY <1>1, <1>a, <3>1, <3>2
    <3> QED
      BY <1>9, <3>3
  <2>3. k + 6 \in Nat /\ k + 6 # 0
    BY <1>1
  <2> QED
    BY <1>1, <1>2, <2>1, <2>2, <2>3 DEF ScanInv
<1>10. CASE raw[k + 2] = "H" /\ <<At(k + 3), At(k + 4), At(k + 5)>> = <<Backslash, "u", "L">>
  <2>1. verdict' = "scanning" /\ index' = k + 6
    BY <1>2, <1>5, <1>10
  <2>2. At(k + 3) = Backslash /\ At(k + 4) = "u" /\ At(k + 5) = "L"
    BY <1>10
  <2>3. k + 5 <= Len(raw) /\ raw[k + 3] = Backslash /\ raw[k + 4] = "u" /\ raw[k + 5] = "L"
    BY <1>1, <1>a, <2>2 DEF Backslash
  <2>4. EvenBefore(raw, k + 3) /\ EvenBefore(raw, k + 6)
    <3>1. k + 2 \in Nat /\ k + 2 # 0 /\ raw[k + 2] # Backslash
      BY <1>1, <1>10 DEF Backslash
    <3>2. k + 5 \in Nat /\ k + 5 # 0 /\ raw[k + 5] # Backslash
      BY <1>1, <2>3 DEF Backslash
    <3>3. EvenBefore(raw, (k + 2) + 1) /\ EvenBefore(raw, (k + 5) + 1)
      BY <3>1, <3>2, EvenAfterText
    <3>4. (k + 2) + 1 = k + 3 /\ (k + 5) + 1 = k + 6
      BY <1>1
    <3> QED
      BY <3>3, <3>4
  <2>5. Names(raw, k + 3)
    <3>1. k + 3 \in 1..Len(raw) - 2 /\ (k + 3) + 1 = k + 4
      BY <1>1, <2>3
    <3> QED
      BY <2>3, <2>4, <3>1 DEF Names, Escapes
  <2>6. ~Escapes(raw, k + 4) /\ ~Escapes(raw, k + 5)
    BY <2>3 DEF Escapes, Backslash
  <2>7. ReadTo(raw, k + 6)
    <3> SUFFICES ASSUME NEW i \in 1..(k + 6) - 1, Names(raw, i)
                 PROVE  /\ i + 3 <= k + 6
                        /\ raw[i + 2] = "H" => i + 6 <= k + 6 /\ Names(raw, i + 3) /\ raw[i + 5] = "L"
                        /\ raw[i + 2] = "L" => i > 3 /\ Names(raw, i - 3) /\ raw[i - 1] = "H"
      BY DEF ReadTo
    <3>1. i # k + 1 /\ i # k + 2 /\ i # k + 4 /\ i # k + 5
      BY <1>7, <2>6 DEF Names
    <3>2. i \in 1..k - 1 \/ i = k \/ i = k + 3
      BY <1>1, <3>1
    <3>3. CASE i \in 1..k - 1
      BY <1>1, <3>3 DEF ReadTo
    <3>4. CASE i = k
      <4>1. i + 3 <= k + 6 /\ i + 6 <= k + 6 /\ raw[i + 2] # "L"
        BY <1>1, <1>10, <3>4
      <4> QED
        BY <2>3, <2>5, <3>4, <4>1
    <3>5. CASE i = k + 3
      <4>1. i + 3 <= k + 6 /\ i > 3 /\ i - 3 = k /\ i - 1 = k + 2 /\ i + 2 = k + 5
        BY <1>1, <3>5
      <4>2. raw[i + 2] # "H" /\ Names(raw, i - 3) /\ raw[i - 1] = "H"
        BY <1>6, <1>10, <2>3, <4>1
      <4> QED
        BY <4>1, <4>2
    <3> QED
      BY <3>2, <3>3, <3>4, <3>5
  <2>8. k + 6 \in Nat /\ k + 6 # 0 /\ k + 6 <= Len(raw) + 1
    BY <1>1, <2>3
  <2> QED
    BY <1>1, <1>2, <2>1, <2>4, <2>7, <2>8 DEF ScanInv
<1>11. CASE raw[k + 2] = "B"
  <2>1. verdict' = "scanning" /\ index' = k + 3
    BY <1>2, <1>5, <1>11
  <2>2. EvenBefore(raw, k + 3)
    <3>1. k + 2 \in Nat /\ k + 2 # 0 /\ raw[k + 2] # Backslash /\ (k + 2) + 1 = k + 3
      BY <1>1, <1>11 DEF Backslash
    <3>2. EvenBefore(raw, (k + 2) + 1)
      BY <3>1, EvenAfterText
    <3> QED
      BY <3>1, <3>2
  <2>3. ReadTo(raw, k + 3)
    <3> SUFFICES ASSUME NEW i \in 1..(k + 3) - 1, Names(raw, i)
                 PROVE  /\ i + 3 <= k + 3
                        /\ raw[i + 2] = "H" => i + 6 <= k + 3 /\ Names(raw, i + 3) /\ raw[i + 5] = "L"
                        /\ raw[i + 2] = "L" => i > 3 /\ Names(raw, i - 3) /\ raw[i - 1] = "H"
      BY DEF ReadTo
    <3>1. i # k + 1 /\ i # k + 2
      BY <1>7 DEF Names
    <3>2. i \in 1..k - 1 \/ i = k
      BY <1>1, <3>1
    <3>3. CASE i \in 1..k - 1
      BY <1>1, <3>3 DEF ReadTo
    <3>4. CASE i = k
      BY <1>1, <1>11, <3>4
    <3> QED
      BY <3>2, <3>3, <3>4
  <2>4. k + 3 \in Nat /\ k + 3 # 0 /\ k + 3 <= Len(raw) + 1
    BY <1>1, <1>5
  <2> QED
    BY <1>1, <1>2, <2>1, <2>2, <2>3, <2>4 DEF ScanInv
<1> QED
  BY <1>5, <1>8, <1>9, <1>10, <1>11 DEF Quads

LEMMA ScanFinish == ScanInv /\ Finish => ScanInv'
<1> SUFFICES ASSUME ScanInv, Finish PROVE ScanInv'
  OBVIOUS
<1>1. /\ raw \in Seq(Characters) /\ index \in Nat /\ index # 0 /\ Len(raw) \in Nat
      /\ index = Len(raw) + 1 /\ ReadTo(raw, index) /\ WellFormed(raw)
  BY DEF ScanInv, Finish
<1>2. raw' = raw /\ index' = index /\ verdict' = "valid"
  BY DEF Finish
<1>3. Lossless(raw)
  <2>1. \A i \in 1..Len(raw) : i \in 1..index - 1
    BY <1>1
  <2> QED
    BY <1>1, <2>1 DEF Lossless, ReadTo
<1> QED
  BY <1>1, <1>2, <1>3 DEF ScanInv

(* The invariant of the scan, for strings of any length: it stands between *)
(* escapes, and what it passed has every surrogate with its other half     *)
(* (hasValidJSONSurrogatePairs).                                           *)
THEOREM ScanInvariance == ScanSpec => []ScanInv
<1>1. ScanInit => ScanInv
  BY DEF ScanInit, ScanInv
<1>2. ScanInv /\ [ScanNext]_scanVars => ScanInv'
  <2> SUFFICES ASSUME ScanInv, [ScanNext]_scanVars PROVE ScanInv'
    OBVIOUS
  <2>1. CASE UNCHANGED scanVars
    <3>1. raw' = raw /\ index' = index /\ verdict' = verdict
      BY <2>1 DEF scanVars
    <3> QED
      BY <3>1, Zenon DEF ScanInv
  <2> QED
    BY <2>1, ScanBegins, ScanText, ScanEscape, ScanUnit, ScanFinish DEF ScanNext
<1> QED
  BY <1>1, <1>2, PTL DEF ScanSpec

(* A string is let through exactly when it decodes to what was written,    *)
(* whatever its length (hasValidJSONSurrogatePairs).                       *)
THEOREM LossyAreRefused == ScanSpec => []RefusesExactlyTheLossy
<1>1. ScanInv => RefusesExactlyTheLossy
  BY DEF ScanInv, RefusesExactlyTheLossy
<1> QED
  BY <1>1, ScanInvariance, PTL
=============================================================================
