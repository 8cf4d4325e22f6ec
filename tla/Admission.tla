------------------------------ MODULE Admission ------------------------------
(***************************************************************************)
(* The admission pool of backend/internal/vaultservice and the operations  *)
(* it admits.  A request takes a slot (TryAcquire), binds its context to   *)
(* the lease, prepares an operation, runs it and releases the lease.  A    *)
(* lease and a prepared operation are shared objects: several goroutines   *)
(* ("calls") of a request may run the operation and release the lease at   *)
(* the same time, and the lease's mutex is all that orders them.  Each     *)
(* channel operation, atomic counter update and critical section is one    *)
(* step; the request's context may be cancelled at any time.               *)
(***************************************************************************)
EXTENDS Integers, FiniteSets

CONSTANTS Requests,   \* requests that ask for a slot
          Calls,      \* goroutines of a request that use its lease
          NoCall,     \* the lease's mutex is free
          Capacity    \* slots, cap(tokens)

ASSUME AdmissionAssumption ==
    /\ IsFiniteSet(Requests)
    /\ NoCall \notin Calls
    /\ Capacity \in Nat \ {0}

VARIABLES
    tokens,      \* elements in the channel
    inUse,       \* the gauge
    rejections,  \* the saturation counter
    stage,       \* how far the goroutine that acquires and prepares is
    cancelled,   \* the request's context is cancelled or past its deadline
    active,      \* leaseState.active
    issued,      \* leaseState.contextIssued
    mutex,       \* leaseState.mu: the call that holds it, or NoCall
    started,     \* PreparedOperation.started
    pc,          \* where each call is
    executed     \* history: how often the prepared operation was executed

counters == <<tokens, inUse, rejections>>
lease == <<active, issued, mutex>>
vars == <<counters, stage, cancelled, lease, started, pc, executed>>

Threads == Requests \X Calls

\* the lease exists
Leased(r) == stage[r] \in {"leased", "bound", "generating", "preparing",
                           "prepared", "refused"}

Goto(r, c, l) == pc' = [pc EXCEPT ![r][c] = l]
Advance(r, s) == stage' = [stage EXCEPT ![r] = s]

-----------------------------------------------------------------------------
(* TryAcquire.                                                             *)

TryAcquireCancelled(r) ==
    /\ stage[r] = "new"
    /\ cancelled[r]
    /\ Advance(r, "failed")
    /\ UNCHANGED <<counters, cancelled, lease, started, pc, executed>>

TryAcquireSaturated(r) ==
    /\ stage[r] = "new"
    /\ tokens = Capacity
    /\ rejections' = rejections + 1
    /\ Advance(r, "failed")
    /\ UNCHANGED <<tokens, inUse, cancelled, lease, started, pc, executed>>

\* the context was still alive when it was looked at, or the send raced it
TakeToken(r) ==
    /\ stage[r] = "new"
    /\ tokens < Capacity
    /\ tokens' = tokens + 1
    /\ Advance(r, "taken")
    /\ UNCHANGED <<inUse, rejections, cancelled, lease, started, pc, executed>>

\* Mutant of ReturnToken: the gauge is taken back although it was not raised.
ReturnTokenAndCount(r) ==
    /\ stage[r] = "taken"
    /\ cancelled[r]
    /\ tokens' = tokens - 1
    /\ inUse' = inUse - 1
    /\ Advance(r, "failed")
    /\ UNCHANGED <<rejections, cancelled, lease, started, pc, executed>>

\* cancelled between the first check and the send: the token goes back
ReturnToken(r) ==
    /\ stage[r] = "taken"
    /\ cancelled[r]
    /\ tokens' = tokens - 1
    /\ Advance(r, "failed")
    /\ UNCHANGED <<inUse, rejections, cancelled, lease, started, pc, executed>>

GrantLease(r) ==
    /\ stage[r] = "taken"
    /\ inUse' = inUse + 1
    /\ active' = [active EXCEPT ![r] = TRUE]
    /\ Advance(r, "leased")
    /\ UNCHANGED <<tokens, rejections, cancelled, issued, mutex, started, pc,
                   executed>>

-----------------------------------------------------------------------------
(* Lease.Context and Service.Prepare, on the acquiring goroutine.          *)

\* the route goes on to prepare an operation, or to Generate
IssueContext(r) ==
    /\ stage[r] = "leased"
    /\ mutex[r] = NoCall
    /\ issued' = [issued EXCEPT ![r] = active[r]]
    /\ \E next \in {"bound", "generating"} : Advance(r, next)
    /\ UNCHANGED <<counters, cancelled, active, mutex, started, pc, executed>>

\* liveForContext
Live(r) == active[r] /\ issued[r]

PrepareChecksLease(r) ==
    /\ stage[r] = "bound"
    /\ mutex[r] = NoCall
    /\ Advance(r, IF cancelled[r] \/ ~Live(r) THEN "refused" ELSE "preparing")
    /\ UNCHANGED <<counters, cancelled, lease, started, pc, executed>>

\* shape, authorization, profiles and value may refuse; so does a context
\* cancelled meanwhile; a lease released meanwhile is not noticed here
PrepareFinishes(r) ==
    /\ stage[r] = "preparing"
    /\ \/ Advance(r, "refused")
       \/ ~cancelled[r] /\ Advance(r, "prepared")
    /\ UNCHANGED <<counters, cancelled, lease, started, pc, executed>>

-----------------------------------------------------------------------------
(* runResult and Generate, on any call.                                    *)

\* the compare-and-swap on started, then the context
Run(r, c) ==
    /\ stage[r] = "prepared"
    /\ pc[r][c] = "idle"
    /\ started' = [started EXCEPT ![r] = TRUE]
    /\ Goto(r, c, IF started[r] \/ cancelled[r] THEN "release" ELSE "hold")
    /\ UNCHANGED <<counters, stage, cancelled, lease, executed>>

\* Generate has no prepared operation and no once-only flag
Generate(r, c) ==
    /\ stage[r] = "generating"
    /\ pc[r][c] = "idle"
    /\ mutex[r] = NoCall
    /\ Goto(r, c, IF cancelled[r] \/ ~Live(r) THEN "release" ELSE "hold")
    /\ UNCHANGED <<counters, stage, cancelled, lease, started, executed>>

\* Mutant of HoldForContext: the mutex is unlocked after the check.
CheckWithoutHold(r, c) ==
    /\ pc[r][c] = "hold"
    /\ mutex[r] = NoCall
    /\ Goto(r, c, IF Live(r) THEN "held" ELSE "release")
    /\ UNCHANGED <<counters, stage, cancelled, lease, started, executed>>

\* holdForContext: the mutex stays locked while the work runs
HoldForContext(r, c) ==
    /\ pc[r][c] = "hold"
    /\ mutex[r] = NoCall
    /\ mutex' = [mutex EXCEPT ![r] = IF Live(r) THEN c ELSE NoCall]
    /\ Goto(r, c, IF Live(r) THEN "held" ELSE "release")
    /\ UNCHANGED <<counters, stage, cancelled, active, issued, started,
                   executed>>

\* the merged context is checked once more before the executor is called
StartWork(r, c) ==
    /\ pc[r][c] = "held"
    /\ Goto(r, c, IF cancelled[r] THEN "unhold" ELSE "work")
    /\ executed' = [executed EXCEPT ![r] =
          IF stage[r] = "prepared" /\ ~cancelled[r] THEN @ + 1 ELSE @]
    /\ UNCHANGED <<counters, stage, cancelled, lease, started>>

\* the executor returned; its result or an error is on its way to the caller
FinishWork(r, c) ==
    /\ pc[r][c] = "work"
    /\ Goto(r, c, "unhold")
    /\ UNCHANGED <<counters, stage, cancelled, lease, started, executed>>

ReleaseHold(r, c) ==
    /\ pc[r][c] = "unhold"
    /\ mutex' = [mutex EXCEPT ![r] = NoCall]
    /\ Goto(r, c, "release")
    /\ UNCHANGED <<counters, stage, cancelled, active, issued, started,
                   executed>>

\* Mutant of NoRun: an early return before the release is deferred.
ReturnsEarly(r, c) ==
    /\ Leased(r)
    /\ pc[r][c] = "idle"
    /\ Goto(r, c, "done")
    /\ UNCHANGED <<counters, stage, cancelled, lease, started, executed>>

\* a call that only releases: an undecodable body, a refused preparation, or
\* a second holder of the lease
NoRun(r, c) ==
    /\ Leased(r)
    /\ pc[r][c] = "idle"
    /\ Goto(r, c, "release")
    /\ UNCHANGED <<counters, stage, cancelled, lease, started, executed>>

-----------------------------------------------------------------------------
(* Lease.Release, deferred by every holder.                                *)

\* Mutant of Release: it does not look at active.
ReleaseAgain(r, c) ==
    /\ pc[r][c] = "release"
    /\ mutex[r] = NoCall
    /\ active' = [active EXCEPT ![r] = FALSE]
    /\ mutex' = [mutex EXCEPT ![r] = c]
    /\ Goto(r, c, "draining")
    /\ UNCHANGED <<counters, stage, cancelled, issued, started, executed>>

Release(r, c) ==
    /\ pc[r][c] = "release"
    /\ mutex[r] = NoCall
    /\ active' = [active EXCEPT ![r] = FALSE]
    /\ mutex' = [mutex EXCEPT ![r] = IF active[r] THEN c ELSE NoCall]
    /\ Goto(r, c, IF active[r] THEN "draining" ELSE "done")
    /\ UNCHANGED <<counters, stage, cancelled, issued, started, executed>>

ReleaseToken(r, c) ==
    /\ pc[r][c] = "draining"
    /\ tokens > 0
    /\ tokens' = tokens - 1
    /\ Goto(r, c, "counting")
    /\ UNCHANGED <<inUse, rejections, stage, cancelled, lease, started,
                   executed>>

ReleaseCount(r, c) ==
    /\ pc[r][c] = "counting"
    /\ inUse' = inUse - 1
    /\ mutex' = [mutex EXCEPT ![r] = NoCall]
    /\ Goto(r, c, "done")
    /\ UNCHANGED <<tokens, rejections, stage, cancelled, active, issued,
                   started, executed>>

-----------------------------------------------------------------------------
\* the client goes away or the request deadline passes
Cancel(r) ==
    /\ ~cancelled[r]
    /\ cancelled' = [cancelled EXCEPT ![r] = TRUE]
    /\ UNCHANGED <<counters, stage, lease, started, pc, executed>>

Init ==
    /\ tokens = 0
    /\ inUse = 0
    /\ rejections = 0
    /\ stage = [r \in Requests |-> "new"]
    /\ cancelled = [r \in Requests |-> FALSE]
    /\ active = [r \in Requests |-> FALSE]
    /\ issued = [r \in Requests |-> FALSE]
    /\ mutex = [r \in Requests |-> NoCall]
    /\ started = [r \in Requests |-> FALSE]
    /\ pc = [r \in Requests |-> [c \in Calls |-> "idle"]]
    /\ executed = [r \in Requests |-> 0]

Acquiring(r) ==
    \/ TryAcquireCancelled(r) \/ TryAcquireSaturated(r)
    \/ TakeToken(r) \/ ReturnToken(r) \/ GrantLease(r)
    \/ IssueContext(r) \/ PrepareChecksLease(r) \/ PrepareFinishes(r)

Working(r, c) ==
    \/ Run(r, c) \/ Generate(r, c) \/ NoRun(r, c)
    \/ HoldForContext(r, c) \/ StartWork(r, c) \/ FinishWork(r, c)
    \/ ReleaseHold(r, c)

Releasing(r, c) == Release(r, c) \/ ReleaseToken(r, c) \/ ReleaseCount(r, c)

Next ==
    \/ \E r \in Requests : Acquiring(r) \/ Cancel(r)
    \/ \E r \in Requests, c \in Calls : Working(r, c) \/ Releasing(r, c)

Spec == Init /\ [][Next]_vars

(* Goroutines are scheduled, the executor returns, and every holder of a   *)
(* lease has deferred its release.                                         *)
Fairness ==
    /\ \A r \in Requests : WF_vars(Acquiring(r))
    /\ \A r \in Requests, c \in Calls : WF_vars(Working(r, c) \/ Releasing(r, c))

FairSpec == Spec /\ Fairness

-----------------------------------------------------------------------------
(* Properties.                                                             *)

Stages == {"new", "taken", "leased", "bound", "generating", "preparing",
           "prepared", "refused", "failed"}
Labels == {"idle", "hold", "held", "work", "unhold", "release", "draining",
           "counting", "done"}

\* Every variable keeps the type its comment gives.
TypeOK ==
    /\ tokens \in 0..Capacity
    /\ inUse \in Int
    /\ rejections \in Nat
    /\ stage \in [Requests -> Stages]
    /\ cancelled \in [Requests -> BOOLEAN]
    /\ active \in [Requests -> BOOLEAN]
    /\ issued \in [Requests -> BOOLEAN]
    /\ mutex \in [Requests -> Calls \cup {NoCall}]
    /\ started \in [Requests -> BOOLEAN]
    /\ pc \in [Requests -> [Calls -> Labels]]
    /\ executed \in [Requests -> Nat]

\* the requests whose slot is taken, and those the gauge counts
Holding == {r \in Requests : \/ stage[r] = "taken" \/ active[r]
                             \/ \E c \in Calls : pc[r][c] = "draining"}
Counted == {r \in Requests : \/ active[r]
                             \/ \E c \in Calls : pc[r][c] \in {"draining", "counting"}}

\* Every slot is accounted for: the channel holds one token for each request
\* that is acquiring, using or about to give back a slot, however often and
\* by however many goroutines its lease is released.
SlotsAccounted == tokens = Cardinality(Holding)

\* The gauge counts exactly the leases not yet released and uncounted.
GaugeAccounted == inUse = Cardinality(Counted)

\* The slot stays taken while vault work runs: a release that comes during
\* the work waits for it, and nobody starts work on a released lease.
WorkHoldsSlot ==
    \A r \in Requests, c \in Calls :
        pc[r][c] = "work" => active[r] /\ mutex[r] = c

\* The pool bounds the vault work in progress.
WorkIsBounded ==
    Cardinality({t \in Threads : pc[t[1]][t[2]] = "work"}) <= Capacity

\* A prepared operation is executed at most once, even when two goroutines
\* run it.
ExecutedAtMostOnce == \A r \in Requests : executed[r] <= 1

\* Vault work runs once, under a lease that is held throughout, and never more
\* of it than there are slots.
WorkIsLeased == TypeOK /\ WorkHoldsSlot /\ WorkIsBounded /\ ExecutedAtMostOnce

\* Every slot comes back and the gauge returns to zero, whatever is refused,
\* cancelled or released twice.
SlotsComeBack == <>[](tokens = 0 /\ inUse = 0)
=============================================================================
