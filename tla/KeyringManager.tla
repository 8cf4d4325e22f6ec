--------------------------- MODULE KeyringManager ---------------------------
(***************************************************************************)
(* The attestation keyring of backend/internal/attestationkeyring and the  *)
(* operations that use it.  A Manager holds one immutable snapshot of a    *)
(* keyring file.  A poller started once, and any caller, reload the file;  *)
(* callers sign and verify attestations with whatever snapshot is current; *)
(* Close stops the poller and waits for it.  Each critical section of the  *)
(* manager's mutex is one step; the mutex that serialises reloads is state *)
(* of its own, because a reload reads and parses the file while it holds   *)
(* it.  The operator replaces the file at any time, with valid documents   *)
(* or not.                                                                 *)
(***************************************************************************)
EXTENDS Integers, FiniteSets

CONSTANTS Callers,      \* goroutines that call the manager, one call each
          Poller,       \* the goroutine that Start creates
          None,         \* no owner of reloadMu, no data
          Keys,         \* key ids
          Unreadable,   \* a file that is missing, too large or not JSON
          FirstDoc,     \* the document the manager was created from
          MaxWrites,    \* bound on replacements of the file
          CounterSize   \* the counters wrap at it, as uint64 does at 2^64

KeyStates == {"absent", "active", "retired", "revoked"}
Documents == [Keys -> KeyStates] \cup {Unreadable}

\* what Parse accepts: readable, and exactly one key is active
Parse(doc) ==
    doc # Unreadable /\ \E k \in Keys : {j \in Keys : doc[j] = "active"} = {k}

ActiveKID(doc) == CHOOSE k \in Keys : doc[k] = "active"

ASSUME KeyringAssumption ==
    /\ None \notin Callers \cup {Poller}
    /\ Poller \notin Callers
    /\ Unreadable \notin [Keys -> KeyStates]
    /\ None \notin [seq : Nat, doc : Documents]
    /\ FirstDoc \in Documents /\ Parse(FirstDoc)
    /\ MaxWrites \in Nat
    /\ CounterSize \in Nat \ {0}

VARIABLES
    file,       \* the mounted file: its document and how often it was written
    snapshot,   \* Manager.current
    closed, started,   \* Manager.closed, Manager.started
    stop, done,        \* the two channels are closed
    cancelled,  \* the context given to Start is done
    reloadMu,   \* the goroutine that holds it, or None
    successes, failures,  \* the reload counters
    pc,         \* where each goroutine is
    data,       \* what it read: a file or, for a user, a snapshot; or None
    kid,        \* the key id of an attestation verified or issued
    answer,     \* what its call returned
    confirmed,  \* history: the file as the last reload that succeeded read it
    floor       \* history: confirmed.seq when the call started

lifecycle == <<closed, started, stop, done, cancelled>>
counters == <<successes, failures>>
locals == <<pc, data, kid, answer>>
vars == <<file, snapshot, lifecycle, reloadMu, counters, locals, confirmed,
          floor>>

Threads == Callers \cup {Poller}

Goto(t, l) == pc' = [pc EXCEPT ![t] = l]
Tell(t, a) == answer' = [answer EXCEPT ![t] = a]

\* a call of Reload is over: a caller is done, the poller selects again
After(t) == IF t = Poller THEN "select" ELSE "done"

-----------------------------------------------------------------------------
(* Reload.                                                                 *)

\* Mutant of LockReload: reloads are not serialised.
ReloadUnserialised(t) ==
    /\ pc[t] = "reload"
    /\ reloadMu' = t
    /\ Goto(t, "check")
    /\ UNCHANGED <<file, snapshot, lifecycle, counters, data, kid, answer,
                   confirmed, floor>>

LockReload(t) ==
    /\ pc[t] = "reload"
    /\ reloadMu = None
    /\ reloadMu' = t
    /\ Goto(t, "check")
    /\ UNCHANGED <<file, snapshot, lifecycle, counters, data, kid, answer,
                   confirmed, floor>>

\* a reload returns: its locals go, and the deferred unlock runs
Return(t, a) ==
    /\ reloadMu' = None
    /\ data' = [data EXCEPT ![t] = None]
    /\ Goto(t, After(t))
    /\ Tell(t, a)

CheckClosed(t) ==
    /\ pc[t] = "check"
    /\ IF closed THEN Return(t, "ErrClosed")
                 ELSE Goto(t, "read") /\ UNCHANGED <<reloadMu, data, answer>>
    /\ UNCHANGED <<file, snapshot, lifecycle, counters, kid, confirmed, floor>>

\* Mutant of RejectReload: an error ends the polling loop.
RejectAndQuit(t) ==
    /\ failures' = (failures + 1) % CounterSize
    /\ reloadMu' = None
    /\ data' = [data EXCEPT ![t] = None]
    /\ Goto(t, IF t = Poller THEN "exiting" ELSE "done")
    /\ Tell(t, "error")
    /\ UNCHANGED <<successes, snapshot, confirmed>>

RejectReload(t) ==
    /\ failures' = (failures + 1) % CounterSize
    /\ Return(t, "error")
    /\ UNCHANGED <<successes, snapshot, confirmed>>

ReadBoundedFile(t) ==
    /\ pc[t] = "read"
    /\ \/ /\ file.doc = Unreadable
          /\ RejectReload(t)
       \/ /\ file.doc # Unreadable
          /\ data' = [data EXCEPT ![t] = file]
          /\ Goto(t, "compare")
          /\ UNCHANGED <<snapshot, reloadMu, counters, answer, confirmed>>
    /\ UNCHANGED <<file, lifecycle, kid, floor>>

\* equal content hashes: nothing to do; otherwise Parse
CompareAndParse(t) ==
    /\ pc[t] = "compare"
    /\ \/ /\ data[t].doc = snapshot
          /\ confirmed' = data[t]
          /\ Return(t, "ok")
          /\ UNCHANGED <<snapshot, counters>>
       \/ /\ data[t].doc # snapshot
          /\ ~Parse(data[t].doc)
          /\ RejectReload(t)
       \/ /\ data[t].doc # snapshot
          /\ Parse(data[t].doc)
          /\ Goto(t, "store")
          /\ UNCHANGED <<snapshot, reloadMu, counters, data, answer, confirmed>>
    /\ UNCHANGED <<file, lifecycle, kid, floor>>

\* the manager may have been closed while the file was read and parsed
StoreSnapshot(t) ==
    /\ pc[t] = "store"
    /\ \/ /\ closed
          /\ Return(t, "ErrClosed")
          /\ UNCHANGED <<snapshot, successes, confirmed>>
       \/ /\ ~closed
          /\ snapshot' = data[t].doc
          /\ confirmed' = data[t]
          /\ successes' = (successes + 1) % CounterSize
          /\ Return(t, "ok")
    /\ UNCHANGED <<file, lifecycle, failures, kid, floor>>

Reload(t) ==
    \/ LockReload(t) \/ CheckClosed(t) \/ ReadBoundedFile(t)
    \/ CompareAndParse(t) \/ StoreSnapshot(t)

-----------------------------------------------------------------------------
(* The poller, Start and Close.                                            *)

PollerTick ==
    /\ pc[Poller] = "select"
    /\ Goto(Poller, "reload")
    /\ UNCHANGED <<file, snapshot, lifecycle, reloadMu, counters, data, kid,
                   answer, confirmed, floor>>

PollerStops ==
    /\ pc[Poller] = "select"
    /\ stop \/ cancelled
    /\ Goto(Poller, "exiting")
    /\ UNCHANGED <<file, snapshot, lifecycle, reloadMu, counters, data, kid,
                   answer, confirmed, floor>>

\* the deferred close(done)
PollerExits ==
    /\ pc[Poller] = "exiting"
    /\ done' = TRUE
    /\ Goto(Poller, "exited")
    /\ UNCHANGED <<file, snapshot, closed, started, stop, cancelled, reloadMu,
                   counters, data, kid, answer, confirmed, floor>>

Start(t) ==
    /\ pc[t] = "start"
    /\ \/ /\ closed
          /\ Goto(t, "done")
          /\ Tell(t, "ErrClosed")
          /\ UNCHANGED started
       \/ /\ ~closed
          /\ started' = TRUE
          /\ pc' = [pc EXCEPT ![t] = "done",
                              ![Poller] = IF started THEN @ ELSE "select"]
          /\ Tell(t, "ok")
    /\ UNCHANGED <<file, snapshot, closed, stop, done, cancelled, reloadMu,
                   counters, data, kid, confirmed, floor>>

\* Mutant of Close: the stop channel is left open.
CloseForgetsStop(t) ==
    /\ pc[t] = "close"
    /\ closed' = TRUE
    /\ Goto(t, IF started THEN "waiting" ELSE "returning")
    /\ UNCHANGED <<file, snapshot, started, stop, done, cancelled, reloadMu,
                   counters, data, kid, answer, confirmed, floor>>

\* the critical section of Close; concurrent calls all wait for the poller
Close(t) ==
    /\ pc[t] = "close"
    /\ closed' = TRUE
    /\ stop' = TRUE
    /\ Goto(t, IF started THEN "waiting" ELSE "returning")
    /\ UNCHANGED <<file, snapshot, started, done, cancelled, reloadMu,
                   counters, data, kid, answer, confirmed, floor>>

CloseReturns(t) ==
    /\ pc[t] = "returning" \/ (pc[t] = "waiting" /\ done)
    /\ Goto(t, "done")
    /\ Tell(t, "closed")
    /\ UNCHANGED <<file, snapshot, lifecycle, reloadMu, counters, data, kid,
                   confirmed, floor>>

-----------------------------------------------------------------------------
(* Users: issueAttestation and VerifyAttestation.                          *)

\* Ready, at the start of either
Ready(t) ==
    /\ pc[t] = "ready"
    /\ IF closed THEN Goto(t, "done") /\ Tell(t, "unavailable")
                 ELSE /\ \E l \in {"sign", "resolve"} : Goto(t, l)
                      /\ UNCHANGED answer
    /\ UNCHANGED <<file, snapshot, lifecycle, reloadMu, counters, data, kid,
                   confirmed, floor>>

\* readySnapshot: under the mutex, an error if closed
ReadySnapshot(t) ==
    data' = [data EXCEPT ![t] =
        IF closed THEN None ELSE [seq |-> confirmed.seq, doc |-> snapshot]]

SignTakesSnapshot(t) ==
    /\ pc[t] = "sign"
    /\ ReadySnapshot(t)
    /\ Goto(t, IF closed THEN "done" ELSE "signing")
    /\ Tell(t, IF closed THEN "unavailable" ELSE answer[t])
    /\ UNCHANGED <<file, snapshot, lifecycle, reloadMu, counters, kid,
                   confirmed, floor>>

\* Snapshot.Sign runs without the mutex, on the snapshot taken
SignReturns(t) ==
    /\ pc[t] = "signing"
    /\ kid' = [kid EXCEPT ![t] = ActiveKID(data[t].doc)]
    /\ Goto(t, "done")
    /\ Tell(t, "signed")
    /\ UNCHANGED <<file, snapshot, lifecycle, reloadMu, counters, data,
                   confirmed, floor>>

\* Snapshot.Resolve and the verdicts of Verify that depend on the key
Verdict(doc, k) ==
    IF doc[k] = "absent" THEN "unknown_key"
    ELSE IF doc[k] = "revoked" THEN "key_revoked" ELSE "valid"

\* Manager.Resolve inside Verify: every error of the resolver, a closed
\* manager's too, becomes the verdict unknown_key
Resolve(t) ==
    /\ pc[t] = "resolve"
    /\ ReadySnapshot(t)
    /\ \E k \in Keys :
          /\ kid' = [kid EXCEPT ![t] = k]
          /\ Tell(t, IF closed THEN "unknown_key" ELSE Verdict(snapshot, k))
    /\ Goto(t, "verified")
    /\ UNCHANGED <<file, snapshot, lifecycle, reloadMu, counters, confirmed,
                   floor>>

\* Mutant of VerifyReturns: Ready is not asked again.
VerifyReturnsUnchecked(t) ==
    /\ pc[t] = "verified"
    /\ Goto(t, "done")
    /\ UNCHANGED <<file, snapshot, lifecycle, reloadMu, counters, data, kid,
                   answer, confirmed, floor>>

\* Ready is asked again before the verdict is returned
VerifyReturns(t) ==
    /\ pc[t] = "verified"
    /\ Goto(t, "done")
    /\ Tell(t, IF closed THEN "unavailable" ELSE answer[t])
    /\ UNCHANGED <<file, snapshot, lifecycle, reloadMu, counters, data, kid,
                   confirmed, floor>>

-----------------------------------------------------------------------------
(* The environment.                                                        *)

Call(t) ==
    /\ pc[t] = "idle"
    /\ \E op \in {"reload", "start", "close", "ready"} : Goto(t, op)
    /\ floor' = [floor EXCEPT ![t] = confirmed.seq]
    /\ UNCHANGED <<file, snapshot, lifecycle, reloadMu, counters, data, kid,
                   answer, confirmed>>

\* the operator replaces the file
WriteFile(doc) ==
    /\ file.seq < MaxWrites
    /\ file' = [seq |-> file.seq + 1, doc |-> doc]
    /\ UNCHANGED <<snapshot, lifecycle, reloadMu, counters, locals, confirmed,
                   floor>>

\* the process is told to shut down
CancelContext ==
    /\ ~cancelled
    /\ cancelled' = TRUE
    /\ UNCHANGED <<file, snapshot, closed, started, stop, done, reloadMu,
                   counters, locals, confirmed, floor>>

Init ==
    /\ file = [seq |-> 0, doc |-> FirstDoc]
    /\ snapshot = FirstDoc
    /\ closed = FALSE /\ started = FALSE
    /\ stop = FALSE /\ done = FALSE
    /\ cancelled = FALSE
    /\ reloadMu = None
    /\ successes = 0 /\ failures = 0
    /\ pc = [t \in Threads |-> IF t = Poller THEN "off" ELSE "idle"]
    /\ data = [t \in Threads |-> None]
    /\ kid = [t \in Threads |-> None]
    /\ answer = [t \in Threads |-> "none"]
    /\ confirmed = file
    /\ floor = [t \in Threads |-> 0]

CallStep(t) ==
    \/ Reload(t) \/ Start(t) \/ Close(t) \/ CloseReturns(t)
    \/ Ready(t) \/ SignTakesSnapshot(t) \/ SignReturns(t)
    \/ Resolve(t) \/ VerifyReturns(t)

PollerStep == Reload(Poller) \/ PollerTick \/ PollerStops \/ PollerExits

Next ==
    \/ \E t \in Callers : Call(t) \/ CallStep(t)
    \/ PollerStep
    \/ \E doc \in Documents : WriteFile(doc)
    \/ CancelContext

Spec == Init /\ [][Next]_vars

(* Goroutines are scheduled and the ticker ticks; select takes a case that *)
(* is ready at random, so one that stays ready is taken in the end.        *)
Fairness ==
    /\ \A t \in Callers : WF_vars(CallStep(t))
    /\ WF_vars(PollerStep)
    /\ SF_vars(PollerStops)

FairSpec == Spec /\ Fairness

-----------------------------------------------------------------------------
(* Properties.                                                             *)

Labels == {"idle", "reload", "check", "read", "compare", "store", "start",
           "close", "waiting", "returning", "ready", "sign", "signing",
           "resolve", "verified", "off", "select", "exiting", "exited", "done"}
Verdicts == {"unknown_key", "key_revoked", "valid"}
Answers == Verdicts \cup {"none", "ok", "error", "ErrClosed", "closed",
                          "unavailable", "signed"}
Files == [seq : Nat, doc : Documents]

\* Every variable keeps the type its comment gives.
TypeOK ==
    /\ file \in Files
    /\ snapshot \in Documents
    /\ closed \in BOOLEAN /\ started \in BOOLEAN
    /\ stop \in BOOLEAN /\ done \in BOOLEAN
    /\ cancelled \in BOOLEAN
    /\ reloadMu \in Threads \cup {None}
    /\ successes \in 0..CounterSize - 1
    /\ failures \in 0..CounterSize - 1
    /\ pc \in [Threads -> Labels]
    /\ data \in [Threads -> Files \cup {None}]
    /\ kid \in [Threads -> Keys \cup {None}]
    /\ answer \in [Threads -> Answers]
    /\ confirmed \in Files
    /\ floor \in [Threads -> Nat]

\* The keyring in use can sign with exactly one key, and it is the document
\* the last successful reload read: a rejected file changes nothing.
SnapshotIsWhole ==
    /\ snapshot = confirmed.doc
    /\ snapshot # Unreadable
    /\ \E k \in Keys : {j \in Keys : snapshot[j] = "active"} = {k}

\* Reloads never bring an older file back, whatever overtakes them between
\* the read and the store.
NoRollback == [][confirmed'.seq >= confirmed.seq]_vars

\* Close is final: a reload that was under way when it came changes nothing.
NoSwapAfterClose == [][closed => UNCHANGED <<snapshot, successes>>]_vars

\* Once a call of Close has returned there is no poller, and none will come.
PollerIsGone ==
    \A t \in Callers : answer[t] = "closed" => pc[Poller] \in {"off", "exited"}

\* A verdict on an attestation is one that a keyring gave which was no older
\* than the call: closing the manager is never reported as an unknown key, and
\* a key whose revocation was loaded before the call is never valid.
VerdictIsGenuine ==
    \A t \in Callers :
        pc[t] = "done" /\ answer[t] \in Verdicts =>
            /\ data[t] # None
            /\ data[t].seq >= floor[t]
            /\ answer[t] = Verdict(data[t].doc, kid[t])

\* What signs and judges is a whole keyring the manager vouches for: broken
\* documents, a close and a poller that is gone change nothing about that.
KeyringIsGenuine == TypeOK /\ SnapshotIsWhole /\ PollerIsGone /\ VerdictIsGenuine

\* The keyring in use moves only forward, and not at all after Close.
SwapsAdvance == NoRollback /\ NoSwapAfterClose

\* Every call of Close returns.
CloseEnds == \A t \in Callers : pc[t] = "close" ~> pc[t] = "done"

\* While the poller is left running, the keyring in use becomes the file's,
\* however many broken documents came before.
CatchesUp ==
    <>[](started /\ ~closed /\ ~cancelled)
        => <>[](Parse(file.doc) => snapshot = file.doc)
=============================================================================
