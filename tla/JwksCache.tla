------------------------------ MODULE JwksCache ------------------------------
(***************************************************************************)
(* Bearer-token verification against the issuer's signing keys:            *)
(* backend/internal/authn/access_token.go.  Callers look a key id up in a  *)
(* cache; a miss or an expired cache leads to one shared fetch             *)
(* (singleflight), whose result a caller may not share when the issuer     *)
(* forbids storing it and who then fetches for itself.  Fetches for        *)
(* unknown key ids are throttled.  Sections under the cache's mutex are    *)
(* single steps; the clock runs, the issuer rotates its keys, answers      *)
(* late, with any of a set of cache headers, with 304, or not at all.      *)
(***************************************************************************)
EXTENDS Integers, FiniteSets

CONSTANTS Callers,      \* requests that verify a token, one after another
          Kids,         \* key ids
          Headers,      \* cache headers the issuer may send
          NoStore304,   \* whether a 304 may say no-store
          Shared,       \* names the shared fetch
          MaxCalls,     \* bound on the calls of a behaviour
          MaxTime,      \* bound on the clock's steps
          MaxRev,       \* bound on the issuer's rotations
          DefaultFresh, \* jwksDefaultFreshness
          MaxFresh,     \* jwksMaxFreshness
          MaxStale,     \* jwksMaxStaleUse
          Window,       \* throttle of unknown key ids
          Timeout       \* accessTokenHTTPTimeout

\* an absent or malformed header value
Absent == -1

\* 0 is the zero time.Time
StartTime == 10

ASSUME JwksAssumption ==
    /\ Shared \notin Callers
    /\ NoStore304 \in BOOLEAN
    /\ {MaxCalls, MaxTime, DefaultFresh, MaxFresh, Timeout} \subseteq Nat
    /\ {MaxRev, MaxStale, Window} \subseteq Nat \ {0}
    /\ Timeout < MaxFresh + MaxStale
    /\ Headers \subseteq
          [noStore : BOOLEAN, noCache : BOOLEAN, revalidate : BOOLEAN,
           sMaxage : Int, maxAge : Int, expires : Int, age : Nat,
           staleIfError : Int]

VARIABLES
    now,       \* the clock
    rev,       \* the issuer's version of its key set
    keysAt,    \* the key set of every version so far
    cache,     \* jwksCache
    throttle,  \* lastUnknownKID...
    fetch,     \* the shared fetch and each caller's direct one
    pc,        \* where each caller is
    call,      \* its key id and what it got
    known,     \* history: newest version a 200 response brought
    lastSeen,  \* history: when each key id was last published, if it was dropped
    lastGone,  \* history: when each key id was last missing, if it was added
    misled,    \* history: a 304 renewed an older key set than it is about
    failedAt,  \* history: when a fetch last failed, and when a 304 last found
               \* no stored key set
    calls      \* number of calls so far

issuer == <<rev, keysAt, lastSeen, lastGone>>
vars == <<now, issuer, cache, throttle, fetch, pc, call, known, misled,
          failedAt, calls>>

Published == keysAt[rev]
Less(a, b) == IF a < b THEN a ELSE b

-----------------------------------------------------------------------------
(* parseCacheDirectives and applyDirectivesLocked.                         *)

\* Mutant of Freshness: the local ceiling is missing.
FreshnessUncapped(h) ==
    CASE h.sMaxage # Absent -> h.sMaxage - h.age
      [] h.sMaxage = Absent /\ h.maxAge # Absent -> h.maxAge - h.age
      [] h.sMaxage = Absent /\ h.maxAge = Absent /\ h.expires # Absent ->
            h.expires - h.age
      [] OTHER -> DefaultFresh

\* the first usable source, less the age, at most the local ceiling
Freshness(h) ==
    Less(MaxFresh,
         CASE h.sMaxage # Absent -> h.sMaxage - h.age
           [] h.sMaxage = Absent /\ h.maxAge # Absent -> h.maxAge - h.age
           [] h.sMaxage = Absent /\ h.maxAge = Absent /\ h.expires # Absent ->
                 h.expires - h.age
           [] OTHER -> DefaultFresh)

NoStale(h) == h.noStore \/ h.noCache \/ h.revalidate \/ h.sMaxage # Absent

\* at is the time before the request was sent; staleUntil = 0 is no grace
Stored(keys, version, h, at) ==
    [keys |-> keys, have |-> TRUE, noStore |-> h.noStore, noCache |-> h.noCache,
     expiry |-> at + Freshness(h),
     staleUntil |-> IF NoStale(h) \/ h.staleIfError <= 0 THEN 0
                    ELSE at + Freshness(h) + Less(h.staleIfError, MaxStale),
     etag |-> version, header |-> {h}]

NotStored ==
    [keys |-> {}, have |-> FALSE, noStore |-> TRUE, noCache |-> FALSE,
     expiry |-> 0, staleUntil |-> 0, etag |-> 0, header |-> {}]

Cold == [NotStored EXCEPT !.noStore = FALSE]

RevalidationRequired ==
    cache.noCache \/ cache.noStore \/ ~cache.have \/ now >= cache.expiry

StaleAllowed == now < cache.staleUntil

Hit(kid) == cache.have /\ ~RevalidationRequired /\ kid \in cache.keys

-----------------------------------------------------------------------------
(* Throttle of unknown key ids; at = 0 is "never".                         *)

NeverThrottled == [at |-> 0, expiry |-> 0, keys |-> {}, success |-> FALSE]

\* a success obtained while the cache was alive does not answer for the
\* revalidation that is due when it has expired
RevalidationDue ==
    /\ throttle.expiry > throttle.at
    /\ cache.expiry # 0
    /\ now >= cache.expiry

\* Mutant of Throttled: the window has no end.
ThrottledForever(kid) ==
    CASE throttle.at = 0 -> "no"
      [] throttle.at # 0 /\ ~throttle.success -> "unavailable"
      [] OTHER -> IF kid \in throttle.keys THEN "no" ELSE "invalid"

\* unknownKIDThrottleLocked
Throttled(kid) ==
    CASE throttle.at = 0 \/ now >= throttle.at + Window -> "no"
      [] throttle.at # 0 /\ now < throttle.at + Window /\ ~throttle.success ->
            "unavailable"
      [] OTHER -> IF kid \in throttle.keys \/ RevalidationDue THEN "no"
                  ELSE "invalid"

\* recordUnknownKIDOutcome, with the cache as it is
Recorded(f) ==
    IF ~f.unknown \/ (~f.prior /\ ~f.err /\ f.kid \in f.keys) THEN throttle
    ELSE [at |-> now, expiry |-> cache.expiry,
          keys |-> IF f.err THEN {} ELSE f.keys, success |-> ~f.err]

-----------------------------------------------------------------------------
(* Callers: keysForKID.                                                    *)

NoCall == [kid |-> "none", since |-> 0, known |-> 0, answer |-> "none",
           shared |-> FALSE, unknown |-> FALSE, prior |-> FALSE,
           keys |-> {}, retained |-> FALSE, error |-> "none"]

NoFetch == [phase |-> "idle", kid |-> "none", owner |-> Shared, at |-> 0,
            cond |-> 0, unknown |-> FALSE, prior |-> FALSE, status |-> "none",
            version |-> 0, header |-> {}, keys |-> {}, retained |-> FALSE,
            err |-> FALSE]

Failed(f) == [f EXCEPT !.phase = "applied", !.err = TRUE, !.status = "none",
                       !.version = 0, !.header = {}]

Goto(c, l) == pc' = [pc EXCEPT ![c] = l]

\* the answer of keysForKID ends the call
Answer(c, a) ==
    /\ Goto(c, "done")
    /\ call' = [call EXCEPT ![c] = [NoCall EXCEPT !.kid = call[c].kid,
                  !.since = call[c].since, !.known = call[c].known, !.answer = a,
                  !.shared = call[c].shared, !.error = call[c].error]]

Begin(c, kid) ==
    /\ pc[c] \in {"idle", "done"}
    /\ calls < MaxCalls
    /\ calls' = calls + 1
    /\ LET begun == [NoCall EXCEPT !.kid = kid, !.since = now, !.known = known]
       IN IF Hit(kid)
          THEN /\ call' = [call EXCEPT ![c] = [begun EXCEPT !.answer = "keys"]]
               /\ Goto(c, "done")
          ELSE IF kid \notin cache.keys /\ Throttled(kid) # "no"
               THEN /\ call' = [call EXCEPT ![c] =
                                  [begun EXCEPT !.answer = Throttled(kid)]]
                    /\ Goto(c, "done")
               ELSE /\ call' = [call EXCEPT ![c] = begun]
                    /\ Goto(c, "join")
    /\ UNCHANGED <<now, issuer, cache, throttle, fetch, known, misled, failedAt>>

\* singleflight: lead a new fetch or wait for the one under way
Join(c) ==
    /\ pc[c] = "join"
    /\ Goto(c, "wait")
    /\ fetch' = IF fetch[Shared].phase # "idle" THEN fetch
                ELSE [fetch EXCEPT ![Shared] =
                        [NoFetch EXCEPT !.phase = "start", !.kid = call[c].kid,
                                        !.owner = c]]
    /\ UNCHANGED <<now, issuer, cache, throttle, call, known, misled, failedAt, calls>>

\* Mutant of Cancel: the fetch is cancelled with the caller that began it.
CancelFetch(c) ==
    /\ pc[c] \in {"wait", "direct"}
    /\ Answer(c, "cancelled")
    /\ fetch' = [i \in DOMAIN fetch |->
                   IF fetch[i].owner = c /\ fetch[i].phase \in {"sent", "answered"}
                   THEN Failed(fetch[i])
                   ELSE fetch[i]]
    /\ UNCHANGED <<now, issuer, cache, throttle, known, misled, failedAt, calls>>

\* the context is cancelled; the fetch goes on, owned by no later call
Cancel(c) ==
    /\ pc[c] \in {"wait", "direct"}
    /\ Answer(c, "cancelled")
    /\ fetch' = IF fetch[Shared].owner = c
                THEN [fetch EXCEPT ![Shared].owner = Shared] ELSE fetch
    /\ UNCHANGED <<now, issuer, cache, throttle, known, misled, failedAt, calls>>

\* hand the result of the shared fetch to everyone waiting
Share(keys, retained, error) ==
    LET f == fetch[Shared]
    IN /\ pc' = [c \in Callers |-> IF pc[c] = "wait" THEN "got" ELSE pc[c]]
       /\ call' = [c \in Callers |->
                     IF pc[c] # "wait" THEN call[c]
                     ELSE [call[c] EXCEPT !.keys = keys, !.retained = retained,
                             !.error = error, !.shared = f.owner # c,
                             !.unknown = f.unknown, !.prior = f.prior]]

FetchStarts ==
    LET f == fetch[Shared]
        unknown == f.kid \notin cache.keys
    IN /\ f.phase = "start"
       /\ IF Hit(f.kid) \/ (unknown /\ Throttled(f.kid) # "no")
          THEN /\ IF Hit(f.kid) THEN Share(cache.keys, TRUE, "none")
                                ELSE Share({}, FALSE, Throttled(f.kid))
               /\ fetch' = [fetch EXCEPT ![Shared] = NoFetch]
          ELSE /\ fetch' = [fetch EXCEPT ![Shared] =
                    [f EXCEPT !.phase = "sent", !.at = now, !.cond = cache.etag,
                              !.unknown = unknown,
                              !.prior = cache.have \/ cache.noStore
                                        \/ throttle.at # 0]]
               /\ UNCHANGED <<pc, call>>
       /\ UNCHANGED <<now, issuer, cache, throttle, known, misled, failedAt, calls>>

-----------------------------------------------------------------------------
(* A fetch: the issuer answers, the answer arrives, is applied to the      *)
(* cache and recorded.                                                     *)

IssuerAnswers(i) ==
    LET f == fetch[i]
    IN /\ f.phase = "sent"
       /\ now <= f.at + Timeout
       /\ \E status \in {"ok", "unchanged"}, h \in Headers :
             /\ status = "unchanged" => /\ f.cond = rev
                                        /\ h.noStore => NoStore304
             /\ fetch' = [fetch EXCEPT ![i] =
                  [f EXCEPT !.phase = "answered", !.status = status,
                            !.version = rev, !.header = {h}]]
       /\ UNCHANGED <<now, issuer, cache, throttle, pc, call, known, misled,
                      failedAt, calls>>

\* no answer, a bad status or body (which need not be told from no answer),
\* or an answer that is too late
FetchFails(i) ==
    /\ \/ fetch[i].phase = "sent"
       \/ fetch[i].phase = "answered" /\ now > fetch[i].at + Timeout
    /\ fetch' = [fetch EXCEPT ![i] = Failed(@)]
    /\ failedAt' = [failedAt EXCEPT !.fetch = now]
    /\ UNCHANGED <<now, issuer, cache, throttle, pc, call, known, misled, calls>>

\* a sparse 304 keeps the stored directives and the stored ETag, another one
\* replaces them; the key set it renews is whichever is stored by now
ApplyUnchanged(i, h) ==
    LET f == fetch[i]
    IN /\ f.phase = "answered"
       /\ f.status = "unchanged"
       /\ now <= f.at + Timeout
       /\ IF cache.have /\ ~cache.noStore
          THEN /\ h \in f.header \cup cache.header
               /\ \E etag \in {cache.etag, f.version} :
                     cache' = Stored(cache.keys, etag, h, f.at)
               /\ misled' = (misled \/ cache.etag < f.version)
               /\ fetch' = [fetch EXCEPT ![i].phase = "applied",
                              ![i].keys = cache.keys, ![i].retained = TRUE]
               /\ UNCHANGED failedAt
          ELSE /\ fetch' = [fetch EXCEPT ![i] = Failed(@)]
               /\ failedAt' = [failedAt EXCEPT !.unstored = now]
               /\ UNCHANGED <<cache, misled>>
       /\ UNCHANGED <<now, issuer, throttle, pc, call, known, calls>>

ApplyOK(i, h) ==
    LET f == fetch[i]
    IN /\ f.phase = "answered"
       /\ f.status = "ok"
       /\ now <= f.at + Timeout
       /\ h \in f.header
       /\ cache' = IF h.noStore THEN NotStored
                   ELSE Stored(keysAt[f.version], f.version, h, f.at)
       /\ fetch' = [fetch EXCEPT ![i].phase = "applied",
                      ![i].keys = keysAt[f.version], ![i].retained = ~h.noStore]
       /\ known' = IF f.version > known THEN f.version ELSE known
       /\ UNCHANGED <<now, issuer, throttle, pc, call, misled, failedAt, calls>>

RecordShared ==
    LET f == fetch[Shared]
    IN /\ f.phase = "applied"
       /\ throttle' = Recorded(f)
       /\ Share(f.keys, f.retained, IF f.err THEN "unavailable" ELSE "none")
       /\ fetch' = [fetch EXCEPT ![Shared] = NoFetch]
       /\ UNCHANGED <<now, issuer, cache, known, misled, failedAt, calls>>

RecordDirect(c) ==
    LET f == fetch[c]
    IN /\ f.phase = "applied"
       /\ throttle' = Recorded(f)
       /\ fetch' = [fetch EXCEPT ![c] = NoFetch]
       /\ IF pc[c] # "direct" THEN UNCHANGED <<pc, call>>
          ELSE Answer(c, CASE f.err -> "unavailable"
                           [] ~f.err /\ f.kid \in f.keys -> "keys"
                           [] OTHER -> "invalid")
       /\ UNCHANGED <<now, issuer, cache, known, misled, failedAt, calls>>

-----------------------------------------------------------------------------
(* What a caller does with the shared result.                              *)

StaleAnswer(kid) == cache.have /\ StaleAllowed /\ kid \in cache.keys

GotError(c) ==
    /\ pc[c] = "got"
    /\ call[c].error # "none"
    /\ Answer(c, CASE call[c].error = "invalid" -> "invalid"
                   [] call[c].error # "invalid" /\ StaleAnswer(call[c].kid) ->
                         "keys"
                   [] OTHER -> "unavailable")
    /\ UNCHANGED <<now, issuer, cache, throttle, fetch, known, misled, failedAt, calls>>

MayShare(c) == call[c].retained \/ ~call[c].shared

GotKeys(c) ==
    /\ pc[c] = "got"
    /\ call[c].error = "none"
    /\ MayShare(c)
    /\ Answer(c, IF call[c].kid \in call[c].keys THEN "keys" ELSE "invalid")
    /\ UNCHANGED <<now, issuer, cache, throttle, fetch, known, misled, failedAt, calls>>

\* the response was not to be stored: fetch once more for this caller alone
\* (a direct fetch of an earlier, cancelled call of this caller may still run;
\* the next one is then another goroutine, left out here)
GotUnshareable(c) ==
    /\ pc[c] = "got"
    /\ call[c].error = "none"
    /\ ~MayShare(c)
    /\ fetch[c].phase = "idle"
    /\ IF call[c].unknown /\ Throttled(call[c].kid) # "no"
       THEN Answer(c, Throttled(call[c].kid)) /\ UNCHANGED fetch
       ELSE /\ Goto(c, "direct")
            /\ fetch' = [fetch EXCEPT ![c] =
                 [NoFetch EXCEPT !.phase = "sent", !.kid = call[c].kid,
                    !.owner = c, !.at = now, !.unknown = call[c].unknown,
                    !.prior = call[c].prior]]
            /\ UNCHANGED call
    /\ UNCHANGED <<now, issuer, cache, throttle, known, misled, failedAt, calls>>

-----------------------------------------------------------------------------
(* The issuer and the clock.                                               *)

Rotate(keys) ==
    /\ rev < MaxRev
    /\ keys # Published
    /\ rev' = rev + 1
    /\ keysAt' = [keysAt EXCEPT ![rev + 1] = keys]
    /\ lastSeen' = [k \in Kids |-> IF k \in Published THEN now ELSE lastSeen[k]]
    /\ lastGone' = [k \in Kids |-> IF k \notin Published THEN now ELSE lastGone[k]]
    /\ UNCHANGED <<now, cache, throttle, fetch, pc, call, known, misled, failedAt, calls>>

\* what has arrived is applied and answered within the same unit of time;
\* a call that is done is forgotten when the clock moves or by the next call
Settled ==
    /\ \A i \in DOMAIN fetch : fetch[i].phase \notin {"start", "applied"}
    /\ \A c \in Callers : pc[c] \notin {"join", "got"}

Tick ==
    /\ now < StartTime + MaxTime
    /\ Settled
    /\ now' = now + 1
    /\ pc' = [c \in Callers |-> IF pc[c] = "done" THEN "idle" ELSE pc[c]]
    /\ call' = [c \in Callers |-> IF pc[c] = "done" THEN NoCall ELSE call[c]]
    /\ UNCHANGED <<issuer, cache, throttle, fetch, known, misled, failedAt, calls>>

Init ==
    /\ now = StartTime
    /\ rev = 1
    /\ keysAt \in {[v \in 1..MaxRev |-> IF v = 1 THEN K ELSE {}] :
                     K \in SUBSET Kids \ {{}}}
    /\ cache = Cold
    /\ throttle = NeverThrottled
    /\ fetch = [i \in Callers \cup {Shared} |-> NoFetch]
    /\ pc = [c \in Callers |-> "idle"]
    /\ call = [c \in Callers |-> NoCall]
    /\ known = 0
    /\ lastSeen = [k \in Kids |-> 0]
    /\ lastGone = [k \in Kids |-> 0]
    /\ misled = FALSE
    /\ failedAt = [fetch |-> 0, unstored |-> 0]
    /\ calls = 0

Next ==
    \/ \E c \in Callers :
          \/ \E kid \in Kids : Begin(c, kid)
          \/ Join(c) \/ Cancel(c) \/ GotError(c) \/ GotKeys(c)
          \/ GotUnshareable(c) \/ RecordDirect(c)
    \/ FetchStarts \/ RecordShared
    \/ \E i \in Callers \cup {Shared} :
          \/ IssuerAnswers(i) \/ FetchFails(i)
          \/ \E h \in Headers : ApplyUnchanged(i, h) \/ ApplyOK(i, h)
    \/ \E keys \in SUBSET Kids \ {{}} : Rotate(keys)
    \/ Tick

Spec == Init /\ [][Next]_vars

-----------------------------------------------------------------------------
(* Properties.                                                             *)

Seen(k) == IF k \in Published THEN now ELSE lastSeen[k]
Missed(k) == IF k \notin Published THEN now ELSE lastGone[k]

\* The variables have the shapes the code gives them.
TypeOK ==
    /\ now \in StartTime..(StartTime + MaxTime)
    /\ rev \in 1..MaxRev
    /\ known \in 0..rev
    /\ cache.keys \subseteq Kids /\ cache.have \in BOOLEAN
    /\ cache.etag \in 0..rev
    /\ cache.staleUntil = 0 \/ cache.staleUntil > cache.expiry
    /\ throttle.keys \subseteq Kids /\ throttle.at \in 0..now
    /\ \A i \in Callers \cup {Shared} :
          fetch[i].phase \in {"idle", "start", "sent", "answered", "applied"}
    /\ \A c \in Callers :
          /\ pc[c] \in {"idle", "join", "wait", "got", "direct", "done"}
          /\ call[c].answer \in
                {"none", "keys", "invalid", "unavailable", "cancelled"}

\* The signing key of an accepted token was published by the issuer less than
\* the local freshness ceiling plus the local stale ceiling ago, however late
\* the answers arrived and whatever the issuer's headers said
\* (parseCacheDirectives, applyDirectivesLocked, staleAllowed).  The one way
\* around the ceilings is set apart by name: a direct fetch answered early and
\* applied late puts an older key set back under a 304 that was about a newer
\* one, and refresh renews whatever is stored.
TrustIsRecent ==
    \A c \in Callers :
       call[c].answer = "keys" /\ ~misled =>
          now - Seen(call[c].kid) < MaxFresh + MaxStale

\* "A successful refresh removing a signing key rejects tokens signed by that
\* key, even inside previously permitted grace" (docs/authentication.md): a
\* call begun after a key set without the key arrived, the newest one any
\* response brought, does not accept the key while it stays removed.
RemovedStaysRemoved ==
    \A c \in Callers :
       call[c].answer = "keys" =>
          \E v \in 1..rev : v >= call[c].known /\ call[c].kid \in keysAt[v]

\* A key id is refused as invalid only when the issuer did not publish it at
\* some time since the throttle's window and a fetch's timeout before the
\* call: a legitimate new key is not held up for longer
\* (unknownKIDThrottleLocked).  Left aside are calls that the throttled fetch
\* of another caller refused with its own, and what follows a 304 applied to
\* an older key set than it is about.
ThrottleIsBrief ==
    \A c \in Callers :
       /\ ~misled
       /\ call[c].answer = "invalid"
       /\ ~(call[c].shared /\ call[c].error = "invalid")
       => Missed(call[c].kid) >= call[c].since - Window - Timeout

\* Unavailable is answered only when a fetch failed, or a 304 found the key set
\* it confirms no longer stored, that recently: a caller that goes away does
\* not make the issuer look unavailable to the others (context.WithoutCancel).
UnavailableIsReal ==
    \A c \in Callers :
       call[c].answer = "unavailable" =>
          \E t \in {failedAt.fetch, failedAt.unstored} :
             t > call[c].since - Window

\* Nobody waits in vain: a caller that waits for the shared fetch has one
\* under way, whoever of the others gave up or began it, and a caller that
\* fetches for itself has its own (singleflight, WithoutCancel, the timeout).
NobodyWaitsInVain ==
    \A c \in Callers :
       /\ pc[c] = "wait" => fetch[Shared].phase # "idle"
       /\ pc[c] = "direct" => fetch[c].phase # "idle" /\ fetch[c].kid = call[c].kid

\* A caller that gives up harms nobody who shares its fetch: the others are
\* neither left waiting nor told of an outage that was none.
CancelIsHarmless == TypeOK /\ UnavailableIsReal /\ NobodyWaitsInVain
=============================================================================
