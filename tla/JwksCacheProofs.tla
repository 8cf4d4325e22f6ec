--------------------------- MODULE JwksCacheProofs ---------------------------
(***************************************************************************)
(* Proofs about JwksCache: whom the verifier trusts, and whom it turns     *)
(* away, for any number of callers, key ids, rotations and calls, any      *)
(* cache headers and any ceilings.                                         *)
(*                                                                         *)
(* The argument is about times.  The World is what time and the issuer     *)
(* have done: when each key id was last published and last missing, the    *)
(* key set of every version, when a fetch last failed.  A key set is       *)
(* Witnessed since t when every key in it was published, and every key     *)
(* outside it missing, at t or later.  Every step leads to a Later world,  *)
(* in which what was witnessed stays witnessed; so each fact about a       *)
(* fetch, the cache, the throttle or a call is shown once where it arises  *)
(* and carried along by one lemma of its kind.                             *)
(***************************************************************************)
EXTENDS JwksCache, TLAPS

-----------------------------------------------------------------------------
(* The inductive invariant.                                                *)

Phases == {"idle", "start", "sent", "answered", "applied"}
Labels == {"idle", "join", "wait", "got", "direct", "done"}
Answers == {"none", "keys", "invalid", "unavailable", "cancelled"}
Errors == {"none", "invalid", "unavailable"}

CacheRecords ==
    [keys : SUBSET Kids, have : BOOLEAN, noStore : BOOLEAN, noCache : BOOLEAN,
     expiry : Int, staleUntil : Int, etag : Nat, header : SUBSET Headers]

ThrottleRecords ==
    [at : Nat, expiry : Int, keys : SUBSET Kids, success : BOOLEAN]

FetchRecords ==
    [phase : Phases, kid : Kids \cup {"none"}, owner : Callers \cup {Shared},
     at : Nat, cond : Nat, unknown : BOOLEAN, prior : BOOLEAN,
     status : {"none", "ok", "unchanged"}, version : Nat,
     header : SUBSET Headers, keys : SUBSET Kids, retained : BOOLEAN,
     err : BOOLEAN]

CallRecords ==
    [kid : Kids \cup {"none"}, since : Nat, known : Nat, answer : Answers,
     shared : BOOLEAN, unknown : BOOLEAN, prior : BOOLEAN, keys : SUBSET Kids,
     retained : BOOLEAN, error : Errors]

Clocks ==
    /\ now \in Nat /\ now >= StartTime /\ now <= StartTime + MaxTime
    /\ rev \in 1..MaxRev
    /\ keysAt \in [1..MaxRev -> SUBSET Kids]
    /\ lastSeen \in [Kids -> 0..now]
    /\ lastGone \in [Kids -> 0..now]
    /\ misled \in BOOLEAN
    /\ failedAt \in [fetch : 0..now, unstored : 0..now]

Shapes ==
    /\ cache \in CacheRecords
    /\ throttle \in ThrottleRecords
    /\ fetch \in [Callers \cup {Shared} -> FetchRecords]
    /\ pc \in [Callers -> Labels]
    /\ call \in [Callers -> CallRecords]
    /\ known \in 0..rev

Outage == IF failedAt.fetch > failedAt.unstored THEN failedAt.fetch
          ELSE failedAt.unstored

\* what time and the issuer have done
World == [now |-> now, rev |-> rev, keysAt |-> keysAt,
          seen |-> [k \in Kids |-> Seen(k)],
          missed |-> [k \in Kids |-> Missed(k)],
          misled |-> misled, outage |-> Outage]

Worlds == [now : Nat, rev : 1..MaxRev, keysAt : [1..MaxRev -> SUBSET Kids],
           seen : [Kids -> Nat], missed : [Kids -> Nat], misled : BOOLEAN,
           outage : Nat]

\* K is a key set the issuer had at t or, key by key, later
Witnessed(w, K, t) ==
    \A k \in Kids : /\ k \in K => w.seen[k] >= t
                    /\ k \notin K => w.missed[k] >= t

\* an answer is about the version that was current after the request was sent
FetchOK(w, f) ==
    /\ f.err => f.phase = "applied"
    /\ f.phase \in {"sent", "answered"} => f.at <= w.now
    /\ f.phase = "answered" =>
          /\ f.version \in 1..w.rev
          /\ \A v \in f.version..w.rev : Witnessed(w, w.keysAt[v], f.at)
    /\ f.phase = "applied" =>
          IF f.err THEN w.outage >= w.now
          ELSE w.misled \/ Witnessed(w, f.keys, w.now - Timeout)

\* the stored keys are of no older version than the stored ETag, and neither
\* deadline outlives them by more than its ceiling
CacheOK(w, x) ==
    /\ x.etag <= w.rev
    /\ x.staleUntil = 0 \/ x.staleUntil > x.expiry
    /\ ~w.misled =>
          /\ x.have => \E v \in 1..w.rev : v >= x.etag /\ x.keys = w.keysAt[v]
          /\ \A k \in x.keys : /\ x.expiry <= w.seen[k] + MaxFresh
                               /\ x.staleUntil <= w.seen[k] + MaxFresh + MaxStale

ThrottleOK(w, t) ==
    /\ t.at <= w.now
    /\ t.at # 0 =>
          IF t.success
          THEN w.misled \/ \A k \in Kids \ t.keys : w.missed[k] >= t.at - Timeout
          ELSE w.outage >= t.at

\* what a caller holds between the end of the shared fetch and its answer
GotOK(w, x) ==
    /\ x.error = "none" =>
          \/ w.misled
          \/ /\ \A k \in x.keys : w.now - w.seen[k] < MaxFresh + MaxStale
             /\ x.kid \notin x.keys => w.missed[x.kid] >= w.now - Timeout
    /\ x.error = "unavailable" => w.outage > w.now - Window
    /\ x.error = "invalid" /\ ~x.shared =>
          w.misled \/ w.missed[x.kid] >= w.now - Window - Timeout

AnswerOK(w, x) ==
    /\ x.answer = "keys" =>
          w.misled \/ w.now - w.seen[x.kid] < MaxFresh + MaxStale
    /\ x.answer = "invalid" /\ ~(x.shared /\ x.error = "invalid") =>
          w.misled \/ w.missed[x.kid] >= x.since - Window - Timeout
    /\ x.answer = "unavailable" => w.outage > x.since - Window

CallOK(w, l, x) ==
    /\ x.since <= w.now
    /\ l # "idle" => x.kid \in Kids
    /\ x.answer # "none" => l = "done"
    /\ l = "got" => GotOK(w, x)
    /\ AnswerOK(w, x)

\* a lookup that becomes a hit between a caller's miss and the shared fetch
\* finds a key set that has just arrived
HitIsFresh(w, x, kid) ==
    /\ x.have /\ ~x.noCache /\ ~x.noStore /\ w.now < x.expiry
    /\ kid \in x.keys
    => w.misled \/ Witnessed(w, x.keys, w.now - Timeout)

\* who waits for what, and on whose behalf the shared fetch runs
Waiting ==
    /\ \A c \in Callers :
          /\ pc[c] = "wait" => fetch[Shared].phase # "idle"
          /\ pc[c] = "direct" => /\ fetch[c].phase # "idle"
                                 /\ fetch[c].kid = call[c].kid
    /\ fetch[Shared].phase # "idle" /\ fetch[Shared].owner \in Callers =>
          /\ pc[fetch[Shared].owner] = "wait"
          /\ fetch[Shared].kid = call[fetch[Shared].owner].kid

Lookups ==
    /\ \A c \in Callers : pc[c] = "join" => HitIsFresh(World, cache, call[c].kid)
    /\ fetch[Shared].phase = "start" => HitIsFresh(World, cache, fetch[Shared].kid)

Inv ==
    /\ Clocks
    /\ Shapes
    /\ \A i \in Callers \cup {Shared} : FetchOK(World, fetch[i])
    /\ CacheOK(World, cache)
    /\ ThrottleOK(World, throttle)
    /\ \A c \in Callers : CallOK(World, pc[c], call[c])
    /\ Waiting
    /\ Lookups

-----------------------------------------------------------------------------
(* Worlds and what lasts in a later one.                                   *)

Later(w, u) ==
    /\ u.now >= w.now
    /\ u.rev >= w.rev
    /\ w.misled => u.misled
    /\ u.outage >= w.outage
    /\ \A k \in Kids : u.seen[k] >= w.seen[k] /\ u.missed[k] >= w.missed[k]
    /\ \A v \in 1..w.rev : u.keysAt[v] = w.keysAt[v]
    /\ \A v \in (w.rev + 1)..u.rev : Witnessed(u, u.keysAt[v], w.now)

\* The components of the world, and that the clocks give it its shape.
LEMMA WorldFacts ==
    ASSUME Clocks
    PROVE  /\ World \in Worlds
           /\ World.now = now /\ World.rev = rev /\ World.keysAt = keysAt
           /\ World.misled = misled /\ World.outage = Outage
           /\ \A k \in Kids : /\ World.seen[k] = Seen(k)
                              /\ World.missed[k] = Missed(k)
<1>1. \A k \in Kids : Seen(k) \in Nat /\ Missed(k) \in Nat
  BY DEF Clocks, Seen, Missed, Published
<1>2. Outage \in Nat
  BY DEF Clocks, Outage
<1>3. [k \in Kids |-> Seen(k)] \in [Kids -> Nat]
  BY <1>1
<1>4. [k \in Kids |-> Missed(k)] \in [Kids -> Nat]
  BY <1>1
<1>5. World \in Worlds
  BY <1>2, <1>3, <1>4 DEF World, Worlds, Clocks
<1>6. World.seen = [k \in Kids |-> Seen(k)] /\ World.missed = [k \in Kids |-> Missed(k)]
  BY DEF World
<1>7. \A k \in Kids : World.seen[k] = Seen(k) /\ World.missed[k] = Missed(k)
  BY <1>6
<1> QED
  BY <1>5, <1>7 DEF World

\* The bounds and ceilings are numbers.
LEMMA Numbers ==
    /\ MaxTime \in Nat /\ DefaultFresh \in Nat /\ MaxFresh \in Nat /\ Timeout \in Nat
    /\ MaxRev \in Nat /\ MaxStale \in Nat /\ Window \in Nat
    /\ MaxRev > 0 /\ MaxStale > 0 /\ Window > 0 /\ Timeout < MaxFresh + MaxStale
BY JwksAssumption

\* What is witnessed stays witnessed.
LEMMA WitnessedLater ==
    ASSUME NEW w \in Worlds, NEW u \in Worlds, Later(w, u),
           NEW K, NEW t \in Int, NEW s \in Int, s <= t, Witnessed(w, K, t)
    PROVE  Witnessed(u, K, s)
<1> SUFFICES ASSUME NEW k \in Kids
             PROVE  /\ k \in K => u.seen[k] >= s
                    /\ k \notin K => u.missed[k] >= s
  BY DEF Witnessed
<1>1. /\ u.seen[k] >= w.seen[k] /\ u.missed[k] >= w.missed[k]
      /\ u.seen[k] \in Nat /\ w.seen[k] \in Nat
      /\ u.missed[k] \in Nat /\ w.missed[k] \in Nat
  BY DEF Later, Worlds
<1>2. /\ k \in K => w.seen[k] >= t
      /\ k \notin K => w.missed[k] >= t
  BY DEF Witnessed
<1> QED
  BY <1>1, <1>2

\* A fetch keeps its facts, if time passes then only before it is applied.
LEMMA FetchLater ==
    ASSUME NEW w \in Worlds, NEW u \in Worlds, Later(w, u),
           NEW f \in FetchRecords, FetchOK(w, f),
           u.now = w.now \/ f.phase # "applied"
    PROVE  FetchOK(u, f)
<1>0. /\ w.now \in Nat /\ u.now \in Nat /\ w.rev \in Nat /\ u.rev \in Nat
      /\ w.outage \in Nat /\ u.outage \in Nat /\ u.now >= w.now /\ u.rev >= w.rev
      /\ f.at \in Nat /\ f.version \in Nat /\ Timeout \in Nat
  BY Numbers DEF Worlds, FetchRecords, Later
<1>1. /\ f.err => f.phase = "applied"
      /\ f.phase \in {"sent", "answered"} => f.at <= u.now
  BY <1>0 DEF FetchOK
<1>2. ASSUME f.phase = "answered"
      PROVE  /\ f.version \in 1..u.rev
             /\ \A v \in f.version..u.rev : Witnessed(u, u.keysAt[v], f.at)
  <2>1. /\ f.version \in 1..w.rev /\ f.at <= w.now
        /\ \A v \in f.version..w.rev : Witnessed(w, w.keysAt[v], f.at)
    BY <1>2 DEF FetchOK
  <2>2. ASSUME NEW v \in f.version..u.rev
        PROVE  Witnessed(u, u.keysAt[v], f.at)
    <3>1. CASE v <= w.rev
      <4>1. u.keysAt[v] = w.keysAt[v] /\ Witnessed(w, w.keysAt[v], f.at)
        BY <1>0, <2>1, <3>1 DEF Later
      <4> QED
        BY <4>1, <1>0, WitnessedLater
    <3>2. CASE v > w.rev
      <4>1. Witnessed(u, u.keysAt[v], w.now)
        BY <1>0, <2>1, <3>2 DEF Later
      <4>2. Later(u, u)
        BY <1>0 DEF Later, Worlds
      <4> QED
        BY <4>1, <4>2, <1>0, <2>1, WitnessedLater
    <3> QED
      BY <1>0, <2>1, <3>1, <3>2
  <2> QED
    BY <1>0, <2>1, <2>2
<1>3. ASSUME f.phase = "applied"
      PROVE  IF f.err THEN u.outage >= u.now
             ELSE u.misled \/ Witnessed(u, f.keys, u.now - Timeout)
  <2>1. u.now = w.now
    BY <1>3
  <2>2. CASE f.err
    <3>1. w.outage >= w.now
      BY <1>3, <2>2 DEF FetchOK
    <3> QED
      BY <1>0, <2>1, <2>2, <3>1 DEF Later
  <2>3. CASE ~f.err
    <3>1. w.misled \/ Witnessed(w, f.keys, w.now - Timeout)
      BY <1>3, <2>3 DEF FetchOK
    <3>2. w.misled => u.misled
      BY DEF Later
    <3>3. Witnessed(w, f.keys, w.now - Timeout) => Witnessed(u, f.keys, u.now - Timeout)
      BY <1>0, <2>1, WitnessedLater
    <3> QED
      BY <2>3, <3>1, <3>2, <3>3
  <2> QED
    BY <2>2, <2>3
<1> QED
  BY <1>1, <1>2, <1>3 DEF FetchOK

\* The cache keeps its facts.
LEMMA CacheLater ==
    ASSUME NEW w \in Worlds, NEW u \in Worlds, Later(w, u),
           NEW x \in CacheRecords, CacheOK(w, x)
    PROVE  CacheOK(u, x)
<1>0. /\ w.rev \in 1..MaxRev /\ u.rev \in 1..MaxRev /\ u.rev >= w.rev
      /\ x.etag \in Nat /\ x.expiry \in Int /\ x.staleUntil \in Int
      /\ x.keys \subseteq Kids /\ MaxFresh \in Nat /\ MaxStale \in Nat
      /\ MaxRev \in Nat
  BY Numbers DEF Worlds, CacheRecords, Later
<1>1. x.etag <= u.rev /\ (x.staleUntil = 0 \/ x.staleUntil > x.expiry)
  BY <1>0 DEF CacheOK
<1>2. ASSUME ~u.misled
      PROVE  /\ x.have => \E v \in 1..u.rev : v >= x.etag /\ x.keys = u.keysAt[v]
             /\ \A k \in x.keys : /\ x.expiry <= u.seen[k] + MaxFresh
                                  /\ x.staleUntil <= u.seen[k] + MaxFresh + MaxStale
  <2>1. ~w.misled
    BY <1>2 DEF Later
  <2>2. ASSUME x.have
        PROVE  \E v \in 1..u.rev : v >= x.etag /\ x.keys = u.keysAt[v]
    <3>1. PICK v \in 1..w.rev : v >= x.etag /\ x.keys = w.keysAt[v]
      BY <2>1, <2>2 DEF CacheOK
    <3>2. u.keysAt[v] = w.keysAt[v] /\ v \in 1..u.rev
      BY <1>0 DEF Later
    <3> QED
      BY <3>1, <3>2
  <2>3. ASSUME NEW k \in x.keys
        PROVE  /\ x.expiry <= u.seen[k] + MaxFresh
               /\ x.staleUntil <= u.seen[k] + MaxFresh + MaxStale
    <3>1. /\ x.expiry <= w.seen[k] + MaxFresh
          /\ x.staleUntil <= w.seen[k] + MaxFresh + MaxStale
      BY <2>1 DEF CacheOK
    <3>2. u.seen[k] >= w.seen[k] /\ u.seen[k] \in Nat /\ w.seen[k] \in Nat
      BY <1>0 DEF Later, Worlds
    <3> QED
      BY <1>0, <3>1, <3>2
  <2> QED
    BY <2>2, <2>3
<1> QED
  BY <1>1, <1>2 DEF CacheOK

\* The throttle keeps its facts.
LEMMA ThrottleLater ==
    ASSUME NEW w \in Worlds, NEW u \in Worlds, Later(w, u),
           NEW t \in ThrottleRecords, ThrottleOK(w, t)
    PROVE  ThrottleOK(u, t)
<1>0. /\ w.now \in Nat /\ u.now \in Nat /\ u.now >= w.now /\ t.at \in Nat
      /\ w.outage \in Nat /\ u.outage \in Nat /\ u.outage >= w.outage
      /\ Timeout \in Nat
  BY Numbers DEF Worlds, ThrottleRecords, Later
<1>1. t.at <= u.now
  BY <1>0 DEF ThrottleOK
<1>2. ASSUME t.at # 0, ~t.success
      PROVE  u.outage >= t.at
  BY <1>0, <1>2 DEF ThrottleOK
<1>3. ASSUME t.at # 0, t.success, ~u.misled, NEW k \in Kids \ t.keys
      PROVE  u.missed[k] >= t.at - Timeout
  <2>1. ~w.misled
    BY <1>3 DEF Later
  <2>2. w.missed[k] >= t.at - Timeout
    BY <1>3, <2>1 DEF ThrottleOK
  <2>3. u.missed[k] >= w.missed[k] /\ u.missed[k] \in Nat /\ w.missed[k] \in Nat
    BY DEF Later, Worlds
  <2> QED
    BY <1>0, <2>2, <2>3
<1> QED
  BY <1>1, <1>2, <1>3 DEF ThrottleOK

\* What a caller was told stays true until the clock moves.
LEMMA AnswerLater ==
    ASSUME NEW w \in Worlds, NEW u \in Worlds, Later(w, u), u.now = w.now,
           NEW x \in CallRecords, x.kid \in Kids \/ x.answer = "none",
           AnswerOK(w, x)
    PROVE  AnswerOK(u, x)
<1>0. /\ w.now \in Nat /\ x.since \in Nat /\ w.outage \in Nat /\ u.outage \in Nat
      /\ u.outage >= w.outage /\ (w.misled => u.misled)
      /\ Timeout \in Nat /\ Window \in Nat /\ MaxFresh \in Nat /\ MaxStale \in Nat
  BY Numbers DEF Worlds, CallRecords, Later
<1>1. ASSUME x.kid \in Kids
      PROVE  /\ u.seen[x.kid] >= w.seen[x.kid] /\ u.missed[x.kid] >= w.missed[x.kid]
             /\ u.seen[x.kid] \in Nat /\ w.seen[x.kid] \in Nat
             /\ u.missed[x.kid] \in Nat /\ w.missed[x.kid] \in Nat
  BY <1>1 DEF Later, Worlds
<1>2. x.answer = "none" => AnswerOK(u, x)
  BY DEF AnswerOK
<1>3. ASSUME x.kid \in Kids
      PROVE  AnswerOK(u, x)
  <2>1. x.answer = "keys" =>
          u.misled \/ u.now - u.seen[x.kid] < MaxFresh + MaxStale
    BY <1>0, <1>1, <1>3 DEF AnswerOK
  <2>2. x.answer = "invalid" /\ ~(x.shared /\ x.error = "invalid") =>
          u.misled \/ u.missed[x.kid] >= x.since - Window - Timeout
    BY <1>0, <1>1, <1>3 DEF AnswerOK
  <2>3. x.answer = "unavailable" => u.outage > x.since - Window
    BY <1>0 DEF AnswerOK
  <2> QED
    BY <2>1, <2>2, <2>3 DEF AnswerOK
<1> QED
  BY <1>2, <1>3

\* So does what a caller holds.
LEMMA CallLater ==
    ASSUME NEW w \in Worlds, NEW u \in Worlds, Later(w, u), u.now = w.now,
           NEW l \in Labels, NEW x \in CallRecords, CallOK(w, l, x)
    PROVE  CallOK(u, l, x)
<1>0. /\ w.now \in Nat /\ x.since \in Nat /\ w.outage \in Nat /\ u.outage \in Nat
      /\ u.outage >= w.outage /\ (w.misled => u.misled) /\ x.keys \subseteq Kids
      /\ Timeout \in Nat /\ Window \in Nat /\ MaxFresh \in Nat /\ MaxStale \in Nat
  BY Numbers DEF Worlds, CallRecords, Later
<1>1. /\ x.since <= u.now /\ (l # "idle" => x.kid \in Kids)
      /\ (x.answer # "none" => l = "done") /\ AnswerOK(w, x)
      /\ (l = "got" => GotOK(w, x))
  BY DEF CallOK
<1>2. AnswerOK(u, x)
  BY <1>1, AnswerLater
<1>3. \A k \in Kids : /\ u.seen[k] >= w.seen[k] /\ u.missed[k] >= w.missed[k]
                      /\ u.seen[k] \in Nat /\ w.seen[k] \in Nat
                      /\ u.missed[k] \in Nat /\ w.missed[k] \in Nat
  BY DEF Later, Worlds
<1>4. ASSUME l = "got"
      PROVE  GotOK(u, x)
  <2>0. x.kid \in Kids /\ GotOK(w, x)
    BY <1>1, <1>4
  <2>1. ASSUME x.error = "none", ~u.misled
        PROVE  /\ \A k \in x.keys : u.now - u.seen[k] < MaxFresh + MaxStale
               /\ x.kid \notin x.keys => u.missed[x.kid] >= u.now - Timeout
    <3>1. /\ \A k \in x.keys : w.now - w.seen[k] < MaxFresh + MaxStale
          /\ x.kid \notin x.keys => w.missed[x.kid] >= w.now - Timeout
      BY <1>0, <2>0, <2>1 DEF GotOK
    <3> QED
      BY <1>0, <1>3, <2>0, <3>1
  <2>2. x.error = "unavailable" => u.outage > u.now - Window
    BY <1>0, <2>0 DEF GotOK
  <2>3. x.error = "invalid" /\ ~x.shared =>
          u.misled \/ u.missed[x.kid] >= u.now - Window - Timeout
    BY <1>0, <1>3, <2>0 DEF GotOK
  <2> QED
    BY <2>1, <2>2, <2>3 DEF GotOK
<1> QED
  BY <1>1, <1>2, <1>4 DEF CallOK

\* A call that neither holds a result nor is answered does not mind the time.
LEMMA CallWaits ==
    ASSUME NEW w \in Worlds, NEW u \in Worlds, Later(w, u),
           NEW l \in Labels, NEW x \in CallRecords, CallOK(w, l, x),
           l # "got", l # "done"
    PROVE  CallOK(u, l, x)
<1>1. x.since <= u.now
  BY DEF CallOK, Later, Worlds, CallRecords
<1>2. x.answer = "none" /\ (l # "idle" => x.kid \in Kids)
  BY DEF CallOK
<1> QED
  BY <1>1, <1>2 DEF CallOK, AnswerOK

-----------------------------------------------------------------------------
(* The operators of the model.                                             *)

\* The shapes of an absent call and an absent fetch.
LEMMA NoneFacts ==
    /\ NoCall \in CallRecords
    /\ NoCall.answer = "none" /\ NoCall.since = 0 /\ NoCall.error = "none"
    /\ NoFetch \in FetchRecords
    /\ NoFetch.phase = "idle" /\ ~NoFetch.err
<1>1. NoCall \in CallRecords
  BY DEF NoCall, CallRecords, Answers, Errors
<1>2. NoFetch \in FetchRecords
  BY DEF NoFetch, FetchRecords, Phases
<1> QED
  BY <1>1, <1>2 DEF NoCall, NoFetch

\* A failed fetch.
LEMMA FailedFacts ==
    ASSUME NEW f \in FetchRecords
    PROVE  /\ Failed(f) \in FetchRecords
           /\ Failed(f).phase = "applied" /\ Failed(f).err
           /\ Failed(f).kid = f.kid /\ Failed(f).owner = f.owner
<1>1. Failed(f) \in FetchRecords
  BY DEF Failed, FetchRecords, Phases
<1> QED
  BY <1>1 DEF Failed, FetchRecords

\* The freshness of a response is at most the local ceiling.
LEMMA FreshnessFacts ==
    ASSUME NEW h \in Headers
    PROVE  Freshness(h) \in Int /\ Freshness(h) <= MaxFresh
<1>1. /\ h.sMaxage \in Int /\ h.maxAge \in Int /\ h.expires \in Int /\ h.age \in Nat
      /\ DefaultFresh \in Nat /\ MaxFresh \in Nat
  BY JwksAssumption, Numbers
<1> QED
  BY <1>1 DEF Freshness, Less, Absent

\* What is stored with a response: its deadlines are measured from before the
\* request was sent.
LEMMA StoredFacts ==
    ASSUME NEW K \in SUBSET Kids, NEW version \in Nat, NEW h \in Headers,
           NEW at \in Nat
    PROVE  LET x == Stored(K, version, h, at)
           IN /\ x \in CacheRecords
              /\ x.keys = K /\ x.have /\ x.etag = version
              /\ x.noStore = h.noStore
              /\ x.expiry <= at + MaxFresh
              /\ x.staleUntil <= at + MaxFresh + MaxStale
              /\ x.staleUntil = 0 \/ x.staleUntil > x.expiry
<1> DEFINE fresh == Freshness(h)
           grace == Less(h.staleIfError, MaxStale)
           until == IF NoStale(h) \/ h.staleIfError <= 0 THEN 0
                    ELSE at + fresh + grace
<1>1. fresh \in Int /\ fresh <= MaxFresh
  BY FreshnessFacts
<1>2. h.noStore \in BOOLEAN /\ h.noCache \in BOOLEAN /\ h.staleIfError \in Int
  BY JwksAssumption
<1>3. MaxFresh \in Nat /\ MaxStale \in Nat /\ MaxStale > 0
  BY Numbers
<1> HIDE DEF fresh
<1>4. /\ grace \in Int /\ grace <= MaxStale
      /\ h.staleIfError > 0 => grace > 0
  BY <1>2, <1>3 DEF Less
<1> HIDE DEF grace
<1>5. /\ until \in Int /\ until <= at + MaxFresh + MaxStale
      /\ until = 0 \/ until > at + fresh
  BY <1>1, <1>2, <1>3, <1>4
<1> HIDE DEF until
<1>6. Stored(K, version, h, at) =
         [keys |-> K, have |-> TRUE, noStore |-> h.noStore, noCache |-> h.noCache,
          expiry |-> at + fresh, staleUntil |-> until, etag |-> version,
          header |-> {h}]
  BY DEF Stored, fresh, grace, until
<1>7. Stored(K, version, h, at) \in CacheRecords
  BY <1>1, <1>2, <1>5, <1>6 DEF CacheRecords
<1> QED
  BY <1>1, <1>3, <1>5, <1>6, <1>7

\* The cache after a response that must not be stored.
LEMMA NotStoredFacts ==
    /\ NotStored \in CacheRecords /\ Cold \in CacheRecords
    /\ NotStored.keys = {} /\ Cold.keys = {}
    /\ NotStored.have = FALSE /\ Cold.have = FALSE
    /\ NotStored.etag = 0 /\ Cold.etag = 0
    /\ NotStored.staleUntil = 0 /\ Cold.staleUntil = 0
<1>1. NotStored \in CacheRecords
  BY DEF NotStored, CacheRecords
<1>2. /\ Cold \in CacheRecords /\ Cold.keys = NotStored.keys
      /\ Cold.have = NotStored.have /\ Cold.etag = NotStored.etag
      /\ Cold.staleUntil = NotStored.staleUntil
  BY <1>1 DEF Cold, CacheRecords
<1>3. /\ NotStored.keys = {} /\ NotStored.have = FALSE /\ NotStored.etag = 0
      /\ NotStored.staleUntil = 0
  BY DEF NotStored
<1> QED
  BY <1>1, <1>2, <1>3

\* What the throttle answers, and from what.
LEMMA ThrottledFacts ==
    ASSUME NEW kid, throttle \in ThrottleRecords, now \in Nat
    PROVE  /\ Throttled(kid) \in {"no", "unavailable", "invalid"}
           /\ Throttled(kid) = "unavailable" =>
                 /\ throttle.at # 0 /\ now < throttle.at + Window
                 /\ ~throttle.success
           /\ Throttled(kid) = "invalid" =>
                 /\ throttle.at # 0 /\ now < throttle.at + Window
                 /\ throttle.success /\ kid \notin throttle.keys
<1>0. throttle.at \in Nat /\ Window \in Nat
  BY Numbers DEF ThrottleRecords
<1>1. CASE throttle.at = 0 \/ now >= throttle.at + Window
  BY <1>1 DEF Throttled
<1>2. CASE throttle.at # 0 /\ now < throttle.at + Window /\ ~throttle.success
  <2>1. Throttled(kid) = "unavailable"
    BY <1>0, <1>2 DEF Throttled
  <2> QED
    BY <1>2, <2>1
<1>3. CASE throttle.at # 0 /\ now < throttle.at + Window /\ throttle.success
  <2>1. Throttled(kid) = IF kid \in throttle.keys \/ RevalidationDue THEN "no"
                         ELSE "invalid"
    BY <1>0, <1>3 DEF Throttled
  <2> QED
    BY <1>3, <2>1
<1> QED
  BY <1>0, <1>1, <1>2, <1>3

-----------------------------------------------------------------------------
(* What the invariant says of a lookup and of the throttle.                *)

\* A refusal by the throttle rests on a recent outage or a recent key set.
LEMMA ThrottledMeans ==
    ASSUME Inv, NEW kid \in Kids
    PROVE  /\ Throttled(kid) = "unavailable" => World.outage > World.now - Window
           /\ Throttled(kid) = "invalid" =>
                 \/ World.misled
                 \/ World.missed[kid] >= World.now - Window - Timeout
<1>0. /\ throttle \in ThrottleRecords /\ Clocks /\ ThrottleOK(World, throttle)
      /\ now \in Nat
  BY DEF Inv, Shapes, Clocks
<1>1. /\ World.now = now /\ World.outage \in Nat /\ World.missed[kid] \in Nat
      /\ throttle.at \in Nat /\ Window \in Nat /\ Timeout \in Nat
  BY <1>0, WorldFacts, Numbers DEF Worlds, ThrottleRecords
<1>2. ASSUME Throttled(kid) = "unavailable"
      PROVE  World.outage > World.now - Window
  <2>1. throttle.at # 0 /\ now < throttle.at + Window /\ ~throttle.success
    BY <1>0, <1>2, ThrottledFacts
  <2>2. World.outage >= throttle.at
    BY <1>0, <2>1 DEF ThrottleOK
  <2> QED
    BY <1>0, <1>1, <2>1, <2>2
<1>3. ASSUME Throttled(kid) = "invalid", ~World.misled
      PROVE  World.missed[kid] >= World.now - Window - Timeout
  <2>1. /\ throttle.at # 0 /\ now < throttle.at + Window
        /\ throttle.success /\ kid \in Kids \ throttle.keys
    BY <1>0, <1>3, ThrottledFacts
  <2>2. World.missed[kid] >= throttle.at - Timeout
    BY <1>0, <1>3, <2>1 DEF ThrottleOK
  <2> QED
    BY <1>0, <1>1, <2>1, <2>2
<1> QED
  BY <1>2, <1>3

\* The keys of a live cache are recent.
LEMMA HitMeans ==
    ASSUME Inv, NEW kid
    PROVE  /\ Hit(kid) => /\ cache.have /\ ~cache.noCache /\ ~cache.noStore
                          /\ World.now < cache.expiry /\ kid \in cache.keys
           /\ ~Hit(kid) => HitIsFresh(World, cache, kid)
           /\ Hit(kid) =>
                 \/ World.misled
                 \/ \A k \in cache.keys :
                       World.now - World.seen[k] < MaxFresh + MaxStale
<1>0. Clocks /\ cache \in CacheRecords /\ CacheOK(World, cache)
  BY DEF Inv, Shapes
<1>1. /\ World.now = now /\ now \in Nat /\ cache.expiry \in Int
      /\ MaxFresh \in Nat /\ MaxStale \in Nat /\ MaxStale > 0
      /\ cache.keys \subseteq Kids /\ \A k \in Kids : World.seen[k] \in Nat
  BY <1>0, WorldFacts, Numbers DEF Worlds, CacheRecords, Clocks
<1>2. Hit(kid) <=> /\ cache.have /\ ~cache.noCache /\ ~cache.noStore
                   /\ World.now < cache.expiry /\ kid \in cache.keys
  BY <1>1 DEF Hit, RevalidationRequired
<1>3. ~Hit(kid) => HitIsFresh(World, cache, kid)
  BY <1>2 DEF HitIsFresh
<1>4. ASSUME Hit(kid), ~World.misled, NEW k \in cache.keys
      PROVE  World.now - World.seen[k] < MaxFresh + MaxStale
  <2>1. cache.expiry <= World.seen[k] + MaxFresh
    BY <1>0, <1>4 DEF CacheOK
  <2> QED
    BY <1>1, <1>2, <1>4, <2>1
<1> QED
  BY <1>2, <1>3, <1>4

\* The same of a stale answer.
LEMMA StaleMeans ==
    ASSUME Inv, NEW kid \in Kids, StaleAnswer(kid)
    PROVE  World.misled \/ World.now - World.seen[kid] < MaxFresh + MaxStale
<1>0. Clocks /\ cache \in CacheRecords /\ CacheOK(World, cache)
  BY DEF Inv, Shapes
<1>1. /\ World.now = now /\ now \in Nat /\ cache.staleUntil \in Int
      /\ MaxFresh \in Nat /\ MaxStale \in Nat /\ World.seen[kid] \in Nat
  BY <1>0, WorldFacts, Numbers DEF Worlds, CacheRecords, Clocks
<1>2. now < cache.staleUntil /\ kid \in cache.keys
  BY DEF StaleAnswer, StaleAllowed
<1> SUFFICES ASSUME ~World.misled
             PROVE  World.now - World.seen[kid] < MaxFresh + MaxStale
  OBVIOUS
<1>3. cache.staleUntil <= World.seen[kid] + MaxFresh + MaxStale
  BY <1>0, <1>2 DEF CacheOK
<1> QED
  BY <1>1, <1>2, <1>3

\* What a fetch leaves in the throttle.
LEMMA RecordedFacts ==
    ASSUME Inv, NEW i \in Callers \cup {Shared}, fetch[i].phase = "applied"
    PROVE  /\ Recorded(fetch[i]) \in ThrottleRecords
           /\ ThrottleOK(World, Recorded(fetch[i]))
<1> DEFINE f == fetch[i]
           r == [at |-> now, expiry |-> cache.expiry,
                 keys |-> IF f.err THEN {} ELSE f.keys, success |-> ~f.err]
<1>0. /\ throttle \in ThrottleRecords /\ Clocks /\ ThrottleOK(World, throttle)
      /\ f \in FetchRecords /\ FetchOK(World, f) /\ cache \in CacheRecords
  BY DEF Inv, Shapes
<1>1. /\ World.now = now /\ now \in Nat /\ cache.expiry \in Int
      /\ f.keys \in SUBSET Kids /\ f.err \in BOOLEAN
  BY <1>0, WorldFacts DEF FetchRecords, CacheRecords, Clocks
<1> HIDE DEF f
<1>2. r \in ThrottleRecords
  BY <1>1 DEF ThrottleRecords
<1>3. CASE f.err
  <2>1. World.outage >= World.now
    BY <1>0, <1>3 DEF FetchOK, f
  <2>2. r.at = World.now /\ r.success = FALSE
    BY <1>1, <1>3
  <2>3. ThrottleOK(World, r)
    BY <1>1, <2>1, <2>2 DEF ThrottleOK
  <2> QED
    BY <1>0, <1>2, <2>3 DEF Recorded, f
<1>4. CASE ~f.err
  <2>1. World.misled \/ Witnessed(World, f.keys, World.now - Timeout)
    BY <1>0, <1>4 DEF FetchOK, f
  <2>2. r.at = World.now /\ r.success = TRUE /\ r.keys = f.keys
    BY <1>1, <1>4
  <2>3. ThrottleOK(World, r)
    BY <1>1, <2>1, <2>2 DEF ThrottleOK, Witnessed
  <2> QED
    BY <1>0, <1>2, <2>3 DEF Recorded, f
<1> QED
  BY <1>3, <1>4

-----------------------------------------------------------------------------
(* Frames: what a step leaves alone.                                       *)

\* A step of a caller or of the bookkeeping leaves the world as it is.
LEMMA SameWorld ==
    ASSUME Clocks, UNCHANGED <<now, issuer, misled, failedAt>>
    PROVE  World' = World /\ Clocks'
BY DEF World, Clocks, issuer, Seen, Missed, Published, Outage

\* In the same or a later world of the same time everything that the step
\* left alone keeps its facts.
LEMMA Carried ==
    ASSUME Inv, NEW u \in Worlds, Later(World, u), u.now = World.now
    PROVE  /\ \A i \in Callers \cup {Shared} : FetchOK(u, fetch[i])
           /\ CacheOK(u, cache)
           /\ ThrottleOK(u, throttle)
           /\ \A c \in Callers : CallOK(u, pc[c], call[c])
           /\ \A kid : HitIsFresh(World, cache, kid) => HitIsFresh(u, cache, kid)
<1>0. /\ World \in Worlds /\ cache \in CacheRecords /\ throttle \in ThrottleRecords
      /\ fetch \in [Callers \cup {Shared} -> FetchRecords]
      /\ pc \in [Callers -> Labels] /\ call \in [Callers -> CallRecords]
      /\ Timeout \in Nat /\ World.now \in Nat
  BY WorldFacts, Numbers DEF Inv, Shapes, Worlds
<1>1. ASSUME NEW i \in Callers \cup {Shared} PROVE FetchOK(u, fetch[i])
  <2>1. FetchOK(World, fetch[i]) /\ fetch[i] \in FetchRecords
    BY <1>0 DEF Inv
  <2> QED
    BY <1>0, <2>1, FetchLater
<1>2. CacheOK(u, cache)
  BY <1>0, CacheLater DEF Inv
<1>3. ThrottleOK(u, throttle)
  BY <1>0, ThrottleLater DEF Inv
<1>4. ASSUME NEW c \in Callers PROVE CallOK(u, pc[c], call[c])
  <2>1. CallOK(World, pc[c], call[c]) /\ pc[c] \in Labels /\ call[c] \in CallRecords
    BY <1>0 DEF Inv
  <2> QED
    BY <1>0, <2>1, CallLater
<1>5. ASSUME NEW kid, HitIsFresh(World, cache, kid) PROVE HitIsFresh(u, cache, kid)
  <2>1. World.misled => u.misled
    BY DEF Later
  <2>2. Witnessed(World, cache.keys, World.now - Timeout) =>
           Witnessed(u, cache.keys, u.now - Timeout)
    BY <1>0, WitnessedLater
  <2> QED
    BY <1>5, <2>1, <2>2 DEF HitIsFresh
<1> QED
  BY <1>1, <1>2, <1>3, <1>4, <1>5

\* An answer ends one call and leaves the others alone.
LEMMA AnswerFacts ==
    ASSUME Shapes, NEW c \in Callers, NEW a \in Answers, Answer(c, a)
    PROVE  /\ pc' \in [Callers -> Labels] /\ call' \in [Callers -> CallRecords]
           /\ pc'[c] = "done" /\ call'[c].answer = a
           /\ call'[c].kid = call[c].kid /\ call'[c].since = call[c].since
           /\ call'[c].shared = call[c].shared /\ call'[c].error = call[c].error
           /\ \A d \in Callers \ {c} : pc'[d] = pc[d] /\ call'[d] = call[d]
<1> DEFINE x == [NoCall EXCEPT !.kid = call[c].kid,
                  !.since = call[c].since, !.known = call[c].known, !.answer = a,
                  !.shared = call[c].shared, !.error = call[c].error]
<1>1. pc' = [pc EXCEPT ![c] = "done"] /\ call' = [call EXCEPT ![c] = x]
  BY DEF Answer, Goto
<1>2. call[c] \in CallRecords /\ pc \in [Callers -> Labels]
      /\ call \in [Callers -> CallRecords]
  BY DEF Shapes
<1>3. NoCall \in CallRecords
  BY NoneFacts
<1>4. /\ x \in CallRecords /\ x.answer = a /\ x.kid = call[c].kid
      /\ x.since = call[c].since /\ x.shared = call[c].shared
      /\ x.error = call[c].error
  BY <1>2, <1>3 DEF CallRecords
<1> HIDE DEF x
<1>5. "done" \in Labels
  BY DEF Labels
<1> QED
  BY <1>1, <1>2, <1>4, <1>5

\* A true answer keeps the facts of all calls.
LEMMA AnswerKeeps ==
    ASSUME Inv, NEW c \in Callers, NEW a \in Answers, Answer(c, a),
           World' = World, pc[c] # "idle",
           a = "keys" => \/ World.misled
                         \/ World.now - World.seen[call[c].kid] < MaxFresh + MaxStale,
           a = "invalid" /\ ~(call[c].shared /\ call[c].error = "invalid") =>
              \/ World.misled
              \/ World.missed[call[c].kid] >= World.now - Window - Timeout,
           a = "unavailable" => World.outage > World.now - Window
    PROVE  \A d \in Callers : CallOK(World', pc'[d], call'[d])
<1>0. /\ World.now \in Nat /\ World.outage \in Nat /\ Window \in Nat /\ Timeout \in Nat
      /\ call[c].since \in Nat /\ CallOK(World, pc[c], call[c]) /\ Shapes
  BY WorldFacts, Numbers DEF Inv, Worlds, Shapes, CallRecords
<1>1. call[c].kid \in Kids /\ call[c].since <= World.now
  BY <1>0 DEF CallOK
<1>2. World.missed[call[c].kid] \in Nat
  BY <1>1, WorldFacts DEF Inv, Worlds
<1>3. /\ pc'[c] = "done" /\ call'[c].answer = a
      /\ call'[c].kid = call[c].kid /\ call'[c].since = call[c].since
      /\ call'[c].shared = call[c].shared /\ call'[c].error = call[c].error
  BY <1>0, AnswerFacts
<1>4. AnswerOK(World, call'[c])
  <2>1. call'[c].answer = "keys" =>
          \/ World.misled
          \/ World.now - World.seen[call'[c].kid] < MaxFresh + MaxStale
    BY <1>3
  <2>2. call'[c].answer = "invalid" /\ ~(call'[c].shared /\ call'[c].error = "invalid") =>
          \/ World.misled
          \/ World.missed[call'[c].kid] >= call'[c].since - Window - Timeout
    BY <1>0, <1>1, <1>2, <1>3
  <2>3. call'[c].answer = "unavailable" => World.outage > call'[c].since - Window
    BY <1>0, <1>1, <1>3
  <2> QED
    BY <2>1, <2>2, <2>3 DEF AnswerOK
<1>5. CallOK(World, pc'[c], call'[c])
  BY <1>1, <1>3, <1>4 DEF CallOK
<1>6. \A d \in Callers \ {c} : pc'[d] = pc[d] /\ call'[d] = call[d]
  BY <1>0, AnswerFacts
<1>7. \A d \in Callers \ {c} : CallOK(World, pc'[d], call'[d])
  BY <1>6 DEF Inv
<1> QED
  BY <1>5, <1>7

-----------------------------------------------------------------------------
(* Callers.                                                                *)

\* A step of one caller that touches nothing shared, and that was not waiting.
LEMMA OneCall ==
    ASSUME Inv, NEW c \in Callers,
           UNCHANGED <<now, issuer, misled, failedAt, cache, throttle, fetch, known>>,
           pc' \in [Callers -> Labels], call' \in [Callers -> CallRecords],
           \A d \in Callers \ {c} : pc'[d] = pc[d] /\ call'[d] = call[d],
           \A d \in Callers : CallOK(World, pc'[d], call'[d]),
           pc[c] # "wait", pc'[c] \in {"done", "join"},
           pc'[c] = "join" => HitIsFresh(World, cache, call'[c].kid)
    PROVE  Inv'
<1>1. World' = World /\ Clocks'
  BY SameWorld DEF Inv
<1>2. Shapes'
  BY DEF Inv, Shapes, issuer
<1>3. Waiting'
  <2>1. Waiting
    BY DEF Inv
  <2> QED
    BY <2>1 DEF Waiting
<1>4. Lookups'
  <2>1. Lookups
    BY DEF Inv
  <2>2. ASSUME NEW d \in Callers, pc'[d] = "join"
        PROVE  HitIsFresh(World', cache', call'[d].kid)
    <3>1. CASE d = c
      BY <1>1, <2>2, <3>1
    <3>2. CASE d # c
      <4>1. pc[d] = "join" /\ call'[d] = call[d]
        BY <2>2, <3>2
      <4> QED
        BY <1>1, <2>1, <4>1 DEF Lookups
    <3> QED
      BY <3>1, <3>2
  <2>3. fetch'[Shared].phase = "start" => HitIsFresh(World', cache', fetch'[Shared].kid)
    BY <1>1, <2>1 DEF Lookups
  <2> QED
    BY <2>2, <2>3 DEF Lookups
<1>5. \A d \in Callers : CallOK(World', pc'[d], call'[d])
  BY <1>1
<1>6. /\ \A i \in Callers \cup {Shared} : FetchOK(World', fetch'[i])
      /\ CacheOK(World', cache') /\ ThrottleOK(World', throttle')
  BY <1>1 DEF Inv
<1> QED
  BY <1>1, <1>2, <1>3, <1>4, <1>5, <1>6 DEF Inv

\* keysForKID up to the shared fetch.
LEMMA BeginKeeps ==
    ASSUME Inv, NEW c \in Callers, NEW kid \in Kids, Begin(c, kid)
    PROVE  Inv'
<1> DEFINE begun == [NoCall EXCEPT !.kid = kid, !.since = now, !.known = known]
<1>0. /\ Clocks /\ Shapes /\ World.now = now /\ now \in Nat /\ known \in Nat
      /\ World.outage \in Nat /\ Window \in Nat /\ Timeout \in Nat
      /\ throttle \in ThrottleRecords
  <2>1. Clocks /\ Shapes
    BY DEF Inv
  <2>2. now \in Nat /\ known \in Nat /\ throttle \in ThrottleRecords
    BY <2>1, Numbers DEF Clocks, Shapes
  <2> QED
    BY <2>1, <2>2, WorldFacts, Numbers DEF Worlds
<1>1. /\ begun \in CallRecords /\ begun.kid = kid /\ begun.since = now
      /\ begun.answer = "none" /\ begun.error = "none"
  <2>1. NoCall \in CallRecords /\ NoCall.answer = "none" /\ NoCall.error = "none"
    BY NoneFacts
  <2> QED
    BY <1>0, <2>1 DEF CallRecords
<1>2. pc[c] \in {"idle", "done"}
      /\ UNCHANGED <<now, issuer, misled, failedAt, cache, throttle, fetch, known>>
  BY DEF Begin
<1>3. \E a \in Answers, l \in {"done", "join"} :
         /\ pc' = [pc EXCEPT ![c] = l]
         /\ call' = [call EXCEPT ![c] = [begun EXCEPT !.answer = a]]
         /\ l = "join" => a = "none" /\ ~Hit(kid)
         /\ l = "done" => \/ a = "keys" /\ Hit(kid)
                          \/ /\ a \in {"unavailable", "invalid"}
                             /\ a = Throttled(kid)
  <2>1. CASE Hit(kid)
    <3>1. /\ pc' = [pc EXCEPT ![c] = "done"]
          /\ call' = [call EXCEPT ![c] = [begun EXCEPT !.answer = "keys"]]
      BY <2>1 DEF Begin, Goto
    <3> QED
      BY <2>1, <3>1 DEF Answers
  <2>2. CASE ~Hit(kid) /\ kid \notin cache.keys /\ Throttled(kid) # "no"
    <3>1. /\ pc' = [pc EXCEPT ![c] = "done"]
          /\ call' = [call EXCEPT ![c] = [begun EXCEPT !.answer = Throttled(kid)]]
      BY <2>2 DEF Begin, Goto
    <3>2. Throttled(kid) \in {"unavailable", "invalid"}
      BY <1>0, <2>2, ThrottledFacts
    <3> QED
      BY <3>1, <3>2 DEF Answers
  <2>3. CASE ~Hit(kid) /\ ~(kid \notin cache.keys /\ Throttled(kid) # "no")
    <3>1. /\ pc' = [pc EXCEPT ![c] = "join"]
          /\ call' = [call EXCEPT ![c] = begun]
      BY <2>3 DEF Begin, Goto
    <3>2. begun = [begun EXCEPT !.answer = "none"]
      BY <1>1 DEF CallRecords
    <3> QED
      BY <2>3, <3>1, <3>2 DEF Answers
  <2> QED
    BY <2>1, <2>2, <2>3
<1> HIDE DEF begun
<1>4. PICK a \in Answers, l \in {"done", "join"} :
         /\ pc' = [pc EXCEPT ![c] = l]
         /\ call' = [call EXCEPT ![c] = [begun EXCEPT !.answer = a]]
         /\ l = "join" => a = "none" /\ ~Hit(kid)
         /\ l = "done" => \/ a = "keys" /\ Hit(kid)
                          \/ /\ a \in {"unavailable", "invalid"}
                             /\ a = Throttled(kid)
  BY <1>3
<1> DEFINE x == [begun EXCEPT !.answer = a]
<1>5. /\ x \in CallRecords /\ x.kid = kid /\ x.since = now /\ x.answer = a
      /\ x.error = "none"
  BY <1>1 DEF CallRecords
<1> HIDE DEF x
<1>6. /\ pc' \in [Callers -> Labels] /\ call' \in [Callers -> CallRecords]
      /\ pc'[c] = l /\ call'[c] = x
      /\ \A d \in Callers \ {c} : pc'[d] = pc[d] /\ call'[d] = call[d]
  BY <1>0, <1>4, <1>5 DEF Shapes, Labels, x
<1>7. AnswerOK(World, x)
  <2>0. World.missed[kid] \in Nat /\ World.now \in Nat
    BY WorldFacts DEF Inv, Worlds
  <2>1. ASSUME a = "keys", ~World.misled
        PROVE  World.now - World.seen[kid] < MaxFresh + MaxStale
    <3>1. Hit(kid)
      BY <1>4, <2>1
    <3>2. kid \in cache.keys
      BY <3>1, HitMeans
    <3> QED
      BY <2>1, <3>1, <3>2, HitMeans
  <2>2. ASSUME a = "invalid", ~World.misled
        PROVE  World.missed[kid] >= now - Window - Timeout
    <3>1. Throttled(kid) = "invalid"
      BY <1>4, <2>2
    <3> QED
      BY <1>0, <2>2, <3>1, ThrottledMeans
  <2>3. ASSUME a = "unavailable"
        PROVE  World.outage > now - Window
    <3>1. Throttled(kid) = "unavailable"
      BY <1>4, <2>3
    <3> QED
      BY <1>0, <3>1, ThrottledMeans
  <2> QED
    BY <1>5, <2>1, <2>2, <2>3 DEF AnswerOK
<1>8. CallOK(World, l, x)
  BY <1>0, <1>4, <1>5, <1>7 DEF CallOK
<1>9. \A d \in Callers : CallOK(World, pc'[d], call'[d])
  BY <1>6, <1>8 DEF Inv
<1>10. pc'[c] = "join" => HitIsFresh(World, cache, call'[c].kid)
  BY <1>4, <1>5, <1>6, HitMeans
<1> QED
  BY <1>2, <1>4, <1>6, <1>9, <1>10, OneCall

\* What a caller that holds a result knows.
LEMMA GotFacts ==
    ASSUME Inv, NEW c \in Callers, pc[c] = "got"
    PROVE  /\ Clocks /\ Shapes /\ GotOK(World, call[c])
           /\ call[c].kid \in Kids /\ call[c].keys \subseteq Kids
           /\ call[c].error \in Errors
           /\ World.now \in Nat /\ World.missed[call[c].kid] \in Nat
           /\ Window \in Nat /\ Timeout \in Nat
<1>1. Clocks /\ Shapes /\ CallOK(World, pc[c], call[c])
  BY DEF Inv
<1>2. call[c] \in CallRecords
  BY <1>1 DEF Shapes
<1>3. GotOK(World, call[c]) /\ call[c].kid \in Kids
  BY <1>1 DEF CallOK
<1> QED
  BY <1>1, <1>2, <1>3, WorldFacts, Numbers DEF CallRecords, Worlds

\* The shared fetch failed: a stale answer, if one is allowed.
LEMMA GotErrorKeeps ==
    ASSUME Inv, NEW c \in Callers, GotError(c)
    PROVE  Inv'
<1> DEFINE a == CASE call[c].error = "invalid" -> "invalid"
                  [] call[c].error # "invalid" /\ StaleAnswer(call[c].kid) -> "keys"
                  [] OTHER -> "unavailable"
<1>1. pc[c] = "got" /\ call[c].error # "none" /\ Answer(c, a)
      /\ UNCHANGED <<now, issuer, misled, failedAt, cache, throttle, fetch, known>>
  BY DEF GotError
<1>2. /\ Clocks /\ Shapes /\ GotOK(World, call[c])
      /\ call[c].kid \in Kids /\ call[c].error \in {"invalid", "unavailable"}
      /\ World' = World
  BY <1>1, GotFacts, SameWorld DEF Errors
<1>3. /\ a \in Answers
      /\ a = "invalid" => call[c].error = "invalid"
      /\ a = "keys" => StaleAnswer(call[c].kid)
      /\ a = "unavailable" => call[c].error = "unavailable"
  BY <1>2 DEF Answers
<1> HIDE DEF a
<1>4. a = "keys" => \/ World.misled
                    \/ World.now - World.seen[call[c].kid] < MaxFresh + MaxStale
  BY <1>2, <1>3, StaleMeans
<1>5. a = "invalid" /\ ~(call[c].shared /\ call[c].error = "invalid") =>
         \/ World.misled
         \/ World.missed[call[c].kid] >= World.now - Window - Timeout
  BY <1>2, <1>3 DEF GotOK
<1>6. a = "unavailable" => World.outage > World.now - Window
  BY <1>2, <1>3 DEF GotOK
<1>7. \A d \in Callers : CallOK(World, pc'[d], call'[d])
  BY <1>1, <1>2, <1>3, <1>4, <1>5, <1>6, AnswerKeeps
<1>8. /\ pc' \in [Callers -> Labels] /\ call' \in [Callers -> CallRecords]
      /\ pc'[c] = "done"
      /\ \A d \in Callers \ {c} : pc'[d] = pc[d] /\ call'[d] = call[d]
  BY <1>1, <1>2, <1>3, AnswerFacts
<1> QED
  BY <1>1, <1>7, <1>8, OneCall

\* The shared fetch brought keys this caller may use.
LEMMA GotKeysKeeps ==
    ASSUME Inv, NEW c \in Callers, GotKeys(c)
    PROVE  Inv'
<1> DEFINE a == IF call[c].kid \in call[c].keys THEN "keys" ELSE "invalid"
<1>1. pc[c] = "got" /\ call[c].error = "none" /\ Answer(c, a)
      /\ UNCHANGED <<now, issuer, misled, failedAt, cache, throttle, fetch, known>>
  BY DEF GotKeys
<1>2. /\ Clocks /\ Shapes /\ GotOK(World, call[c])
      /\ call[c].kid \in Kids /\ World' = World
      /\ World.now \in Nat /\ World.missed[call[c].kid] \in Nat
      /\ Window \in Nat /\ Timeout \in Nat
  BY <1>1, GotFacts, SameWorld
<1>3. /\ a \in Answers /\ a # "unavailable"
      /\ a = "invalid" => call[c].kid \notin call[c].keys
      /\ a = "keys" => call[c].kid \in call[c].keys
  BY DEF Answers
<1> HIDE DEF a
<1>4. a = "keys" => \/ World.misled
                    \/ World.now - World.seen[call[c].kid] < MaxFresh + MaxStale
  BY <1>1, <1>2, <1>3 DEF GotOK
<1>5. a = "invalid" /\ ~(call[c].shared /\ call[c].error = "invalid") =>
         \/ World.misled
         \/ World.missed[call[c].kid] >= World.now - Window - Timeout
  <2>1. a = "invalid" => World.misled \/ World.missed[call[c].kid] >= World.now - Timeout
    BY <1>1, <1>2, <1>3 DEF GotOK
  <2> QED
    BY <1>2, <2>1
<1>7. \A d \in Callers : CallOK(World, pc'[d], call'[d])
  BY <1>1, <1>2, <1>3, <1>4, <1>5, AnswerKeeps
<1>8. /\ pc' \in [Callers -> Labels] /\ call' \in [Callers -> CallRecords]
      /\ pc'[c] = "done"
      /\ \A d \in Callers \ {c} : pc'[d] = pc[d] /\ call'[d] = call[d]
  BY <1>1, <1>2, <1>3, AnswerFacts
<1> QED
  BY <1>1, <1>7, <1>8, OneCall

\* The keys were not to be stored: refused by the throttle, or a direct fetch.
LEMMA GotUnshareableKeeps ==
    ASSUME Inv, NEW c \in Callers, GotUnshareable(c)
    PROVE  Inv'
<1>1. pc[c] = "got" /\ call[c].error = "none" /\ fetch[c].phase = "idle"
      /\ UNCHANGED <<now, issuer, misled, failedAt, cache, throttle, known>>
  BY DEF GotUnshareable
<1>2. /\ Clocks /\ Shapes /\ call[c].kid \in Kids /\ World' = World /\ Clocks'
      /\ now \in Nat /\ throttle \in ThrottleRecords
  BY <1>1, GotFacts, SameWorld DEF Clocks, Shapes
<1>3. CASE call[c].unknown /\ Throttled(call[c].kid) # "no"
  <2> DEFINE a == Throttled(call[c].kid)
  <2>1. Answer(c, a) /\ UNCHANGED fetch
    BY <1>3 DEF GotUnshareable
  <2>2. a \in {"invalid", "unavailable"} /\ a \in Answers
    BY <1>2, <1>3, ThrottledFacts DEF Answers
  <2>3. /\ a = "invalid" =>
             \/ World.misled
             \/ World.missed[call[c].kid] >= World.now - Window - Timeout
        /\ a = "unavailable" => World.outage > World.now - Window
    BY <1>2, ThrottledMeans
  <2> HIDE DEF a
  <2>4. \A d \in Callers : CallOK(World, pc'[d], call'[d])
    BY <1>1, <1>2, <2>1, <2>2, <2>3, AnswerKeeps
  <2>5. /\ pc' \in [Callers -> Labels] /\ call' \in [Callers -> CallRecords]
        /\ pc'[c] = "done"
        /\ \A d \in Callers \ {c} : pc'[d] = pc[d] /\ call'[d] = call[d]
    BY <1>2, <2>1, <2>2, AnswerFacts
  <2> QED
    BY <1>1, <2>1, <2>4, <2>5, OneCall
<1>4. CASE ~(call[c].unknown /\ Throttled(call[c].kid) # "no")
  <2> DEFINE f == [NoFetch EXCEPT !.phase = "sent", !.kid = call[c].kid,
                    !.owner = c, !.at = now, !.unknown = call[c].unknown,
                    !.prior = call[c].prior]
  <2>1. /\ pc' = [pc EXCEPT ![c] = "direct"] /\ call' = call
        /\ fetch' = [fetch EXCEPT ![c] = f]
    BY <1>4 DEF GotUnshareable, Goto
  <2>2. f \in FetchRecords /\ f.phase = "sent" /\ f.kid = call[c].kid /\ f.at = now
        /\ ~f.err
    <3>1. call[c] \in CallRecords /\ NoFetch \in FetchRecords /\ ~NoFetch.err
      BY <1>2, NoneFacts DEF Shapes
    <3> QED
      BY <1>2, <3>1 DEF FetchRecords, CallRecords, Phases
  <2> HIDE DEF f
  <2>3. /\ fetch'[c] = f /\ pc'[c] = "direct" /\ fetch'[Shared] = fetch[Shared]
        /\ \A i \in (Callers \cup {Shared}) \ {c} : fetch'[i] = fetch[i]
        /\ \A d \in Callers \ {c} : pc'[d] = pc[d]
    BY <1>2, <2>1, JwksAssumption DEF Shapes
  <2>4. Shapes'
    BY <1>1, <1>2, <2>1, <2>2 DEF Shapes, Labels, issuer
  <2>5. FetchOK(World, f)
    BY <1>2, <2>2, WorldFacts DEF FetchOK
  <2>6. \A i \in Callers \cup {Shared} : FetchOK(World', fetch'[i])
    BY <1>2, <2>3, <2>5 DEF Inv
  <2>7. CallOK(World, "direct", call[c])
    <3>1. CallOK(World, "got", call[c])
      BY <1>1 DEF Inv
    <3> QED
      BY <3>1 DEF CallOK
  <2>8. \A d \in Callers : CallOK(World', pc'[d], call'[d])
    BY <1>2, <2>1, <2>3, <2>7 DEF Inv
  <2>9. Waiting'
    <3>1. Waiting
      BY DEF Inv
    <3> QED
      BY <1>1, <2>1, <2>2, <2>3, <3>1 DEF Waiting
  <2>10. Lookups'
    <3>1. Lookups
      BY DEF Inv
    <3> QED
      BY <1>1, <1>2, <2>1, <2>3, <3>1 DEF Lookups
  <2>11. CacheOK(World', cache') /\ ThrottleOK(World', throttle')
    BY <1>1, <1>2 DEF Inv
  <2> QED
    BY <1>2, <2>4, <2>6, <2>8, <2>9, <2>10, <2>11 DEF Inv
<1> QED
  BY <1>3, <1>4

\* singleflight: lead a fetch or wait for the one under way.
LEMMA JoinKeeps ==
    ASSUME Inv, NEW c \in Callers, Join(c)
    PROVE  Inv'
<1> DEFINE f == [NoFetch EXCEPT !.phase = "start", !.kid = call[c].kid, !.owner = c]
<1>1. /\ pc[c] = "join" /\ pc' = [pc EXCEPT ![c] = "wait"] /\ call' = call
      /\ fetch' = IF fetch[Shared].phase # "idle" THEN fetch
                  ELSE [fetch EXCEPT ![Shared] = f]
      /\ UNCHANGED <<now, issuer, misled, failedAt, cache, throttle, known>>
  BY DEF Join, Goto
<1>2. /\ Clocks /\ Shapes /\ World' = World /\ Clocks' /\ Waiting /\ Lookups
      /\ CallOK(World, "join", call[c])
  BY <1>1, SameWorld DEF Inv
<1>3. /\ f \in FetchRecords /\ f.phase = "start" /\ f.kid = call[c].kid
      /\ f.owner = c /\ ~f.err
  <2>1. call[c] \in CallRecords /\ NoFetch \in FetchRecords /\ ~NoFetch.err
    BY <1>2, NoneFacts DEF Shapes
  <2> QED
    BY <2>1 DEF FetchRecords, CallRecords, Phases
<1> HIDE DEF f
<1>4. /\ pc'[c] = "wait" /\ \A d \in Callers \ {c} : pc'[d] = pc[d]
      /\ \A d \in Callers : fetch'[d] = fetch[d]
      /\ fetch'[Shared] = IF fetch[Shared].phase # "idle" THEN fetch[Shared] ELSE f
      /\ \A i \in Callers \cup {Shared} : fetch'[i] = fetch[i] \/ fetch'[i] = f
  BY <1>1, <1>2, JwksAssumption DEF Shapes
<1>5. Shapes'
  BY <1>1, <1>2, <1>3 DEF Shapes, Labels, issuer
<1>6. \A i \in Callers \cup {Shared} : FetchOK(World', fetch'[i])
  <2>1. FetchOK(World, f)
    BY <1>3 DEF FetchOK
  <2> QED
    BY <1>2, <1>4, <2>1 DEF Inv
<1>7. \A d \in Callers : CallOK(World', pc'[d], call'[d])
  <2>1. CallOK(World, "wait", call[c])
    BY <1>2 DEF CallOK
  <2> QED
    BY <1>1, <1>2, <1>4, <2>1 DEF Inv
<1>8. Waiting'
  <2>1. CASE fetch[Shared].phase # "idle"
    BY <1>1, <1>2, <1>4, <2>1 DEF Waiting
  <2>2. CASE fetch[Shared].phase = "idle"
    <3>1. fetch'[Shared] = f
      BY <1>4, <2>2
    <3> QED
      BY <1>1, <1>2, <1>3, <1>4, <3>1 DEF Waiting
  <2> QED
    BY <2>1, <2>2
<1>9. Lookups'
  <2>1. HitIsFresh(World, cache, call[c].kid)
    BY <1>1, <1>2 DEF Lookups
  <2>2. fetch'[Shared].phase = "start" => HitIsFresh(World, cache, fetch'[Shared].kid)
    BY <1>2, <1>3, <1>4, <2>1 DEF Lookups
  <2>3. ASSUME NEW d \in Callers, pc'[d] = "join"
        PROVE  HitIsFresh(World, cache, call'[d].kid)
    <3>1. d # c /\ pc[d] = "join" /\ call'[d] = call[d]
      BY <1>1, <1>4, <2>3
    <3> QED
      BY <1>2, <3>1 DEF Lookups
  <2> QED
    BY <1>1, <1>2, <2>2, <2>3 DEF Lookups
<1>10. CacheOK(World', cache') /\ ThrottleOK(World', throttle')
  BY <1>1, <1>2 DEF Inv
<1> QED
  BY <1>2, <1>5, <1>6, <1>7, <1>8, <1>9, <1>10 DEF Inv

\* A caller goes away; the fetch goes on without an owner.
LEMMA CancelKeeps ==
    ASSUME Inv, NEW c \in Callers, Cancel(c)
    PROVE  Inv'
<1>1. /\ pc[c] \in {"wait", "direct"} /\ Answer(c, "cancelled")
      /\ fetch' = IF fetch[Shared].owner = c
                  THEN [fetch EXCEPT ![Shared].owner = Shared] ELSE fetch
      /\ UNCHANGED <<now, issuer, misled, failedAt, cache, throttle, known>>
  BY DEF Cancel
<1>2. /\ Clocks /\ Shapes /\ World' = World /\ Clocks' /\ Waiting /\ Lookups
      /\ "cancelled" \in Answers
  BY <1>1, SameWorld DEF Inv, Answers
<1>3. /\ pc' \in [Callers -> Labels] /\ call' \in [Callers -> CallRecords]
      /\ pc'[c] = "done" /\ call'[c].kid = call[c].kid
      /\ \A d \in Callers \ {c} : pc'[d] = pc[d] /\ call'[d] = call[d]
  BY <1>1, <1>2, AnswerFacts
<1>4. \A d \in Callers : CallOK(World', pc'[d], call'[d])
  BY <1>1, <1>2, AnswerKeeps
<1> DEFINE g == [fetch[Shared] EXCEPT !.owner = Shared]
<1>5. /\ g \in FetchRecords /\ g.phase = fetch[Shared].phase
      /\ g.kid = fetch[Shared].kid /\ g.owner = Shared /\ g.at = fetch[Shared].at
      /\ g.version = fetch[Shared].version /\ g.err = fetch[Shared].err
      /\ g.keys = fetch[Shared].keys
  <2>1. fetch[Shared] \in FetchRecords
    BY <1>2 DEF Shapes
  <2> QED
    BY <2>1 DEF FetchRecords
<1> HIDE DEF g
<1>6. /\ \A d \in Callers : fetch'[d] = fetch[d]
      /\ \/ fetch'[Shared] = fetch[Shared] /\ fetch[Shared].owner # c
         \/ fetch'[Shared] = g
      /\ fetch' \in [Callers \cup {Shared} -> FetchRecords]
  BY <1>1, <1>2, <1>5, JwksAssumption DEF Shapes, g
<1>7. Shapes'
  BY <1>1, <1>2, <1>3, <1>6 DEF Shapes, issuer
<1>8. \A i \in Callers \cup {Shared} : FetchOK(World', fetch'[i])
  <2>1. FetchOK(World, fetch[Shared])
    BY DEF Inv
  <2>2. FetchOK(World, g)
    BY <1>5, <2>1 DEF FetchOK
  <2> QED
    BY <1>2, <1>6, <2>2 DEF Inv
<1>9. fetch'[Shared].phase = fetch[Shared].phase /\ fetch'[Shared].kid = fetch[Shared].kid
  BY <1>5, <1>6
<1>10. Waiting'
  <2>1. \A d \in Callers :
          /\ pc'[d] = "wait" => fetch'[Shared].phase # "idle"
          /\ pc'[d] = "direct" => /\ fetch'[d].phase # "idle"
                                  /\ fetch'[d].kid = call'[d].kid
    BY <1>2, <1>3, <1>6, <1>9 DEF Waiting
  <2>2. ASSUME fetch'[Shared].phase # "idle", fetch'[Shared].owner \in Callers
        PROVE  /\ pc'[fetch'[Shared].owner] = "wait"
               /\ fetch'[Shared].kid = call'[fetch'[Shared].owner].kid
    <3>1. fetch'[Shared] = fetch[Shared] /\ fetch[Shared].owner # c
      BY <1>5, <1>6, <2>2, JwksAssumption
    <3> QED
      BY <1>2, <1>3, <2>2, <3>1 DEF Waiting
  <2> QED
    BY <2>1, <2>2 DEF Waiting
<1>11. Lookups'
  BY <1>1, <1>2, <1>3, <1>9 DEF Lookups
<1>12. CacheOK(World', cache') /\ ThrottleOK(World', throttle')
  BY <1>1, <1>2 DEF Inv
<1> QED
  BY <1>2, <1>4, <1>7, <1>8, <1>10, <1>11, <1>12 DEF Inv

-----------------------------------------------------------------------------
(* The end of the shared fetch.                                            *)

\* Who waited holds the result, with its own key id; the others are left alone.
LEMMA ShareFacts ==
    ASSUME Shapes, NEW K \in SUBSET Kids, NEW r \in BOOLEAN, NEW e \in Errors,
           Share(K, r, e)
    PROVE  /\ pc' \in [Callers -> Labels] /\ call' \in [Callers -> CallRecords]
           /\ \A c \in Callers :
                 pc[c] = "wait" =>
                    /\ pc'[c] = "got" /\ call'[c].kid = call[c].kid
                    /\ call'[c].since = call[c].since
                    /\ call'[c].answer = call[c].answer
                    /\ call'[c].keys = K /\ call'[c].error = e
                    /\ call'[c].shared = (fetch[Shared].owner # c)
           /\ \A c \in Callers :
                 pc[c] # "wait" => pc'[c] = pc[c] /\ call'[c] = call[c]
<1> DEFINE x(c) == [call[c] EXCEPT !.keys = K, !.retained = r,
                      !.error = e, !.shared = (fetch[Shared].owner # c),
                      !.unknown = fetch[Shared].unknown, !.prior = fetch[Shared].prior]
<1>1. /\ pc' = [c \in Callers |-> IF pc[c] = "wait" THEN "got" ELSE pc[c]]
      /\ call' = [c \in Callers |-> IF pc[c] # "wait" THEN call[c] ELSE x(c)]
  BY DEF Share
<1>2. /\ pc \in [Callers -> Labels] /\ call \in [Callers -> CallRecords]
      /\ fetch[Shared] \in FetchRecords
  BY DEF Shapes
<1>3. ASSUME NEW c \in Callers
      PROVE  /\ x(c) \in CallRecords /\ x(c).kid = call[c].kid
             /\ x(c).since = call[c].since /\ x(c).answer = call[c].answer
             /\ x(c).keys = K /\ x(c).error = e
             /\ x(c).shared = (fetch[Shared].owner # c)
  <2>1. /\ call[c] \in CallRecords /\ fetch[Shared].unknown \in BOOLEAN
        /\ fetch[Shared].prior \in BOOLEAN /\ (fetch[Shared].owner # c) \in BOOLEAN
    BY <1>2 DEF FetchRecords
  <2> QED
    BY <2>1 DEF CallRecords
<1> HIDE DEF x
<1>4. "got" \in Labels
  BY DEF Labels
<1> QED
  BY <1>1, <1>2, <1>3, <1>4

\* A true result keeps the facts of all calls.
LEMMA ShareKeeps ==
    ASSUME Inv, NEW K \in SUBSET Kids, NEW r \in BOOLEAN, NEW e \in Errors,
           Share(K, r, e), World' = World, fetch[Shared].phase # "idle",
           e = "none" =>
              \/ World.misled
              \/ /\ \A k \in K : World.now - World.seen[k] < MaxFresh + MaxStale
                 /\ \A k \in Kids \ K : World.missed[k] >= World.now - Timeout,
           e = "unavailable" => World.outage > World.now - Window,
           e = "invalid" =>
              \/ World.misled \/ fetch[Shared].owner \notin Callers
              \/ World.missed[fetch[Shared].kid] >= World.now - Window - Timeout
    PROVE  \A c \in Callers : CallOK(World', pc'[c], call'[c])
<1> SUFFICES ASSUME NEW c \in Callers
             PROVE  CallOK(World, pc'[c], call'[c])
  OBVIOUS
<1>1. Shapes /\ Waiting /\ CallOK(World, pc[c], call[c])
  BY DEF Inv
<1>2. CASE pc[c] # "wait"
  BY <1>1, <1>2, ShareFacts
<1>3. CASE pc[c] = "wait"
  <2>1. /\ pc'[c] = "got" /\ call'[c].kid = call[c].kid
        /\ call'[c].since = call[c].since /\ call'[c].answer = call[c].answer
        /\ call'[c].keys = K /\ call'[c].error = e
        /\ call'[c].shared = (fetch[Shared].owner # c)
    BY <1>1, <1>3, ShareFacts
  <2>2. /\ call[c].kid \in Kids /\ call[c].answer = "none"
        /\ call[c].since <= World.now
    BY <1>1, <1>3 DEF CallOK
  <2>3. e = "invalid" /\ ~call'[c].shared =>
           World.misled \/ World.missed[call[c].kid] >= World.now - Window - Timeout
    <3>1. ~call'[c].shared => fetch[Shared].owner = c /\ fetch[Shared].kid = call[c].kid
      BY <1>1, <2>1 DEF Waiting
    <3> QED
      BY <3>1
  <2>4. GotOK(World, call'[c])
    BY <2>1, <2>2, <2>3 DEF GotOK
  <2>5. AnswerOK(World, call'[c])
    BY <2>1, <2>2 DEF AnswerOK
  <2> QED
    BY <2>1, <2>2, <2>4, <2>5 DEF CallOK
<1> QED
  BY <1>2, <1>3

\* With the shared fetch gone nobody waits for it.
LEMMA SharedEnds ==
    ASSUME Inv, NEW K \in SUBSET Kids, NEW r \in BOOLEAN, NEW e \in Errors,
           Share(K, r, e), fetch' = [fetch EXCEPT ![Shared] = NoFetch],
           World' = World, cache' = cache
    PROVE  /\ fetch' \in [Callers \cup {Shared} -> FetchRecords]
           /\ \A i \in Callers \cup {Shared} : FetchOK(World', fetch'[i])
           /\ Waiting' /\ Lookups'
<1>1. Shapes /\ Waiting /\ Lookups
  BY DEF Inv
<1>2. /\ fetch'[Shared] = NoFetch /\ \A c \in Callers : fetch'[c] = fetch[c]
      /\ fetch' \in [Callers \cup {Shared} -> FetchRecords]
  BY <1>1, NoneFacts, JwksAssumption DEF Shapes
<1>3. fetch'[Shared].phase = "idle"
  BY <1>2, NoneFacts
<1>4. FetchOK(World, NoFetch)
  BY NoneFacts DEF FetchOK
<1>5. \A i \in Callers \cup {Shared} : FetchOK(World', fetch'[i])
  BY <1>2, <1>4 DEF Inv
<1>6. \A c \in Callers :
        /\ pc'[c] # "wait"
        /\ pc'[c] \in {"direct", "join"} => pc[c] = pc'[c] /\ call'[c] = call[c]
  BY <1>1, ShareFacts
<1>7. Waiting'
  BY <1>1, <1>2, <1>3, <1>6 DEF Waiting
<1>8. Lookups'
  BY <1>1, <1>3, <1>6 DEF Lookups
<1> QED
  BY <1>2, <1>5, <1>7, <1>8

\* The shared fetch starts: a hit or a refusal after all, or a request.
LEMMA FetchStartsKeeps ==
    ASSUME Inv, FetchStarts
    PROVE  Inv'
<1> DEFINE f == fetch[Shared]
           unknown == f.kid \notin cache.keys
<1>1. /\ f.phase = "start"
      /\ UNCHANGED <<now, issuer, misled, failedAt, cache, throttle, known>>
  BY DEF FetchStarts
<1>2. /\ Clocks /\ Shapes /\ World' = World /\ Clocks' /\ Waiting /\ Lookups
      /\ CacheOK(World', cache') /\ ThrottleOK(World', throttle')
  BY <1>1, SameWorld DEF Inv
<1>3. /\ f \in FetchRecords /\ cache \in CacheRecords /\ now \in Nat
      /\ throttle \in ThrottleRecords /\ World.now = now
  BY <1>2, WorldFacts DEF Shapes, Clocks
<1>4. CASE Hit(f.kid)
  <2>1. Share(cache.keys, TRUE, "none") /\ fetch' = [fetch EXCEPT ![Shared] = NoFetch]
    BY <1>4 DEF FetchStarts
  <2>2. cache.keys \in SUBSET Kids /\ "none" \in Errors /\ TRUE \in BOOLEAN
    BY <1>3 DEF CacheRecords, Errors
  <2>3. \/ World.misled
        \/ /\ \A k \in cache.keys : World.now - World.seen[k] < MaxFresh + MaxStale
           /\ \A k \in Kids \ cache.keys : World.missed[k] >= World.now - Timeout
    <3>1. HitIsFresh(World, cache, f.kid)
      BY <1>1, <1>2 DEF Lookups
    <3>2. World.misled \/ Witnessed(World, cache.keys, World.now - Timeout)
      BY <1>4, <3>1, HitMeans DEF HitIsFresh
    <3> QED
      BY <1>4, <3>2, HitMeans DEF Witnessed
  <2>4. \A c \in Callers : CallOK(World', pc'[c], call'[c])
    BY <1>1, <1>2, <2>1, <2>2, <2>3, ShareKeeps, Zenon
  <2>5. /\ fetch' \in [Callers \cup {Shared} -> FetchRecords]
        /\ \A i \in Callers \cup {Shared} : FetchOK(World', fetch'[i])
        /\ Waiting' /\ Lookups'
    BY <1>1, <1>2, <2>1, <2>2, SharedEnds, Zenon
  <2>6. pc' \in [Callers -> Labels] /\ call' \in [Callers -> CallRecords]
    BY <1>2, <2>1, <2>2, ShareFacts, Zenon
  <2>7. Shapes'
    BY <1>1, <1>2, <2>5, <2>6 DEF Shapes, issuer
  <2> QED
    BY <1>2, <2>4, <2>5, <2>7 DEF Inv
<1>5. CASE ~Hit(f.kid) /\ unknown /\ Throttled(f.kid) # "no"
  <2> DEFINE e == Throttled(f.kid)
  <2>1. Share({}, FALSE, e) /\ fetch' = [fetch EXCEPT ![Shared] = NoFetch]
    BY <1>5 DEF FetchStarts
  <2>2. {} \in SUBSET Kids /\ e \in {"invalid", "unavailable"} /\ FALSE \in BOOLEAN
    BY <1>3, <1>5, ThrottledFacts
  <2>3. ASSUME f.kid \in Kids
        PROVE  /\ e = "invalid" =>
                    \/ World.misled
                    \/ World.missed[f.kid] >= World.now - Window - Timeout
               /\ e = "unavailable" => World.outage > World.now - Window
    BY <2>3, ThrottledMeans
  <2>4. ASSUME e = "unavailable"
        PROVE  World.outage > World.now - Window
    <3>1. throttle.at # 0 /\ now < throttle.at + Window /\ ~throttle.success
      BY <1>3, <2>4, ThrottledFacts
    <3>2. World.outage >= throttle.at
      BY <3>1 DEF Inv, ThrottleOK
    <3>3. World.outage \in Nat /\ throttle.at \in Nat /\ Window \in Nat
      BY <1>2, <1>3, WorldFacts, Numbers DEF Worlds, ThrottleRecords
    <3> QED
      BY <1>3, <3>1, <3>2, <3>3
  <2>5. f.owner \in Callers => f.kid \in Kids
    <3>1. ASSUME f.owner \in Callers
          PROVE  f.kid \in Kids
      <4>1. pc[f.owner] = "wait" /\ f.kid = call[f.owner].kid
        BY <1>1, <1>2, <3>1 DEF Waiting
      <4>2. CallOK(World, pc[f.owner], call[f.owner])
        BY <3>1 DEF Inv
      <4> QED
        BY <4>1, <4>2 DEF CallOK
    <3> QED
      BY <3>1
  <2>6. e \in Errors /\ e # "none"
    BY <2>2 DEF Errors
  <2> HIDE DEF e
  <2>7. \A c \in Callers : CallOK(World', pc'[c], call'[c])
    BY <1>1, <1>2, <2>1, <2>2, <2>3, <2>4, <2>5, <2>6, ShareKeeps, Zenon
  <2>8. /\ fetch' \in [Callers \cup {Shared} -> FetchRecords]
        /\ \A i \in Callers \cup {Shared} : FetchOK(World', fetch'[i])
        /\ Waiting' /\ Lookups'
    BY <1>1, <1>2, <2>1, <2>2, <2>6, SharedEnds, Zenon
  <2>9. pc' \in [Callers -> Labels] /\ call' \in [Callers -> CallRecords]
    BY <1>2, <2>1, <2>2, <2>6, ShareFacts, Zenon
  <2>10. Shapes'
    BY <1>1, <1>2, <2>8, <2>9 DEF Shapes, issuer
  <2> QED
    BY <1>2, <2>7, <2>8, <2>10 DEF Inv
<1>6. CASE ~Hit(f.kid) /\ ~(unknown /\ Throttled(f.kid) # "no")
  <2> DEFINE b == cache.have \/ cache.noStore \/ throttle.at # 0
             g == [f EXCEPT !.phase = "sent", !.at = now, !.cond = cache.etag,
                            !.unknown = unknown, !.prior = b]
  <2>1. fetch' = [fetch EXCEPT ![Shared] = g] /\ UNCHANGED <<pc, call>>
    BY <1>6 DEF FetchStarts
  <2>2. b \in BOOLEAN /\ unknown \in BOOLEAN /\ cache.etag \in Nat
    BY <1>3 DEF CacheRecords
  <2> HIDE DEF b, unknown
  <2>3. /\ g \in FetchRecords /\ g.phase = "sent" /\ g.at = now
        /\ g.kid = f.kid /\ g.owner = f.owner /\ g.err = f.err
    BY <1>3, <2>2 DEF FetchRecords, Phases
  <2> HIDE DEF g
  <2>4. /\ fetch'[Shared] = g /\ \A c \in Callers : fetch'[c] = fetch[c]
        /\ fetch' \in [Callers \cup {Shared} -> FetchRecords]
    BY <1>2, <2>1, <2>3, JwksAssumption DEF Shapes
  <2>5. Shapes'
    BY <1>1, <1>2, <2>1, <2>4 DEF Shapes, issuer
  <2>6. FetchOK(World, g)
    <3>1. ~f.err
      BY <1>1 DEF Inv, FetchOK
    <3> QED
      BY <1>3, <2>3, <3>1 DEF FetchOK
  <2>7. \A i \in Callers \cup {Shared} : FetchOK(World', fetch'[i])
    BY <1>2, <2>4, <2>6 DEF Inv
  <2>8. Waiting'
    BY <1>1, <1>2, <2>1, <2>3, <2>4 DEF Waiting
  <2>9. Lookups'
    BY <1>1, <1>2, <2>1, <2>3, <2>4 DEF Lookups
  <2>10. \A c \in Callers : CallOK(World', pc'[c], call'[c])
    BY <1>2, <2>1 DEF Inv
  <2> QED
    BY <1>2, <2>5, <2>7, <2>8, <2>9, <2>10 DEF Inv
<1> QED
  BY <1>4, <1>5, <1>6

\* The shared fetch is recorded and handed out.
LEMMA RecordSharedKeeps ==
    ASSUME Inv, RecordShared
    PROVE  Inv'
<1> DEFINE f == fetch[Shared]
           e == IF f.err THEN "unavailable" ELSE "none"
<1>1. /\ f.phase = "applied" /\ throttle' = Recorded(f)
      /\ Share(f.keys, f.retained, e)
      /\ fetch' = [fetch EXCEPT ![Shared] = NoFetch]
      /\ UNCHANGED <<now, issuer, misled, failedAt, cache, known>>
  BY DEF RecordShared
<1>2. /\ Clocks /\ Shapes /\ World' = World /\ Clocks' /\ CacheOK(World', cache')
      /\ FetchOK(World, f) /\ f \in FetchRecords
  BY <1>1, SameWorld DEF Inv, Shapes
<1>3. f.keys \in SUBSET Kids /\ f.retained \in BOOLEAN /\ e \in Errors
  BY <1>2 DEF FetchRecords, Errors
<1>4. throttle' \in ThrottleRecords /\ ThrottleOK(World', throttle')
  BY <1>1, <1>2, RecordedFacts
<1>5. /\ World.now \in Nat /\ World.outage \in Nat /\ Window \in Nat /\ Window > 0
      /\ Timeout \in Nat /\ MaxFresh \in Nat /\ MaxStale \in Nat
      /\ Timeout < MaxFresh + MaxStale /\ \A k \in Kids : World.seen[k] \in Nat
  BY <1>2, WorldFacts, Numbers DEF Worlds
<1>6. e = "none" =>
        \/ World.misled
        \/ /\ \A k \in f.keys : World.now - World.seen[k] < MaxFresh + MaxStale
           /\ \A k \in Kids \ f.keys : World.missed[k] >= World.now - Timeout
  <2>1. e = "none" => World.misled \/ Witnessed(World, f.keys, World.now - Timeout)
    BY <1>1, <1>2 DEF FetchOK
  <2> QED
    BY <1>3, <1>5, <2>1 DEF Witnessed
<1>7. e = "unavailable" => World.outage > World.now - Window
  <2>1. e = "unavailable" => World.outage >= World.now
    BY <1>1, <1>2 DEF FetchOK
  <2> QED
    BY <1>5, <2>1
<1>8. e # "invalid" /\ f.phase # "idle"
  BY <1>1
<1> HIDE DEF e
<1>9. \A c \in Callers : CallOK(World', pc'[c], call'[c])
  BY <1>1, <1>2, <1>3, <1>6, <1>7, <1>8, ShareKeeps
<1>10. /\ fetch' \in [Callers \cup {Shared} -> FetchRecords]
       /\ \A i \in Callers \cup {Shared} : FetchOK(World', fetch'[i])
       /\ Waiting' /\ Lookups'
  BY <1>1, <1>2, <1>3, SharedEnds
<1>11. pc' \in [Callers -> Labels] /\ call' \in [Callers -> CallRecords]
  BY <1>1, <1>2, <1>3, ShareFacts
<1>12. Shapes'
  BY <1>1, <1>2, <1>4, <1>10, <1>11 DEF Shapes, issuer
<1> QED
  BY <1>2, <1>4, <1>9, <1>10, <1>12 DEF Inv

\* A direct fetch is recorded and answers its caller, if it still waits.
LEMMA RecordDirectKeeps ==
    ASSUME Inv, NEW c \in Callers, RecordDirect(c)
    PROVE  Inv'
<1> DEFINE f == fetch[c]
           a == CASE f.err -> "unavailable"
                  [] ~f.err /\ f.kid \in f.keys -> "keys"
                  [] OTHER -> "invalid"
<1>1. /\ f.phase = "applied" /\ throttle' = Recorded(f)
      /\ fetch' = [fetch EXCEPT ![c] = NoFetch]
      /\ IF pc[c] # "direct" THEN UNCHANGED <<pc, call>> ELSE Answer(c, a)
      /\ UNCHANGED <<now, issuer, misled, failedAt, cache, known>>
  BY DEF RecordDirect
<1>2. /\ Clocks /\ Shapes /\ World' = World /\ Clocks' /\ CacheOK(World', cache')
      /\ FetchOK(World, f) /\ f \in FetchRecords /\ Waiting /\ Lookups
  BY <1>1, SameWorld DEF Inv, Shapes
<1>3. throttle' \in ThrottleRecords /\ ThrottleOK(World', throttle')
  BY <1>1, <1>2, RecordedFacts
<1>4. /\ World.now \in Nat /\ World.outage \in Nat /\ Window \in Nat /\ Window > 0
      /\ Timeout \in Nat /\ MaxFresh \in Nat /\ MaxStale \in Nat
      /\ Timeout < MaxFresh + MaxStale
      /\ \A k \in Kids : World.seen[k] \in Nat /\ World.missed[k] \in Nat
  BY <1>2, WorldFacts, Numbers DEF Worlds
<1>5. /\ fetch'[c] = NoFetch /\ fetch'[Shared] = fetch[Shared]
      /\ \A d \in Callers \ {c} : fetch'[d] = fetch[d]
      /\ fetch' \in [Callers \cup {Shared} -> FetchRecords]
  BY <1>1, <1>2, NoneFacts, JwksAssumption DEF Shapes
<1>6. \A i \in Callers \cup {Shared} : FetchOK(World', fetch'[i])
  <2>1. FetchOK(World, NoFetch)
    BY NoneFacts DEF FetchOK
  <2> QED
    BY <1>2, <1>5, <2>1 DEF Inv
<1>7. CASE pc[c] # "direct"
  <2>1. UNCHANGED <<pc, call>>
    BY <1>1, <1>7
  <2>2. Shapes'
    BY <1>1, <1>2, <1>3, <1>5, <2>1 DEF Shapes, issuer
  <2>3. Waiting'
    BY <1>2, <1>5, <1>7, <2>1 DEF Waiting
  <2>4. Lookups'
    BY <1>1, <1>2, <1>5, <2>1 DEF Lookups
  <2>5. \A d \in Callers : CallOK(World', pc'[d], call'[d])
    BY <1>2, <2>1 DEF Inv
  <2> QED
    BY <1>2, <1>3, <1>6, <2>2, <2>3, <2>4, <2>5 DEF Inv
<1>8. CASE pc[c] = "direct"
  <2>1. Answer(c, a) /\ f.kid = call[c].kid
    BY <1>1, <1>2, <1>8 DEF Waiting
  <2>2. f.kid \in Kids
    <3>1. CallOK(World, pc[c], call[c])
      BY DEF Inv
    <3> QED
      BY <1>8, <2>1, <3>1 DEF CallOK
  <2>3. /\ a \in Answers
        /\ a = "unavailable" => f.err
        /\ a = "keys" => ~f.err /\ f.kid \in f.keys
        /\ a = "invalid" => ~f.err /\ f.kid \notin f.keys
    <3>1. CASE f.err
      BY <3>1 DEF Answers
    <3>2. CASE ~f.err /\ f.kid \in f.keys
      BY <3>2 DEF Answers
    <3>3. CASE ~f.err /\ f.kid \notin f.keys
      BY <3>3 DEF Answers
    <3> QED
      BY <3>1, <3>2, <3>3
  <2> HIDE DEF a
  <2>4. ~f.err => World.misled \/ Witnessed(World, f.keys, World.now - Timeout)
    BY <1>1, <1>2 DEF FetchOK
  <2>5. a = "keys" => \/ World.misled
                      \/ World.now - World.seen[call[c].kid] < MaxFresh + MaxStale
    BY <1>4, <2>1, <2>2, <2>3, <2>4 DEF Witnessed
  <2>6. a = "invalid" =>
          \/ World.misled
          \/ World.missed[call[c].kid] >= World.now - Window - Timeout
    BY <1>4, <2>1, <2>2, <2>3, <2>4 DEF Witnessed
  <2>7. a = "unavailable" => World.outage > World.now - Window
    <3>1. a = "unavailable" => World.outage >= World.now
      BY <1>1, <1>2, <2>3 DEF FetchOK
    <3> QED
      BY <1>4, <3>1
  <2>8. \A d \in Callers : CallOK(World', pc'[d], call'[d])
    BY <1>2, <1>8, <2>1, <2>3, <2>5, <2>6, <2>7, AnswerKeeps
  <2>9. /\ pc' \in [Callers -> Labels] /\ call' \in [Callers -> CallRecords]
        /\ pc'[c] = "done"
        /\ \A d \in Callers \ {c} : pc'[d] = pc[d] /\ call'[d] = call[d]
    BY <1>2, <2>1, <2>3, AnswerFacts
  <2>10. Shapes'
    BY <1>1, <1>2, <1>3, <1>5, <2>9 DEF Shapes, issuer
  <2>11. Waiting'
    BY <1>2, <1>5, <1>8, <2>9 DEF Waiting
  <2>12. Lookups'
    BY <1>1, <1>2, <1>5, <2>9 DEF Lookups
  <2> QED
    BY <1>2, <1>3, <1>6, <2>8, <2>10, <2>11, <2>12 DEF Inv
<1> QED
  BY <1>7, <1>8

-----------------------------------------------------------------------------
(* A fetch on its way.                                                     *)

\* A fetch that moves on stays the fetch of whom it was.
LEMMA FetchMoves ==
    ASSUME Shapes, Waiting, NEW i \in Callers \cup {Shared}, NEW g \in FetchRecords,
           fetch' = [fetch EXCEPT ![i] = g], UNCHANGED <<pc, call>>,
           fetch[i].phase \in {"sent", "answered"},
           g.phase \in {"answered", "applied"},
           g.kid = fetch[i].kid, g.owner = fetch[i].owner
    PROVE  /\ fetch' \in [Callers \cup {Shared} -> FetchRecords]
           /\ fetch'[i] = g
           /\ \A j \in (Callers \cup {Shared}) \ {i} : fetch'[j] = fetch[j]
           /\ Waiting'
           /\ fetch'[Shared].phase = "start" => /\ fetch[Shared].phase = "start"
                                                /\ fetch'[Shared] = fetch[Shared]
<1>1. /\ fetch' \in [Callers \cup {Shared} -> FetchRecords]
      /\ fetch'[i] = g
      /\ \A j \in (Callers \cup {Shared}) \ {i} : fetch'[j] = fetch[j]
  BY DEF Shapes
<1>2. \A j \in Callers \cup {Shared} :
        /\ fetch'[j].phase = "idle" <=> fetch[j].phase = "idle"
        /\ fetch'[j].kid = fetch[j].kid /\ fetch'[j].owner = fetch[j].owner
  BY <1>1
<1>3. Waiting'
  BY <1>2 DEF Waiting
<1>4. fetch'[Shared].phase = "start" => /\ fetch[Shared].phase = "start"
                                        /\ fetch'[Shared] = fetch[Shared]
  BY <1>1
<1> QED
  BY <1>1, <1>3, <1>4

\* A failure noted, or a 304 misapplied, leads to a later world of this time.
LEMMA NotedWorld ==
    ASSUME Clocks, UNCHANGED <<now, issuer>>, misled' \in BOOLEAN,
           misled => misled',
           \/ failedAt' = failedAt
           \/ failedAt' = [failedAt EXCEPT !.fetch = now]
           \/ failedAt' = [failedAt EXCEPT !.unstored = now]
    PROVE  /\ Clocks' /\ World' \in Worlds /\ Later(World, World')
           /\ World'.now = World.now /\ World'.rev = World.rev
           /\ World'.keysAt = World.keysAt /\ World'.misled = misled'
           /\ World'.seen = World.seen /\ World'.missed = World.missed
           /\ failedAt' # failedAt => World'.outage >= World.now
<1>1. failedAt \in [fetch : 0..now, unstored : 0..now] /\ now \in Nat
  BY DEF Clocks
<1>2. /\ failedAt' \in [fetch : 0..now, unstored : 0..now]
      /\ failedAt'.fetch >= failedAt.fetch /\ failedAt'.unstored >= failedAt.unstored
      /\ failedAt' # failedAt => failedAt'.fetch >= now \/ failedAt'.unstored >= now
  BY <1>1
<1>3. Clocks'
  BY <1>2 DEF Clocks, issuer
<1>4. /\ World'.now = World.now /\ World'.rev = World.rev
      /\ World'.keysAt = World.keysAt /\ World'.misled = misled'
      /\ World'.seen = World.seen /\ World'.missed = World.missed
      /\ World'.outage = Outage' /\ World.now = now /\ World.misled = misled
      /\ World.outage = Outage
  BY DEF World, issuer, Seen, Missed, Published
<1>5. Outage' >= Outage /\ (failedAt' # failedAt => Outage' >= now)
  BY <1>1, <1>2 DEF Outage
<1>6. World' \in Worlds /\ World \in Worlds
  <2>1. Clocks => World \in Worlds
    BY WorldFacts
  <2>2. (Clocks => World \in Worlds)'
    BY WorldFacts, PTL
  <2> QED
    BY <1>3, <2>1, <2>2
<1>7. Later(World, World')
  BY <1>4, <1>5, <1>6 DEF Later, Worlds
<1> QED
  BY <1>3, <1>4, <1>5, <1>6, <1>7

\* The issuer answers with the key set it has now.
LEMMA IssuerAnswersKeeps ==
    ASSUME Inv, NEW i \in Callers \cup {Shared}, IssuerAnswers(i)
    PROVE  Inv'
<1> DEFINE f == fetch[i]
<1>1. /\ f.phase = "sent"
      /\ UNCHANGED <<now, issuer, misled, failedAt, cache, throttle, pc, call, known>>
  BY DEF IssuerAnswers
<1>2. PICK status \in {"ok", "unchanged"}, h \in Headers :
         fetch' = [fetch EXCEPT ![i] =
                     [f EXCEPT !.phase = "answered", !.status = status,
                               !.version = rev, !.header = {h}]]
  BY DEF IssuerAnswers
<1>3. /\ Clocks /\ Shapes /\ World' = World /\ Clocks' /\ Waiting /\ Lookups
      /\ FetchOK(World, f) /\ f \in FetchRecords
  BY <1>1, SameWorld DEF Inv, Shapes
<1>4. /\ rev \in Nat /\ rev >= 1 /\ World.now = now /\ World.rev = rev
      /\ World.keysAt = keysAt /\ now \in Nat
      /\ \A k \in Kids : World.seen[k] = Seen(k) /\ World.missed[k] = Missed(k)
  BY <1>3, WorldFacts, Numbers DEF Clocks
<1> DEFINE g == [f EXCEPT !.phase = "answered", !.status = status,
                          !.version = rev, !.header = {h}]
<1>5. /\ g \in FetchRecords /\ g.phase = "answered" /\ g.version = rev
      /\ g.at = f.at /\ g.kid = f.kid /\ g.owner = f.owner /\ g.err = f.err
  BY <1>3, <1>4 DEF FetchRecords, Phases
<1>6. fetch' = [fetch EXCEPT ![i] = g]
  BY <1>2
<1> HIDE DEF g
<1>7. f.at <= now /\ ~f.err /\ f.at \in Nat
  BY <1>1, <1>3, <1>4 DEF FetchOK, FetchRecords
<1>8. Witnessed(World, keysAt[rev], f.at)
  BY <1>4, <1>7 DEF Witnessed, Seen, Missed, Published
<1>9. FetchOK(World, g)
  <2>1. \A v \in rev..rev : v = rev
    BY <1>4
  <2> QED
    BY <1>4, <1>5, <1>7, <1>8, <2>1 DEF FetchOK
<1>10. /\ fetch' \in [Callers \cup {Shared} -> FetchRecords]
       /\ fetch'[i] = g
       /\ \A j \in (Callers \cup {Shared}) \ {i} : fetch'[j] = fetch[j]
       /\ Waiting'
       /\ fetch'[Shared].phase = "start" => /\ fetch[Shared].phase = "start"
                                            /\ fetch'[Shared] = fetch[Shared]
  BY <1>1, <1>3, <1>5, <1>6, FetchMoves
<1>11. Shapes'
  BY <1>1, <1>3, <1>10 DEF Shapes, issuer
<1>12. \A j \in Callers \cup {Shared} : FetchOK(World', fetch'[j])
  BY <1>3, <1>9, <1>10 DEF Inv
<1>13. Lookups'
  BY <1>1, <1>3, <1>10 DEF Lookups
<1>14. /\ CacheOK(World', cache') /\ ThrottleOK(World', throttle')
       /\ \A d \in Callers : CallOK(World', pc'[d], call'[d])
  BY <1>1, <1>3 DEF Inv
<1> QED
  BY <1>3, <1>10, <1>11, <1>12, <1>13, <1>14 DEF Inv

\* A failure is noted and leaves the cache alone.
LEMMA FailureKeeps ==
    ASSUME Inv, NEW i \in Callers \cup {Shared}, fetch[i].phase \in {"sent", "answered"},
           fetch' = [fetch EXCEPT ![i] = Failed(@)],
           \/ failedAt' = [failedAt EXCEPT !.fetch = now]
           \/ failedAt' = [failedAt EXCEPT !.unstored = now],
           UNCHANGED <<now, issuer, misled, cache, throttle, pc, call, known>>
    PROVE  Inv'
<1> DEFINE g == Failed(fetch[i])
<1>1. Clocks /\ Shapes /\ Waiting /\ Lookups /\ fetch[i] \in FetchRecords
  BY DEF Inv, Shapes
<1>2. /\ g \in FetchRecords /\ g.phase = "applied" /\ g.err
      /\ g.kid = fetch[i].kid /\ g.owner = fetch[i].owner
  BY <1>1, FailedFacts
<1> HIDE DEF g
<1>3. fetch' = [fetch EXCEPT ![i] = g]
  BY DEF g
<1>4. misled' \in BOOLEAN /\ (misled => misled')
  BY <1>1 DEF Clocks
<1>5. /\ Clocks' /\ World' \in Worlds /\ Later(World, World')
      /\ World'.now = World.now
      /\ failedAt' # failedAt => World'.outage >= World.now
  BY <1>1, <1>4, NotedWorld
<1>6. World'.outage >= World'.now
  <2>1. CASE failedAt' # failedAt
    BY <1>5, <2>1
  <2>2. CASE failedAt' = failedAt
    <3>1. failedAt \in [fetch : 0..now, unstored : 0..now] /\ now \in Nat
      BY <1>1 DEF Clocks
    <3>2. failedAt'.fetch = now \/ failedAt'.unstored = now
      BY <3>1
    <3>3. Outage = now
      BY <2>2, <3>1, <3>2 DEF Outage
    <3>4. World.outage = now /\ World.now = now /\ World \in Worlds
      BY <1>1, <3>3, WorldFacts
    <3> QED
      BY <1>5, <3>1, <3>4 DEF Later, Worlds
  <2> QED
    BY <2>1, <2>2
<1>7. FetchOK(World', g)
  BY <1>2, <1>6 DEF FetchOK
<1>8. /\ fetch' \in [Callers \cup {Shared} -> FetchRecords]
      /\ fetch'[i] = g
      /\ \A j \in (Callers \cup {Shared}) \ {i} : fetch'[j] = fetch[j]
      /\ Waiting'
      /\ fetch'[Shared].phase = "start" => /\ fetch[Shared].phase = "start"
                                           /\ fetch'[Shared] = fetch[Shared]
  BY <1>1, <1>2, <1>3, FetchMoves
<1>9. /\ \A j \in Callers \cup {Shared} : FetchOK(World', fetch[j])
      /\ CacheOK(World', cache) /\ ThrottleOK(World', throttle)
      /\ \A c \in Callers : CallOK(World', pc[c], call[c])
      /\ \A kid : HitIsFresh(World, cache, kid) => HitIsFresh(World', cache, kid)
  BY <1>5, Carried
<1>10. Shapes'
  BY <1>1, <1>8 DEF Shapes, issuer
<1>11. Lookups'
  BY <1>1, <1>8, <1>9 DEF Lookups
<1>12. \A j \in Callers \cup {Shared} : FetchOK(World', fetch'[j])
  BY <1>7, <1>8, <1>9
<1>13. /\ CacheOK(World', cache') /\ ThrottleOK(World', throttle')
       /\ \A c \in Callers : CallOK(World', pc'[c], call'[c])
  BY <1>9
<1> QED
  BY <1>5, <1>8, <1>10, <1>11, <1>12, <1>13 DEF Inv

\* No answer, a bad one or a late one.
LEMMA FetchFailsKeeps ==
    ASSUME Inv, NEW i \in Callers \cup {Shared}, FetchFails(i)
    PROVE  Inv'
<1>1. /\ fetch[i].phase \in {"sent", "answered"}
      /\ fetch' = [fetch EXCEPT ![i] = Failed(@)]
      /\ failedAt' = [failedAt EXCEPT !.fetch = now]
      /\ UNCHANGED <<now, issuer, misled, cache, throttle, pc, call, known>>
  BY DEF FetchFails
<1> QED
  BY <1>1, FailureKeeps

\* What is stored within the timeout of its request, from a key set witnessed
\* since the request, is in order and counts as just arrived.
LEMMA StoredKeeps ==
    ASSUME NEW w \in Worlds, NEW K \in SUBSET Kids, NEW version \in Nat,
           NEW h \in Headers, NEW at \in Nat, version <= w.rev,
           w.now <= at + Timeout,
           ~w.misled => /\ \E v \in 1..w.rev : v >= version /\ K = w.keysAt[v]
                        /\ Witnessed(w, K, at)
    PROVE  /\ Stored(K, version, h, at) \in CacheRecords
           /\ CacheOK(w, Stored(K, version, h, at))
           /\ \A kid : HitIsFresh(w, Stored(K, version, h, at), kid)
           /\ ~w.misled => Witnessed(w, K, w.now - Timeout)
<1> DEFINE x == Stored(K, version, h, at)
<1>1. /\ x \in CacheRecords /\ x.keys = K /\ x.have /\ x.etag = version
      /\ x.expiry <= at + MaxFresh
      /\ x.staleUntil <= at + MaxFresh + MaxStale
      /\ x.staleUntil = 0 \/ x.staleUntil > x.expiry
  BY StoredFacts
<1> HIDE DEF x
<1>2. /\ w.now \in Nat /\ Timeout \in Nat /\ MaxFresh \in Nat /\ MaxStale \in Nat
      /\ x.expiry \in Int /\ x.staleUntil \in Int
      /\ \A k \in Kids : w.seen[k] \in Nat /\ w.missed[k] \in Nat
  BY <1>1, Numbers DEF Worlds, CacheRecords
<1>3. ~w.misled => Witnessed(w, K, w.now - Timeout)
  BY <1>2 DEF Witnessed
<1>4. ASSUME ~w.misled, NEW k \in x.keys
      PROVE  /\ x.expiry <= w.seen[k] + MaxFresh
             /\ x.staleUntil <= w.seen[k] + MaxFresh + MaxStale
  <2>1. w.seen[k] >= at /\ w.seen[k] \in Nat
    BY <1>1, <1>2, <1>4 DEF Witnessed
  <2> QED
    BY <1>1, <1>2, <2>1
<1>5. CacheOK(w, x)
  BY <1>1, <1>4 DEF CacheOK
<1>6. \A kid : HitIsFresh(w, x, kid)
  BY <1>1, <1>3 DEF HitIsFresh
<1> QED
  BY <1>1, <1>3, <1>5, <1>6 DEF x

\* An answer that arrived in time.
LEMMA AnsweredFacts ==
    ASSUME Inv, NEW i \in Callers \cup {Shared}, fetch[i].phase = "answered",
           now <= fetch[i].at + Timeout
    PROVE  /\ Clocks /\ Shapes /\ Waiting /\ Lookups
           /\ fetch[i] \in FetchRecords /\ ~fetch[i].err
           /\ fetch[i].at \in Nat /\ fetch[i].version \in Nat
           /\ fetch[i].version \in 1..rev /\ rev \in 1..MaxRev
           /\ keysAt[fetch[i].version] \in SUBSET Kids
           /\ World \in Worlds /\ World.rev = rev /\ World.keysAt = keysAt
           /\ World.now = now /\ World.misled = misled
           /\ World.now <= fetch[i].at + Timeout
           /\ \A v \in fetch[i].version..rev : Witnessed(World, keysAt[v], fetch[i].at)
<1>1. /\ Clocks /\ Shapes /\ Waiting /\ Lookups /\ FetchOK(World, fetch[i])
      /\ fetch[i] \in FetchRecords
  BY DEF Inv, Shapes
<1>2. /\ World \in Worlds /\ World.rev = rev /\ World.keysAt = keysAt
      /\ World.now = now /\ World.misled = misled
  BY <1>1, WorldFacts
<1>3. /\ fetch[i].version \in 1..rev /\ ~fetch[i].err
      /\ \A v \in fetch[i].version..rev : Witnessed(World, keysAt[v], fetch[i].at)
  BY <1>1, <1>2 DEF FetchOK
<1>4. rev \in 1..MaxRev /\ keysAt \in [1..MaxRev -> SUBSET Kids]
  BY <1>1 DEF Clocks
<1>5. fetch[i].version \in 1..MaxRev
  BY <1>3, <1>4, Numbers
<1> QED
  BY <1>1, <1>2, <1>3, <1>4, <1>5 DEF FetchRecords

\* A new key set arrives.
LEMMA ApplyOKKeeps ==
    ASSUME Inv, NEW i \in Callers \cup {Shared}, NEW h \in Headers, ApplyOK(i, h)
    PROVE  Inv'
<1> DEFINE f == fetch[i]
           K == keysAt[f.version]
           g == [f EXCEPT !.phase = "applied", !.keys = K, !.retained = ~h.noStore]
<1>1. /\ f.phase = "answered" /\ now <= f.at + Timeout
      /\ cache' = IF h.noStore THEN NotStored ELSE Stored(K, f.version, h, f.at)
      /\ known' = IF f.version > known THEN f.version ELSE known
      /\ UNCHANGED <<now, issuer, misled, failedAt, throttle, pc, call>>
  BY DEF ApplyOK
<1>2. /\ Clocks /\ Shapes /\ Waiting /\ Lookups
      /\ f \in FetchRecords /\ ~f.err
      /\ f.at \in Nat /\ f.version \in Nat /\ f.version \in 1..rev
      /\ rev \in 1..MaxRev /\ K \in SUBSET Kids
      /\ World \in Worlds /\ World.rev = rev /\ World.keysAt = keysAt
      /\ World.now = now /\ World.misled = misled /\ World.now <= f.at + Timeout
      /\ \A v \in f.version..rev : Witnessed(World, keysAt[v], f.at)
  BY <1>1, AnsweredFacts
<1>3. World' = World /\ Clocks'
  BY <1>1, <1>2, SameWorld
<1>4. fetch' = [fetch EXCEPT ![i] = g]
  <2>1. fetch' = [fetch EXCEPT ![i].phase = "applied",
                    ![i].keys = K, ![i].retained = ~h.noStore]
    BY DEF ApplyOK
  <2> QED
    BY <1>2, <2>1 DEF Shapes
<1>5. Witnessed(World, K, f.at)
  BY <1>2, Numbers
<1>6. /\ f.version <= World.rev
      /\ \E v \in 1..World.rev : v >= f.version /\ K = World.keysAt[v]
  BY <1>2, Numbers
<1>7. h.noStore \in BOOLEAN
  BY JwksAssumption
<1>8. /\ g \in FetchRecords /\ g.phase = "applied" /\ g.keys = K /\ g.err = f.err
      /\ g.kid = f.kid /\ g.owner = f.owner
  <2> HIDE DEF K
  <2> QED
    BY <1>2, <1>7 DEF FetchRecords, Phases
<1> HIDE DEF g, K
<1>9. /\ Stored(K, f.version, h, f.at) \in CacheRecords
      /\ CacheOK(World, Stored(K, f.version, h, f.at))
      /\ \A kid : HitIsFresh(World, Stored(K, f.version, h, f.at), kid)
      /\ ~World.misled => Witnessed(World, K, World.now - Timeout)
  BY <1>2, <1>5, <1>6, StoredKeeps
<1>10. /\ NotStored \in CacheRecords /\ CacheOK(World, NotStored)
       /\ \A kid : HitIsFresh(World, NotStored, kid)
  BY <1>2, NotStoredFacts DEF CacheOK, HitIsFresh
<1>11. /\ cache' \in CacheRecords /\ CacheOK(World', cache')
       /\ \A kid : HitIsFresh(World', cache', kid)
  BY <1>1, <1>3, <1>9, <1>10
<1>12. FetchOK(World, g)
  BY <1>2, <1>8, <1>9 DEF FetchOK
<1>13. /\ fetch' \in [Callers \cup {Shared} -> FetchRecords]
       /\ fetch'[i] = g
       /\ \A j \in (Callers \cup {Shared}) \ {i} : fetch'[j] = fetch[j]
       /\ Waiting'
  BY <1>1, <1>2, <1>4, <1>8, FetchMoves
<1>14. Shapes'
  <2>1. known' \in 0..rev'
    BY <1>1, <1>2, Numbers DEF Shapes, issuer
  <2> QED
    BY <1>1, <1>2, <1>11, <1>13, <2>1 DEF Shapes
<1>15. Lookups'
  BY <1>11 DEF Lookups
<1>16. \A j \in Callers \cup {Shared} : FetchOK(World', fetch'[j])
  BY <1>3, <1>12, <1>13 DEF Inv
<1>17. /\ ThrottleOK(World', throttle')
       /\ \A c \in Callers : CallOK(World', pc'[c], call'[c])
  BY <1>1, <1>3 DEF Inv
<1> QED
  BY <1>3, <1>11, <1>13, <1>14, <1>15, <1>16, <1>17 DEF Inv

\* A 304 renews what is stored by now, or finds nothing to renew.
LEMMA ApplyUnchangedKeeps ==
    ASSUME Inv, NEW i \in Callers \cup {Shared}, NEW h \in Headers,
           ApplyUnchanged(i, h)
    PROVE  Inv'
<1> DEFINE f == fetch[i]
           g == [f EXCEPT !.phase = "applied", !.keys = cache.keys, !.retained = TRUE]
<1>1. /\ f.phase = "answered" /\ now <= f.at + Timeout
      /\ UNCHANGED <<now, issuer, throttle, pc, call, known>>
  BY DEF ApplyUnchanged
<1>2. CASE ~(cache.have /\ ~cache.noStore)
  <2>1. /\ fetch' = [fetch EXCEPT ![i] = Failed(@)]
        /\ failedAt' = [failedAt EXCEPT !.unstored = now]
        /\ UNCHANGED <<cache, misled>>
    BY <1>2 DEF ApplyUnchanged
  <2> QED
    BY <1>1, <2>1, FailureKeeps
<1>3. CASE cache.have /\ ~cache.noStore
  <2>1. /\ fetch' = [fetch EXCEPT ![i].phase = "applied",
                       ![i].keys = cache.keys, ![i].retained = TRUE]
        /\ misled' = (misled \/ cache.etag < f.version)
        /\ failedAt' = failedAt
    BY <1>3 DEF ApplyUnchanged
  <2>2. PICK etag \in {cache.etag, f.version} :
          cache' = Stored(cache.keys, etag, h, f.at)
    BY <1>3 DEF ApplyUnchanged
  <2>3. /\ Clocks /\ Shapes /\ Waiting /\ Lookups
        /\ f \in FetchRecords /\ ~f.err
        /\ f.at \in Nat /\ f.version \in Nat /\ f.version \in 1..rev
        /\ rev \in 1..MaxRev
        /\ World \in Worlds /\ World.rev = rev /\ World.keysAt = keysAt
        /\ World.now = now /\ World.misled = misled /\ World.now <= f.at + Timeout
        /\ \A v \in f.version..rev : Witnessed(World, keysAt[v], f.at)
    BY <1>1, AnsweredFacts
  <2>4. /\ cache.keys \in SUBSET Kids /\ cache.etag \in Nat /\ CacheOK(World, cache)
    BY <2>3 DEF Inv, Shapes, CacheRecords
  <2>5. misled' \in BOOLEAN /\ (misled => misled')
    BY <2>1
  <2>6. /\ Clocks' /\ World' \in Worlds /\ Later(World, World')
        /\ World'.now = World.now /\ World'.rev = World.rev
        /\ World'.keysAt = World.keysAt /\ World'.misled = misled'
        /\ World'.seen = World.seen /\ World'.missed = World.missed
    BY <1>1, <2>1, <2>3, <2>5, NotedWorld
  <2>7. etag \in Nat /\ etag <= World'.rev
    BY <2>3, <2>4, <2>6, Numbers DEF CacheOK
  <2>8. ASSUME ~World'.misled
        PROVE  /\ \E v \in 1..World'.rev : v >= etag /\ cache.keys = World'.keysAt[v]
               /\ Witnessed(World', cache.keys, f.at)
    <3>1. ~misled /\ cache.etag >= f.version
      <4>1. ~misled'
        BY <2>6, <2>8
      <4>2. ~misled /\ ~(cache.etag < f.version)
        BY <2>1, <4>1, Zenon
      <4> QED
        BY <2>3, <2>4, <4>2
    <3>2. PICK v \in 1..rev : v >= cache.etag /\ cache.keys = keysAt[v]
      BY <1>3, <2>3, <2>4, <3>1 DEF CacheOK
    <3>3. v \in f.version..rev /\ v >= etag
      BY <2>3, <2>4, <3>1, <3>2, Numbers
    <3>4. Witnessed(World, cache.keys, f.at)
      BY <2>3, <3>2, <3>3
    <3>5. Witnessed(World', cache.keys, f.at)
      BY <2>6, <3>4 DEF Witnessed
    <3> QED
      BY <2>3, <2>6, <3>2, <3>3, <3>5
  <2>9. /\ cache' \in CacheRecords /\ CacheOK(World', cache')
        /\ \A kid : HitIsFresh(World', cache', kid)
        /\ ~World'.misled => Witnessed(World', cache.keys, World'.now - Timeout)
    <3>1. World'.now <= f.at + Timeout
      BY <2>3, <2>6
    <3> QED
      BY <2>2, <2>3, <2>4, <2>6, <2>7, <2>8, <3>1, StoredKeeps
  <2>10. fetch' = [fetch EXCEPT ![i] = g]
    BY <2>1, <2>3 DEF Shapes
  <2>11. /\ g \in FetchRecords /\ g.phase = "applied" /\ g.keys = cache.keys
         /\ g.err = f.err /\ g.kid = f.kid /\ g.owner = f.owner
    BY <2>3, <2>4 DEF FetchRecords, Phases
  <2> HIDE DEF g
  <2>12. FetchOK(World', g)
    BY <2>3, <2>9, <2>11 DEF FetchOK
  <2>13. /\ fetch' \in [Callers \cup {Shared} -> FetchRecords]
         /\ fetch'[i] = g
         /\ \A j \in (Callers \cup {Shared}) \ {i} : fetch'[j] = fetch[j]
         /\ Waiting'
    BY <1>1, <2>3, <2>10, <2>11, FetchMoves
  <2>14. /\ \A j \in Callers \cup {Shared} : FetchOK(World', fetch[j])
         /\ ThrottleOK(World', throttle)
         /\ \A c \in Callers : CallOK(World', pc[c], call[c])
    BY <2>6, Carried
  <2>15. Shapes'
    BY <1>1, <2>3, <2>9, <2>13 DEF Shapes, issuer
  <2>16. Lookups'
    BY <2>9 DEF Lookups
  <2>17. \A j \in Callers \cup {Shared} : FetchOK(World', fetch'[j])
    BY <2>12, <2>13, <2>14
  <2>18. /\ ThrottleOK(World', throttle')
         /\ \A c \in Callers : CallOK(World', pc'[c], call'[c])
    BY <1>1, <2>14
  <2> QED
    BY <2>6, <2>9, <2>13, <2>15, <2>16, <2>17, <2>18 DEF Inv
<1> QED
  BY <1>2, <1>3

-----------------------------------------------------------------------------
(* The issuer and the clock.                                               *)

\* A rotation leads to a later world: the new key set is witnessed now.
LEMMA RotateWorld ==
    ASSUME Clocks, NEW keys \in SUBSET Kids, Rotate(keys)
    PROVE  /\ Clocks' /\ World' \in Worlds /\ Later(World, World')
           /\ World'.now = World.now
<1>1. /\ rev < MaxRev /\ rev' = rev + 1 /\ now' = now
      /\ keysAt' = [keysAt EXCEPT ![rev + 1] = keys]
      /\ lastSeen' = [k \in Kids |-> IF k \in Published THEN now ELSE lastSeen[k]]
      /\ lastGone' = [k \in Kids |-> IF k \notin Published THEN now ELSE lastGone[k]]
      /\ UNCHANGED <<misled, failedAt>>
  BY DEF Rotate
<1>2. /\ rev \in 1..MaxRev /\ keysAt \in [1..MaxRev -> SUBSET Kids]
      /\ lastSeen \in [Kids -> 0..now] /\ lastGone \in [Kids -> 0..now]
      /\ now \in Nat /\ MaxRev \in Nat
  BY Numbers DEF Clocks
<1>3. rev' \in 1..MaxRev /\ rev + 1 \in 1..MaxRev
  BY <1>1, <1>2
<1>4. /\ keysAt' \in [1..MaxRev -> SUBSET Kids]
      /\ keysAt'[rev + 1] = keys
      /\ \A v \in 1..rev : keysAt'[v] = keysAt[v]
  BY <1>1, <1>2, <1>3
<1>5. lastSeen' \in [Kids -> 0..now] /\ lastGone' \in [Kids -> 0..now]
  BY <1>1, <1>2
<1>6. Clocks'
  BY <1>1, <1>3, <1>4, <1>5 DEF Clocks
<1>7. /\ World \in Worlds /\ World.now = now /\ World.rev = rev
      /\ World.keysAt = keysAt /\ World.misled = misled /\ World.outage = Outage
      /\ \A k \in Kids : World.seen[k] = Seen(k) /\ World.missed[k] = Missed(k)
  BY WorldFacts
<1>8. /\ World' \in Worlds /\ World'.now = now' /\ World'.rev = rev'
      /\ World'.keysAt = keysAt' /\ World'.misled = misled' /\ World'.outage = Outage'
      /\ \A k \in Kids : World'.seen[k] = Seen(k)' /\ World'.missed[k] = Missed(k)'
  <2>1. Clocks => /\ World \in Worlds /\ World.now = now /\ World.rev = rev
                  /\ World.keysAt = keysAt /\ World.misled = misled
                  /\ World.outage = Outage
                  /\ \A k \in Kids : /\ World.seen[k] = Seen(k)
                                     /\ World.missed[k] = Missed(k)
    BY WorldFacts
  <2>2. (Clocks => /\ World \in Worlds /\ World.now = now /\ World.rev = rev
                   /\ World.keysAt = keysAt /\ World.misled = misled
                   /\ World.outage = Outage
                   /\ \A k \in Kids : /\ World.seen[k] = Seen(k)
                                      /\ World.missed[k] = Missed(k))'
    BY WorldFacts, PTL
  <2> QED
    BY <1>6, <2>2
<1>9. Outage' = Outage
  BY <1>1 DEF Outage
<1>10. ASSUME NEW k \in Kids
       PROVE  /\ Seen(k)' >= Seen(k) /\ Missed(k)' >= Missed(k)
              /\ k \in keys => Seen(k)' = now
              /\ k \notin keys => Missed(k)' = now
  <2>1. /\ lastSeen[k] \in 0..now /\ lastGone[k] \in 0..now
        /\ lastSeen'[k] = IF k \in Published THEN now ELSE lastSeen[k]
        /\ lastGone'[k] = IF k \notin Published THEN now ELSE lastGone[k]
    BY <1>1, <1>2
  <2>2. Published' = keys
    BY <1>1, <1>4 DEF Published
  <2>3. /\ Seen(k)' = IF k \in keys THEN now ELSE lastSeen'[k]
        /\ Missed(k)' = IF k \notin keys THEN now ELSE lastGone'[k]
    BY <1>1, <2>2 DEF Seen, Missed
  <2> QED
    BY <1>2, <2>1, <2>3 DEF Seen, Missed
<1>11. Witnessed(World', keys, World.now)
  <2>1. \A k \in Kids : /\ k \in keys => World'.seen[k] = now
                        /\ k \notin keys => World'.missed[k] = now
    BY <1>8, <1>10
  <2> QED
    BY <1>2, <1>7, <2>1 DEF Witnessed
<1>12. \A v \in (World.rev + 1)..World'.rev :
          Witnessed(World', World'.keysAt[v], World.now)
  <2>1. \A v \in (World.rev + 1)..World'.rev : v = rev + 1
    BY <1>1, <1>2, <1>7, <1>8
  <2> QED
    BY <1>4, <1>8, <1>11, <2>1
<1>13. Later(World, World')
  <2>1. \A k \in Kids : /\ World'.seen[k] >= World.seen[k]
                        /\ World'.missed[k] >= World.missed[k]
    BY <1>7, <1>8, <1>10
  <2>2. /\ World'.now >= World.now /\ World'.rev >= World.rev
        /\ World'.outage >= World.outage
    BY <1>1, <1>2, <1>7, <1>8, <1>9 DEF Worlds
  <2>3. World.misled => World'.misled
    BY <1>1, <1>7, <1>8
  <2>4. \A v \in 1..World.rev : World'.keysAt[v] = World.keysAt[v]
    BY <1>4, <1>7, <1>8
  <2> QED
    BY <1>12, <2>1, <2>2, <2>3, <2>4 DEF Later
<1> QED
  BY <1>1, <1>6, <1>7, <1>8, <1>13

\* The issuer rotates its keys.
LEMMA RotateKeeps ==
    ASSUME Inv, NEW keys \in SUBSET Kids, Rotate(keys)
    PROVE  Inv'
<1>1. Clocks /\ Shapes /\ Waiting /\ Lookups
  BY DEF Inv
<1>2. /\ Clocks' /\ World' \in Worlds /\ Later(World, World')
      /\ World'.now = World.now
  BY <1>1, RotateWorld
<1>3. UNCHANGED <<cache, throttle, fetch, pc, call, known>> /\ rev' = rev + 1
  BY DEF Rotate
<1>4. /\ \A i \in Callers \cup {Shared} : FetchOK(World', fetch[i])
      /\ CacheOK(World', cache) /\ ThrottleOK(World', throttle)
      /\ \A c \in Callers : CallOK(World', pc[c], call[c])
      /\ \A kid : HitIsFresh(World, cache, kid) => HitIsFresh(World', cache, kid)
  BY <1>2, Carried
<1>5. Shapes'
  <2>1. known' \in 0..rev'
    BY <1>1, <1>3, Numbers DEF Shapes, Clocks
  <2> QED
    BY <1>1, <1>3, <2>1 DEF Shapes
<1>6. Waiting'
  BY <1>1, <1>3 DEF Waiting
<1>7. Lookups'
  BY <1>1, <1>3, <1>4 DEF Lookups
<1> QED
  BY <1>2, <1>3, <1>4, <1>5, <1>6, <1>7 DEF Inv

\* The clock moves once everything that arrived has been applied and answered.
LEMMA TickKeeps ==
    ASSUME Inv, Tick
    PROVE  Inv'
<1>1. /\ now < StartTime + MaxTime /\ Settled /\ now' = now + 1
      /\ pc' = [c \in Callers |-> IF pc[c] = "done" THEN "idle" ELSE pc[c]]
      /\ call' = [c \in Callers |-> IF pc[c] = "done" THEN NoCall ELSE call[c]]
      /\ UNCHANGED <<issuer, cache, throttle, fetch, known, misled, failedAt>>
  BY DEF Tick
<1>2. Clocks /\ Shapes /\ Waiting /\ Lookups
  BY DEF Inv
<1>3. /\ now \in Nat /\ rev \in 1..MaxRev /\ MaxTime \in Nat /\ StartTime \in Nat
      /\ lastSeen \in [Kids -> 0..now] /\ lastGone \in [Kids -> 0..now]
      /\ failedAt \in [fetch : 0..now, unstored : 0..now]
  BY <1>2, Numbers DEF Clocks, StartTime
<1>4. Clocks'
  <2>1. lastSeen' \in [Kids -> 0..now'] /\ lastGone' \in [Kids -> 0..now']
    BY <1>1, <1>3 DEF issuer
  <2>2. failedAt' \in [fetch : 0..now', unstored : 0..now']
    BY <1>1, <1>3
  <2> QED
    BY <1>1, <1>2, <1>3, <2>1, <2>2 DEF Clocks, issuer
<1>5. World \in Worlds /\ World' \in Worlds
  <2>1. Clocks => World \in Worlds
    BY WorldFacts
  <2>2. (Clocks => World \in Worlds)'
    BY WorldFacts, PTL
  <2> QED
    BY <1>2, <1>4, <2>1, <2>2
<1>6. /\ World'.now = World.now + 1 /\ World'.rev = World.rev
      /\ World'.keysAt = World.keysAt /\ World'.misled = World.misled
      /\ World'.outage = World.outage
  BY <1>1 DEF World, Outage, issuer
<1>7. \A k \in Kids : /\ World'.seen[k] >= World.seen[k]
                      /\ World'.missed[k] >= World.missed[k]
  <2>1. /\ World'.seen = [k \in Kids |-> IF k \in Published THEN now + 1 ELSE lastSeen[k]]
        /\ World.seen = [k \in Kids |-> IF k \in Published THEN now ELSE lastSeen[k]]
        /\ World'.missed =
              [k \in Kids |-> IF k \notin Published THEN now + 1 ELSE lastGone[k]]
        /\ World.missed =
              [k \in Kids |-> IF k \notin Published THEN now ELSE lastGone[k]]
    BY <1>1 DEF World, Seen, Missed, Published, issuer
  <2> QED
    BY <1>3, <2>1
<1>8. Later(World, World')
  BY <1>5, <1>6, <1>7 DEF Later, Worlds
<1>9. /\ \A i \in Callers \cup {Shared} : fetch[i].phase \notin {"start", "applied"}
      /\ \A c \in Callers : pc[c] \notin {"join", "got"}
  BY <1>1, <1>2 DEF Settled, Shapes
<1>10. \A c \in Callers :
         /\ pc[c] = "done" => pc'[c] = "idle" /\ call'[c] = NoCall
         /\ pc[c] # "done" => pc'[c] = pc[c] /\ call'[c] = call[c]
  BY <1>1
<1>11. Shapes'
  <2>1. pc' \in [Callers -> Labels] /\ call' \in [Callers -> CallRecords]
    BY <1>1, <1>2, NoneFacts DEF Shapes, Labels
  <2> QED
    BY <1>1, <1>2, <2>1 DEF Shapes, issuer
<1>12. ASSUME NEW i \in Callers \cup {Shared}
       PROVE  FetchOK(World', fetch'[i])
  <2>1. FetchOK(World, fetch[i]) /\ fetch[i] \in FetchRecords
    BY <1>2 DEF Inv, Shapes
  <2> QED
    BY <1>1, <1>5, <1>8, <1>9, <2>1, FetchLater
<1>13. ASSUME NEW c \in Callers
       PROVE  CallOK(World', pc'[c], call'[c])
  <2>1. CASE pc[c] = "done"
    <3>1. 0 <= World'.now
      BY <1>5 DEF Worlds
    <3> QED
      BY <1>10, <2>1, <3>1, NoneFacts DEF CallOK, AnswerOK
  <2>2. CASE pc[c] # "done"
    <3>1. /\ CallOK(World, pc[c], call[c]) /\ pc[c] \in Labels
          /\ call[c] \in CallRecords
      BY <1>2 DEF Inv, Shapes
    <3> QED
      BY <1>5, <1>8, <1>9, <1>10, <2>2, <3>1, CallWaits
  <2> QED
    BY <2>1, <2>2
<1>14. CacheOK(World', cache') /\ ThrottleOK(World', throttle')
  <2>1. /\ cache \in CacheRecords /\ throttle \in ThrottleRecords
        /\ CacheOK(World, cache) /\ ThrottleOK(World, throttle)
    BY <1>2 DEF Inv, Shapes
  <2> QED
    BY <1>1, <1>5, <1>8, <2>1, CacheLater, ThrottleLater
<1>15. Waiting'
  BY <1>1, <1>2, <1>10 DEF Waiting
<1>16. Lookups'
  BY <1>1, <1>9, <1>10 DEF Lookups
<1> QED
  BY <1>4, <1>11, <1>12, <1>13, <1>14, <1>15, <1>16 DEF Inv

-----------------------------------------------------------------------------
(* The invariant and what follows from it.                                 *)

\* It holds before the first call.
LEMMA InvInit == Init => Inv
<1> SUFFICES ASSUME Init PROVE Inv
  OBVIOUS
<1>1. Clocks
  <2>1. PICK K \in SUBSET Kids : keysAt = [v \in 1..MaxRev |-> IF v = 1 THEN K ELSE {}]
    BY DEF Init
  <2>2. /\ now = StartTime /\ rev = 1 /\ misled = FALSE
        /\ lastSeen = [k \in Kids |-> 0] /\ lastGone = [k \in Kids |-> 0]
        /\ failedAt = [fetch |-> 0, unstored |-> 0]
    BY DEF Init
  <2>3. keysAt \in [1..MaxRev -> SUBSET Kids]
    BY <2>1
  <2>4. now \in Nat /\ now >= StartTime /\ now <= StartTime + MaxTime /\ rev \in 1..MaxRev
    BY <2>2, Numbers DEF StartTime
  <2>5. lastSeen \in [Kids -> 0..now] /\ lastGone \in [Kids -> 0..now]
    BY <2>2, <2>4
  <2>6. failedAt \in [fetch : 0..now, unstored : 0..now]
    BY <2>2, <2>4
  <2> QED
    BY <2>2, <2>3, <2>4, <2>5, <2>6 DEF Clocks
<1>2. /\ cache = Cold /\ throttle = NeverThrottled /\ known = 0 /\ rev = 1
      /\ fetch = [i \in Callers \cup {Shared} |-> NoFetch]
      /\ pc = [c \in Callers |-> "idle"] /\ call = [c \in Callers |-> NoCall]
  BY DEF Init
<1>3. /\ NeverThrottled \in ThrottleRecords /\ NeverThrottled.at = 0
  BY DEF NeverThrottled, ThrottleRecords
<1>4. Shapes
  BY <1>2, <1>3, NoneFacts, NotStoredFacts DEF Shapes, Labels
<1>5. World \in Worlds /\ World.rev = rev
  BY <1>1, WorldFacts
<1>6. \A i \in Callers \cup {Shared} : FetchOK(World, fetch[i])
  BY <1>2, NoneFacts DEF FetchOK
<1>7. CacheOK(World, cache)
  BY <1>2, <1>5, NotStoredFacts DEF CacheOK
<1>8. ThrottleOK(World, throttle)
  BY <1>2, <1>3, <1>5 DEF ThrottleOK, Worlds
<1>9. \A c \in Callers : CallOK(World, pc[c], call[c])
  <2>1. 0 <= World.now
    BY <1>5 DEF Worlds
  <2> QED
    BY <1>2, <2>1, NoneFacts DEF CallOK, AnswerOK
<1>10. Waiting /\ Lookups
  BY <1>2, NoneFacts DEF Waiting, Lookups
<1> QED
  BY <1>1, <1>4, <1>6, <1>7, <1>8, <1>9, <1>10 DEF Inv

\* Nothing moves in a stuttering step.
LEMMA StutterKeeps ==
    ASSUME Inv, UNCHANGED vars
    PROVE  Inv'
<1>1. /\ UNCHANGED <<now, issuer, misled, failedAt>>
      /\ UNCHANGED <<cache, throttle, fetch, pc, call, known>>
  BY DEF vars
<1>2. World' = World /\ Clocks'
  BY <1>1, SameWorld DEF Inv
<1>3. Shapes'
  BY <1>1 DEF Inv, Shapes, issuer
<1>4. Waiting' /\ Lookups'
  BY <1>1, <1>2 DEF Inv, Waiting, Lookups
<1> QED
  BY <1>1, <1>2, <1>3, <1>4 DEF Inv

\* Every step keeps it.
LEMMA InvStep == Inv /\ [Next]_vars => Inv'
<1> SUFFICES ASSUME Inv, [Next]_vars PROVE Inv'
  OBVIOUS
<1>1. ASSUME NEW c \in Callers, NEW kid \in Kids, Begin(c, kid) PROVE Inv'
  BY <1>1, BeginKeeps
<1>2. ASSUME NEW c \in Callers, Join(c) PROVE Inv'
  BY <1>2, JoinKeeps
<1>3. ASSUME NEW c \in Callers, Cancel(c) PROVE Inv'
  BY <1>3, CancelKeeps
<1>4. ASSUME NEW c \in Callers, GotError(c) PROVE Inv'
  BY <1>4, GotErrorKeeps
<1>5. ASSUME NEW c \in Callers, GotKeys(c) PROVE Inv'
  BY <1>5, GotKeysKeeps
<1>6. ASSUME NEW c \in Callers, GotUnshareable(c) PROVE Inv'
  BY <1>6, GotUnshareableKeeps
<1>7. ASSUME NEW c \in Callers, RecordDirect(c) PROVE Inv'
  BY <1>7, RecordDirectKeeps
<1>8. ASSUME FetchStarts PROVE Inv'
  BY <1>8, FetchStartsKeeps
<1>9. ASSUME RecordShared PROVE Inv'
  BY <1>9, RecordSharedKeeps
<1>10. ASSUME NEW i \in Callers \cup {Shared}, IssuerAnswers(i) PROVE Inv'
  BY <1>10, IssuerAnswersKeeps
<1>11. ASSUME NEW i \in Callers \cup {Shared}, FetchFails(i) PROVE Inv'
  BY <1>11, FetchFailsKeeps
<1>12. ASSUME NEW i \in Callers \cup {Shared}, NEW h \in Headers, ApplyUnchanged(i, h)
       PROVE  Inv'
  BY <1>12, ApplyUnchangedKeeps
<1>13. ASSUME NEW i \in Callers \cup {Shared}, NEW h \in Headers, ApplyOK(i, h)
       PROVE  Inv'
  BY <1>13, ApplyOKKeeps
<1>14. ASSUME NEW keys \in SUBSET Kids \ {{}}, Rotate(keys) PROVE Inv'
  BY <1>14, RotateKeeps
<1>15. ASSUME Tick PROVE Inv'
  BY <1>15, TickKeeps
<1>16. ASSUME UNCHANGED vars PROVE Inv'
  BY <1>16, StutterKeeps
<1> QED
  BY <1>1, <1>2, <1>3, <1>4, <1>5, <1>6, <1>7, <1>8, <1>9, <1>10, <1>11, <1>12,
     <1>13, <1>14, <1>15, <1>16 DEF Next

\* The invariant holds throughout, for all callers, key ids, headers and bounds.
THEOREM JwksInvariance == Spec => []Inv
BY InvInit, InvStep, PTL DEF Spec

\* No key is accepted for longer than the two local ceilings after the issuer
\* last published it, whatever the issuer's headers say, however late answers
\* arrive and whoever shares a fetch, unless a 304 renewed an older key set
\* than it is about.
THEOREM TrustStaysRecent == Spec => []TrustIsRecent
<1>1. Inv => TrustIsRecent
  <2> SUFFICES ASSUME Inv, NEW c \in Callers, call[c].answer = "keys", ~misled
               PROVE  now - Seen(call[c].kid) < MaxFresh + MaxStale
    BY DEF TrustIsRecent
  <2>1. Clocks /\ CallOK(World, pc[c], call[c])
    BY DEF Inv
  <2>2. pc[c] = "done" /\ call[c].kid \in Kids /\ AnswerOK(World, call[c])
    BY <2>1 DEF CallOK
  <2>3. World.now = now /\ World.misled = misled
        /\ World.seen[call[c].kid] = Seen(call[c].kid)
    BY <2>1, <2>2, WorldFacts
  <2> QED
    BY <2>2, <2>3 DEF AnswerOK
<1> QED
  BY <1>1, JwksInvariance, PTL

\* A key id is refused only if it was missing since shortly before the call: a
\* new signing key is held up no longer than the window of the throttle and
\* one timeout.
THEOREM ThrottleStaysBrief == Spec => []ThrottleIsBrief
<1>1. Inv => ThrottleIsBrief
  <2> SUFFICES ASSUME Inv, NEW c \in Callers, call[c].answer = "invalid", ~misled,
                      ~(call[c].shared /\ call[c].error = "invalid")
               PROVE  Missed(call[c].kid) >= call[c].since - Window - Timeout
    BY DEF ThrottleIsBrief
  <2>1. Clocks /\ CallOK(World, pc[c], call[c])
    BY DEF Inv
  <2>2. pc[c] = "done" /\ call[c].kid \in Kids /\ AnswerOK(World, call[c])
    BY <2>1 DEF CallOK
  <2>3. /\ World.misled = misled
        /\ World.missed[call[c].kid] = Missed(call[c].kid)
    BY <2>1, <2>2, WorldFacts
  <2> QED
    BY <2>2, <2>3 DEF AnswerOK
<1> QED
  BY <1>1, JwksInvariance, PTL

\* A caller that gives up leaves nobody waiting in vain and makes the issuer
\* look unavailable to nobody.
THEOREM CancelStaysHarmless == Spec => []CancelIsHarmless
<1>1. Inv => TypeOK
  <2> SUFFICES ASSUME Inv PROVE TypeOK
    OBVIOUS
  <2>1. Clocks /\ Shapes /\ CacheOK(World, cache) /\ ThrottleOK(World, throttle)
    BY DEF Inv
  <2>2. World.now = now /\ World.rev = rev
    BY <2>1, WorldFacts
  <2>3. /\ now \in StartTime..(StartTime + MaxTime) /\ rev \in 1..MaxRev
        /\ known \in 0..rev
    BY <2>1, Numbers DEF Clocks, Shapes, StartTime
  <2>4. /\ cache.keys \subseteq Kids /\ cache.have \in BOOLEAN
        /\ cache.etag \in 0..rev
        /\ cache.staleUntil = 0 \/ cache.staleUntil > cache.expiry
    BY <2>1, <2>2, <2>3 DEF Shapes, CacheRecords, CacheOK
  <2>5. throttle.keys \subseteq Kids /\ throttle.at \in 0..now
    BY <2>1, <2>2 DEF Shapes, ThrottleRecords, ThrottleOK, Clocks
  <2>6. \A i \in Callers \cup {Shared} : fetch[i].phase \in Phases
    BY <2>1 DEF Shapes, FetchRecords
  <2>7. \A c \in Callers : pc[c] \in Labels /\ call[c].answer \in Answers
    BY <2>1 DEF Shapes, CallRecords
  <2> QED
    BY <2>3, <2>4, <2>5, <2>6, <2>7 DEF TypeOK, Phases, Labels, Answers
<1>2. Inv => UnavailableIsReal
  <2> SUFFICES ASSUME Inv, NEW c \in Callers, call[c].answer = "unavailable"
               PROVE  \E t \in {failedAt.fetch, failedAt.unstored} :
                         t > call[c].since - Window
    BY DEF UnavailableIsReal
  <2>1. Clocks /\ CallOK(World, pc[c], call[c])
    BY DEF Inv
  <2>2. World.outage > call[c].since - Window
    BY <2>1 DEF CallOK, AnswerOK
  <2>3. World.outage = Outage
    BY <2>1, WorldFacts
  <2> QED
    BY <2>2, <2>3 DEF Outage
<1>3. Inv => NobodyWaitsInVain
  BY DEF Inv, Waiting, NobodyWaitsInVain
<1>4. Inv => CancelIsHarmless
  BY <1>1, <1>2, <1>3 DEF CancelIsHarmless
<1> QED
  BY <1>4, JwksInvariance, PTL
=============================================================================
