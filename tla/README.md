# Vaultsmith: a verification project in TLA+

Vaultsmith is an HTTP service that encrypts, decrypts, rotates and generates
Ansible Vault material. Callers are browsers with a session, bearer-token
clients or MCP clients; a pool of slots admits the expensive operations; an
optional keyring signs attestations of rotations. This project models the parts
whose correctness depends on what overtakes what, checks them with TLC on small
instances and proves the central facts with TLAPS for every instance.

## Inventory

Paths are under `src/`. State, operations and interactions of each part:

| Part | State it keeps | Operations | Talks to | What is hard |
|---|---|---|---|---|
| Browser sessions: `backend/internal/authn` (`session_lock.go`, `refresh.go`, `redis.go`, `http.go`, `principal.go`) | Redis: lock key, fence key, session key; per request: lease goroutine, session copy | middleware (lock, load, activate), refresh, logout, commit at first write, release | Redis, identity provider | locks that expire under their holder, lost replies, crashes, deadlines passing during I/O |
| Login flow: `authn/oidc.go`, `authn/transaction.go`, `httpapi/auth_routes.go` | Redis: login transaction | begin, complete | sessions, provider | one-shot consumption, session replacement |
| Access tokens: `authn/access_token.go` | key-set cache, throttles | verify, refresh keys | provider | single flight, stale use, unknown-key throttle |
| Admission: `vaultservice/admission.go` | channel of tokens, gauge, counter; per lease: mutex, active, contextIssued | TryAcquire, Context, hold, Release | service, HTTP handlers | double release, release during work, cancellation |
| Service: `vaultservice/service.go`, `generate.go` | prepared operations (started flag) | ListProfiles, Prepare, Run, Generate | admission, authorizer, executors, keyring | once-only execution, stale preparation |
| Keyring: `attestationkeyring` | snapshot, closed/started, channels, counters | Reload, Start, Close, Sign, Resolve, discovery | mounted file, attestation service | reload races, Close against poller and users |
| Attestation: `attestation`, `vaultservice/attestation_service.go` | none | sign, verify with a fixed precedence of verdicts | keyring, admission | readiness that changes in between |
| Authorization: `authz/authorizer.go` | policy snapshot | enforce, list, reload | service | exact rotation grants, deny overrides |
| HTTP and MCP layer: `httpapi` | per request: credential, slot, body watcher; metrics | routing, credential dispatch, CSRF, CORS, deadlines, body reading, MCP headers and bodies | all of the above | order of the checks, a body that stalls, two copies of an MCP name, what a retry may repeat |
| Material generation: `vaultservice/generate.go`, `generate`, `httpapi/generate_http.go` | private bytes for the time of a call | decode, authorize, generate, seal, check; password sampling; certificate requests | admission, authorizer, crypto libraries, envelopes | contexts that end halfway, faulty libraries, exact uniformity, arrays kept partly, names respelled |
| Vault envelopes: `ansiblevault` | none | Encrypt, Decrypt, CanonicalEnvelope | service, attestation | padding, two levels of hex, line ends, labels |
| Server process: `backend/cmd/server` | listener, deferred closes | start, serve, signal, shutdown | everything that is opened | a signal at any moment, requests that outlast the shutdown limit |
| Web client: `frontend/src` (`App.tsx`, `GenerateWorkbench.tsx`, `api.ts`) | form, results, capabilities, current calls | discovery, operations, verification, generation, copy, sign-out | HTTP API | answers that come after the form they answer was edited, refreshed or signed out of |
| Configuration, static assets, version, generated models, deployment | see `PROJECT.json` | | | sequential or generated |

What makes each of them correct:

* sessions: a destroyed session stays destroyed; a commit never overwrites a
  newer one; nobody is vouched for past a deadline; every request ends and every
  lock is freed;
* login: a state is used once, and by the browser that began it; no session
  survives a renewal under its old token;
* access tokens: a token verified against a key was signed with a key the
  provider published recently enough; a new key becomes usable; a caller that
  gives up does not harm the ones that share its fetch;
* admission: every slot is accounted for and comes back; work never outlives
  its slot; a prepared operation runs once;
* keyring: the keyring in use is whole and never goes back; Close is final and
  returns; a verdict is never an artefact of closing;
* authorization: a listing is the whole of what Prepare grants; a decision is
  that of a policy on disk during the request; a refusal gives nothing away;
* HTTP and MCP: what is carried out was carried out for a caller entitled to it
  by exactly one credential and never for another site; what is checked is what
  runs; an answer that invites a retry means nothing was done; a stalled body
  costs its own request only;
* generation: nothing is drawn for a caller without the right or for parameters
  that were not acceptable as sent; every acceptable password is equally likely;
  a certificate request says what was asked; private bytes leave only sealed;
* envelopes: what was sealed opens again and nothing else does; the canonical
  form keeps the content and forgets the format;
* server: what requests use outlives them, success means a clean stop, and a
  signal always stops the process;
* web client: what is shown belongs together, signing out leaves nothing, new
  capabilities never retarget what was typed, and it is never stuck.

## Modules

| Module | Models |
|---|---|
| `SessionRegister` | what the session store promises: a compare-and-set register with a tombstone |
| `SessionFence` | requests that share one stored session |
| `MCSessionFence` | its instances |
| `SessionFenceProofs` | its theorems |
| `Admission` | the slot pool, leases and the operations admitted |
| `MCAdmission`, `AdmissionProofs` | its instances and theorems |
| `KeyringManager` | the keyring, its poller and its users |
| `MCKeyringManager`, `KeyringManagerProofs` | its instances and theorems |
| `Login` | beginning and completing a login inside the session middleware |
| `MCLogin`, `LoginProofs` | its instances and theorems |
| `JwksCache` | the key-set cache of access-token verification |
| `MCJwksCache`, `JwksCacheProofs` | its instances and theorems |
| `Authorization` | the policy, its reload, listing and preparing |
| `MCAuthorization`, `AuthorizationProofs` | its instances and theorems |
| `HttpRequest` | what a request says, and what the middleware decides from it: pure operators |
| `HttpApi` | requests through middleware, slot, body and service |
| `MCHttpApi`, `HttpApiProofs` | its instances and theorems |
| `Generate` | a Generate call in the service |
| `PasswordSampler`, `X509Request`, `SurrogateScan`, `VaultEnvelope` | the algorithms generated material rests on |
| `MCMaterial` | instances of these five; the theorems on `Generate`, `X509Request` and `SurrogateScan` are in `AdmissionProofs`, beside the lease they work under, those on `VaultEnvelope` in `KeyringManagerProofs`, beside the other keys |
| `ServerLifecycle`, `MCServerLifecycle` | start, serving and stop of the process; its theorem is in `KeyringManagerProofs`, beside the manager it opens and closes |
| `WebClient` | the handlers of the web client and its calls |
| `MCWebClient`, `WebClientProofs` | its instances and theorems |

`PROJECT.json` maps every definition to the lines it stands for.

### SessionFence

Each request is a process; `pc` follows it through `SessionMiddleware`:
`start` (acquireSessionMutex), `load`, `activate`, `handler` (one of: a plain
route, logout, a route that calls `AuthenticatedPrincipal`), the steps of
`refreshSession` (`reload`, `exchange`, `exchanged`, `sync`, `synced`,
`reactivate`), `destroy`, `write` (the commit at the first write of the
response), `stop` and `unlock` (release of the lease).

* The three Redis scripts (`Activate`, `Commit`, `Delete`) are atomic; each may
  be refused, fail to arrive, or be applied with its reply lost. So may the lock
  request and the unlock.
* `lock` may expire at any time (`ExpireLock`): the model assumes nothing about
  the TTL, the keep-alive interval or pauses of the process. The lease is
  found lost at any time too, before or after the lock really is.
* The session is abstracted to what decisions depend on: whether it is bound to
  this configuration, its refresh-token generation, the expiry of its claims,
  the time of the last refresh and its own expiry.
* The provider accepts one generation of the refresh token, may refuse, rotate,
  omit the ID token or answer with one the verifier rejects, and its reply may
  be lost.
* `current` and `ended` are history: which requests hold the last stored
  version, and whether the delete script ran.

`SessionRegister` is the abstract specification. `ImplementsRegister` says that
a `Commit` or `Delete` that takes effect is one by a request whose copy is the
last version stored, and that nothing is stored after the tombstone.

`NoResurrection` speaks of a session that a logout *deleted*. A logout that
found no session promises less, and the model has the behaviour: a logout loses
its lock before it loads the session, a second request takes the lock and holds
a copy, the session key expires idle, the logout finds nothing and is answered
204, and the second request, whose lock and fence are intact, stores its copy
again.

### Admission

A request has one goroutine that acquires the slot, binds the context and
prepares (`stage`), and several goroutines (`Calls`) that may run the prepared
operation and release the lease. The channel, the gauge, the lease's mutex and
the `started` flag are separate variables, and each operation on one of them is
a step. Cancellation may come at any time. Authorization, validation and profile
lookup in `Prepare` are one nondeterministic refusal. `Generate` has no
once-only flag, as in the code. The verifier pool is the same code with another
capacity.

### KeyringManager

Callers make one call each (Reload, Start, Close, sign or verify); the poller
loops. A critical section of `mu` is one step; `reloadMu` is a variable, since a
reload reads and parses while it holds it. A document is the state of each key,
or `Unreadable`; `Parse` accepts exactly one active key. Equal content hashes
are equal documents. `Verdict` has the outcomes of `attestation.Verify` that
depend on the key. `confirmed` (the file, with its version, as the last
successful reload read it) and `floor` (that version when a call began) are
history. The reload counters wrap at `CounterSize` as the program's wrap at
2^64.

### Login

Requests of two browsers run through `SessionMiddleware` beside each other: plain
requests, one that begins a login, and callbacks. Any browser may open any
callback address, any number of times. `pc` names the place: lock, load and
activation as in `SessionFence`, then `BeginLogin` (a pre-authentication session
and a one-shot transaction) or `CompleteLogin` (consume, compare the session,
exchange, renew the token, move the fence, store the principal), then the
commit at the first write, which sets the cookie. Every Redis call may fail with
or without its effect; locks, sessions and transactions expire; responses are
lost or arrive late. The commit of a session without a fence is two calls, a
check and a write. The exchange and the ID token are one choice of outcomes. A
login is named by the request that began it; `redeemed`, `preAuth`, `beganBy`
and `complete` are history.

### JwksCache

`keysForKID` and what it calls. A section under the cache's mutex is one step; a
shared fetch (`fetch[Shared]`) runs beside the callers that wait for it, and a
caller that may not share a no-store response fetches for itself. The issuer
rotates keys, answers late or not at all, with any of a set of cache headers or
with 304. Headers are records of the directives the code tells apart; `Stored`,
`Freshness` and `Throttled` are the arithmetic of the code in abstract time
units. A 304 may carry its own ETag or none, so the stored ETag is replaced or
kept. `misled` is history: a 304 has renewed a stored set that is older than the
one the 304 was about (see Observations). Left out: discovery, strict decoding of
keys, and the claims.

### Authorization

`currentPolicy` reads the loaded policy, asks for the file's time, loads and
stores in separate steps, while an operator replaces the file with valid,
invalid or unreadable content. `Evaluate` is compared with `Granted`, a
definition of the decision that does not know the enforcer's structure.
`ListProfiles` keeps its flat slice of decisions, the index arithmetic
(`PairIndex`) and the choice of what is visible; a listing is compared with
`RightListing`, the whole of what preparing each operation would grant, so that
neither a right too many nor one that is hidden passes. `Prepare` keeps the order
of its checks. A selector ending in `*` is the set of ids it matches.

### HttpRequest and HttpApi

`HttpRequest` holds what is decided from headers alone: routes, CORS, CSRF,
credential dispatch, scopes, MCP's visible tools, the status a service error
becomes. The code names the scope of an MCP call in three places, which are
three definitions: the scopes a tool is registered under (`RegistrationScope`),
the table for the headers, which a challenge quotes (`McpScope`), and the
service preflight a call is put to (`McpPreflightScope`, by way of `RequiredScope`,
the service's own table). `ScopeOf` is the documented one
(`docs/authentication.md:155`), used by properties only.

`HttpApi` serves connections: headers, token or session, a slot taken without waiting, the body read under a watcher that interrupts it when the
context ends, decoding, the service (one step with any of its outcomes, modelled
in detail by the other modules), the outcome counted and the slot given back. A
connection is reused, so a watcher that outlived its request would meet the next
one. Time is in units of 5 s (application deadline 6, read timeout 8) and passes
where a body stalls. A body is good, bad, oversized or stalled.

### Generate, its algorithms and VaultEnvelope

`Generate` follows one call over REST, MCP or in process from its JSON to its
answer; each step ends where the code looks at its context again, and the
context may end or another goroutine release the lease between any two steps.
Policy, crypto libraries and the profile's executor may be faulty.

* `PasswordSampler`: one draw is one step, and `odds` is the exact probability of
  the draws so far, so uniformity over the accepted set is an invariant. The
  accepted set is enumerated in the property; the code's recurrence counts it.
* `X509Request`: strings are classes (well formed, malformed, respelled by the
  library, not parsed by it, with a host it does not take for a domain name); the
  decoder visits the SAN arrays in any order, as
  a Go map does, and keeps what fits; `crypto/x509` sorts, respells and may be
  faulty.
* `SurrogateScan`: `hasValidJSONSurrogatePairs`, which goes through a string from
  left to right, compared with a decoder stated place by place: a backslash begins
  an escape when an even number of them stands right before it.
* `VaultEnvelope`: header, lines, line ends, case, padding; a ciphertext byte
  carries its key and value, a MAC its key and text. Texts are reformatted,
  relabelled and damaged.

They share no state. `MCMaterial` puts all five beside each other and lets `turn`
choose which of them a behaviour belongs to.

### ServerLifecycle

`run()` of the server: startup steps that may fail, the deferred closes, the
serving goroutine, the signal, `Shutdown` with its limit and what `run` returns.
`net/http` is external: Shutdown closes the listener at once and returns when no
request is left or its context ends. Requests may never end.

### WebClient

One handler, or one continuation of an `await`, is one step, as in the browser.
`cur` names the call each role waits for; a call that is no longer current,
aborted or not, may still settle late. Capabilities change between answers. A
result is the request it answers, so "belongs together" can be stated. Left out:
validation, formats, messages, downloads and the configuration snippet.

## Runs

| Run | Checks | Instance |
|---|---|---|
| `session_fence` | `NoResurrection`, `RotationIsDurable`, `AuthorityIsLive`, `NoOkAfterEnd`, `ImplementsRegister` | 2 requests, clock 1..4, deadline 4, idle 2 |
| `session_fence_live` | `EveryRequestEnds` | 2 requests, the clock stands still |
| `admission` | `SlotsAccounted`, `GaugeAccounted`, `WorkIsLeased`, `SlotsComeBack` | 2 requests, 1 slot, 2 goroutines each |
| `keyring` | `KeyringIsGenuine`, `SwapsAdvance`, `CloseEnds`, `CatchesUp` | 2 callers and the poller, 2 keys, 2 replacements |
| `login` | `SpentStaysSpent`, `BoundBrowser`, `UnfencedIsPrivate` | 2 browsers, one of them signed in, 3 requests, 3 tokens, 1 login |
| `jwks` | `TrustIsRecent`, `ThrottleIsBrief`, `CancelIsHarmless` | 2 callers, 2 key ids, 2 calls, 3 clock steps, 2 key sets, 6 headers |
| `jwks_removed` | `RemovedStaysRemoved`: violated | 2 callers, 4 calls, the clock stands still |
| `authorization` | `DecisionIsCurrent`, `ListingIsPrepared`, `StrangersLearnNothing` | all policies over 6 rules, 6 callers, every command, one at a time; and 2 requests at once with 2 replacements of the file |
| `http` | `ExecutedIsEntitled`, `CrossSiteCannotAct`, `McpIsConsistent`, `AnswerIsTrue`, `StallIsContained` | every combination of credentials, origin, route and method; MCP headers against bodies; 2 connections for 1 slot per pool |
| `material` | `OnlyForEntitled`, `PrivateIsContained`, `PasswordIsUniform`, `CertificateIsAsked`, `RefusesExactlyTheLossy`, `EnvelopeIsFaithful` | every kind on every surface; passwords of up to 4 characters; 2 subject values and 3 SANs; strings of up to 7 symbols; 3 bytes in blocks of 2, 2 edits |
| `lifecycle` | `StopIsOrderly`, `SignalStops` | 7 startup steps, 2 requests, limit 2 |
| `web` | `ShownBelongsTogether`, `SignedOutIsBlank`, `NoSilentChange`, `NeverStuck` | 2 environments, 3 sets of capabilities, 2 users, 2 calls under way |

A property that groups several facts names them in its definition
(`WorkIsLeased`, `KeyringIsGenuine`, `AnswerIsTrue`, ...); each part has its own
comment.

Bounds. Two requests are enough for every hazard of the session: one is the
holder that lost its lock and the other its successor; a successor of the
successor is another second request. `MaxTime`, `MaxGen` and `MaxWrites` bound
the clock, the refresh tokens and the replacements; they are chosen so that
claims, sessions and fences expire, a token is rotated twice, and a broken
document is followed by a good one. Two goroutines on one lease let one run or
release while the other does either and a second request waits for the slot. Two
callers beside the poller allow Start against Close, and Close against a user. A
login needs the request that begins it and two that race: two callbacks, or a
callback and a plain request of the old cookie. Two calls and three clock steps
let a key set age past freshness and grace between two answers; four calls are
what an overtaken direct fetch takes. On HTTP, two connections compete for a
slot, and one connection serves a second request after a stalled one. Password
bounds reach every branch of the recurrence, with a class that exclusion leaves
empty; certificate arrays overflow one by one and only together; plaintexts end
inside and at the end of a block and lines fill and do not. Two calls under way
let one answer overtake another. Requests, callers, goroutines and calls are
interchangeable, so runs without liveness use symmetry. Where all requests end
or the bounds are used up, deadlock is not an error; `authorization` and `http`
check it.

The violation. `jwks_removed`: `refresh` stores whichever key set arrives last.
When the issuer forbids storing, callers fetch directly and concurrently; an
older response that arrives after a newer one replaces it, and a removed key is
accepted again until that set expires, where `docs/authentication.md:114` says
that a refresh removing a key rejects its tokens.

Fairness. `SessionFence`, `Admission`, `KeyringManager`: weak fairness of a
request's or goroutine's steps says that goroutines are scheduled and that calls
return: every Redis and provider call has a timeout, and the executor runs under
the request's deadline. A lock that nobody extends reaches its TTL. The poller's
stop is strongly fair because `select` chooses at random among the ready cases,
so a closed channel is not passed over for ever. `HttpApi`: the server's steps
and the passing of time while a body stalls, since timers fire. `Generate`: the
handler's own steps. `ServerLifecycle`: main, the serving goroutine and time.
Clients, requests under shutdown, the clock of the sessions, crashes,
cancellations, the operator, signals and losses of a lease have no fairness.

Each property of a passing run has a mutant in `PROJECT.json`: the definition
changed as a plausible mistake would change it, under which TLC finds the
property violated.

### Observations

Behaviours met while modelling that a reader of the documents may not expect.
Unless one says otherwise, the properties are stated so as to leave them aside.

* `Lease.Release` frees the slot before it lowers the gauge (`admission.go:160`),
  so the gauge can show one lease more than the capacity for a moment;
  `docs/api-operator-preflight.md:137` says it never does. The slots never exceed
  it.
* A logout that found no session can be followed by a commit of another
  request's copy (see `SessionFence`).
* A second login whose callback fails once the token is renewed leaves the earlier
  principal's session under the new token, with a new absolute deadline
  (`oidc.go:257`, `docs/authentication.md:71`).
* A caller that joins a shared fetch gets the throttle's refusal of the caller
  that leads it (`access_token.go:433`, `docs/api-reference.md:83`).
* A 304 with no-store drops the key set it confirms; the next 304 then has
  nothing to confirm and is answered as an outage (`access_token.go:590`,
  `docs/authentication.md:101`).
* A 304 renews whatever key set is stored when it arrives (`access_token.go:590`).
  If a direct fetch that was answered earlier is applied between the request and
  its 304, the renewed set is an older one than the 304 is about, and with the
  304's own ETag later ones go on confirming it, past the local ceilings.
  `TrustIsRecent` and `ThrottleIsBrief` leave aside what follows such a 304.
* Headers and credentials that take longer than 10 s let the server's read
  timeout come before the application's deadline, and a stalled body is then
  answered 400, not 503 (`handler.go:528`, `docs/api-clients.md:306`).
* The attestation-verify scope alone lists MCP tools (`security.go:405`,
  `docs/authentication.md:163`).
* A URI SAN whose host is no domain name to `crypto/x509`, as in
  `https://example.com./` or `http://a..b/`, is acceptable
  (`docs/adr/0002-generate.md:223`, `x509.go:722`) and put into the request, but the
  library does not read the request back, so it ends in `ErrGenerationFailed` with
  its key already drawn (`x509.go:170`). Beside an IPvFuture URI the bounded parser
  reads it and the request succeeds. `CertificateIsAsked` says exactly which
  parameters end so (`Misread`).
* After a failed sign-out and a failed refresh of the capabilities the web client
  offers no retry (`App.tsx:1294`).

## Proofs

All are safety proofs for every value of the constants: any number of requests,
goroutines, callers, slots, keys, files and browsers, and any durations. Each
invariant below was checked with TLC on the instance of the module's run before
it was proved.

* `SessionFenceProofs`. Assumptions: durations are natural numbers, lifetimes
  positive (`config/auth.go` refuses others), `None` is no request or session.
  The invariant is `TypeOK`, `HasCopy` (a place that uses the copy has one),
  `Ownership` (lock and fence name requests that took them),
  `FencedCopyIsCurrent`, `EndedIsFinal`, `RefreshOrder` and `RotationKept` (refresh
  tokens grow, and what was answered is not undone). The heart is `FencedCopyIsCurrent`: while a request owns both the lock and the fence
  its copy is the last one stored. Without it neither a commit after a delete nor
  the refinement can be excluded. From it follow `DestroyedStaysDestroyed`,
  `RotationStaysDurable`, `NoOkAfterDestruction` and `FenceImplementsRegister`;
  `VouchesForTheLiving` is an action property.
* `AdmissionProofs`. Assumptions: finitely many requests, positive capacity. The
  invariant is `TypeOK`, `MutexHeld`, `LeaseLife`, `OneRunner`, `SlotsAccounted`
  and `GaugeAccounted`; the counting steps use the cardinality facts of
  `FiniteSetTheorems`. `WorkBounded` maps the goroutines at work injectively into
  the requests that hold a slot.
* `KeyringManagerProofs`. Assumptions: distinct model values, a first document
  that `Parse` accepts. The invariant is `TypeOK`, `SnapshotIsWhole`,
  `Serialised` (what a reload has read is no older than what is installed),
  `PollerLife` and `Users`. `CloseIsFinal` and `ReloadsNeverGoBack` are action
  properties.
* `LoginProofs`. Assumptions: at least one token, `None` and `Earlier` are nobody.
  The three properties need what a request has in hand (`Locals`), that a token it
  generated is known to nobody else until it is answered (`Private`), where a
  login's transaction is (`OneShot`), an assignment of tokens to browsers that all
  cookies, copies and sessions agree with (`Owned`), that only a complete login is
  named by a session (`Completed`), and that once a token is replaced neither its
  lock nor its fence can be used to store it again (`Replaced`). The actions are
  cut into the effects they have on Redis and the moves of the request; each
  conjunct is shown once for every effect.
* `AuthorizationProofs`. Assumptions: a row that names a parent names two roles;
  profiles are configured ones. First the evaluation: `Evaluate` equals `Granted`,
  and `PairIndex` is injective onto the decisions, so a listing reads its own
  decision and is the whole of what the policy grants (`ListingIsRight`). Then the
  invariant: the policy in memory and whatever a request read, loaded or decided
  comes from a version the file had, no older than the request (`RequestOK`, an
  operator of the files and one request, so that steps of others leave it alone).
* `HttpApiProofs`. Assumptions: finitely many connections, positive capacities and
  deadlines, requests that are request records. The middleware is a list of rules
  of which the first that applies answers; a lemma per route says what a request
  that passed all of them must look like. The invariant says of every connection
  that its stage is one its request can reach (`Stage`), that slot, watcher,
  socket deadline and age fit the stage (`Reading`), and what the answer tells
  (`Told`); it is needed because the properties look at an answered connection
  while the facts are established many steps earlier.
* `JwksCacheProofs`. Assumptions: positive stale ceiling and throttle window, a
  fetch timeout shorter than the two ceilings (the code has 5 s against hours).
  The argument is about times: a key set is `Witnessed` since t when each key in
  it was published, and each key outside it missing, at t or later. Every step
  leads to a `Later` world in which witnesses stand; each fact about a fetch, the
  cache, the throttle and a call is shown where it arises and carried on by one
  lemma of its kind. The attempt to prove `TrustIsRecent` as first stated found the
  behaviour of `misled`, which takes more calls than the run has.
* `WebClientProofs`. Assumptions: 0 is the number of no call, and what a user may
  copy is one of the two things that can be copied. The properties look at the
  screen, which a call under way cannot change but its answer can. So the invariant
  says of each role what the client looks like while a call is awaited in it: one
  discovery at most, and exactly while the client is loading (`Discovery`); the form
  of an operation or a verification locked and as it was when the call was made
  (`Operating`), that of a generation too and only in its view (`Generating`); a
  result only beside standing capabilities (`Showing`); nothing else awaited once a
  sign-out began (`SigningOut`). There is one lemma per handler and per answer.
* `Generate`, in `AdmissionProofs`, beside the lease it works under. Assumption
  `GenerateAssumption`: a policy has one of three answers and flags are booleans.
  `OnlyForEntitled` and the safety part of `PrivateIsContained` need that the command
  in hand is the decoded call (`CommandIsCalled`), that the places after a check are
  reached only by a caller who passed it (`CallerIsChecked`), and where private bytes
  and the mutex are (`Containment`).
* `X509Request`, in `AdmissionProofs`. Assumption `RequestAssumption`: parameters
  are JSON of the documented shape with anything in place of an array, and "absent"
  is no string, list or object. `AcceptableIsValid` shows that what the documentation
  accepts is exactly what can be decoded and passes validation. The invariant says of
  the decoding (`Decoding`) that the SANs visited so far, in whatever order, are kept
  whole and counted unless something overflowed, and that an overflow means the
  parameters were not acceptable; then that what is validated is what was sent,
  that a request returned passed the check, and that while the library works the
  check fails for exactly the parameters it cannot read back (`EncodedMatches`). That the check compares multisets and
  implies equal sets uses the cardinality facts of `FiniteSetTheorems`.
* `SurrogateScan`, in `AdmissionProofs`. Assumption `ScanAssumption`: the bound on
  strings is a natural number. The invariant is `ScanInv`: the scan stands where an
  even number of backslashes ends, so it sees a backslash as an escape exactly when
  a decoder does, and of what it passed every escape is whole and every surrogate
  has its other half (`ReadTo`). Without the second part an unpaired low surrogate
  at hand could belong to a high one already passed.
* `ServerLifecycle`, in `KeyringManagerProofs`, beside the manager it opens and
  closes. No assumption. `StopStaysOrderly` needs that what is open is what
  the steps so far acquired (`Dependencies`), that no request begins once the process
  drains (`Serving`), and that an empty result is only under way when no request is
  left (`Reporting`).

* `VaultEnvelope`, in `KeyringManagerProofs`. Assumption `EnvelopeAssumption`:
  blocks and lines are not empty, values are sequences of natural numbers, bounds
  are natural numbers; passwords and salts are any sets. First what joining lines gives
  (`FlattenSeq`), by induction over their number: the set of numbers for which a
  claim fails has no least member. Then that a body of any length written in full
  lines and a rest is read back whole, that padding is undone, what a text must be
  for the parser to read it (`Framed`, `Readable`), and that a MAC binds the
  password, the salt and every ciphertext byte. A changed body is read as the sealed
  one or not at all (`OpensToWhole`), shown for a symbol replaced, dropped, a block
  doubled or cut off. The invariant is `EnvelopeInv`: the text is one that can be
  written, its body in lower case opens to the sealed value or to nothing under any
  password, and as long as only the format was edited it is the sealed body,
  framed as the parser asks. It is needed because the properties ask what opens,
  which says nothing of the body that the next edit starts from. TLC checked it on
  the constants of `material`.

`WorkAlwaysLeased`, `KeyringAlwaysGenuine`, `SwapsAlwaysAdvance` and the theorems
of the later modules state the properties the runs check.

Only model-checked: the liveness properties and the liveness parts of
`StallIsContained` and `PrivateIsContained` (fairness and ENABLED are out of the
prover's reach); `PasswordIsUniform`, which equates a product of
fractions with the size of a set of words that a recurrence counts by binomial
coefficients and powers: a counting argument by induction over classes and lengths,
with products of unknowns at every step, that is not attempted here (its module also
reduces fractions with a RECURSIVE operator, beside which no theorem can stand);
the violated `RemovedStaysRemoved`.

## Not modelled

* Generated code (`apimodels/openapi.gen.go`, the client's generated types), the
  API-reference generator, `cmd/admissionbench`, static assets, deployment.
* Configuration: sequential; its results are the constants.
* Byte formats: strict JSON decoders, canonical JSON and digests of
  attestations, the syntax of URIs, addresses and DNS names, the text of
  `/metrics`. They are pure functions that the unit and fuzz tests cover; the
  models know the classes they sort input into.
* Cryptography: ciphers, MACs and signatures are symbolic or an outcome.
* Access tokens: the claims `Verify` checks, discovery.
* Web client: field validation, formats, paste handling, messages.
* Attestation issue and verification are modelled against the keyring
  (`KeyringManager`) and against the verifier pool (`HttpApi`), not both at once.

## Plan

1. Proofs: the sampling half of `PasswordIsUniform`, that the draws to a password
   multiply to one over the recurrence's total; that the total is the number of
   acceptable passwords is the harder half.
2. `SessionLease`: TTL, keep-alive interval and exchange timeout as durations;
   under which of them two requests never exchange the same refresh token.
3. Attestation composed with `Admission` and `KeyringManager`.
4. The claims of access tokens, and the metrics registry.
