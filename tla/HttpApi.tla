------------------------------- MODULE HttpApi -------------------------------
(***************************************************************************)
(* Serving a request: backend/internal/httpapi (security.go, handler.go,   *)
(* generate_http.go, attestation_http.go, mcp.go, auth_routes.go,          *)
(* metrics.go).  Connections are served concurrently, each one request     *)
(* after another.  The headers are judged (HttpRequest), the token or the  *)
(* session is looked up, an operation slot is taken without waiting, the   *)
(* body is read under a watcher that interrupts the read when the          *)
(* request's context ends, and the service is called.  Time is counted in  *)
(* units of 5 s from the start of a request and passes where a body        *)
(* stalls; what the service does is one step with any of its outcomes.     *)
(***************************************************************************)
EXTENDS HttpRequest, FiniteSets

CONSTANTS Conns,       \* connections
          Requests,    \* per load and connection: what clients may send
          Configs,     \* configurations, and the load each of them meets
          Capacity,    \* slots of each pool: ops, verifier
          AppDeadline, \* the application deadline
          ReadTimeout  \* http.Server.ReadTimeout

ASSUME HttpApiAssumption ==
    /\ IsFiniteSet(Conns)
    /\ Configs \subseteq [mode : {"native", "off"}, mcp : BOOLEAN, attest : STRING, load : STRING]
    /\ \A k \in Configs, c \in Conns : Requests[k.load][c] \subseteq RequestRecords
    /\ Capacity \in [{"ops", "verifier"} -> Nat \ {0}]
    /\ AppDeadline \in Nat \ {0}
    /\ ReadTimeout \in Nat \ {0}

VARIABLES
    conf,     \* the configuration
    pc,       \* where each connection's request is
    req,      \* the request
    actor,    \* its caller
    ctx,      \* its context: live or ended
    slot,     \* the pool it holds a slot of
    sock,     \* the socket's read deadline: open or expired
    watch,    \* watcher goroutines: [own : of this request, st]
    got,      \* what reading the body gave
    ans,      \* the answer
    did,      \* history: the operation carried out
    tried,    \* history: the service was called
    sample,   \* the outcome counted in the metrics
    age       \* time since the request began

vars == <<conf, pc, req, actor, ctx, slot, sock, watch, got, ans, did, tried,
          sample, age>>
request == <<conf, req>>
reading == <<ctx, sock, watch, got, age>>

NoActor == [kind |-> "none", scopes |-> {}]
Anonymous == [kind |-> "anonymous", scopes |-> {}]

\* while a connection is idle
NoRequest == [route |-> "none"]

Init ==
    /\ conf \in Configs
    /\ pc = [c \in Conns |-> "idle"]
    /\ req = [c \in Conns |-> NoRequest]
    /\ actor = [c \in Conns |-> NoActor]
    /\ ctx = [c \in Conns |-> "ended"]
    /\ slot = [c \in Conns |-> "none"]
    /\ sock = [c \in Conns |-> "open"]
    /\ watch = [c \in Conns |-> {}]
    /\ got = [c \in Conns |-> "none"]
    /\ ans = [c \in Conns |-> Pass]
    /\ did = [c \in Conns |-> "none"]
    /\ tried = [c \in Conns |-> FALSE]
    /\ sample = [c \in Conns |-> "none"]
    /\ age = [c \in Conns |-> 0]

\* the answer goes out; handlers (not middlewares) count it
Answer(c, a, counted) ==
    /\ pc' = [pc EXCEPT ![c] = "answered"]
    /\ ans' = [ans EXCEPT ![c] = a]
    /\ sample' = [sample EXCEPT ![c] =
         IF counted /\ Sampled(req[c])
         THEN IF a.outcome # "" THEN a.outcome ELSE OutcomeForStatus(a.status)
         ELSE "none"]

\* answer with a, or go on to step when a is Pass
AnswerOr(c, a, step, counted) ==
    IF a # Pass THEN Answer(c, a, counted)
    ELSE pc' = [pc EXCEPT ![c] = step] /\ UNCHANGED <<ans, sample>>

-----------------------------------------------------------------------------
(* Headers and credentials.                                                *)

\* the middlewares' refusals, in their order
FirstRefusal(refusals) ==
    LET hits == {i \in DOMAIN refusals : refusals[i] # Pass}
    IN IF hits = {} THEN Pass
       ELSE refusals[CHOOSE i \in hits : \A j \in hits : i <= j]

\* The server resets the read deadline for a new request.
Receive(c) ==
    /\ pc[c] = "idle"
    /\ \E r \in Requests[conf.load][c] :
         LET refusal == FirstRefusal(<<McpRouteRefusal(conf, r), CorsRefusal(r),
                           HeaderRefusal(r), CredentialRefusal(conf, r)>>)
         IN /\ req' = [req EXCEPT ![c] = r]
            /\ age' = [age EXCEPT ![c] = r.delay]
            /\ ans' = [ans EXCEPT ![c] = refusal]
            /\ pc' = [pc EXCEPT ![c] =
                 IF refusal # Pass THEN "answered" ELSE CredentialStep(conf, r)]
    /\ actor' = [actor EXCEPT ![c] =
         IF conf.mode = "off" THEN Anonymous ELSE NoActor]
    /\ ctx' = [ctx EXCEPT ![c] = "live"]
    /\ sock' = [sock EXCEPT ![c] = "open"]
    /\ watch' = [watch EXCEPT ![c] = {[w EXCEPT !.own = FALSE] : w \in @}]
    /\ UNCHANGED <<conf, slot, got, did, tried, sample>>

\* verifyBearerCredential and the scope preflight
VerifyToken(c) ==
    LET bearer == [kind |-> "bearer", scopes |-> req[c].scopes]
        a == CASE req[c].token = "unavailable" -> Reply(503)
               [] req[c].token = "bad" -> Reply(401)
               [] OTHER -> BearerPreflight(conf, req[c], bearer)
    IN /\ pc[c] = "token"
       /\ actor' = [actor EXCEPT ![c] = IF a = Pass THEN bearer ELSE @]
       /\ AnswerOr(c, a, "handle", FALSE)
       /\ UNCHANGED <<request, reading, slot, did, tried>>

\* SessionMiddleware, and the principal requestCaller will find
LoadSession(c) ==
    /\ pc[c] = "session"
    /\ actor' = [actor EXCEPT ![c] =
         IF req[c].session = "live" THEN [kind |-> "session", scopes |-> {}] ELSE @]
    /\ AnswerOr(c, IF req[c].session = "unavailable" THEN Reply(503) ELSE Pass,
                "handle", FALSE)
    /\ UNCHANGED <<request, reading, slot, did, tried>>

-----------------------------------------------------------------------------
(* Handlers.                                                               *)

\* serveSession, serveLogin, serveCallback, serveLogout, serveHealth,
\* serveReady, serveMetrics: answered without a slot or a body
ServeFlow(c) ==
    LET refusal == HandlerRefusal(conf, req[c], actor[c])
    IN /\ pc[c] = "handle"
       /\ ~DeadlineApplies(req[c])
       /\ \/ refusal # Pass /\ Answer(c, refusal, TRUE) /\ did' = did
          \/ /\ refusal = Pass
             /\ \/ /\ Answer(c, Reply(IF req[c].route \in {"login", "callback"} THEN 303
                                      ELSE IF req[c].route = "logout" THEN 204 ELSE 200),
                             TRUE)
                   /\ did' = [did EXCEPT ![c] = req[c].route]
                \/ /\ req[c].route \in Flow /\ conf.mode = "native"
                   /\ \E s \in {400, 401, 503} : Answer(c, Reply(s), TRUE)
                   /\ did' = did
       /\ UNCHANGED <<request, reading, actor, slot, tried>>

\* requestCaller, the service's preflight and, for profiles, the listing
Handle(c) ==
    LET refusal == HandlerRefusal(conf, req[c], actor[c])
    IN /\ pc[c] = "handle"
       /\ DeadlineApplies(req[c])
       /\ \/ refusal # Pass /\ Answer(c, refusal, TRUE) /\ UNCHANGED <<did, tried>>
          \/ /\ refusal = Pass /\ req[c].route # "profiles"
             /\ pc' = [pc EXCEPT ![c] = "acquire"]
             /\ UNCHANGED <<ans, sample, did, tried>>
          \/ /\ refusal = Pass /\ req[c].route = "profiles"
             /\ tried' = [tried EXCEPT ![c] = TRUE]
             /\ \/ Answer(c, Reply(200), TRUE) /\ did' = [did EXCEPT ![c] = "profiles"]
                \/ /\ \E code \in {"forbidden", "not_ready", "temporarily_unavailable"} :
                        Answer(c, Reply(ServiceErrorStatus(code)), TRUE)
                   /\ did' = did
       /\ UNCHANGED <<request, reading, actor, slot>>

Pool(r) == IF VerifyCall(r) THEN "verifier" ELSE "ops"
InUse(p) == Cardinality({c \in Conns : slot[c] = p})

Full(p) == InUse(p) >= Capacity[p]

\* writeAdmissionSaturated, writeGenerateAdmissionSaturated and the verifier's
\* refusal; over MCP the outcome is recorded as busy
Saturated(r) ==
    [status |-> 503, retry |-> ~GenerateCall(r),
     outcome |-> IF r.route = "mcp" THEN "busy" ELSE ""]

\* TryAcquire, then the start of readRequestBody and its watcher
Acquire(c) ==
    LET p == Pool(req[c])
    IN /\ pc[c] = "acquire"
       /\ \/ /\ ctx[c] = "ended"
             /\ Answer(c, Reply(503), TRUE)
             /\ UNCHANGED <<slot, watch>>
          \/ /\ ctx[c] = "live" /\ Full(p)
             /\ Answer(c, Saturated(req[c]), TRUE)
             /\ UNCHANGED <<slot, watch>>
          \/ /\ ctx[c] = "live" /\ ~Full(p)
             /\ slot' = [slot EXCEPT ![c] = p]
             /\ watch' = [watch EXCEPT ![c] = @ \cup {[own |-> TRUE, st |-> "waiting"]}]
             /\ pc' = [pc EXCEPT ![c] = "read"]
             /\ UNCHANGED <<ans, sample>>
       /\ UNCHANGED <<request, actor, ctx, sock, got, did, tried, age>>

-----------------------------------------------------------------------------
(* readRequestBody.                                                        *)

\* io.ReadAll returns: the body is there, or the socket's deadline passed
ReadReturns(c) ==
    /\ pc[c] = "read"
    /\ \/ req[c].body # "stall" /\ got' = [got EXCEPT ![c] = req[c].body]
       \/ sock[c] = "expired" /\ got' = [got EXCEPT ![c] = "timeout"]
    /\ pc' = [pc EXCEPT ![c] = "join"]
    /\ UNCHANGED <<request, actor, ctx, slot, sock, watch, ans, did, tried, sample, age>>

\* Mutant of WatcherWakes: the body is closed without expiring the socket.
WatcherWakesClosing(c) ==
    /\ \E w \in watch[c] :
         /\ w.st = "waiting"
         /\ w.own => ctx[c] = "ended"
         /\ watch' = [watch EXCEPT ![c] = (@ \ {w}) \cup {[w EXCEPT !.st = "closing"]}]
    /\ UNCHANGED <<request, pc, actor, ctx, slot, sock, got, ans, did, tried, sample, age>>

\* its context has ended (an earlier request's has): expire the socket
WatcherWakes(c) ==
    /\ \E w \in watch[c] :
         /\ w.st = "waiting"
         /\ w.own => ctx[c] = "ended"
         /\ watch' = [watch EXCEPT ![c] = (@ \ {w}) \cup {[w EXCEPT !.st = "closing"]}]
    /\ sock' = [sock EXCEPT ![c] = "expired"]
    /\ UNCHANGED <<request, pc, actor, ctx, slot, got, ans, did, tried, sample, age>>

\* body.Close waits behind a read in progress; or stop was closed first
WatcherEnds(c) ==
    /\ \E w \in watch[c] :
         /\ \/ w.st = "closing" /\ (w.own => pc[c] # "read")
            \/ w.st = "waiting" /\ (w.own => pc[c] = "join")
         /\ watch' = [watch EXCEPT ![c] = @ \ {w}]
    /\ UNCHANGED <<request, pc, actor, ctx, slot, sock, got, ans, did, tried, sample, age>>

\* <-stopped, and the context's error before the read's
Join(c) ==
    /\ pc[c] = "join"
    /\ \A w \in watch[c] : ~w.own
    /\ IF ctx[c] = "ended" THEN Answer(c, Reply(503), TRUE)
       ELSE pc' = [pc EXCEPT ![c] = "decode"] /\ UNCHANGED <<ans, sample>>
    /\ UNCHANGED <<request, reading, actor, slot, did, tried>>

\* Time passes over a stalled body once everything due has been done.
Tick(c) ==
    /\ pc[c] = "read" /\ req[c].body = "stall" /\ sock[c] = "open"
    /\ age[c] < ReadTimeout
    /\ ctx[c] = "live" => age[c] < req[c].delay + AppDeadline
    /\ ctx[c] = "ended" => \A w \in watch[c] : w.st # "waiting"
    /\ age' = [age EXCEPT ![c] = @ + 1]
    /\ UNCHANGED <<request, pc, actor, ctx, slot, sock, watch, got, ans, did, tried, sample>>

\* applicationDeadlineMiddleware's context, installed after the credentials
Deadline(c) ==
    /\ pc[c] = "read" /\ ctx[c] = "live"
    /\ age[c] >= req[c].delay + AppDeadline
    /\ ctx' = [ctx EXCEPT ![c] = "ended"]
    /\ UNCHANGED <<request, pc, actor, slot, sock, watch, got, ans, did, tried, sample, age>>

SocketTimeout(c) ==
    /\ pc[c] = "read" /\ sock[c] = "open"
    /\ age[c] >= ReadTimeout
    /\ sock' = [sock EXCEPT ![c] = "expired"]
    /\ UNCHANGED <<request, pc, actor, ctx, slot, watch, got, ans, did, tried, sample, age>>

\* The client goes away, or the deadline passes over other work.
ContextEnds(c) ==
    /\ pc[c] \in {"acquire", "join", "decode", "serve"} /\ ctx[c] = "live"
    /\ ctx' = [ctx EXCEPT ![c] = "ended"]
    /\ UNCHANGED <<request, pc, actor, slot, sock, watch, got, ans, did, tried, sample, age>>

-----------------------------------------------------------------------------
(* The body and the service.                                               *)

\* the method and the name mirror the headers, the metadata agrees, the
\* tool is known
McpBodyRefusal(h, b) ==
    First(<<<<b.method # h.method, 400>>,
            <<b.method = "call" /\ b.tool # "absent" /\ b.tool # h.tool, 400>>,
            <<b.method \notin Listing \cup {"call"}, 404>>,
            <<b.meta # "current", 400>>,
            <<b.method = "call" /\ b.tool \notin McpTools, 400>>>>)

\* the decoders of each route; invalid tool arguments are a tool's error
Decode(c) ==
    LET r == req[c]
        mcp == r.route = "mcp"
        refusal ==
            CASE got[c] = "large" -> Reply(413)
              [] got[c] \in {"bad", "timeout"} -> Reply(400)
              [] OTHER ->
                   IF ~mcp THEN Pass
                   ELSE IF McpBodyRefusal(r.h, r.b) # Pass THEN McpBodyRefusal(r.h, r.b)
                   ELSE IF r.b.method = "call" /\ ~r.b.args
                        THEN ToolError("invalid_request")
                   ELSE Pass
    IN /\ pc[c] = "decode"
       /\ AnswerOr(c, refusal, "serve", TRUE)
       /\ UNCHANGED <<request, reading, actor, slot, did, tried>>

\* what the accepted body asks for
Asked(r) ==
    IF r.route # "mcp" THEN r.route
    ELSE IF r.b.method = "call" THEN r.b.tool ELSE r.b.method

\* the call succeeds, or fails with a code that refuse turns into an answer
Call(c, codes, Refuse(_)) ==
    /\ pc[c] = "serve"
    /\ tried' = [tried EXCEPT ![c] = TRUE]
    /\ \/ /\ ctx[c] = "live"
          /\ Answer(c, Reply(200), TRUE)
          /\ did' = [did EXCEPT ![c] = Asked(req[c])]
       \/ /\ \E code \in IF ctx[c] = "ended" THEN {"temporarily_unavailable"} ELSE codes :
               Answer(c, Refuse(code), TRUE)
          /\ did' = did
    /\ UNCHANGED <<request, reading, actor, slot>>

RestRefusal(code) == Reply(ServiceErrorStatus(code))
OperationCodes == ServiceCodes \ {"feature_unavailable", "attestation_unavailable"}
VerifyCodes == {"invalid_request", "feature_unavailable", "attestation_unavailable"}

\* serveCanonicalOperation
ServeCanonical(c) ==
    /\ req[c].route \in {"encrypt", "decrypt"}
    /\ Call(c, OperationCodes, RestRefusal)

\* serveOperation
ServeLegacy(c) ==
    /\ req[c].route = "operations"
    /\ Call(c, OperationCodes, RestRefusal)

\* serveCanonicalRotateWithAttestation
ServeRotate(c) ==
    /\ req[c].route = "rotate"
    /\ Call(c, ServiceCodes, RestRefusal)

ServeGenerate(c) ==
    /\ req[c].route = "generate"
    /\ Call(c, OperationCodes, RestRefusal)

\* serveAttestationVerify: valid and invalid proofs are both answers
ServeVerify(c) ==
    /\ req[c].route = "verify"
    /\ Call(c, VerifyCodes, RestRefusal)

\* serveMCPDiscover and serveMCPListTools do not call the service
McpLists(c) ==
    /\ pc[c] = "serve"
    /\ Asked(req[c]) \in Listing
    /\ Answer(c, Reply(200), TRUE)
    /\ did' = [did EXCEPT ![c] = Asked(req[c])]
    /\ UNCHANGED <<request, reading, actor, slot, tried>>

\* an MCP verification while attestations are unavailable
McpVerifyUnavailable(c) ==
    /\ pc[c] = "serve"
    /\ req[c].route = "mcp" /\ Asked(req[c]) = "verify" /\ conf.attest # "on"
    /\ Answer(c, ToolError("unavailable"), TRUE)
    /\ UNCHANGED <<request, reading, actor, slot, did, tried>>

\* the rest of serveMCPToolCall
McpTool(c) ==
    LET tool == Asked(req[c])
        Refusal(code) == McpServiceError(code, actor[c], tool)
    IN /\ req[c].route = "mcp"
       /\ tool \notin Listing
       /\ ~(tool = "verify" /\ conf.attest # "on")
       /\ Call(c, CASE tool = "list_profiles" -> {"forbidden", "not_ready"}
                    [] tool = "verify" -> VerifyCodes
                    [] tool = "rotate" -> ServiceCodes
                    [] OTHER -> OperationCodes, Refusal)

\* the connection forgets the request
Forget(c) ==
    /\ pc' = [pc EXCEPT ![c] = "idle"]
    /\ req' = [req EXCEPT ![c] = NoRequest]
    /\ actor' = [actor EXCEPT ![c] = NoActor]
    /\ got' = [got EXCEPT ![c] = "none"]
    /\ ans' = [ans EXCEPT ![c] = Pass]
    /\ did' = [did EXCEPT ![c] = "none"]
    /\ tried' = [tried EXCEPT ![c] = FALSE]
    /\ sample' = [sample EXCEPT ![c] = "none"]
    /\ age' = [age EXCEPT ![c] = 0]

\* the deferred calls: the lease is released, the context cancelled
Finish(c) ==
    /\ pc[c] = "answered"
    /\ Forget(c)
    /\ slot' = [slot EXCEPT ![c] = "none"]
    /\ ctx' = [ctx EXCEPT ![c] = "ended"]
    /\ UNCHANGED <<conf, sock, watch>>

-----------------------------------------------------------------------------
Server(c) ==
    \/ VerifyToken(c)
    \/ LoadSession(c)
    \/ ServeFlow(c)
    \/ Handle(c)
    \/ Acquire(c)
    \/ ReadReturns(c)
    \/ WatcherWakes(c)
    \/ WatcherEnds(c)
    \/ Join(c)
    \/ Deadline(c)
    \/ SocketTimeout(c)
    \/ Decode(c)
    \/ ServeCanonical(c)
    \/ ServeLegacy(c)
    \/ ServeRotate(c)
    \/ ServeGenerate(c)
    \/ ServeVerify(c)
    \/ McpLists(c)
    \/ McpVerifyUnavailable(c)
    \/ McpTool(c)
    \/ Finish(c)

Next ==
    \E c \in Conns :
        \/ Receive(c)
        \/ Server(c)
        \/ Tick(c)
        \/ ContextEnds(c)

Spec == Init /\ [][Next]_vars

\* goroutines run, the runtime's timers fire and time passes
FairSpec == Spec /\ \A c \in Conns : WF_vars(Server(c)) /\ WF_vars(Tick(c))

-----------------------------------------------------------------------------
(* Properties.                                                             *)

TypeOK ==
    /\ conf \in Configs
    /\ pc \in [Conns -> {"idle", "token", "session", "handle", "acquire", "read",
                         "join", "decode", "serve", "answered"}]
    /\ \A c \in Conns : (req[c] = NoRequest) <=> (pc[c] = "idle")
    /\ \A c \in Conns : actor[c].kind \in {"none", "anonymous", "session", "bearer"}
    /\ ctx \in [Conns -> {"live", "ended"}]
    /\ slot \in [Conns -> {"none", "ops", "verifier"}]
    /\ sock \in [Conns -> {"open", "expired"}]
    /\ watch \in [Conns -> SUBSET [own : BOOLEAN, st : {"waiting", "closing"}]]
    /\ got \in [Conns -> {"none", "good", "bad", "large", "timeout"}]
    /\ \A c \in Conns : ans[c].retry \in BOOLEAN
    /\ tried \in [Conns -> BOOLEAN]
    /\ age \in [Conns -> Nat]
    /\ \A p \in {"ops", "verifier"} : InUse(p) <= Capacity[p]

Acted(c) == did[c] # "none" /\ did[c] # "public"

\* The scope that docs/authentication.md:155 gives each operation.
ScopeOf(op) ==
    CASE op \in {"profiles", "list_profiles"} -> "read"
      [] op \in {"encrypt", "generate"} -> "encrypt"
      [] OTHER -> op

\* Whatever was carried out was carried out for a caller entitled to it by
\* exactly one credential: a verified token whose scopes include the one of
\* the operation that was really executed (for MCP the one in the body), or
\* a live session on a route that takes sessions; without authentication
\* configured, no credential at all.  Listing tools needs profile-read or
\* attestation-verify.  (credentialDispatchMiddleware, preflightBearerRoute,
\* preflightMCPBearerRoute, serveMCP)
ExecutedIsEntitled ==
    \A c \in Conns : Acted(c) /\ did[c] \notin {"session", "login", "callback"} =>
        LET r == req[c]
        IN IF conf.mode = "off" THEN r.auth = "none"
           ELSE IF r.auth = "bearer"
                THEN /\ r.token = "good" /\ r.session = "none"
                     /\ r.route \notin Flow \cup {"operations"}
                     /\ \/ ScopeOf(did[c]) \in r.scopes
                        \/ did[c] \in Listing /\ r.scopes \cap {"read", "verify"} # {}
           ELSE /\ r.auth = "none" /\ r.route # "mcp"
                /\ did[c] # "logout" => r.session = "live"

\* Nothing is done for a page of another site: an Origin that is neither
\* ours nor listed is refused on every route, and a POST that a browser's
\* cookie authenticates (logging out included) must repeat the signed CSRF
\* cookie in its header and come from our pages or a listed origin.
\* (corsMiddleware, csrfMiddleware, csrfOriginAllowed)
CrossSiteCannotAct ==
    \A c \in Conns : did[c] # "none" =>
        /\ req[c].origin \notin {"null", "foreign"}
        /\ (conf.mode = "native" /\ req[c].method = "POST" /\ req[c].auth = "none") =>
              /\ req[c].csrf = [cookie |-> "valid", header |-> TRUE]
              /\ \/ req[c].origin \in {"same", "allowed"}
                 \/ req[c].origin = "none" /\ req[c].referer = "same"

\* The MCP tool that runs is the one in the header, whose scope was checked
\* and in whose pool the slot was taken before the body was read.
\* (validateMCPNameMirror, serveMCPToolCall)
ToolIsTheCheckedTool ==
    \A c \in Conns : req[c].route = "mcp" /\ (did[c] # "none" \/ tried[c]) =>
        /\ req[c].b.method = req[c].h.method
        /\ did[c] \in McpTools => did[c] = req[c].h.tool

\* What tools/list shows a caller are exactly the tools its calls would be
\* let through to: the list decides from the scopes the tools are registered
\* under, a call from the preflight it is put to, each with scopes of its own.
\* (mcpTools; preflightMCPBearerRoute, serveMCP)
ListedAreCallable ==
    \A c \in Conns : did[c] = "list" =>
        VisibleTools(conf, actor[c]) =
            {t \in McpTools :
                /\ Preflight(conf, [req[c] EXCEPT !.h.method = "call", !.h.tool = t],
                             actor[c]) = Pass
                /\ t = "verify" => conf.attest = "on"}

\* A refused MCP call is told a scope with which it would be let through: the
\* challenge takes it from a third table.  (mcpHeaderRequiredScope;
\* docs/authentication.md:149, the "exact required scope")
ChallengeNamesTheScope ==
    \A c \in Conns :
        pc[c] = "answered" /\ req[c].route = "mcp" /\ ans[c].status \in {401, 403} =>
            Preflight(conf, req[c], [kind |-> "bearer", scopes |-> {McpScope(req[c].h)}]) = Pass

\* Retry-After is sent only when the service was not called and the body
\* was not even read, and never for generation, which must not be repeated.
\* (writeOperationAdmissionSaturated, docs/api-reference.md:127 and :279)
RetryMeansNothingDone ==
    \A c \in Conns : ans[c].retry =>
        /\ ~tried[c] /\ did[c] = "none" /\ got[c] = "none"
        /\ ~GenerateCall(req[c])

\* A slot is not kept by a body that stalls: the watcher interrupts the read
\* at the application deadline although closing the body would wait behind
\* the read.  (readRequestBody)
SlotHeldBriefly ==
    \A c \in Conns : slot[c] # "none" => age[c] <= req[c].delay + AppDeadline

\* A body that does not arrive in time is answered 503, as the documented
\* limit says (docs/api-clients.md:306), not as a malformed request: the
\* application's deadline passes before the server's read timeout as long as
\* headers and credentials took no more than the difference of the two.
StalledIsUnavailable ==
    \A c \in Conns :
        /\ pc[c] = "answered" /\ got[c] = "timeout"
        /\ req[c].delay < ReadTimeout - AppDeadline
        => ans[c].status = 503

\* The read deadline of a connection is expired only by the watcher of the
\* request being read, whose context has ended, or by the server's own
\* timeout: a watcher of an earlier request on the connection never
\* interrupts the next one.  (readRequestBody's join)
OnlyOwnDeadline ==
    \A c \in Conns : pc[c] = "read" /\ sock[c] = "expired" =>
        ctx[c] = "ended" \/ age[c] >= ReadTimeout

\* A request that a handler answers is counted as a success exactly when
\* the operation was carried out: tools' errors travel as HTTP 200 and are
\* still failures.  (operationOutcome, recordMCPToolOutcome,
\* docs/attestations.md:320)
CountedAsDone ==
    \A c \in Conns : pc[c] = "answered" /\ sample[c] # "none" =>
        (sample[c] = "success" <=> did[c] # "none")

\* The two copies of a name and the three tables of scopes that MCP decides
\* from agree: what runs is what was checked, what is listed is what may be
\* called, and what a refusal asks for is enough.
McpIsConsistent ==
    ToolIsTheCheckedTool /\ ListedAreCallable /\ ChallengeNamesTheScope

\* What a client or an operator is told happened is what happened: an
\* invitation to retry, a refusal for a stalled body and the outcome counted.
AnswerIsTrue == TypeOK /\ RetryMeansNothingDone /\ StalledIsUnavailable /\ CountedAsDone

\* A stalled body costs only its own request, and only for a while: its read
\* is interrupted, nobody else's is, and every slot taken is given back,
\* whatever the client does.  (readRequestBody, the deferred release)
StallIsContained ==
    /\ [](SlotHeldBriefly /\ OnlyOwnDeadline)
    /\ \A c \in Conns : slot[c] # "none" ~> slot[c] = "none"
=============================================================================
