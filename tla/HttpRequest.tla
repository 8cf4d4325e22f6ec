----------------------------- MODULE HttpRequest -----------------------------
(***************************************************************************)
(* What the HTTP layer decides from a request's headers:                   *)
(* backend/internal/httpapi/security.go and csrf.go, the routes of         *)
(* handler.go, and the statuses a service error becomes.  A request is a   *)
(* record                                                                  *)
(*   route, method    PREFLIGHT is OPTIONS that asks for POST              *)
(*   origin, referer  none, null, same, allowed (CORS list) or foreign     *)
(*   auth, token      the Authorization header, and what verifying the     *)
(*                    bearer token will find                               *)
(*   scopes           those of the token                                   *)
(*   session          none, live, dead or unavailable (its store)          *)
(*   csrf             [cookie : none, valid or forged;                     *)
(*                     header : does it repeat the cookie]                 *)
(*   media, idem      JSON media type; Idempotency-Key present             *)
(*   h, b             MCP headers and body                                 *)
(*   body, delay      how the body arrives; time spent before the handler  *)
(* and conf is the configuration: mode, mcp, attest.                       *)
(***************************************************************************)
EXTENDS Integers, Sequences

Pass == [status |-> 0, retry |-> FALSE, outcome |-> ""]
Reply(status) == [Pass EXCEPT !.status = status]

\* the status of the first rule <<condition, status>> that applies
First(rules) ==
    LET hits == {i \in DOMAIN rules : rules[i][1]}
    IN IF hits = {} THEN Pass
       ELSE Reply(rules[CHOOSE i \in hits : \A j \in hits : i <= j][2])

-----------------------------------------------------------------------------
(* Routes.                                                                 *)

CanonicalOperation == {"encrypt", "decrypt", "badprofile"}
Bodied == {"operations", "generate", "rotate", "verify"} \cup CanonicalOperation
Flow == {"session", "login", "callback", "logout"}
GetOnly == {"profiles", "session", "login", "callback", "public"}
Routes == Bodied \cup Flow \cup {"profiles", "mcp", "public", "unknown"}

\* what is told apart of a request
RequestRecords ==
    [route : Routes, method : STRING, origin : {"none", "null", "same", "allowed", "foreign"},
     referer : STRING, auth : {"none", "malformed", "bearer"}, token : {"good", "bad", "unavailable"},
     scopes : SUBSET STRING, session : {"none", "live", "dead", "unavailable"},
     csrf : [cookie : STRING, header : BOOLEAN], media : BOOLEAN, idem : BOOLEAN,
     h : [accept : SUBSET [type : STRING, q : STRING], version : STRING, method : STRING,
          tool : STRING],
     b : [method : STRING, tool : STRING, meta : STRING, args : BOOLEAN],
     body : {"good", "bad", "large", "stall"}, delay : Nat]

\* classifyCredentialRoute
CredentialRoute(route) ==
    CASE route \in Flow -> "flow"
      [] route = "operations" -> "session"
      [] route = "profiles" \/ route \in Bodied \ {"operations"} -> "either"
      [] route = "mcp" -> "mcp"
      [] OTHER -> "none"

\* applicationDeadlineApplies, of requests that reach it
DeadlineApplies(req) == req.route \in Bodied \cup {"profiles", "mcp"}

\* RequiredScope of the service
RequiredScope(op) == IF op \in {"encrypt", "decrypt", "rotate"} THEN op ELSE "none"

\* bearerRouteRequiredScope and the preflights of preflightBearerRoute
RouteScope(route) ==
    CASE route = "profiles" -> "read"
      [] route = "generate" -> "encrypt"
      [] route = "verify" -> "verify"
      [] OTHER -> RequiredScope(route)

-----------------------------------------------------------------------------
(* MCP headers: parseMCPRequestHeaders and mcpHeaderRequiredScope.  The    *)
(* five generation tools are the tool generate; a header that is missing,  *)
(* repeated or does not decode is "bad".                                   *)

McpTools == {"list_profiles", "encrypt", "decrypt", "rotate", "verify", "generate"}
Listing == {"discover", "list"}

ValidMcpHeaders(h) ==
    /\ h.version = "current"
    /\ h.method # "bad"
    /\ h.method = "call" => h.tool # "bad"

\* the Accept header is a set of [type, q]; q is "malformed" when it is not
\* a quality, and an absent one counts as 1
PositiveQuality(q) == q \in {"absent", "positive", "one"}

McpAccepts(accept) ==
    \A type \in {"json", "events"} :
        \E entry \in accept : entry.type = type /\ PositiveQuality(entry.q)

\* the scope that a challenge names
McpScope(h) ==
    CASE h.method \in Listing \/ (h.method = "call" /\ h.tool = "list_profiles") -> "read"
      [] h.method = "call" /\ h.tool = "generate" -> "encrypt"
      [] h.method = "call" /\ h.tool = "verify" -> "verify"
      [] h.method = "call" /\ h.tool \in {"encrypt", "decrypt", "rotate"} -> RequiredScope(h.tool)
      [] OTHER -> "none"

VerifyCall(req) ==
    \/ req.route = "verify"
    \/ req.route = "mcp" /\ req.h.method = "call" /\ req.h.tool = "verify"

GenerateCall(req) ==
    \/ req.route = "generate"
    \/ req.route = "mcp" /\ req.h.method = "call" /\ req.h.tool = "generate"

-----------------------------------------------------------------------------
(* Before the credentials: disabledMCP, mcpMethod, cors and                *)
(* applicationPreflight, in the order the middlewares run.                 *)

OriginAllowed(req) == req.origin \in {"same", "allowed"}
ValidMcpPreflight(req) == req.method = "PREFLIGHT" /\ req.origin # "none"

McpRouteRefusal(conf, req) ==
    IF req.route # "mcp" THEN Pass
    ELSE First(<<
           <<~conf.mcp, 404>>,
           <<req.method # "POST" /\ ~ValidMcpPreflight(req), 405>>>>)

CorsRefusal(req) ==
    IF req.origin = "none" THEN Pass
    ELSE First(<<
           <<~OriginAllowed(req), 403>>,
           <<req.method \in {"OPTIONS", "PREFLIGHT"}, 204>>>>)

\* preflightApplicationRequest
HeaderRefusal(req) ==
    LET mcp == req.route = "mcp"
    IN First(<<
         <<req.route = "badprofile", 400>>,
         <<req.route = "profiles" /\ req.method # "GET", 405>>,
         <<req.route \in Bodied /\ req.method # "POST", 405>>,
         <<(req.route \in Bodied \/ mcp) /\ ~req.media, 415>>,
         <<req.route = "generate" /\ req.idem, 400>>,
         <<mcp /\ ~McpAccepts(req.h.accept), 406>>,
         <<mcp /\ ~ValidMcpHeaders(req.h), 400>>>>)

-----------------------------------------------------------------------------
(* credentialDispatchMiddleware and csrfMiddleware.                        *)

\* csrfOriginAllowed: without an Origin the Referer must be ours
CsrfOriginAllowed(req) ==
    IF req.origin \in {"none", "null"} THEN req.referer = "same"
    ELSE OriginAllowed(req)

\* Mutant of CsrfPasses: a request that names no origin is let through.
CsrfPassesUnnamed(req) ==
    /\ req.csrf.cookie = "valid"
    /\ req.csrf.header
    /\ req.origin = "none" \/ CsrfOriginAllowed(req)

CsrfPasses(req) ==
    /\ req.csrf.cookie = "valid"
    /\ req.csrf.header
    /\ CsrfOriginAllowed(req)

\* Mutant of CredentialRefusal: a second credential is ignored.
CredentialRefusalLenient(conf, req) ==
    LET route == CredentialRoute(req.route)
        auth == req.auth # "none"
        session == req.session # "none"
    IN First(<<
         <<route # "none" /\ conf.mode = "off" /\ auth, 400>>,
         <<route \in {"session", "flow"} /\ conf.mode = "native" /\ auth, 401>>,
         <<route = "either" /\ conf.mode = "native" /\ req.auth = "malformed", 401>>,
         <<route = "either" /\ conf.mode = "native" /\ ~auth /\ ~session, 401>>,
         <<route = "mcp" /\ conf.mode = "native" /\ req.auth # "bearer", 401>>,
         <<route \notin {"none", "mcp"} /\ conf.mode = "native" /\ ~auth
             /\ req.method = "POST" /\ ~CsrfPasses(req), 403>>>>)

CredentialRefusal(conf, req) ==
    LET route == CredentialRoute(req.route)
        native == conf.mode = "native"
        auth == req.auth # "none"
        session == req.session # "none"
    IN First(<<
         <<route # "none" /\ auth /\ ~native, 400>>,
         <<route # "none" /\ auth /\ native /\ session, 400>>,
         <<route \in {"session", "flow"} /\ native /\ auth, 401>>,
         <<route = "either" /\ native /\ req.auth = "malformed", 401>>,
         <<route = "either" /\ native /\ ~auth /\ ~session, 401>>,
         <<route = "mcp" /\ native /\ (session \/ req.auth # "bearer"), 401>>,
         <<route \notin {"none", "mcp"} /\ native /\ ~auth
             /\ req.method = "POST" /\ ~CsrfPasses(req), 403>>>>)

\* where an accepted request goes: the token, the session or the handler
CredentialStep(conf, req) ==
    CASE conf.mode = "off" \/ CredentialRoute(req.route) = "none" -> "handle"
      [] conf.mode = "native" /\ req.auth = "bearer"
            /\ CredentialRoute(req.route) # "none" -> "token"
      [] OTHER -> "session"

-----------------------------------------------------------------------------
(* What a bearer's scopes admit before the body is read.  The handlers     *)
(* repeat it, for sessions and anonymous callers too.                      *)

\* the preflight of the service that an MCP call is put to, and its scope:
\* PreflightAttestationVerify, PreflightGenerate, PreflightProfiles, Preflight
McpPreflightScope(req) ==
    CASE VerifyCall(req) -> "verify"
      [] GenerateCall(req) -> RequiredScope("encrypt")
      [] McpScope(req.h) = "read" -> "read"
      [] OTHER -> IF req.h.method = "call" THEN RequiredScope(req.h.tool) ELSE "none"

\* preflightBearerRoute and the preflights of serveMCP: an MCP verification
\* passes while attestations are unavailable, and is told so in its result
Preflight(conf, req, actor) ==
    LET scope == IF req.route = "mcp" THEN McpPreflightScope(req) ELSE RouteScope(req.route)
        lists == req.route = "mcp" /\ req.h.method \in Listing
    IN First(<<
         <<actor.kind = "bearer" /\ scope # "none" /\ scope \notin actor.scopes
             /\ ~(lists /\ "verify" \in actor.scopes), 403>>,
         <<req.route = "verify" /\ conf.attest # "on", 503>>>>)

\* preflightMCPBearerRoute leaves alone what has no scope in the headers' table
BearerPreflight(conf, req, actor) ==
    IF req.route = "mcp" /\ McpScope(req.h) = "none" THEN Pass
    ELSE Preflight(conf, req, actor)

\* Mutant of RegistrationScope: the generation tools come with the profiles.
RegistrationScopeBrowsing(tool) ==
    CASE tool \in {"list_profiles", "generate"} -> "read"
      [] tool = "verify" -> "verify"
      [] OTHER -> RequiredScope(tool)

\* the scope mcpTools puts each tool under
RegistrationScope(tool) ==
    CASE tool = "list_profiles" -> "read"
      [] tool = "verify" -> "verify"
      [] tool = "generate" -> RequiredScope("encrypt")
      [] OTHER -> RequiredScope(tool)

\* mcpTools, mcpToolVisible: what tools/list shows
VisibleTools(conf, actor) ==
    {t \in McpTools :
        /\ t = "verify" => conf.attest = "on"
        /\ actor.kind # "bearer" \/ RegistrationScope(t) \in actor.scopes}

\* the handler's own checks: methods, the caller, the preflight again
HandlerRefusal(conf, req, actor) ==
    LET needsCaller == req.route \in Bodied \cup {"profiles", "mcp"}
    IN IF req.route = "unknown" THEN Reply(404)
       ELSE LET first == First(<<
              <<req.route \in GetOnly /\ req.method # "GET", 405>>,
              <<req.route = "logout" /\ req.method # "POST", 405>>,
              <<req.route \in {"login", "callback"} /\ conf.mode = "off", 503>>,
              <<needsCaller /\ actor.kind = "none", 401>>,
              <<req.route = "mcp" /\ actor.kind = "bearer" /\ req.h.method = "call"
                  /\ req.h.tool \notin McpTools, 400>>>>)
            IN IF first # Pass THEN first
               ELSE IF needsCaller THEN Preflight(conf, req, actor) ELSE Pass

-----------------------------------------------------------------------------
(* Answers.                                                                *)

ServiceCodes == {"invalid_request", "too_large", "not_found", "forbidden",
                 "not_ready", "operation_failed", "temporarily_unavailable",
                 "feature_unavailable", "attestation_unavailable"}

\* writeServiceError; attestation_busy cannot reach it, the slot is held
ServiceErrorStatus(code) ==
    CASE code = "invalid_request" -> 400
      [] code = "too_large" -> 413
      [] code = "not_found" -> 404
      [] code = "forbidden" -> 403
      [] code = "operation_failed" -> 422
      [] OTHER -> 503

\* Mutant of ToolError: the tool's failure is not recorded.
ToolErrorUnrecorded(outcome) == Reply(200)

\* mcpWriteToolError, mcpWriteStructuredToolError: HTTP 200, recorded apart
ToolError(outcome) == [Reply(200) EXCEPT !.outcome = outcome]

\* the error paths of serveMCPToolCall and serveMCPGenerateTool
McpServiceError(code, actor, tool) ==
    CASE tool = "list_profiles" /\ code = "forbidden" -> Reply(200)
      [] tool = "verify" /\ code = "invalid_request" -> ToolError("invalid_request")
      [] tool = "verify" /\ code # "invalid_request" -> ToolError("unavailable")
      [] tool # "verify" /\ code \in {"not_ready", "temporarily_unavailable"} ->
            Reply(503)
      [] tool = "rotate" /\ code \in {"feature_unavailable", "attestation_unavailable"} ->
            ToolError("unavailable")
      [] tool \in {"encrypt", "decrypt", "rotate", "generate"} /\ code = "forbidden"
            /\ actor.kind # "anonymous" -> Reply(403)
      [] OTHER -> ToolError("failed")

\* outcomeForStatus
OutcomeForStatus(status) ==
    CASE status \in 200 .. 299 -> "success"
      [] status \in {400, 413, 415} -> "invalid_request"
      [] status = 401 -> "unauthorized"
      [] status = 403 -> "forbidden"
      [] status = 404 -> "not_found"
      [] status >= 500 -> "unavailable"
      [] OTHER -> "failed"

\* metricOperationForRequest, metricOperationForMCPTool
Sampled(req) ==
    \/ req.route \in Bodied \ {"badprofile"}
    \/ req.route = "mcp" /\ req.h.method = "call" /\ req.h.tool \in McpTools \ {"list_profiles"}
=============================================================================
