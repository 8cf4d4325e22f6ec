------------------------------ MODULE MCHttpApi ------------------------------
(* Families of requests, one for each question asked of the HTTP layer.    *)
EXTENDS HttpApi, TLC

Accept(q) == {[type |-> "json", q |-> "absent"], [type |-> "events", q |-> q]}
NoMcp == [accept |-> Accept("absent"), version |-> "current", method |-> "list", tool |-> "encrypt"]
NoBody == [method |-> "list", tool |-> "encrypt", meta |-> "current", args |-> TRUE]

Plain ==
    [route |-> "encrypt", method |-> "POST", origin |-> "none", referer |-> "none",
     auth |-> "bearer", token |-> "good", scopes |-> {"encrypt"}, session |-> "none",
     csrf |-> [cookie |-> "none", header |-> FALSE], media |-> TRUE, idem |-> FALSE,
     h |-> NoMcp, b |-> NoBody, body |-> "good", delay |-> 0]

AllRoutes == Bodied \cup Flow \cup {"profiles", "mcp", "public", "unknown"}
Scopes == {"read", "encrypt", "decrypt", "rotate", "verify"}

\* who asks: every combination of credentials, origin and method
CredentialRequests ==
    {[Plain EXCEPT !.route = route, !.method = method, !.origin = origin,
        !.referer = referer, !.auth = auth[1], !.token = auth[2], !.scopes = scopes,
        !.session = session, !.csrf = csrf] :
       route \in AllRoutes, method \in {"GET", "POST", "PREFLIGHT"},
       origin \in {"none", "null", "same", "allowed", "foreign"},
       referer \in {"none", "same"},
       auth \in {<<"none", "good">>, <<"malformed", "good">>, <<"bearer", "good">>,
                 <<"bearer", "bad">>},
       scopes \in {{"encrypt"}, Scopes \ {"encrypt"}},
       session \in {"none", "live", "dead"},
       csrf \in [cookie : {"valid", "forged"}, header : BOOLEAN]}

\* what is asked: headers and bodies of MCP and of the bodied routes
Headers ==
    {[NoMcp EXCEPT !.method = m, !.tool = t] :
        m \in {"list", "discover", "call"}, t \in McpTools \cup {"other", "bad"}}
      \cup {[NoMcp EXCEPT !.method = "prompts"], [NoMcp EXCEPT !.method = "bad"],
            [NoMcp EXCEPT !.accept = {}], [NoMcp EXCEPT !.accept = Accept("zero")],
            [NoMcp EXCEPT !.accept = Accept("positive")], [NoMcp EXCEPT !.version = "old"]}

Bodies ==
    {[NoBody EXCEPT !.method = m, !.tool = t] :
        m \in {"list", "call", "discover", "prompts"}, t \in McpTools \cup {"other", "absent"}}
      \cup {[NoBody EXCEPT !.method = m, !.meta = v, !.args = a] :
              m \in {"list", "call"}, v \in {"current", "old"}, a \in BOOLEAN}

McpRequests ==
    {[Plain EXCEPT !.route = "mcp", !.scopes = {s}, !.h = h, !.b = b, !.auth = auth] :
        s \in Scopes, h \in Headers, b \in Bodies, auth \in {"bearer", "none"}}

BodiedRequests ==
    {[Plain EXCEPT !.route = r, !.scopes = Scopes, !.media = media, !.idem = idem,
        !.body = body, !.token = token, !.delay = delay] :
        delay \in {0, 3}, r \in Bodied \ {"operations"}, media \in BOOLEAN, idem \in BOOLEAN,
        body \in {"good", "bad", "large", "stall"}, token \in {"good", "unavailable"}}
      \cup {[Plain EXCEPT !.route = r, !.auth = "none", !.session = s,
               !.csrf = [cookie |-> "valid", header |-> TRUE], !.origin = "same"] :
              r \in {"operations", "rotate", "profiles", "verify"},
              s \in {"live", "unavailable"}}

ContentRequests == McpRequests \cup BodiedRequests

\* the few requests that compete for slots and stall
ToolCall(tool, body) ==
    [Plain EXCEPT !.route = "mcp", !.scopes = {ScopeOf(tool)}, !.body = body,
        !.h = [NoMcp EXCEPT !.method = "call", !.tool = tool],
        !.b = [NoBody EXCEPT !.method = "call", !.tool = tool]]

SlotRequests(delay) ==
    {[Plain EXCEPT !.body = body, !.delay = delay] : body \in {"good", "stall"}}
      \cup {[ToolCall("generate", "good") EXCEPT !.delay = delay],
            [ToolCall("verify", "stall") EXCEPT !.delay = delay]}

CompetingRequests == SlotRequests(0) \cup SlotRequests(1)
OneSlot == [p \in {"ops", "verifier"} |-> 1]

\* who asks and what is asked on one connection alone, slots on two
Alone(requests) == "first" :> requests @@ "second" :> {}
MCRequests == [who |-> Alone(CredentialRequests), what |-> Alone(ContentRequests),
               slots |-> [c \in {"first", "second"} |-> CompetingRequests]]

MCConfigs ==
    [mode : {"native", "off"}, mcp : {TRUE}, attest : {"on"}, load : {"who"}]
      \cup [mode : {"native", "off"}, mcp : BOOLEAN, attest : {"on", "down"}, load : {"what"}]
      \cup [mode : {"native"}, mcp : {TRUE}, attest : {"on"}, load : {"slots"}]
=============================================================================
