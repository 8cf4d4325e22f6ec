---------------------------- MODULE HttpApiProofs ----------------------------
(***************************************************************************)
(* Theorems about HttpApi, for every configuration, any number of          *)
(* connections, whatever requests clients send on them and every setting   *)
(* of the slots and the deadlines.                                         *)
(***************************************************************************)
EXTENDS HttpApi, FiniteSetTheorems, TLAPS

-----------------------------------------------------------------------------
(* The first rule that applies.                                            *)

\* An answer with a status and nothing else.
LEMMA ReplyFacts ==
    ASSUME NEW s
    PROVE  /\ Reply(s).status = s /\ Reply(s).retry = FALSE /\ Reply(s).outcome = ""
           /\ s \in Nat \ {0} => Reply(s) # Pass
           /\ Pass.status = 0 /\ Pass.retry = FALSE /\ Pass.outcome = ""
<1>1. Pass.status = 0 /\ Pass.retry = FALSE /\ Pass.outcome = ""
  BY DEF Pass
<1>2. Reply(s).status = s /\ Reply(s).retry = FALSE /\ Reply(s).outcome = ""
  BY DEF Reply, Pass
<1>3. s \in Nat \ {0} => Reply(s) # Pass
  BY <1>1, <1>2
<1> QED
  BY <1>1, <1>2, <1>3

LEMMA ToolErrorFacts ==
    ASSUME NEW o
    PROVE  /\ ToolError(o).status = 200 /\ ToolError(o).retry = FALSE
           /\ ToolError(o).outcome = o
  BY DEF ToolError, Reply, Pass

\* A set of numbers of at most seven rules has a least one.
LEMMA LeastExists ==
    ASSUME NEW S \in SUBSET (1..7), S # {}
    PROVE  \E i \in S : \A j \in S : i <= j
<1>1. CASE 1 \in S
  BY <1>1
<1>2. CASE 1 \notin S /\ 2 \in S
  BY <1>2
<1>3. CASE 1 \notin S /\ 2 \notin S /\ 3 \in S
  BY <1>3
<1>4. CASE 1 \notin S /\ 2 \notin S /\ 3 \notin S /\ 4 \in S
  BY <1>4
<1>5. CASE 1 \notin S /\ 2 \notin S /\ 3 \notin S /\ 4 \notin S /\ 5 \in S
  BY <1>5
<1>6. CASE S \subseteq 6..7
  <2>1. CASE 6 \in S
    BY <1>6, <2>1
  <2>2. CASE 6 \notin S
    <3>1. \A j \in S : j = 7
      BY <1>6, <2>2
    <3>2. PICK i \in S : TRUE
      OBVIOUS
    <3>3. i = 7 /\ \A j \in S : i <= j
      BY <3>1, <3>2
    <3> QED
      BY <3>3
  <2> QED
    BY <2>1, <2>2
<1>7. S \subseteq 6..7 \/ 1 \in S \/ 2 \in S \/ 3 \in S \/ 4 \in S \/ 5 \in S
  OBVIOUS
<1> QED
  BY <1>1, <1>2, <1>3, <1>4, <1>5, <1>6, <1>7

LEMMA FirstIs ==
    ASSUME NEW rules, DOMAIN rules \subseteq 1..7
    PROVE  \/ First(rules) = Pass /\ \A i \in DOMAIN rules : ~rules[i][1]
           \/ \E i \in DOMAIN rules : rules[i][1] /\ First(rules) = Reply(rules[i][2])
<1> DEFINE hits == {i \in DOMAIN rules : rules[i][1]}
           least == CHOOSE i \in hits : \A j \in hits : i <= j
<1>1. CASE hits = {}
  BY <1>1 DEF First
<1>2. CASE hits # {}
  <2>1. \E i \in hits : \A j \in hits : i <= j
    BY <1>2, LeastExists
  <2>2. least \in hits
    BY <2>1
  <2>3. First(rules) = Reply(rules[least][2])
    BY <1>2 DEF First
  <2> QED
    BY <2>2, <2>3
<1> QED
  BY <1>1, <1>2

\* The middlewares' refusals, in their order.
LEMMA FirstRefusal4 ==
    ASSUME NEW a, NEW b, NEW c, NEW d
    PROVE  LET f == FirstRefusal(<<a, b, c, d>>)
           IN /\ f = Pass <=> a = Pass /\ b = Pass /\ c = Pass /\ d = Pass
              /\ f \in {Pass, a, b, c, d}
<1> DEFINE all == <<a, b, c, d>>
           hits == {i \in DOMAIN all : all[i] # Pass}
           least == CHOOSE i \in hits : \A j \in hits : i <= j
<1>1. /\ DOMAIN all = 1..4 /\ all[1] = a /\ all[2] = b /\ all[3] = c /\ all[4] = d
      /\ \A i \in 1..4 : i = 1 \/ i = 2 \/ i = 3 \/ i = 4
  OBVIOUS
<1> HIDE DEF all
<1>2. CASE hits = {}
  <2>1. FirstRefusal(all) = Pass
    BY <1>2 DEF FirstRefusal
  <2>2. a = Pass /\ b = Pass /\ c = Pass /\ d = Pass
    BY <1>1, <1>2
  <2> QED
    BY <2>1, <2>2 DEF all
<1>3. CASE hits # {}
  <2>1. \E i \in hits : \A j \in hits : i <= j
    BY <1>1, <1>3, LeastExists
  <2>2. least \in hits
    BY <2>1
  <2>3. FirstRefusal(all) = all[least]
    BY <1>3 DEF FirstRefusal
  <2>4. all[least] # Pass /\ least \in 1..4
    BY <1>1, <2>2
  <2> HIDE DEF least
  <2>5. all[least] \in {a, b, c, d}
    BY <1>1, <2>4
  <2>6. ~(a = Pass /\ b = Pass /\ c = Pass /\ d = Pass)
    BY <2>4, <2>5
  <2> QED
    BY <2>3, <2>4, <2>5, <2>6 DEF all
<1> QED
  BY <1>2, <1>3

-----------------------------------------------------------------------------
(* What the checks on the headers establish.                               *)

Errors == 400..599

\* A refusal is an error without an invitation to retry.
Refused(a) == \E s \in Errors : a = Reply(s)
NoRetry(a) == a.retry = FALSE

LEMMA RepliesDoNotRetry ==
    NoRetry(Pass) /\ \A s : NoRetry(Reply(s))
  BY ReplyFacts DEF NoRetry

\* When each rule answers with a status, Pass is the result exactly when no
\* rule applies.
LEMMA FirstOf ==
    ASSUME NEW rules, DOMAIN rules \subseteq 1..7,
           \A i \in DOMAIN rules : rules[i][2] \in Nat \ {0}
    PROVE  /\ First(rules) = Pass <=> \A i \in DOMAIN rules : ~rules[i][1]
           /\ NoRetry(First(rules))
           /\ (\A i \in DOMAIN rules : rules[i][2] \in Errors) =>
                First(rules) = Pass \/ Refused(First(rules))
<1>1. \/ First(rules) = Pass /\ \A i \in DOMAIN rules : ~rules[i][1]
      \/ \E i \in DOMAIN rules : rules[i][1] /\ First(rules) = Reply(rules[i][2])
  BY FirstIs
<1>2. \A s \in Nat \ {0} : Reply(s) # Pass
  BY ReplyFacts
<1>3. First(rules) = Pass <=> \A i \in DOMAIN rules : ~rules[i][1]
  BY <1>1, <1>2
<1>4. NoRetry(First(rules))
  BY <1>1, RepliesDoNotRetry
<1>5. (\A i \in DOMAIN rules : rules[i][2] \in Errors) =>
         First(rules) = Pass \/ Refused(First(rules))
  BY <1>1 DEF Refused
<1> QED
  BY <1>3, <1>4, <1>5

\* The middlewares let the request through.
Admitted(k, r) ==
    /\ McpRouteRefusal(k, r) = Pass
    /\ CorsRefusal(r) = Pass
    /\ HeaderRefusal(r) = Pass
    /\ CredentialRefusal(k, r) = Pass

LEMMA McpRouteFacts ==
    ASSUME NEW k, NEW r
    PROVE  NoRetry(McpRouteRefusal(k, r))
<1> DEFINE c1 == ~k.mcp
           c2 == r.method # "POST" /\ ~ValidMcpPreflight(r)
           rules == <<<<c1, 404>>, <<c2, 405>>>>
<1>1. McpRouteRefusal(k, r) = IF r.route # "mcp" THEN Pass ELSE First(rules)
  BY DEF McpRouteRefusal
<1>2. /\ DOMAIN rules = 1..2
      /\ rules[1] = <<c1, 404>> /\ rules[2] = <<c2, 405>>
  OBVIOUS
<1> HIDE DEF rules, c1, c2
<1>3. \A i \in 1..2 : i = 1 \/ i = 2
  OBVIOUS
<1>4. \A i \in 1..2 : rules[i][2] \in {404, 405}
  BY <1>2, <1>3
<1>5. /\ First(rules) = Pass <=> \A i \in 1..2 : ~rules[i][1]
      /\ NoRetry(First(rules))
      /\ First(rules) = Pass \/ Refused(First(rules))
  <2>1. DOMAIN rules \subseteq 1..7 /\ \A i \in DOMAIN rules : rules[i][2] \in Nat \ {0}
    BY <1>2, <1>4
  <2>2. \A i \in DOMAIN rules : rules[i][2] \in Errors
    BY <1>2, <1>4 DEF Errors
  <2> QED
    BY <1>2, <2>1, <2>2, FirstOf
<1>6. First(rules) = Pass <=> ~c1 /\ ~c2
  BY <1>2, <1>3, <1>5
<1> QED
  BY <1>1, <1>5, RepliesDoNotRetry

LEMMA CorsFacts ==
    ASSUME NEW r
    PROVE  /\ NoRetry(CorsRefusal(r))
           /\ CorsRefusal(r) = Pass => r.origin \in {"none", "same", "allowed"}
<1> DEFINE c1 == ~OriginAllowed(r)
           c2 == r.method \in {"OPTIONS", "PREFLIGHT"}
           rules == <<<<c1, 403>>, <<c2, 204>>>>
<1>1. CorsRefusal(r) = IF r.origin = "none" THEN Pass ELSE First(rules)
  BY DEF CorsRefusal
<1>2. /\ DOMAIN rules = 1..2
      /\ rules[1] = <<c1, 403>> /\ rules[2] = <<c2, 204>>
  OBVIOUS
<1> HIDE DEF rules, c1, c2
<1>3. \A i \in 1..2 : i = 1 \/ i = 2
  OBVIOUS
<1>4. \A i \in 1..2 : rules[i][2] \in {204, 403}
  BY <1>2, <1>3
<1>5. /\ First(rules) = Pass <=> \A i \in 1..2 : ~rules[i][1]
      /\ NoRetry(First(rules))
  <2>1. DOMAIN rules \subseteq 1..7 /\ \A i \in DOMAIN rules : rules[i][2] \in Nat \ {0}
    BY <1>2, <1>4
  <2> QED
    BY <1>2, <2>1, FirstOf
<1>6. First(rules) = Pass <=> ~c1 /\ ~c2
  BY <1>2, <1>3, <1>5
<1>7. ~c1 => r.origin \in {"same", "allowed"}
  BY DEF c1, OriginAllowed
<1> QED
  BY <1>1, <1>5, <1>6, <1>7, RepliesDoNotRetry

LEMMA HeaderFacts ==
    ASSUME NEW r
    PROVE  /\ NoRetry(HeaderRefusal(r))
           /\ HeaderRefusal(r) = Pass => r.route # "badprofile"
<1> DEFINE mcp == r.route = "mcp"
           c1 == r.route = "badprofile"
           c2 == r.route = "profiles" /\ r.method # "GET"
           c3 == r.route \in Bodied /\ r.method # "POST"
           c4 == (r.route \in Bodied \/ mcp) /\ ~r.media
           c5 == r.route = "generate" /\ r.idem
           c6 == mcp /\ ~McpAccepts(r.h.accept)
           c7 == mcp /\ ~ValidMcpHeaders(r.h)
           rules == <<<<c1, 400>>, <<c2, 405>>, <<c3, 405>>, <<c4, 415>>,
                       <<c5, 400>>, <<c6, 406>>, <<c7, 400>>>>
<1>1. HeaderRefusal(r) = First(rules)
  BY DEF HeaderRefusal
<1>2. /\ DOMAIN rules = 1..7
      /\ rules[1] = <<c1, 400>> /\ rules[2] = <<c2, 405>> /\ rules[3] = <<c3, 405>>
      /\ rules[4] = <<c4, 415>> /\ rules[5] = <<c5, 400>> /\ rules[6] = <<c6, 406>>
      /\ rules[7] = <<c7, 400>>
  OBVIOUS
<1> HIDE DEF rules, c1, c2, c3, c4, c5, c6, c7
<1>3. \A i \in 1..7 : i = 1 \/ i = 2 \/ i = 3 \/ i = 4 \/ i = 5 \/ i = 6 \/ i = 7
  OBVIOUS
<1>4. \A i \in 1..7 : rules[i][2] \in {400, 405, 406, 415}
  BY <1>2, <1>3
<1>5. /\ First(rules) = Pass <=> \A i \in 1..7 : ~rules[i][1]
      /\ NoRetry(First(rules))
      /\ First(rules) = Pass \/ Refused(First(rules))
  <2>1. DOMAIN rules \subseteq 1..7 /\ \A i \in DOMAIN rules : rules[i][2] \in Nat \ {0}
    BY <1>2, <1>4
  <2>2. \A i \in DOMAIN rules : rules[i][2] \in Errors
    BY <1>2, <1>4 DEF Errors
  <2> QED
    BY <1>2, <2>1, <2>2, FirstOf
<1>6. First(rules) = Pass <=> ~c1 /\ ~c2 /\ ~c3 /\ ~c4 /\ ~c5 /\ ~c6 /\ ~c7
  BY <1>2, <1>3, <1>5
<1>7. ~c1 => r.route # "badprofile"
  BY DEF c1
<1> QED
  BY <1>1, <1>5, <1>6, <1>7, RepliesDoNotRetry

\* What a request that credentialDispatchMiddleware and csrfMiddleware let
\* through has, by the class of its route.
LEMMA CredentialFacts ==
    ASSUME NEW k, NEW r
    PROVE  LET route == CredentialRoute(r.route)
               native == k.mode = "native"
               auth == r.auth # "none"
               session == r.session # "none"
           IN /\ NoRetry(CredentialRefusal(k, r))
              /\ CredentialRefusal(k, r) = Pass =>
                   /\ ~(route # "none" /\ auth /\ ~native)
                   /\ ~(route # "none" /\ auth /\ native /\ session)
                   /\ ~(route \in {"session", "flow"} /\ native /\ auth)
                   /\ ~(route = "either" /\ native /\ r.auth = "malformed")
                   /\ ~(route = "either" /\ native /\ ~auth /\ ~session)
                   /\ ~(route = "mcp" /\ native /\ (session \/ r.auth # "bearer"))
                   /\ ~(route \notin {"none", "mcp"} /\ native /\ ~auth
                          /\ r.method = "POST" /\ ~CsrfPasses(r))
<1> DEFINE route == CredentialRoute(r.route)
           native == k.mode = "native"
           auth == r.auth # "none"
           session == r.session # "none"
           c1 == route # "none" /\ auth /\ ~native
           c2 == route # "none" /\ auth /\ native /\ session
           c3 == route \in {"session", "flow"} /\ native /\ auth
           c4 == route = "either" /\ native /\ r.auth = "malformed"
           c5 == route = "either" /\ native /\ ~auth /\ ~session
           c6 == route = "mcp" /\ native /\ (session \/ r.auth # "bearer")
           c7 == route \notin {"none", "mcp"} /\ native /\ ~auth
                   /\ r.method = "POST" /\ ~CsrfPasses(r)
           rules == <<<<c1, 400>>, <<c2, 400>>, <<c3, 401>>, <<c4, 401>>,
                       <<c5, 401>>, <<c6, 401>>, <<c7, 403>>>>
<1>1. CredentialRefusal(k, r) = First(rules)
  BY DEF CredentialRefusal
<1>2. /\ DOMAIN rules = 1..7
      /\ rules[1] = <<c1, 400>> /\ rules[2] = <<c2, 400>> /\ rules[3] = <<c3, 401>>
      /\ rules[4] = <<c4, 401>> /\ rules[5] = <<c5, 401>> /\ rules[6] = <<c6, 401>>
      /\ rules[7] = <<c7, 403>>
  OBVIOUS
<1> HIDE DEF rules, c1, c2, c3, c4, c5, c6, c7
<1>3. \A i \in 1..7 : i = 1 \/ i = 2 \/ i = 3 \/ i = 4 \/ i = 5 \/ i = 6 \/ i = 7
  OBVIOUS
<1>4. \A i \in 1..7 : rules[i][2] \in {400, 401, 403}
  BY <1>2, <1>3
<1>5. /\ First(rules) = Pass <=> \A i \in 1..7 : ~rules[i][1]
      /\ NoRetry(First(rules))
      /\ First(rules) = Pass \/ Refused(First(rules))
  <2>1. DOMAIN rules \subseteq 1..7 /\ \A i \in DOMAIN rules : rules[i][2] \in Nat \ {0}
    BY <1>2, <1>4
  <2>2. \A i \in DOMAIN rules : rules[i][2] \in Errors
    BY <1>2, <1>4 DEF Errors
  <2> QED
    BY <1>2, <2>1, <2>2, FirstOf
<1>6. First(rules) = Pass <=> ~c1 /\ ~c2 /\ ~c3 /\ ~c4 /\ ~c5 /\ ~c6 /\ ~c7
  BY <1>2, <1>3, <1>5
<1>7. NoRetry(CredentialRefusal(k, r))
  BY <1>1, <1>5, RepliesDoNotRetry
<1>8. CredentialRefusal(k, r) = Pass => ~c1 /\ ~c2 /\ ~c3 /\ ~c4 /\ ~c5 /\ ~c6 /\ ~c7
  BY <1>1, <1>6
<1> QED
  BY <1>7, <1>8 DEF c1, c2, c3, c4, c5, c6, c7

\* What a bearer's scopes admit.
LEMMA PreflightFacts ==
    ASSUME NEW k, NEW r, NEW who
    PROVE  LET scope == IF r.route = "mcp" THEN McpPreflightScope(r) ELSE RouteScope(r.route)
               lists == r.route = "mcp" /\ r.h.method \in Listing
           IN /\ Preflight(k, r, who) = Pass \/ Refused(Preflight(k, r, who))
              /\ Preflight(k, r, who) = Pass <=>
                   /\ ~(who.kind = "bearer" /\ scope # "none" /\ scope \notin who.scopes
                          /\ ~(lists /\ "verify" \in who.scopes))
                   /\ ~(r.route = "verify" /\ k.attest # "on")
<1> DEFINE scope == IF r.route = "mcp" THEN McpPreflightScope(r) ELSE RouteScope(r.route)
           lists == r.route = "mcp" /\ r.h.method \in Listing
           c1 == who.kind = "bearer" /\ scope # "none" /\ scope \notin who.scopes
                   /\ ~(lists /\ "verify" \in who.scopes)
           c2 == r.route = "verify" /\ k.attest # "on"
           rules == <<<<c1, 403>>, <<c2, 503>>>>
<1>1. Preflight(k, r, who) = First(rules)
  BY DEF Preflight
<1>2. /\ DOMAIN rules = 1..2
      /\ rules[1] = <<c1, 403>> /\ rules[2] = <<c2, 503>>
  OBVIOUS
<1> HIDE DEF rules, c1, c2
<1>3. \A i \in 1..2 : i = 1 \/ i = 2
  OBVIOUS
<1>4. \A i \in 1..2 : rules[i][2] \in {403, 503}
  BY <1>2, <1>3
<1>5. /\ First(rules) = Pass <=> \A i \in 1..2 : ~rules[i][1]
      /\ NoRetry(First(rules))
      /\ First(rules) = Pass \/ Refused(First(rules))
  <2>1. DOMAIN rules \subseteq 1..7 /\ \A i \in DOMAIN rules : rules[i][2] \in Nat \ {0}
    BY <1>2, <1>4
  <2>2. \A i \in DOMAIN rules : rules[i][2] \in Errors
    BY <1>2, <1>4 DEF Errors
  <2> QED
    BY <1>2, <2>1, <2>2, FirstOf
<1>6. First(rules) = Pass <=> ~c1 /\ ~c2
  BY <1>2, <1>3, <1>5
<1>7. Preflight(k, r, who) = Pass \/ Refused(Preflight(k, r, who))
  BY <1>1, <1>5 DEF Refused, Errors
<1> QED
  BY <1>1, <1>6, <1>7 DEF c1, c2

\* The handler's own checks.
NeedsCaller(r) == r.route \in Bodied \cup {"profiles", "mcp"}

LEMMA HandlerFacts ==
    ASSUME NEW k, NEW r, NEW who
    PROVE  LET f == HandlerRefusal(k, r, who)
           IN /\ f = Pass \/ Refused(f)
              /\ f = Pass =>
                   /\ r.route # "unknown"
                   /\ ~(r.route \in GetOnly /\ r.method # "GET")
                   /\ ~(NeedsCaller(r) /\ who.kind = "none")
                   /\ ~(r.route = "mcp" /\ who.kind = "bearer" /\ r.h.method = "call"
                          /\ r.h.tool \notin McpTools)
                   /\ NeedsCaller(r) => Preflight(k, r, who) = Pass
<1> DEFINE c1 == r.route \in GetOnly /\ r.method # "GET"
           c2 == r.route = "logout" /\ r.method # "POST"
           c3 == r.route \in {"login", "callback"} /\ k.mode = "off"
           c4 == NeedsCaller(r) /\ who.kind = "none"
           c5 == r.route = "mcp" /\ who.kind = "bearer" /\ r.h.method = "call"
                   /\ r.h.tool \notin McpTools
           rules == <<<<c1, 405>>, <<c2, 405>>, <<c3, 503>>, <<c4, 401>>, <<c5, 400>>>>
<1>1. HandlerRefusal(k, r, who) =
        IF r.route = "unknown" THEN Reply(404)
        ELSE IF First(rules) # Pass THEN First(rules)
        ELSE IF NeedsCaller(r) THEN Preflight(k, r, who) ELSE Pass
  BY DEF HandlerRefusal, NeedsCaller
<1>2. /\ DOMAIN rules = 1..5
      /\ rules[1] = <<c1, 405>> /\ rules[2] = <<c2, 405>> /\ rules[3] = <<c3, 503>>
      /\ rules[4] = <<c4, 401>> /\ rules[5] = <<c5, 400>>
  OBVIOUS
<1> HIDE DEF rules, c1, c2, c3, c4, c5
<1>3. \A i \in 1..5 : i = 1 \/ i = 2 \/ i = 3 \/ i = 4 \/ i = 5
  OBVIOUS
<1>4. \A i \in 1..5 : rules[i][2] \in {400, 401, 405, 503}
  BY <1>2, <1>3
<1>5. /\ First(rules) = Pass <=> \A i \in 1..5 : ~rules[i][1]
      /\ NoRetry(First(rules))
      /\ First(rules) = Pass \/ Refused(First(rules))
  <2>1. DOMAIN rules \subseteq 1..7 /\ \A i \in DOMAIN rules : rules[i][2] \in Nat \ {0}
    BY <1>2, <1>4
  <2>2. \A i \in DOMAIN rules : rules[i][2] \in Errors
    BY <1>2, <1>4 DEF Errors
  <2> QED
    BY <1>2, <2>1, <2>2, FirstOf
<1>6. First(rules) = Pass <=> ~c1 /\ ~c2 /\ ~c3 /\ ~c4 /\ ~c5
  BY <1>2, <1>3, <1>5
<1>7. Preflight(k, r, who) = Pass \/ Refused(Preflight(k, r, who))
  BY PreflightFacts
<1>8. Refused(Reply(404)) /\ (First(rules) = Pass \/ Refused(First(rules)))
  BY <1>5 DEF Refused, Errors
<1>9. Reply(404) # Pass
  <2>1. Reply(404).status = 404 /\ Pass.status = 0
    BY DEF Reply, Pass
  <2> QED
    BY <2>1
<1>10. HandlerRefusal(k, r, who) = Pass \/ Refused(HandlerRefusal(k, r, who))
  BY <1>1, <1>7, <1>8
<1>11. HandlerRefusal(k, r, who) = Pass =>
         /\ r.route # "unknown" /\ First(rules) = Pass
         /\ NeedsCaller(r) => Preflight(k, r, who) = Pass
  BY <1>1, <1>9
<1> QED
  BY <1>6, <1>10, <1>11 DEF c1, c4, c5

\* The MCP body repeats what the headers said.
LEMMA McpBodyFacts ==
    ASSUME NEW h, NEW b
    PROVE  /\ McpBodyRefusal(h, b) = Pass \/ Refused(McpBodyRefusal(h, b))
           /\ McpBodyRefusal(h, b) = Pass =>
                /\ b.method = h.method
                /\ b.method \in Listing \cup {"call"}
                /\ b.method = "call" => b.tool \in McpTools /\ b.tool = h.tool
<1> DEFINE c1 == b.method # h.method
           c2 == b.method = "call" /\ b.tool # "absent" /\ b.tool # h.tool
           c3 == b.method \notin Listing \cup {"call"}
           c4 == b.meta # "current"
           c5 == b.method = "call" /\ b.tool \notin McpTools
           rules == <<<<c1, 400>>, <<c2, 400>>, <<c3, 404>>, <<c4, 400>>, <<c5, 400>>>>
<1>1. McpBodyRefusal(h, b) = First(rules)
  BY DEF McpBodyRefusal
<1>2. /\ DOMAIN rules = 1..5
      /\ rules[1] = <<c1, 400>> /\ rules[2] = <<c2, 400>> /\ rules[3] = <<c3, 404>>
      /\ rules[4] = <<c4, 400>> /\ rules[5] = <<c5, 400>>
  OBVIOUS
<1> HIDE DEF rules, c1, c2, c3, c4, c5
<1>3. \A i \in 1..5 : i = 1 \/ i = 2 \/ i = 3 \/ i = 4 \/ i = 5
  OBVIOUS
<1>4. \A i \in 1..5 : rules[i][2] \in {400, 404}
  BY <1>2, <1>3
<1>5. /\ First(rules) = Pass <=> \A i \in 1..5 : ~rules[i][1]
      /\ NoRetry(First(rules))
      /\ First(rules) = Pass \/ Refused(First(rules))
  <2>1. DOMAIN rules \subseteq 1..7 /\ \A i \in DOMAIN rules : rules[i][2] \in Nat \ {0}
    BY <1>2, <1>4
  <2>2. \A i \in DOMAIN rules : rules[i][2] \in Errors
    BY <1>2, <1>4 DEF Errors
  <2> QED
    BY <1>2, <2>1, <2>2, FirstOf
<1>6. First(rules) = Pass <=> ~c1 /\ ~c2 /\ ~c3 /\ ~c4 /\ ~c5
  BY <1>2, <1>3, <1>5
<1>7. First(rules) = Pass \/ Refused(First(rules))
  BY <1>5 DEF Refused, Errors
<1>8. "absent" \notin McpTools
  BY DEF McpTools
<1> QED
  BY <1>1, <1>6, <1>7, <1>8 DEF c1, c2, c3, c5

-----------------------------------------------------------------------------
(* The inductive invariant.  It speaks of one connection at a time, through *)
(* operators of the values that the variables have for it.                 *)

Inside == {"acquire", "read", "join", "decode", "serve"}

\* Something was done for the request, or the service was asked to.
Worked(done, called) == done # "none" \/ called

\* The caller is the one the request's only credential stands for.
Identified(k, r, who) ==
    IF k.mode = "off" THEN who.kind = "anonymous"
    ELSE IF CredentialRoute(r.route) # "none" /\ r.auth = "bearer"
         THEN who.kind = "bearer" /\ who.scopes = r.scopes /\ r.token = "good"
    ELSE who.kind # "none" =>
           /\ who.kind = "session" /\ r.session = "live"
           /\ CredentialRoute(r.route) # "none"

\* Which checks a request has passed when it gets to a step, and which it
\* had passed once it has been answered and something was done for it.
Stage(k, p, r, who, done, called) ==
    /\ who.kind \in {"none", "anonymous", "session", "bearer"}
    /\ (p = "idle") <=> (r = NoRequest)
    /\ p # "idle" => r \in RequestRecords
    /\ p # "answered" => done = "none" /\ called = FALSE
    /\ done \in {"none", Asked(r)}
    /\ p \notin {"idle", "answered"} \/ Worked(done, called) => Admitted(k, r)
    /\ p \in {"token", "session"} =>
         /\ k.mode # "off" /\ CredentialRoute(r.route) # "none"
         /\ who = NoActor
         /\ (p = "token") <=> (r.auth = "bearer")
    /\ p \in Inside \cup {"handle"} \/ Worked(done, called) => Identified(k, r, who)
    /\ p \in Inside \/ Worked(done, called) => HandlerRefusal(k, r, who) = Pass
    /\ p \in Inside => DeadlineApplies(r) /\ r.route # "profiles"
    /\ r.route = "mcp" /\ (p = "serve" \/ Worked(done, called)) =>
         McpBodyRefusal(r.h, r.b) = Pass

\* The read and its watcher.
Reading(p, r, cx, held, so, w, g, a, t) ==
    /\ p \notin {"read", "join"} => w = {}
    /\ \A x \in w : x.own = TRUE
    /\ p \in {"idle", "token", "session", "handle", "acquire"} => g = "none" /\ held = "none"
    /\ p \in {"token", "session", "handle", "acquire"} => so = "open"
    /\ p = "read" =>
         /\ g = "none"
         /\ so = "open" => \E x \in w : x.st = "waiting"
         /\ so = "expired" => cx = "ended" \/ t >= ReadTimeout
    /\ p # "idle" => t <= r.delay + AppDeadline
    /\ g = "timeout" /\ r.delay < ReadTimeout - AppDeadline =>
         \/ p = "join" /\ cx = "ended"
         \/ p = "answered" /\ a.status = 503

\* What is told about the request.
Told(p, r, g, a, done, called, counted) ==
    /\ a.retry \in BOOLEAN
    /\ p # "answered" => a = Pass /\ counted = "none"
    /\ a.retry = TRUE => called = FALSE /\ done = "none" /\ g = "none" /\ ~GenerateCall(r)
    /\ p = "answered" /\ counted # "none" => (counted = "success" <=> done # "none")

Shapes ==
    /\ conf \in Configs
    /\ pc \in [Conns -> {"idle", "token", "session", "handle", "acquire", "read",
                         "join", "decode", "serve", "answered"}]
    /\ ctx \in [Conns -> {"live", "ended"}]
    /\ slot \in [Conns -> {"none", "ops", "verifier"}]
    /\ sock \in [Conns -> {"open", "expired"}]
    /\ watch \in [Conns -> SUBSET [own : BOOLEAN, st : {"waiting", "closing"}]]
    /\ got \in [Conns -> {"none", "good", "bad", "large", "timeout"}]
    /\ tried \in [Conns -> BOOLEAN]
    /\ age \in [Conns -> Nat]
    /\ DOMAIN req = Conns /\ DOMAIN actor = Conns /\ DOMAIN ans = Conns
    /\ DOMAIN did = Conns /\ DOMAIN sample = Conns

StageOK(c) == Stage(conf, pc[c], req[c], actor[c], did[c], tried[c])
ReadingOK(c) ==
    Reading(pc[c], req[c], ctx[c], slot[c], sock[c], watch[c], got[c], ans[c], age[c])
ToldOK(c) == Told(pc[c], req[c], got[c], ans[c], did[c], tried[c], sample[c])

WithinCapacity == \A p \in {"ops", "verifier"} : InUse(p) <= Capacity[p]

Inv ==
    /\ Shapes
    /\ \A c \in Conns : StageOK(c) /\ ReadingOK(c) /\ ToldOK(c)
    /\ WithinCapacity

-----------------------------------------------------------------------------
(* A step of a connection leaves the others alone.                         *)

Frame(c) ==
    /\ conf' = conf
    /\ \A d \in Conns : d # c =>
         /\ pc'[d] = pc[d]
         /\ req'[d] = req[d]
         /\ actor'[d] = actor[d]
         /\ ctx'[d] = ctx[d]
         /\ slot'[d] = slot[d]
         /\ sock'[d] = sock[d]
         /\ watch'[d] = watch[d]
         /\ got'[d] = got[d]
         /\ ans'[d] = ans[d]
         /\ did'[d] = did[d]
         /\ tried'[d] = tried[d]
         /\ sample'[d] = sample[d]
         /\ age'[d] = age[d]

LEMMA Elsewhere ==
    ASSUME NEW c \in Conns, Frame(c), NEW d \in Conns, d # c,
           StageOK(d), ReadingOK(d), ToldOK(d)
    PROVE  StageOK(d)' /\ ReadingOK(d)' /\ ToldOK(d)'
  BY DEF Frame, StageOK, ReadingOK, ToldOK

Ending(c) ==
    /\ pc' = [pc EXCEPT ![c] = "answered"]
    /\ DOMAIN ans' = Conns /\ DOMAIN sample' = Conns
    /\ \A d \in Conns : d # c => ans'[d] = ans[d] /\ sample'[d] = sample[d]

LEMMA AnswerEnds ==
    ASSUME NEW c \in Conns, Shapes, NEW a, NEW n, Answer(c, a, n)
    PROVE  Ending(c)
  BY DEF Answer, Ending, Shapes

LEMMA ReceiveFrames ==
    ASSUME NEW c \in Conns, Shapes, Receive(c)
    PROVE  Shapes' /\ Frame(c)
<1> DEFINE Judge(r) == FirstRefusal(<<McpRouteRefusal(conf, r), CorsRefusal(r),
                           HeaderRefusal(r), CredentialRefusal(conf, r)>>)
<1>1. PICK r \in Requests[conf.load][c] :
        /\ req' = [req EXCEPT ![c] = r]
        /\ age' = [age EXCEPT ![c] = r.delay]
        /\ ans' = [ans EXCEPT ![c] = Judge(r)]
        /\ pc' = [pc EXCEPT ![c] =
             IF Judge(r) # Pass THEN "answered" ELSE CredentialStep(conf, r)]
  BY DEF Receive
<1> HIDE DEF Judge
<1>2. r.delay \in Nat
  <2>1. r \in RequestRecords
    BY HttpApiAssumption DEF Shapes
  <2> QED
    BY <2>1 DEF RequestRecords
<1>3. CredentialStep(conf, r) \in {"handle", "token", "session"}
  BY DEF CredentialStep
<1>4. /\ actor' = [actor EXCEPT ![c] = IF conf.mode = "off" THEN Anonymous ELSE NoActor]
      /\ ctx' = [ctx EXCEPT ![c] = "live"]
      /\ sock' = [sock EXCEPT ![c] = "open"]
      /\ watch' = [watch EXCEPT ![c] = {[w EXCEPT !.own = FALSE] : w \in watch[c]}]
      /\ UNCHANGED <<conf, slot, got, did, tried, sample>>
  BY DEF Receive
<1>5. watch' \in [Conns -> SUBSET [own : BOOLEAN, st : {"waiting", "closing"}]]
  <2> DEFINE W == [own : BOOLEAN, st : {"waiting", "closing"}]
             old == {[w EXCEPT !.own = FALSE] : w \in watch[c]}
  <2>1. \A w \in W : [w EXCEPT !.own = FALSE] \in W
    OBVIOUS
  <2>2. watch \in [Conns -> SUBSET W] /\ watch' = [watch EXCEPT ![c] = old]
    BY <1>4 DEF Shapes
  <2>3. watch[c] \in SUBSET W
    BY <2>2
  <2> HIDE DEF W
  <2>4. old \in SUBSET W
    BY <2>1, <2>3
  <2> HIDE DEF old
  <2> QED
    BY <2>2, <2>4 DEF W
<1>6. Frame(c)
  BY <1>1, <1>4 DEF Shapes, Frame
<1>7. Shapes'
  BY <1>1, <1>2, <1>3, <1>4, <1>5 DEF Shapes
<1> QED
  BY <1>6, <1>7

LEMMA VerifyTokenFrames ==
    ASSUME NEW c \in Conns, Shapes, VerifyToken(c)
    PROVE  Shapes' /\ Frame(c)
<1>1. /\ UNCHANGED <<request, reading, slot, did, tried>>
      /\ \E who : actor' = [actor EXCEPT ![c] = who]
      /\ \E a : AnswerOr(c, a, "handle", FALSE)
  BY DEF VerifyToken
<1>2. Ending(c) \/ (pc' = [pc EXCEPT ![c] = "handle"] /\ UNCHANGED <<ans, sample>>)
  BY <1>1, AnswerEnds, Zenon DEF AnswerOr
<1>3. Frame(c)
  BY <1>1, <1>2 DEF Ending, Shapes, Frame, request, reading
<1>4. Shapes'
  BY <1>1, <1>2 DEF Ending, Shapes, request, reading
<1> QED
  BY <1>3, <1>4

LEMMA LoadSessionFrames ==
    ASSUME NEW c \in Conns, Shapes, LoadSession(c)
    PROVE  Shapes' /\ Frame(c)
<1>1. /\ UNCHANGED <<request, reading, slot, did, tried>>
      /\ \E who : actor' = [actor EXCEPT ![c] = who]
      /\ \E a : AnswerOr(c, a, "handle", FALSE)
  BY DEF LoadSession
<1>2. Ending(c) \/ (pc' = [pc EXCEPT ![c] = "handle"] /\ UNCHANGED <<ans, sample>>)
  BY <1>1, AnswerEnds, Zenon DEF AnswerOr
<1>3. Frame(c)
  BY <1>1, <1>2 DEF Ending, Shapes, Frame, request, reading
<1>4. Shapes'
  BY <1>1, <1>2 DEF Ending, Shapes, request, reading
<1> QED
  BY <1>3, <1>4

FlowStatus(r) ==
    IF r.route \in {"login", "callback"} THEN 303
    ELSE IF r.route = "logout" THEN 204 ELSE 200

\* The three ways ServeFlow ends.
FlowRefused(c) ==
    /\ HandlerRefusal(conf, req[c], actor[c]) # Pass
    /\ Answer(c, HandlerRefusal(conf, req[c], actor[c]), TRUE)
    /\ did' = did

FlowDone(c) ==
    /\ HandlerRefusal(conf, req[c], actor[c]) = Pass
    /\ Answer(c, Reply(FlowStatus(req[c])), TRUE)
    /\ did' = [did EXCEPT ![c] = req[c].route]

FlowFailed(c) ==
    /\ \E s \in {400, 401, 503} : Answer(c, Reply(s), TRUE)
    /\ did' = did

LEMMA ServeFlowIs ==
    ASSUME NEW c \in Conns, ServeFlow(c)
    PROVE  FlowRefused(c) \/ FlowDone(c) \/ FlowFailed(c)
<1> DEFINE refusal == HandlerRefusal(conf, req[c], actor[c])
<1>1. \/ refusal # Pass /\ Answer(c, refusal, TRUE) /\ did' = did
      \/ /\ refusal = Pass
         /\ \/ /\ Answer(c, Reply(FlowStatus(req[c])), TRUE)
               /\ did' = [did EXCEPT ![c] = req[c].route]
            \/ /\ req[c].route \in Flow /\ conf.mode = "native"
               /\ \E s \in {400, 401, 503} : Answer(c, Reply(s), TRUE)
               /\ did' = did
  BY Zenon DEF ServeFlow, FlowStatus
<1>2. CASE refusal # Pass /\ Answer(c, refusal, TRUE) /\ did' = did
  BY <1>2 DEF FlowRefused
<1>3. CASE /\ refusal = Pass /\ Answer(c, Reply(FlowStatus(req[c])), TRUE)
           /\ did' = [did EXCEPT ![c] = req[c].route]
  BY <1>3 DEF FlowDone
<1>4. CASE /\ \E s \in {400, 401, 503} : Answer(c, Reply(s), TRUE)
           /\ did' = did
  BY <1>4, ZenonT(30) DEF FlowFailed
<1> HIDE DEF refusal
<1> QED
  BY <1>1, <1>2, <1>3, <1>4, ZenonT(30)

LEMMA ServeFlowFrames ==
    ASSUME NEW c \in Conns, Shapes, ServeFlow(c)
    PROVE  Shapes' /\ Frame(c)
<1>1. UNCHANGED <<request, reading, actor, slot, tried>>
  BY DEF ServeFlow
<1>2. Ending(c)
  <2>1. CASE FlowRefused(c)
    BY <2>1, AnswerEnds, Zenon DEF FlowRefused
  <2>2. CASE FlowDone(c)
    BY <2>2, AnswerEnds, Zenon DEF FlowDone
  <2>3. CASE FlowFailed(c)
    BY <2>3, AnswerEnds, ZenonT(30) DEF FlowFailed
  <2> QED
    BY <2>1, <2>2, <2>3, ServeFlowIs
<1>3. did' = did \/ did' = [did EXCEPT ![c] = req[c].route]
  <2>1. FlowRefused(c) => did' = did
    BY DEF FlowRefused
  <2>2. FlowDone(c) => did' = [did EXCEPT ![c] = req[c].route]
    BY DEF FlowDone
  <2>3. FlowFailed(c) => did' = did
    BY Zenon DEF FlowFailed
  <2> QED
    BY <2>1, <2>2, <2>3, ServeFlowIs
<1>4. Frame(c)
  BY <1>1, <1>2, <1>3 DEF Ending, Shapes, Frame, request, reading
<1>5. Shapes'
  BY <1>1, <1>2, <1>3 DEF Ending, Shapes, request, reading
<1> QED
  BY <1>4, <1>5

LEMMA HandleFrames ==
    ASSUME NEW c \in Conns, Shapes, Handle(c)
    PROVE  Shapes' /\ Frame(c)
<1>1. /\ UNCHANGED <<request, reading, actor, slot>>
      /\ did' = did \/ did' = [did EXCEPT ![c] = "profiles"]
      /\ tried' = tried \/ tried' = [tried EXCEPT ![c] = TRUE]
  BY DEF Handle
<1>5. DOMAIN did' = Conns /\ tried' \in [Conns -> BOOLEAN]
  BY <1>1 DEF Shapes
<1>2. \/ pc' = [pc EXCEPT ![c] = "acquire"] /\ UNCHANGED <<ans, sample>>
      \/ \E a : Answer(c, a, TRUE)
  BY DEF Handle
<1>3. CASE pc' = [pc EXCEPT ![c] = "acquire"] /\ UNCHANGED <<ans, sample>>
  <2>1. Frame(c)
    BY <1>1, <1>3 DEF Shapes, Frame, request, reading
  <2>2. Shapes'
    BY <1>1, <1>3 DEF Shapes, request, reading
  <2> QED
    BY <2>1, <2>2
<1>4. CASE \E a : Answer(c, a, TRUE)
  <2>1. Ending(c)
    BY <1>4, AnswerEnds, Zenon
  <2>2. Frame(c)
    BY <1>1, <2>1 DEF Ending, Shapes, Frame, request, reading
  <2>3. Shapes'
    BY <1>1, <1>5, <2>1 DEF Ending, Shapes, request, reading
  <2> QED
    BY <2>2, <2>3
<1> QED
  BY <1>2, <1>3, <1>4

LEMMA AcquireFrames ==
    ASSUME NEW c \in Conns, Shapes, Acquire(c)
    PROVE  Shapes' /\ Frame(c)
<1>1. UNCHANGED <<request, actor, ctx, sock, got, did, tried, age>>
  BY DEF Acquire
<1>2. \/ /\ slot' = [slot EXCEPT ![c] = Pool(req[c])]
         /\ watch' = [watch EXCEPT ![c] = @ \cup {[own |-> TRUE, st |-> "waiting"]}]
         /\ pc' = [pc EXCEPT ![c] = "read"]
         /\ UNCHANGED <<ans, sample>>
      \/ UNCHANGED <<slot, watch>> /\ \E a : Answer(c, a, TRUE)
  BY DEF Acquire
<1>3. CASE UNCHANGED <<slot, watch>> /\ \E a : Answer(c, a, TRUE)
  <2>1. Ending(c)
    BY <1>3, AnswerEnds, Zenon
  <2>2. Frame(c)
    BY <1>1, <1>3, <2>1 DEF Ending, Shapes, Frame, request
  <2>3. Shapes'
    BY <1>1, <1>3, <2>1 DEF Ending, Shapes, request
  <2> QED
    BY <2>2, <2>3
<1>4. CASE /\ slot' = [slot EXCEPT ![c] = Pool(req[c])]
           /\ watch' = [watch EXCEPT ![c] = @ \cup {[own |-> TRUE, st |-> "waiting"]}]
           /\ pc' = [pc EXCEPT ![c] = "read"]
           /\ UNCHANGED <<ans, sample>>
  <2>1. Frame(c)
    BY <1>1, <1>4 DEF Shapes, Frame, request
  <2>2. Pool(req[c]) \in {"ops", "verifier"}
    BY DEF Pool
  <2>3. slot' \in [Conns -> {"none", "ops", "verifier"}]
    BY <1>4, <2>2 DEF Shapes
  <2>4. watch' \in [Conns -> SUBSET [own : BOOLEAN, st : {"waiting", "closing"}]]
    <3> DEFINE W == [own : BOOLEAN, st : {"waiting", "closing"}]
               new == [own |-> TRUE, st |-> "waiting"]
    <3>1. new \in W
      OBVIOUS
    <3>2. watch \in [Conns -> SUBSET W] /\ watch' = [watch EXCEPT ![c] = watch[c] \cup {new}]
      BY <1>4 DEF Shapes
    <3> HIDE DEF W, new
    <3> QED
      BY <3>1, <3>2 DEF W
  <2>5. Shapes'
    BY <1>1, <1>4, <2>3, <2>4 DEF Shapes, request
  <2> QED
    BY <2>1, <2>5
<1> QED
  BY <1>2, <1>3, <1>4

LEMMA ReadReturnsFrames ==
    ASSUME NEW c \in Conns, Shapes, StageOK(c), ReadReturns(c)
    PROVE  Shapes' /\ Frame(c)
<1>1. req[c].body \in {"good", "bad", "large", "stall"}
  <2>1. req[c] \in RequestRecords
    BY DEF ReadReturns, StageOK, Stage
  <2> QED
    BY <2>1 DEF RequestRecords
<1>2. Frame(c)
  BY DEF ReadReturns, Shapes, Frame, request
<1>3. Shapes'
  BY <1>1 DEF ReadReturns, Shapes, request
<1> QED
  BY <1>2, <1>3

LEMMA WatcherWakesFrames ==
    ASSUME NEW c \in Conns, Shapes, WatcherWakes(c)
    PROVE  Shapes' /\ Frame(c)
<1>1. Frame(c)
  BY DEF WatcherWakes, Shapes, Frame, request, reading
<1>2. Shapes'
  BY DEF WatcherWakes, Shapes, request, reading
<1> QED
  BY <1>1, <1>2

LEMMA WatcherEndsFrames ==
    ASSUME NEW c \in Conns, Shapes, WatcherEnds(c)
    PROVE  Shapes' /\ Frame(c)
<1>1. Frame(c)
  BY DEF WatcherEnds, Shapes, Frame, request, reading
<1>2. Shapes'
  BY DEF WatcherEnds, Shapes, request, reading
<1> QED
  BY <1>1, <1>2

LEMMA JoinFrames ==
    ASSUME NEW c \in Conns, Shapes, Join(c)
    PROVE  Shapes' /\ Frame(c)
<1>1. UNCHANGED <<request, reading, actor, slot, did, tried>>
  BY DEF Join
<1>2. CASE Answer(c, Reply(503), TRUE)
  <2>1. Ending(c)
    BY <1>2, AnswerEnds, Zenon
  <2>2. Frame(c)
    BY <1>1, <2>1 DEF Ending, Shapes, Frame, request, reading
  <2>3. Shapes'
    BY <1>1, <2>1 DEF Ending, Shapes, request, reading
  <2> QED
    BY <2>2, <2>3
<1>3. CASE pc' = [pc EXCEPT ![c] = "decode"] /\ UNCHANGED <<ans, sample>>
  <2>1. Frame(c)
    BY <1>1, <1>3 DEF Shapes, Frame, request, reading
  <2>2. Shapes'
    BY <1>1, <1>3 DEF Shapes, request, reading
  <2> QED
    BY <2>1, <2>2
<1> QED
  BY <1>2, <1>3 DEF Join

LEMMA TickFrames ==
    ASSUME NEW c \in Conns, Shapes, Tick(c)
    PROVE  Shapes' /\ Frame(c)
<1>1. Frame(c)
  BY DEF Tick, Shapes, Frame, request, reading
<1>2. Shapes'
  BY DEF Tick, Shapes, request, reading
<1> QED
  BY <1>1, <1>2

LEMMA DeadlineFrames ==
    ASSUME NEW c \in Conns, Shapes, Deadline(c)
    PROVE  Shapes' /\ Frame(c)
<1>1. Frame(c)
  BY DEF Deadline, Shapes, Frame, request, reading
<1>2. Shapes'
  BY DEF Deadline, Shapes, request, reading
<1> QED
  BY <1>1, <1>2

LEMMA SocketTimeoutFrames ==
    ASSUME NEW c \in Conns, Shapes, SocketTimeout(c)
    PROVE  Shapes' /\ Frame(c)
<1>1. Frame(c)
  BY DEF SocketTimeout, Shapes, Frame, request, reading
<1>2. Shapes'
  BY DEF SocketTimeout, Shapes, request, reading
<1> QED
  BY <1>1, <1>2

LEMMA ContextEndsFrames ==
    ASSUME NEW c \in Conns, Shapes, ContextEnds(c)
    PROVE  Shapes' /\ Frame(c)
<1>1. Frame(c)
  BY DEF ContextEnds, Shapes, Frame, request, reading
<1>2. Shapes'
  BY DEF ContextEnds, Shapes, request, reading
<1> QED
  BY <1>1, <1>2

\* What the decoder of the route makes of the bytes.
Decoded(r, g) ==
    CASE g = "large" -> Reply(413)
      [] g \in {"bad", "timeout"} -> Reply(400)
      [] OTHER ->
           IF r.route # "mcp" THEN Pass
           ELSE IF McpBodyRefusal(r.h, r.b) # Pass THEN McpBodyRefusal(r.h, r.b)
           ELSE IF r.b.method = "call" /\ ~r.b.args THEN ToolError("invalid_request")
           ELSE Pass

LEMMA DecodeFrames ==
    ASSUME NEW c \in Conns, Shapes, Decode(c)
    PROVE  Shapes' /\ Frame(c)
<1>1. /\ UNCHANGED <<request, reading, actor, slot, did, tried>>
      /\ AnswerOr(c, Decoded(req[c], got[c]), "serve", TRUE)
  BY DEF Decode, Decoded
<1>2. Ending(c) \/ (pc' = [pc EXCEPT ![c] = "serve"] /\ UNCHANGED <<ans, sample>>)
  BY <1>1, AnswerEnds, Zenon DEF AnswerOr
<1>3. Frame(c)
  BY <1>1, <1>2 DEF Ending, Shapes, Frame, request, reading
<1>4. Shapes'
  BY <1>1, <1>2 DEF Ending, Shapes, request, reading
<1> QED
  BY <1>3, <1>4

LEMMA McpListsFrames ==
    ASSUME NEW c \in Conns, Shapes, McpLists(c)
    PROVE  Shapes' /\ Frame(c)
<1>1. Ending(c)
  BY AnswerEnds, Zenon DEF McpLists
<1>2. did' = [did EXCEPT ![c] = Asked(req[c])] /\ UNCHANGED <<request, reading, actor, slot, tried>>
  BY DEF McpLists
<1>3. Frame(c)
  BY <1>1, <1>2 DEF Ending, Shapes, Frame, request, reading
<1>4. Shapes'
  BY <1>1, <1>2 DEF Ending, Shapes, request, reading
<1> QED
  BY <1>3, <1>4

LEMMA McpVerifyUnavailableFrames ==
    ASSUME NEW c \in Conns, Shapes, McpVerifyUnavailable(c)
    PROVE  Shapes' /\ Frame(c)
<1>1. Ending(c)
  BY AnswerEnds, Zenon DEF McpVerifyUnavailable
<1>2. UNCHANGED <<request, reading, actor, slot, did, tried>>
  BY DEF McpVerifyUnavailable
<1>3. Frame(c)
  BY <1>1, <1>2 DEF Ending, Shapes, Frame, request, reading
<1>4. Shapes'
  BY <1>1, <1>2 DEF Ending, Shapes, request, reading
<1> QED
  BY <1>3, <1>4

LEMMA FinishFrames ==
    ASSUME NEW c \in Conns, Shapes, Finish(c)
    PROVE  Shapes' /\ Frame(c)
<1>1. Frame(c)
  BY DEF Finish, Forget, Shapes, Frame, request, reading
<1>2. Shapes'
  BY DEF Finish, Forget, Shapes, request, reading
<1> QED
  BY <1>1, <1>2

-----------------------------------------------------------------------------
(* How the parts of the invariant carry over, whatever the action.         *)

\* The outcome that an answer counts as.
Outcome(a) == IF a.outcome # "" THEN a.outcome ELSE OutcomeForStatus(a.status)

Answering(c, a) ==
    /\ pc'[c] = "answered"
    /\ ans'[c] = a
    /\ sample'[c] = "none" \/ (Sampled(req[c]) /\ sample'[c] = Outcome(a))

LEMMA AnswerGives ==
    ASSUME NEW c \in Conns, Shapes, NEW a, NEW n, Answer(c, a, n)
    PROVE  Answering(c, a)
  BY DEF Answer, Answering, Outcome, Shapes

Failure(a) == NoRetry(a) /\ Outcome(a) # "success"

LEMMA RefusalsFail ==
    ASSUME NEW a, Refused(a)
    PROVE  Failure(a)
<1>1. PICK s \in Errors : a = Reply(s)
  BY DEF Refused
<1>2. a.outcome = "" /\ a.status = s /\ NoRetry(a)
  BY <1>1, ReplyFacts DEF NoRetry
<1>3. OutcomeForStatus(s) # "success"
  BY DEF OutcomeForStatus, Errors
<1> QED
  BY <1>2, <1>3 DEF Failure, Outcome

LEMMA ErrorsFail ==
    ASSUME NEW s \in Errors
    PROVE  Failure(Reply(s)) /\ Reply(s) # Pass
<1>1. Refused(Reply(s))
  BY DEF Refused
<1>2. s \in Nat \ {0}
  BY DEF Errors
<1> QED
  BY <1>1, <1>2, RefusalsFail, ReplyFacts

LEMMA ToolErrorsFail ==
    ASSUME NEW o, o # "", o # "success"
    PROVE  Failure(ToolError(o)) /\ ToolError(o) # Pass
<1>1. ToolError(o).outcome = o /\ NoRetry(ToolError(o))
  BY ToolErrorFacts DEF NoRetry
<1>2. ToolError(o) # Pass
  BY <1>1, ReplyFacts
<1> QED
  BY <1>1, <1>2 DEF Failure, Outcome

LEMMA SuccessReply ==
    NoRetry(Reply(200)) /\ Outcome(Reply(200)) = "success"
<1>1. Reply(200).outcome = "" /\ Reply(200).status = 200 /\ NoRetry(Reply(200))
  BY DEF Reply, Pass, NoRetry
<1>2. OutcomeForStatus(200) = "success"
  BY DEF OutcomeForStatus
<1> QED
  BY <1>1, <1>2 DEF Outcome

\* A request moves to a later step, or is answered with nothing done.
LEMMA StageAdvances ==
    ASSUME NEW k, NEW p, NEW q, NEW r, NEW who, NEW done, NEW called,
           Stage(k, p, r, who, done, called),
           \/ p \in Inside /\ q \in Inside \ {"serve"}
           \/ p \notin {"idle", "answered"} /\ q = "answered"
    PROVE  Stage(k, q, r, who, done, called)
  BY DEF Stage, Inside, Worked

LEMMA ReadingAnswered ==
    ASSUME NEW p, NEW r, NEW cx, NEW held, NEW so, NEW w, NEW g, NEW a, NEW t, NEW b,
           Reading(p, r, cx, held, so, w, g, a, t), p \notin {"idle", "answered"},
           w = {}, p = "join" => b.status = 503
    PROVE  Reading("answered", r, cx, held, so, w, g, b, t)
  BY DEF Reading

LEMMA ReadingAdvances ==
    ASSUME NEW p, NEW r, NEW cx, NEW held, NEW so, NEW w, NEW g, NEW a, NEW t, NEW q,
           Reading(p, r, cx, held, so, w, g, a, t),
           \/ p \in {"token", "session", "handle"} /\ q \in {"handle", "acquire"}
           \/ p = "decode" /\ q = "serve"
    PROVE  Reading(q, r, cx, held, so, w, g, a, t)
  BY DEF Reading

LEMMA ToldAdvances ==
    ASSUME NEW p, NEW q, NEW r, NEW g, NEW a, NEW done, NEW called, NEW s, NEW h,
           Told(p, r, g, a, done, called, s), p # "answered", q # "answered"
    PROVE  Told(q, r, h, a, done, called, s)
<1>1. a.retry = FALSE
  BY ReplyFacts DEF Told
<1> QED
  BY <1>1 DEF Told

LEMMA ToldRefusal ==
    ASSUME NEW r, NEW g, NEW a, NEW called, NEW s, NoRetry(a),
           s = "none" \/ (s = Outcome(a) /\ Outcome(a) # "success")
    PROVE  Told("answered", r, g, a, "none", called, s)
  BY DEF Told, NoRetry

LEMMA ToldDone ==
    ASSUME NEW r, NEW g, NEW a, NEW done, NEW called, NEW s, NoRetry(a),
           done # "none", s = "none" \/ s = "success"
    PROVE  Told("answered", r, g, a, done, called, s)
  BY DEF Told, NoRetry

\* A connection's request is refused before the service is called.
LEMMA RefusedOK ==
    ASSUME NEW c \in Conns, Shapes, StageOK(c), ReadingOK(c), ToldOK(c),
           NEW a, Answering(c, a),
           NoRetry(a), ~Sampled(req[c]) \/ Outcome(a) # "success" \/ sample'[c] = "none",
           pc[c] \notin {"idle", "answered", "read"}, watch[c] = {},
           pc[c] = "join" => a.status = 503,
           UNCHANGED <<conf, req, did, tried, ctx, sock, watch, got, age, slot>>,
           actor'[c] = actor[c]
    PROVE  StageOK(c)' /\ ReadingOK(c)' /\ ToldOK(c)'
<1>1. StageOK(c)'
  BY StageAdvances DEF StageOK, Answering
<1>2. ReadingOK(c)'
  BY ReadingAnswered DEF ReadingOK, Answering
<1>3. did[c] = "none"
  BY DEF StageOK, Stage
<1>4. ToldOK(c)'
  <2>1. sample'[c] = "none" \/ (sample'[c] = Outcome(a) /\ Outcome(a) # "success")
    BY DEF Answering
  <2>2. Told("answered", req[c], got[c], a, "none", tried[c], sample'[c])
    BY <2>1, ToldRefusal
  <2> QED
    BY <1>3, <2>2 DEF ToldOK, Answering
<1> QED
  BY <1>1, <1>2, <1>4

-----------------------------------------------------------------------------
(* The steps of a connection.                                              *)

LEMMA RequestFacts ==
    ASSUME NEW r \in RequestRecords
    PROVE  /\ r # NoRequest /\ r.route # "none" /\ r.route \in Routes
           /\ r.delay \in Nat /\ r.token \in {"good", "bad", "unavailable"}
           /\ r.body \in {"good", "bad", "large", "stall"}
           /\ r.auth \in {"none", "malformed", "bearer"}
<1>1. /\ r.route \in Routes /\ r.delay \in Nat /\ r.token \in {"good", "bad", "unavailable"}
      /\ r.body \in {"good", "bad", "large", "stall"}
      /\ r.auth \in {"none", "malformed", "bearer"}
  BY DEF RequestRecords
<1>2. "none" \notin Routes
  BY DEF Routes, Bodied, CanonicalOperation, Flow
<1>3. NoRequest.route = "none"
  BY DEF NoRequest
<1> QED
  BY <1>1, <1>2, <1>3

LEMMA ActorFacts ==
    NoActor.kind = "none" /\ Anonymous.kind = "anonymous"
  BY DEF NoActor, Anonymous

LEMMA ReceiveOK ==
    ASSUME NEW c \in Conns, Shapes, StageOK(c), ReadingOK(c), ToldOK(c), Receive(c)
    PROVE  StageOK(c)' /\ ReadingOK(c)' /\ ToldOK(c)'
<1> DEFINE Judge(r) == FirstRefusal(<<McpRouteRefusal(conf, r), CorsRefusal(r),
                           HeaderRefusal(r), CredentialRefusal(conf, r)>>)
<1>1. PICK r \in Requests[conf.load][c] :
        /\ req' = [req EXCEPT ![c] = r]
        /\ age' = [age EXCEPT ![c] = r.delay]
        /\ ans' = [ans EXCEPT ![c] = Judge(r)]
        /\ pc' = [pc EXCEPT ![c] =
             IF Judge(r) # Pass THEN "answered" ELSE CredentialStep(conf, r)]
  BY DEF Receive
<1>2. /\ Judge(r) = Pass <=> Admitted(conf, r)
      /\ NoRetry(Judge(r))
  <2>1. /\ Judge(r) = Pass <=> Admitted(conf, r)
        /\ Judge(r) \in {Pass, McpRouteRefusal(conf, r), CorsRefusal(r),
                         HeaderRefusal(r), CredentialRefusal(conf, r)}
    BY FirstRefusal4 DEF Admitted
  <2>2. /\ NoRetry(Pass) /\ NoRetry(McpRouteRefusal(conf, r)) /\ NoRetry(CorsRefusal(r))
        /\ NoRetry(HeaderRefusal(r)) /\ NoRetry(CredentialRefusal(conf, r))
    BY RepliesDoNotRetry, McpRouteFacts, CorsFacts, HeaderFacts, CredentialFacts
  <2> QED
    BY <2>1, <2>2
<1> DEFINE verdict == Judge(r)
           who == IF conf.mode = "off" THEN Anonymous ELSE NoActor
           next == IF verdict # Pass THEN "answered" ELSE CredentialStep(conf, r)
<1> HIDE DEF Judge
<1>3. /\ pc[c] = "idle" /\ watch[c] = {} /\ did[c] = "none" /\ tried[c] = FALSE
      /\ slot[c] = "none" /\ got[c] = "none" /\ sample[c] = "none"
  BY DEF Receive, StageOK, Stage, ReadingOK, Reading, ToldOK, Told
<1>4. /\ req'[c] = r /\ age'[c] = r.delay /\ ans'[c] = verdict /\ pc'[c] = next
  BY <1>1 DEF Shapes
<1>5. /\ actor'[c] = who /\ ctx'[c] = "live" /\ sock'[c] = "open"
      /\ watch'[c] = {[w EXCEPT !.own = FALSE] : w \in {}}
      /\ slot'[c] = "none" /\ got'[c] = "none" /\ did'[c] = "none" /\ tried'[c] = FALSE
      /\ sample'[c] = "none" /\ conf' = conf
  BY <1>3 DEF Receive, Shapes
<1>6. watch'[c] = {}
  BY <1>5
<1>7. r \in RequestRecords
  BY HttpApiAssumption DEF Shapes
<1> HIDE DEF verdict
<1>8. StageOK(c)'
  <2>1. Stage(conf, next, r, who, "none", FALSE)
    <3>1. next \in {"answered", "handle", "token", "session"}
      BY DEF CredentialStep
    <3>2. next # "answered" => Admitted(conf, r)
      BY <1>2 DEF verdict
    <3>3. next \in {"token", "session"} =>
            /\ conf.mode # "off" /\ CredentialRoute(r.route) # "none"
            /\ who = NoActor
            /\ (next = "token") <=> (r.auth = "bearer")
      <4>1. conf.mode \in {"native", "off"}
        BY HttpApiAssumption DEF Shapes
      <4> QED
        BY <4>1 DEF CredentialStep
    <3>4. next = "handle" => Identified(conf, r, who)
      BY ActorFacts DEF Identified, CredentialStep
    <3>5. who.kind \in {"none", "anonymous", "session", "bearer"} /\ r # NoRequest
      BY <1>7, ActorFacts, RequestFacts
    <3> HIDE DEF next, who
    <3> QED
      BY <1>7, <3>1, <3>2, <3>3, <3>4, <3>5 DEF Stage, Inside, Worked
  <2> QED
    BY <1>4, <1>5, <2>1 DEF StageOK
<1>9. ReadingOK(c)'
  <2>1. r.delay \in Nat
    BY <1>7, RequestFacts
  <2>2. r.delay <= r.delay + AppDeadline
    BY <2>1, HttpApiAssumption
  <2>3. next \in {"answered", "handle", "token", "session"}
    BY DEF CredentialStep
  <2> HIDE DEF next
  <2>4. Reading(next, r, "live", "none", "open", {}, "none", verdict, r.delay)
    BY <2>2, <2>3 DEF Reading
  <2> QED
    BY <1>4, <1>5, <1>6, <2>4 DEF ReadingOK
<1>10. ToldOK(c)'
  <2>1. NoRetry(verdict) /\ (next # "answered" => verdict = Pass)
    BY <1>2 DEF verdict
  <2>2. Told(next, r, "none", verdict, "none", FALSE, "none")
    BY <2>1 DEF Told, NoRetry
  <2> QED
    BY <1>4, <1>5, <2>2 DEF ToldOK
<1> QED
  BY <1>8, <1>9, <1>10

LEMMA VerifyTokenOK ==
    ASSUME NEW c \in Conns, Shapes, StageOK(c), ReadingOK(c), ToldOK(c), VerifyToken(c)
    PROVE  StageOK(c)' /\ ReadingOK(c)' /\ ToldOK(c)'
<1> DEFINE r == req[c]
           bearer == [kind |-> "bearer", scopes |-> r.scopes]
           a == CASE r.token = "unavailable" -> Reply(503)
                  [] r.token = "bad" -> Reply(401)
                  [] OTHER -> BearerPreflight(conf, r, bearer)
<1>1. /\ pc[c] = "token"
      /\ actor' = [actor EXCEPT ![c] = IF a = Pass THEN bearer ELSE actor[c]]
      /\ AnswerOr(c, a, "handle", FALSE)
      /\ UNCHANGED <<request, reading, slot, did, tried>>
  BY DEF VerifyToken
<1>2. r \in RequestRecords /\ watch[c] = {} /\ did[c] = "none" /\ tried[c] = FALSE
  BY <1>1 DEF StageOK, Stage, ReadingOK, Reading
<1>3. r.token \in {"good", "bad", "unavailable"}
  BY <1>2, RequestFacts
<1>4. Failure(Reply(503)) /\ Reply(503) # Pass /\ Failure(Reply(401)) /\ Reply(401) # Pass
  BY ErrorsFail DEF Errors
<1>5. BearerPreflight(conf, r, bearer) = Pass \/ Failure(BearerPreflight(conf, r, bearer))
  <2> HIDE DEF bearer, r
  <2> QED
    BY PreflightFacts, RefusalsFail DEF BearerPreflight
<1>6. /\ a = Pass \/ Failure(a)
      /\ a = Pass => r.token = "good"
  BY <1>3, <1>4, <1>5
<1>7. bearer.kind = "bearer" /\ bearer.scopes = r.scopes
  OBVIOUS
<1> HIDE DEF a, bearer, r
<1>8. CASE a # Pass
  <2>1. Answer(c, a, FALSE) /\ actor' = [actor EXCEPT ![c] = actor[c]]
    BY <1>1, <1>8 DEF AnswerOr
  <2>2. actor'[c] = actor[c]
    BY <2>1 DEF Shapes
  <2>3. Answering(c, a)
    BY <2>1, AnswerGives, Zenon
  <2>4. NoRetry(a) /\ Outcome(a) # "success"
    BY <1>6, <1>8 DEF Failure
  <2> QED
    BY <1>1, <1>2, <2>2, <2>3, <2>4, RefusedOK DEF request, reading
<1>9. CASE a = Pass
  <2>1. /\ actor'[c] = bearer /\ pc'[c] = "handle"
        /\ UNCHANGED <<conf, req, did, tried, slot, ctx, sock, watch, got, age, ans, sample>>
    BY <1>1, <1>9 DEF AnswerOr, Shapes, request, reading
  <2>2. StageOK(c)'
    <3>1. Stage(conf, "handle", r, bearer, "none", FALSE)
      BY <1>1, <1>2, <1>6, <1>7, <1>9 DEF r, StageOK, Stage, Inside, Worked, Identified
    <3> QED
      BY <1>2, <2>1, <3>1 DEF r, StageOK
  <2>3. ReadingOK(c)'
    BY <1>1, <2>1, ReadingAdvances DEF ReadingOK
  <2>4. ToldOK(c)'
    BY <1>1, <2>1, ToldAdvances DEF ToldOK
  <2> QED
    BY <2>2, <2>3, <2>4
<1> QED
  BY <1>8, <1>9

LEMMA LoadSessionOK ==
    ASSUME NEW c \in Conns, Shapes, StageOK(c), ReadingOK(c), ToldOK(c), LoadSession(c)
    PROVE  StageOK(c)' /\ ReadingOK(c)' /\ ToldOK(c)'
<1> DEFINE r == req[c]
           found == [kind |-> "session", scopes |-> {}]
           a == IF r.session = "unavailable" THEN Reply(503) ELSE Pass
<1>1. /\ pc[c] = "session"
      /\ actor' = [actor EXCEPT ![c] = IF r.session = "live" THEN found ELSE actor[c]]
      /\ AnswerOr(c, a, "handle", FALSE)
      /\ UNCHANGED <<request, reading, slot, did, tried>>
  BY DEF LoadSession
<1>2. /\ r \in RequestRecords /\ watch[c] = {} /\ did[c] = "none" /\ tried[c] = FALSE
      /\ actor[c] = NoActor
  BY <1>1 DEF StageOK, Stage, ReadingOK, Reading
<1>3. Failure(Reply(503)) /\ Reply(503) # Pass
  BY ErrorsFail DEF Errors
<1>4. found.kind = "session"
  OBVIOUS
<1> HIDE DEF found
<1>5. CASE r.session = "unavailable"
  <2>1. a = Reply(503)
    BY <1>5
  <2>2. Answer(c, a, FALSE) /\ actor' = [actor EXCEPT ![c] = actor[c]]
    BY <1>1, <1>3, <1>5 DEF AnswerOr
  <2>3. actor'[c] = actor[c]
    BY <2>2 DEF Shapes
  <2> HIDE DEF a, r
  <2>4. Answering(c, a)
    BY <2>2, AnswerGives, Zenon
  <2>5. NoRetry(a) /\ Outcome(a) # "success"
    BY <1>3, <2>1 DEF Failure
  <2> QED
    BY <1>1, <1>2, <2>3, <2>4, <2>5, RefusedOK DEF request, reading
<1>6. CASE r.session # "unavailable"
  <2>1. /\ pc'[c] = "handle"
        /\ UNCHANGED <<conf, req, did, tried, slot, ctx, sock, watch, got, age, ans, sample>>
    BY <1>1, <1>6 DEF AnswerOr, Shapes, request, reading
  <2>2. IF r.session = "live" THEN actor'[c] = found ELSE actor'[c] = NoActor
    BY <1>1, <1>2 DEF Shapes
  <2> HIDE DEF a, r
  <2>3. StageOK(c)'
    <3>1. Stage(conf, "handle", r, actor'[c], "none", FALSE)
      BY <1>1, <1>2, <1>4, <2>2, ActorFacts
         DEF r, StageOK, Stage, Inside, Worked, Identified
    <3> QED
      BY <1>2, <2>1, <3>1 DEF r, StageOK
  <2>4. ReadingOK(c)'
    BY <1>1, <2>1, ReadingAdvances DEF ReadingOK
  <2>5. ToldOK(c)'
    BY <1>1, <2>1, ToldAdvances DEF ToldOK
  <2> QED
    BY <2>3, <2>4, <2>5
<1> QED
  BY <1>5, <1>6

LEMMA HandlerVerdict ==
    ASSUME NEW k, NEW r, NEW who, HandlerRefusal(k, r, who) # Pass
    PROVE  Failure(HandlerRefusal(k, r, who))
  BY HandlerFacts, RefusalsFail

\* The route's own answer, and what it counts as.
LEMMA FlowsAreNotCounted ==
    ASSUME NEW r, ~DeadlineApplies(r)
    PROVE  ~Sampled(r) /\ r.route # "mcp"
  BY DEF DeadlineApplies, Sampled

\* Something was done for a request whose checks are all passed.
LEMMA StageDone ==
    ASSUME NEW k, NEW p, NEW r, NEW who, NEW done, NEW called, NEW more, NEW asked,
           Stage(k, p, r, who, done, called), p \in Inside \cup {"handle"},
           HandlerRefusal(k, r, who) = Pass,
           r.route = "mcp" => McpBodyRefusal(r.h, r.b) = Pass,
           more \in {"none", Asked(r)}
    PROVE  Stage(k, "answered", r, who, more, asked)
  BY DEF Stage, Inside, Worked

LEMMA ServeFlowOK ==
    ASSUME NEW c \in Conns, Shapes, StageOK(c), ReadingOK(c), ToldOK(c), ServeFlow(c)
    PROVE  StageOK(c)' /\ ReadingOK(c)' /\ ToldOK(c)'
<1> DEFINE r == req[c]
           refusal == HandlerRefusal(conf, r, actor[c])
<1>1. /\ pc[c] = "handle" /\ ~DeadlineApplies(r)
      /\ UNCHANGED <<request, reading, actor, slot, tried>>
  BY DEF ServeFlow
<1>2. /\ r \in RequestRecords /\ watch[c] = {} /\ did[c] = "none" /\ tried[c] = FALSE
  BY <1>1 DEF StageOK, Stage, ReadingOK, Reading
<1>3. ~Sampled(r) /\ r.route # "mcp" /\ r.route # "none"
  BY <1>1, <1>2, FlowsAreNotCounted, RequestFacts
<1> HIDE DEF r, refusal
<1>4. CASE FlowRefused(c)
  <2>1. refusal # Pass /\ Answer(c, refusal, TRUE) /\ did' = did
    BY <1>4 DEF FlowRefused, r, refusal
  <2>2. Answering(c, refusal)
    BY <2>1, AnswerGives, Zenon
  <2>3. NoRetry(refusal)
    BY <2>1, HandlerVerdict DEF refusal, Failure
  <2> QED
    BY <1>1, <1>2, <1>3, <2>1, <2>2, <2>3, RefusedOK DEF r, request, reading
<1>5. CASE FlowFailed(c)
  <2>1. PICK s \in {400, 401, 503} : Answer(c, Reply(s), TRUE)
    BY <1>5, Zenon DEF FlowFailed
  <2>2. Answering(c, Reply(s)) /\ did' = did
    BY <1>5, <2>1, AnswerGives, Zenon DEF FlowFailed
  <2>3. NoRetry(Reply(s))
    BY RepliesDoNotRetry
  <2> QED
    BY <1>1, <1>2, <1>3, <2>2, <2>3, RefusedOK DEF r, request, reading
<1>6. CASE FlowDone(c)
  <2> DEFINE s == FlowStatus(r)
  <2>1. refusal = Pass /\ Answer(c, Reply(s), TRUE) /\ did' = [did EXCEPT ![c] = r.route]
    BY <1>6 DEF FlowDone, r, refusal
  <2> HIDE DEF s
  <2>2. Answering(c, Reply(s))
    BY <2>1, AnswerGives, Zenon
  <2>3. NoRetry(Reply(s))
    BY RepliesDoNotRetry
  <2>4. did'[c] = r.route /\ pc'[c] = "answered" /\ ans'[c] = Reply(s) /\ sample'[c] = "none"
    BY <1>3, <2>1, <2>2 DEF Answering, Shapes, r
  <2>5. r.route = Asked(r)
    BY <1>3 DEF Asked
  <2>6. Stage(conf, "answered", r, actor[c], r.route, tried[c])
    BY <1>1, <1>3, <2>1, <2>5, StageDone DEF StageOK, r, refusal
  <2>7. Reading("answered", r, ctx[c], slot[c], sock[c], watch[c], got[c], ans'[c], age[c])
    BY <1>1, <1>2, ReadingAnswered DEF ReadingOK, r
  <2>8. Told("answered", r, got[c], ans'[c], r.route, tried[c], "none")
    BY <1>3, <2>3, <2>4, ToldDone
  <2> QED
    BY <1>1, <2>4, <2>6, <2>7, <2>8 DEF StageOK, ReadingOK, ToldOK, request, reading, r
<1> QED
  BY <1>4, <1>5, <1>6, ServeFlowIs

\* The service is called and the answer follows from what it says.
Served(c) ==
    /\ tried' = [tried EXCEPT ![c] = TRUE]
    /\ UNCHANGED <<conf, req, actor, ctx, sock, watch, got, age, slot>>
    /\ \/ did' = [did EXCEPT ![c] = Asked(req[c])] /\ Answer(c, Reply(200), TRUE)
       \/ /\ did' = did
          /\ \E a : /\ Answer(c, a, TRUE)
                    /\ NoRetry(a)
                    /\ Outcome(a) # "success" \/ ~Sampled(req[c])

LEMMA ServedFrames ==
    ASSUME NEW c \in Conns, Shapes, Served(c)
    PROVE  Shapes' /\ Frame(c)
<1>1. Ending(c)
  BY AnswerEnds, Zenon DEF Served
<1>2. /\ tried' = [tried EXCEPT ![c] = TRUE]
      /\ UNCHANGED <<conf, req, actor, ctx, sock, watch, got, age, slot>>
      /\ did' = did \/ did' = [did EXCEPT ![c] = Asked(req[c])]
  BY DEF Served
<1>3. Frame(c)
  BY <1>1, <1>2 DEF Ending, Shapes, Frame
<1>4. Shapes'
  BY <1>1, <1>2 DEF Ending, Shapes
<1> QED
  BY <1>3, <1>4

LEMMA ServedOK ==
    ASSUME NEW c \in Conns, Shapes, StageOK(c), ReadingOK(c), ToldOK(c), Served(c),
           pc[c] \in {"handle", "serve"},
           HandlerRefusal(conf, req[c], actor[c]) = Pass,
           req[c].route = "mcp" => McpBodyRefusal(req[c].h, req[c].b) = Pass,
           Asked(req[c]) # "none"
    PROVE  StageOK(c)' /\ ReadingOK(c)' /\ ToldOK(c)'
<1> DEFINE r == req[c]
<1>1. /\ watch[c] = {} /\ did[c] = "none"
  BY DEF StageOK, Stage, ReadingOK, Reading
<1>2. tried'[c] = TRUE /\ UNCHANGED <<conf, req, actor, ctx, sock, watch, got, age, slot>>
  BY DEF Served, Shapes
<1>3. ASSUME NEW a, NEW more \in {"none", Asked(r)}, Answering(c, a), did'[c] = more
      PROVE  StageOK(c)' /\ ReadingOK(c)'
  <2>1. Stage(conf, "answered", r, actor[c], more, TRUE)
    <3>1. pc[c] \in Inside \cup {"handle"}
      BY DEF Inside
    <3> QED
      BY <1>3, <3>1, StageDone DEF StageOK
  <2>2. Reading("answered", r, ctx[c], slot[c], sock[c], watch[c], got[c], a, age[c])
    BY <1>1, ReadingAnswered DEF ReadingOK
  <2> QED
    BY <1>2, <1>3, <2>1, <2>2 DEF StageOK, ReadingOK, Answering
<1>4. CASE did' = [did EXCEPT ![c] = Asked(r)] /\ Answer(c, Reply(200), TRUE)
  <2>1. did'[c] = Asked(r)
    BY <1>4 DEF Shapes
  <2>2. Answering(c, Reply(200))
    BY <1>4, AnswerGives, Zenon
  <2>3. Told("answered", r, got[c], Reply(200), Asked(r), TRUE, sample'[c])
    <3>1. sample'[c] = "none" \/ sample'[c] = "success"
      BY <2>2, SuccessReply DEF Answering
    <3> HIDE DEF r
    <3> QED
      BY <3>1, SuccessReply, ToldDone DEF r
  <2> QED
    BY <1>2, <1>3, <2>1, <2>2, <2>3 DEF ToldOK, Answering
<1>5. CASE /\ did' = did
           /\ \E a : /\ Answer(c, a, TRUE)
                     /\ NoRetry(a)
                     /\ Outcome(a) # "success" \/ ~Sampled(r)
  <2>1. PICK a : /\ Answer(c, a, TRUE)
                 /\ NoRetry(a)
                 /\ Outcome(a) # "success" \/ ~Sampled(r)
    BY <1>5
  <2>2. Answering(c, a)
    BY <2>1, AnswerGives, Zenon
  <2>3. Told("answered", r, got[c], a, "none", TRUE, sample'[c])
    <3>1. sample'[c] = "none" \/ (sample'[c] = Outcome(a) /\ Outcome(a) # "success")
      BY <2>1, <2>2 DEF Answering
    <3> QED
      BY <2>1, <3>1, ToldRefusal
  <2> QED
    BY <1>1, <1>2, <1>3, <1>5, <2>2, <2>3 DEF ToldOK, Answering
<1> QED
  BY <1>4, <1>5 DEF Served

LEMMA HandleOK ==
    ASSUME NEW c \in Conns, Shapes, StageOK(c), ReadingOK(c), ToldOK(c), Handle(c)
    PROVE  StageOK(c)' /\ ReadingOK(c)' /\ ToldOK(c)'
<1> DEFINE r == req[c]
           refusal == HandlerRefusal(conf, r, actor[c])
<1>1. /\ pc[c] = "handle" /\ DeadlineApplies(r)
      /\ UNCHANGED <<request, reading, actor, slot>>
  BY DEF Handle
<1>2. \/ refusal # Pass /\ Answer(c, refusal, TRUE) /\ UNCHANGED <<did, tried>>
      \/ /\ refusal = Pass /\ r.route # "profiles"
         /\ pc' = [pc EXCEPT ![c] = "acquire"]
         /\ UNCHANGED <<ans, sample, did, tried>>
      \/ /\ refusal = Pass /\ r.route = "profiles"
         /\ tried' = [tried EXCEPT ![c] = TRUE]
         /\ \/ Answer(c, Reply(200), TRUE) /\ did' = [did EXCEPT ![c] = "profiles"]
            \/ /\ did' = did
               /\ \E code \in {"forbidden", "not_ready", "temporarily_unavailable"} :
                    Answer(c, Reply(ServiceErrorStatus(code)), TRUE)
  BY DEF Handle
<1>3. r \in RequestRecords /\ watch[c] = {} /\ did[c] = "none" /\ tried[c] = FALSE
  BY <1>1 DEF StageOK, Stage, ReadingOK, Reading
<1> HIDE DEF r, refusal
<1>4. CASE refusal # Pass /\ Answer(c, refusal, TRUE) /\ UNCHANGED <<did, tried>>
  <2>1. Answering(c, refusal)
    BY <1>4, AnswerGives, Zenon
  <2>2. NoRetry(refusal) /\ Outcome(refusal) # "success"
    BY <1>4, HandlerVerdict DEF refusal, Failure
  <2> QED
    BY <1>1, <1>3, <1>4, <2>1, <2>2, RefusedOK DEF request, reading
<1>5. CASE /\ refusal = Pass /\ r.route # "profiles"
           /\ pc' = [pc EXCEPT ![c] = "acquire"]
           /\ UNCHANGED <<ans, sample, did, tried>>
  <2>1. pc'[c] = "acquire"
    BY <1>5 DEF Shapes
  <2>2. Stage(conf, "acquire", r, actor[c], did[c], tried[c])
    BY <1>1, <1>3, <1>5 DEF StageOK, Stage, Inside, Worked, r, refusal
  <2>3. Reading("acquire", r, ctx[c], slot[c], sock[c], watch[c], got[c], ans[c], age[c])
    BY <1>1, ReadingAdvances DEF ReadingOK, r
  <2>4. Told("acquire", r, got[c], ans[c], did[c], tried[c], sample[c])
    BY <1>1, ToldAdvances DEF ToldOK, r
  <2> QED
    BY <1>1, <1>5, <2>1, <2>2, <2>3, <2>4
       DEF StageOK, ReadingOK, ToldOK, request, reading, r
<1>6. CASE /\ refusal = Pass /\ r.route = "profiles"
           /\ tried' = [tried EXCEPT ![c] = TRUE]
           /\ \/ Answer(c, Reply(200), TRUE) /\ did' = [did EXCEPT ![c] = "profiles"]
              \/ /\ did' = did
                 /\ \E code \in {"forbidden", "not_ready", "temporarily_unavailable"} :
                      Answer(c, Reply(ServiceErrorStatus(code)), TRUE)
  <2>1. Asked(r) = "profiles"
    BY <1>6 DEF Asked
  <2>2. \A code : NoRetry(Reply(ServiceErrorStatus(code)))
    BY RepliesDoNotRetry
  <2>3. ~Sampled(r)
    BY <1>6 DEF Sampled, Bodied, CanonicalOperation
  <2>4. UNCHANGED <<conf, req, actor, ctx, sock, watch, got, age, slot>>
    BY <1>1 DEF request, reading
  <2>5. Served(c)
    <3>1. CASE Answer(c, Reply(200), TRUE) /\ did' = [did EXCEPT ![c] = "profiles"]
      BY <1>6, <2>1, <2>4, <3>1 DEF Served, r
    <3>2. CASE /\ did' = did
               /\ \E code \in {"forbidden", "not_ready", "temporarily_unavailable"} :
                    Answer(c, Reply(ServiceErrorStatus(code)), TRUE)
      <4>1. PICK code : Answer(c, Reply(ServiceErrorStatus(code)), TRUE)
        BY <3>2
      <4>2. \E a : Answer(c, a, TRUE) /\ NoRetry(a) /\ (Outcome(a) # "success" \/ ~Sampled(r))
        BY <2>2, <2>3, <4>1, Zenon
      <4> QED
        BY <1>6, <2>4, <3>2, <4>2 DEF Served, r
    <3> QED
      BY <1>6, <3>1, <3>2
  <2>6. r.route # "mcp" /\ Asked(r) # "none"
    BY <1>6, <2>1
  <2> QED
    BY <1>1, <1>6, <2>5, <2>6, ServedOK DEF r, refusal
<1> QED
  BY <1>2, <1>4, <1>5, <1>6

\* A refusal for want of a slot invites a retry, unless it was generation.
LEMMA SaturatedFacts ==
    ASSUME NEW r
    PROVE  /\ Saturated(r).retry = ~GenerateCall(r)
           /\ Outcome(Saturated(r)) # "success"
<1>1. /\ Saturated(r).retry = ~GenerateCall(r)
      /\ Saturated(r).status = 503
      /\ Saturated(r).outcome \in {"busy", ""}
  BY DEF Saturated
<1>2. OutcomeForStatus(503) # "success"
  BY DEF OutcomeForStatus
<1> QED
  BY <1>1, <1>2 DEF Outcome

LEMMA AcquireOK ==
    ASSUME NEW c \in Conns, Shapes, StageOK(c), ReadingOK(c), ToldOK(c), Acquire(c)
    PROVE  StageOK(c)' /\ ReadingOK(c)' /\ ToldOK(c)'
<1> DEFINE r == req[c]
<1>1. pc[c] = "acquire" /\ UNCHANGED <<request, actor, ctx, sock, got, did, tried, age>>
  BY DEF Acquire
<1>2. \/ Answer(c, Reply(503), TRUE) /\ UNCHANGED <<slot, watch>>
      \/ Answer(c, Saturated(r), TRUE) /\ UNCHANGED <<slot, watch>>
      \/ /\ watch' = [watch EXCEPT ![c] = @ \cup {[own |-> TRUE, st |-> "waiting"]}]
         /\ pc' = [pc EXCEPT ![c] = "read"]
         /\ UNCHANGED <<ans, sample>>
  BY DEF Acquire
<1>3. /\ r \in RequestRecords /\ watch[c] = {} /\ did[c] = "none" /\ tried[c] = FALSE
      /\ got[c] = "none" /\ sock[c] = "open"
  BY <1>1 DEF StageOK, Stage, ReadingOK, Reading
<1>4. CASE Answer(c, Reply(503), TRUE) /\ UNCHANGED <<slot, watch>>
  <2>1. Answering(c, Reply(503))
    BY <1>4, AnswerGives, Zenon
  <2>2. NoRetry(Reply(503)) /\ Outcome(Reply(503)) # "success"
    BY ErrorsFail DEF Failure, Errors
  <2> QED
    BY <1>1, <1>3, <1>4, <2>1, <2>2, RefusedOK DEF request
<1>5. CASE Answer(c, Saturated(r), TRUE) /\ UNCHANGED <<slot, watch>>
  <2> DEFINE a == Saturated(r)
  <2>1. Answering(c, a)
    BY <1>5, AnswerGives, Zenon
  <2>2. a.retry = ~GenerateCall(r) /\ Outcome(a) # "success"
    BY SaturatedFacts
  <2> HIDE DEF a, r
  <2>3. Stage(conf, "answered", r, actor[c], did[c], tried[c])
    BY <1>1, StageAdvances DEF StageOK, r
  <2>4. Reading("answered", r, ctx[c], slot[c], sock[c], watch[c], got[c], a, age[c])
    BY <1>1, <1>3, ReadingAnswered DEF ReadingOK, r
  <2>5. Told("answered", r, got[c], a, did[c], tried[c], sample'[c])
    <3>1. sample'[c] = "none" \/ sample'[c] # "success"
      BY <2>1, <2>2 DEF Answering
    <3> QED
      BY <1>3, <2>2, <3>1 DEF Told
  <2> QED
    BY <1>1, <1>5, <2>1, <2>3, <2>4, <2>5
       DEF StageOK, ReadingOK, ToldOK, Answering, request, r
<1>6. CASE /\ watch' = [watch EXCEPT ![c] = @ \cup {[own |-> TRUE, st |-> "waiting"]}]
           /\ pc' = [pc EXCEPT ![c] = "read"]
           /\ UNCHANGED <<ans, sample>>
  <2> DEFINE new == [own |-> TRUE, st |-> "waiting"]
  <2>1. pc'[c] = "read" /\ watch'[c] = {new}
    BY <1>3, <1>6 DEF Shapes
  <2>2. new.own = TRUE /\ new.st = "waiting"
    OBVIOUS
  <2> HIDE DEF r, new
  <2>3. Stage(conf, "read", r, actor[c], did[c], tried[c])
    BY <1>1, StageAdvances DEF StageOK, r, Inside
  <2>4. Reading("read", r, ctx[c], slot'[c], sock[c], {new}, got[c], ans[c], age[c])
    BY <1>1, <1>3, <2>2 DEF ReadingOK, Reading, r
  <2>5. Told("read", r, got[c], ans[c], did[c], tried[c], sample[c])
    BY <1>1, ToldAdvances DEF ToldOK, r
  <2> QED
    BY <1>1, <1>6, <2>1, <2>3, <2>4, <2>5 DEF StageOK, ReadingOK, ToldOK, request, r
<1> QED
  BY <1>2, <1>4, <1>5, <1>6

LEMMA ReadReturnsOK ==
    ASSUME NEW c \in Conns, Shapes, StageOK(c), ReadingOK(c), ToldOK(c), ReadReturns(c)
    PROVE  StageOK(c)' /\ ReadingOK(c)' /\ ToldOK(c)'
<1> DEFINE r == req[c]
<1>1. /\ pc[c] = "read" /\ pc'[c] = "join"
      /\ UNCHANGED <<request, actor, ctx, slot, sock, watch, ans, did, tried, sample, age>>
      /\ \/ r.body # "stall" /\ got'[c] = r.body
         \/ sock[c] = "expired" /\ got'[c] = "timeout"
  BY DEF ReadReturns, Shapes
<1>2. r \in RequestRecords
  BY <1>1 DEF StageOK, Stage
<1>3. r.body # "timeout" /\ r.delay \in Nat
  BY <1>2, RequestFacts
<1> HIDE DEF r
<1>4. Stage(conf, "join", r, actor[c], did[c], tried[c])
  BY <1>1, StageAdvances DEF StageOK, r, Inside
<1>5. Reading("join", r, ctx[c], slot[c], sock[c], watch[c], got'[c], ans[c], age[c])
  <2>1. \/ r.body # "stall" /\ got'[c] = r.body
        \/ got'[c] = "timeout" /\ (ctx[c] = "ended" \/ age[c] >= ReadTimeout)
    BY <1>1 DEF ReadingOK, Reading
  <2>2. age[c] <= r.delay + AppDeadline /\ \A x \in watch[c] : x.own = TRUE
    BY <1>1 DEF ReadingOK, Reading, r
  <2>3. got'[c] = "timeout" /\ r.delay < ReadTimeout - AppDeadline => ctx[c] = "ended"
    <3>1. age[c] \in Nat
      BY DEF Shapes
    <3> QED
      BY <1>3, <2>1, <2>2, <3>1, HttpApiAssumption
  <2> QED
    BY <2>2, <2>3 DEF Reading
<1>6. Told("join", r, got'[c], ans[c], did[c], tried[c], sample[c])
  BY <1>1, ToldAdvances DEF ToldOK, r
<1> QED
  BY <1>1, <1>4, <1>5, <1>6 DEF StageOK, ReadingOK, ToldOK, request, r

LEMMA WatcherWakesOK ==
    ASSUME NEW c \in Conns, Shapes, StageOK(c), ReadingOK(c), ToldOK(c), WatcherWakes(c)
    PROVE  StageOK(c)' /\ ReadingOK(c)' /\ ToldOK(c)'
<1>1. PICK w \in watch[c] :
        /\ w.st = "waiting"
        /\ w.own => ctx[c] = "ended"
        /\ watch' = [watch EXCEPT ![c] = (watch[c] \ {w}) \cup {[w EXCEPT !.st = "closing"]}]
  BY DEF WatcherWakes
<1>2. /\ sock'[c] = "expired"
      /\ UNCHANGED <<request, pc, actor, ctx, slot, got, ans, did, tried, sample, age>>
  BY DEF WatcherWakes, Shapes
<1> DEFINE closing == [w EXCEPT !.st = "closing"]
<1>3. watch'[c] = (watch[c] \ {w}) \cup {closing}
  BY <1>1 DEF Shapes
<1>4. w \in [own : BOOLEAN, st : {"waiting", "closing"}]
  BY DEF Shapes
<1>5. closing.own = w.own
  BY <1>4
<1> HIDE DEF closing
<1>6. /\ \A x \in watch[c] : x.own = TRUE
      /\ pc[c] \in {"read", "join"}
  BY <1>1 DEF ReadingOK, Reading
<1>7. ctx[c] = "ended" /\ \A x \in watch'[c] : x.own = TRUE
  BY <1>1, <1>3, <1>5, <1>6
<1>8. Reading(pc[c], req[c], ctx[c], slot[c], "expired", watch'[c], got[c], ans[c], age[c])
  BY <1>6, <1>7 DEF ReadingOK, Reading
<1> QED
  BY <1>2, <1>8 DEF StageOK, ReadingOK, ToldOK, request

LEMMA WatcherEndsOK ==
    ASSUME NEW c \in Conns, Shapes, StageOK(c), ReadingOK(c), ToldOK(c), WatcherEnds(c)
    PROVE  StageOK(c)' /\ ReadingOK(c)' /\ ToldOK(c)'
<1>1. PICK w \in watch[c] :
        /\ \/ w.st = "closing" /\ (w.own => pc[c] # "read")
           \/ w.st = "waiting" /\ (w.own => pc[c] = "join")
        /\ watch' = [watch EXCEPT ![c] = watch[c] \ {w}]
  BY DEF WatcherEnds
<1>2. UNCHANGED <<request, pc, actor, ctx, slot, sock, got, ans, did, tried, sample, age>>
  BY DEF WatcherEnds
<1>3. watch'[c] \subseteq watch[c]
  BY <1>1 DEF Shapes
<1>4. /\ \A x \in watch[c] : x.own = TRUE
      /\ pc[c] \in {"read", "join"}
  BY <1>1 DEF ReadingOK, Reading
<1>5. pc[c] = "join"
  BY <1>1, <1>4
<1>6. Reading("join", req[c], ctx[c], slot[c], sock[c], watch'[c], got[c], ans[c], age[c])
  BY <1>3, <1>5 DEF ReadingOK, Reading
<1> QED
  BY <1>2, <1>5, <1>6 DEF StageOK, ReadingOK, ToldOK, request

LEMMA JoinOK ==
    ASSUME NEW c \in Conns, Shapes, StageOK(c), ReadingOK(c), ToldOK(c), Join(c)
    PROVE  StageOK(c)' /\ ReadingOK(c)' /\ ToldOK(c)'
<1>1. /\ pc[c] = "join" /\ \A w \in watch[c] : ~w.own
      /\ UNCHANGED <<request, reading, actor, slot, did, tried>>
  BY DEF Join
<1>2. watch[c] = {}
  BY <1>1 DEF ReadingOK, Reading
<1>3. CASE ctx[c] = "ended"
  <2>1. Answer(c, Reply(503), TRUE)
    BY <1>3 DEF Join
  <2>2. Answering(c, Reply(503))
    BY <2>1, AnswerGives, Zenon
  <2>3. NoRetry(Reply(503)) /\ Outcome(Reply(503)) # "success"
    BY ErrorsFail DEF Failure, Errors
  <2>4. Reply(503).status = 503
    BY DEF Reply, Pass
  <2> QED
    BY <1>1, <1>2, <2>2, <2>3, <2>4, RefusedOK DEF request, reading
<1>4. CASE ctx[c] # "ended"
  <2>1. pc'[c] = "decode" /\ UNCHANGED <<ans, sample>>
    BY <1>4 DEF Join, Shapes
  <2>2. Stage(conf, "decode", req[c], actor[c], did[c], tried[c])
    BY <1>1, StageAdvances DEF StageOK, Inside
  <2>3. Reading("decode", req[c], ctx[c], slot[c], sock[c], watch[c], got[c], ans[c], age[c])
    BY <1>1, <1>2, <1>4 DEF ReadingOK, Reading
  <2>4. Told("decode", req[c], got[c], ans[c], did[c], tried[c], sample[c])
    BY <1>1, ToldAdvances DEF ToldOK
  <2> QED
    BY <1>1, <2>1, <2>2, <2>3, <2>4 DEF StageOK, ReadingOK, ToldOK, request, reading
<1> QED
  BY <1>3, <1>4

LEMMA TickOK ==
    ASSUME NEW c \in Conns, Shapes, StageOK(c), ReadingOK(c), ToldOK(c), Tick(c)
    PROVE  StageOK(c)' /\ ReadingOK(c)' /\ ToldOK(c)'
<1>1. /\ pc[c] = "read" /\ sock[c] = "open" /\ age'[c] = age[c] + 1
      /\ ctx[c] = "live" => age[c] < req[c].delay + AppDeadline
      /\ ctx[c] = "ended" => \A w \in watch[c] : w.st # "waiting"
      /\ UNCHANGED <<request, pc, actor, ctx, slot, sock, watch, got, ans, did, tried, sample>>
  BY DEF Tick, Shapes
<1>2. /\ ctx[c] \in {"live", "ended"} /\ age[c] \in Nat
      /\ req[c] \in RequestRecords
  BY <1>1 DEF Shapes, StageOK, Stage
<1>3. ctx[c] = "live" /\ got[c] = "none"
  BY <1>1, <1>2 DEF ReadingOK, Reading
<1>4. age'[c] <= req[c].delay + AppDeadline
  <2>1. req[c].delay \in Nat
    BY <1>2, RequestFacts
  <2> QED
    BY <1>1, <1>2, <1>3, <2>1, HttpApiAssumption
<1>5. Reading("read", req[c], ctx[c], slot[c], "open", watch[c], got[c], ans[c], age'[c])
  BY <1>1, <1>3, <1>4 DEF ReadingOK, Reading
<1> QED
  BY <1>1, <1>5 DEF StageOK, ReadingOK, ToldOK, request

LEMMA DeadlineOK ==
    ASSUME NEW c \in Conns, Shapes, StageOK(c), ReadingOK(c), ToldOK(c), Deadline(c)
    PROVE  StageOK(c)' /\ ReadingOK(c)' /\ ToldOK(c)'
<1>1. /\ pc[c] = "read" /\ ctx'[c] = "ended"
      /\ UNCHANGED <<request, pc, actor, slot, sock, watch, got, ans, did, tried, sample, age>>
  BY DEF Deadline, Shapes
<1>2. Reading("read", req[c], "ended", slot[c], sock[c], watch[c], got[c], ans[c], age[c])
  BY <1>1 DEF ReadingOK, Reading
<1> QED
  BY <1>1, <1>2 DEF StageOK, ReadingOK, ToldOK, request

LEMMA SocketTimeoutOK ==
    ASSUME NEW c \in Conns, Shapes, StageOK(c), ReadingOK(c), ToldOK(c), SocketTimeout(c)
    PROVE  StageOK(c)' /\ ReadingOK(c)' /\ ToldOK(c)'
<1>1. /\ pc[c] = "read" /\ sock'[c] = "expired" /\ age[c] >= ReadTimeout
      /\ UNCHANGED <<request, pc, actor, ctx, slot, watch, got, ans, did, tried, sample, age>>
  BY DEF SocketTimeout, Shapes
<1>2. Reading("read", req[c], ctx[c], slot[c], "expired", watch[c], got[c], ans[c], age[c])
  BY <1>1 DEF ReadingOK, Reading
<1> QED
  BY <1>1, <1>2 DEF StageOK, ReadingOK, ToldOK, request

LEMMA ContextEndsOK ==
    ASSUME NEW c \in Conns, Shapes, StageOK(c), ReadingOK(c), ToldOK(c), ContextEnds(c)
    PROVE  StageOK(c)' /\ ReadingOK(c)' /\ ToldOK(c)'
<1>1. /\ pc[c] # "read" /\ ctx'[c] = "ended"
      /\ UNCHANGED <<request, pc, actor, slot, sock, watch, got, ans, did, tried, sample, age>>
  BY DEF ContextEnds, Shapes
<1>2. Reading(pc[c], req[c], "ended", slot[c], sock[c], watch[c], got[c], ans[c], age[c])
  BY <1>1 DEF ReadingOK, Reading
<1> QED
  BY <1>1, <1>2 DEF StageOK, ReadingOK, ToldOK, request

LEMMA DecodedFacts ==
    ASSUME NEW r, NEW g
    PROVE  /\ Decoded(r, g) = Pass \/ Failure(Decoded(r, g))
           /\ Decoded(r, g) = Pass /\ r.route = "mcp" => McpBodyRefusal(r.h, r.b) = Pass
<1>1. Failure(Reply(413)) /\ Reply(413) # Pass /\ Failure(Reply(400)) /\ Reply(400) # Pass
  BY ErrorsFail DEF Errors
<1>2. McpBodyRefusal(r.h, r.b) = Pass \/ Failure(McpBodyRefusal(r.h, r.b))
  BY McpBodyFacts, RefusalsFail
<1>3. Failure(ToolError("invalid_request")) /\ ToolError("invalid_request") # Pass
  BY ToolErrorsFail
<1> QED
  BY <1>1, <1>2, <1>3 DEF Decoded

LEMMA DecodeOK ==
    ASSUME NEW c \in Conns, Shapes, StageOK(c), ReadingOK(c), ToldOK(c), Decode(c)
    PROVE  StageOK(c)' /\ ReadingOK(c)' /\ ToldOK(c)'
<1> DEFINE a == Decoded(req[c], got[c])
<1>1. /\ pc[c] = "decode" /\ AnswerOr(c, a, "serve", TRUE)
      /\ UNCHANGED <<request, reading, actor, slot, did, tried>>
  BY DEF Decode, Decoded
<1>2. /\ a = Pass \/ Failure(a)
      /\ a = Pass /\ req[c].route = "mcp" => McpBodyRefusal(req[c].h, req[c].b) = Pass
  BY DecodedFacts
<1>3. watch[c] = {}
  BY <1>1 DEF ReadingOK, Reading
<1> HIDE DEF a
<1>4. CASE a # Pass
  <2>1. Answer(c, a, TRUE)
    BY <1>1, <1>4 DEF AnswerOr
  <2>2. Answering(c, a)
    BY <2>1, AnswerGives, Zenon
  <2>3. NoRetry(a) /\ Outcome(a) # "success"
    BY <1>2, <1>4 DEF Failure
  <2> QED
    BY <1>1, <1>3, <2>2, <2>3, RefusedOK DEF request, reading
<1>5. CASE a = Pass
  <2>1. pc'[c] = "serve" /\ UNCHANGED <<ans, sample>>
    BY <1>1, <1>5 DEF AnswerOr, Shapes
  <2>2. Stage(conf, "serve", req[c], actor[c], did[c], tried[c])
    BY <1>1, <1>2, <1>5 DEF StageOK, Stage, Inside, Worked
  <2>3. Reading("serve", req[c], ctx[c], slot[c], sock[c], watch[c], got[c], ans[c], age[c])
    BY <1>1, ReadingAdvances DEF ReadingOK
  <2>4. Told("serve", req[c], got[c], ans[c], did[c], tried[c], sample[c])
    BY <1>1, ToldAdvances DEF ToldOK
  <2> QED
    BY <1>1, <2>1, <2>2, <2>3, <2>4 DEF StageOK, ReadingOK, ToldOK, request, reading
<1> QED
  BY <1>4, <1>5

\* What is known of a request about to be served.
LEMMA Serving ==
    ASSUME NEW c \in Conns, StageOK(c), pc[c] = "serve"
    PROVE  /\ HandlerRefusal(conf, req[c], actor[c]) = Pass
           /\ Asked(req[c]) # "none" /\ did[c] = "none"
           /\ req[c].route = "mcp" =>
                /\ McpBodyRefusal(req[c].h, req[c].b) = Pass
                /\ req[c].b.method = req[c].h.method
                /\ Asked(req[c]) \in Listing \cup McpTools
                /\ req[c].h.method = "call" => Asked(req[c]) = req[c].h.tool
                /\ Asked(req[c]) \in Listing => req[c].h.method # "call"
<1>1. /\ HandlerRefusal(conf, req[c], actor[c]) = Pass /\ did[c] = "none"
      /\ req[c] \in RequestRecords
      /\ req[c].route = "mcp" => McpBodyRefusal(req[c].h, req[c].b) = Pass
  BY DEF StageOK, Stage, Inside
<1>2. CASE req[c].route # "mcp"
  BY <1>1, <1>2, RequestFacts DEF Asked
<1>3. CASE req[c].route = "mcp"
  <2>1. /\ req[c].b.method = req[c].h.method
        /\ req[c].b.method \in Listing \cup {"call"}
        /\ req[c].b.method = "call" =>
             req[c].b.tool \in McpTools /\ req[c].b.tool = req[c].h.tool
    BY <1>1, <1>3, McpBodyFacts
  <2> QED
    BY <1>1, <1>3, <2>1 DEF Asked, Listing, McpTools
<1> QED
  BY <1>2, <1>3

LEMMA RestServed ==
    ASSUME NEW c \in Conns, NEW codes, Call(c, codes, RestRefusal)
    PROVE  pc[c] = "serve" /\ Served(c)
<1>1. \A code : Failure(Reply(ServiceErrorStatus(code)))
  <2>1. \A code : ServiceErrorStatus(code) \in {400, 413, 404, 403, 422, 503}
    BY DEF ServiceErrorStatus
  <2>2. \A code : ServiceErrorStatus(code) \in Errors
    BY <2>1 DEF Errors
  <2> QED
    BY <2>2, ErrorsFail
<1>2. /\ pc[c] = "serve" /\ tried' = [tried EXCEPT ![c] = TRUE]
      /\ UNCHANGED <<request, reading, actor, slot>>
      /\ \/ Answer(c, Reply(200), TRUE) /\ did' = [did EXCEPT ![c] = Asked(req[c])]
         \/ /\ \E code : Answer(c, Reply(ServiceErrorStatus(code)), TRUE)
            /\ did' = did
  BY DEF Call, RestRefusal
<1>3. UNCHANGED <<conf, req, actor, ctx, sock, watch, got, age, slot>>
  BY <1>2 DEF request, reading
<1>4. CASE Answer(c, Reply(200), TRUE) /\ did' = [did EXCEPT ![c] = Asked(req[c])]
  BY <1>2, <1>3, <1>4 DEF Served
<1>5. CASE /\ \E code : Answer(c, Reply(ServiceErrorStatus(code)), TRUE)
           /\ did' = did
  <2>1. PICK code : Answer(c, Reply(ServiceErrorStatus(code)), TRUE)
    BY <1>5
  <2>2. \E a : Answer(c, a, TRUE) /\ NoRetry(a) /\ (Outcome(a) # "success" \/ ~Sampled(req[c]))
    BY <1>1, <2>1, Zenon DEF Failure
  <2> QED
    BY <1>2, <1>3, <1>5, <2>2 DEF Served
<1> QED
  BY <1>2, <1>4, <1>5

LEMMA ServeRestOK ==
    ASSUME NEW c \in Conns, Shapes, StageOK(c), ReadingOK(c), ToldOK(c),
           \/ ServeCanonical(c) \/ ServeLegacy(c) \/ ServeRotate(c)
           \/ ServeGenerate(c) \/ ServeVerify(c)
    PROVE  Shapes' /\ Frame(c) /\ StageOK(c)' /\ ReadingOK(c)' /\ ToldOK(c)'
<1>1. \E codes : Call(c, codes, RestRefusal)
  BY DEF ServeCanonical, ServeLegacy, ServeRotate, ServeGenerate, ServeVerify
<1>2. pc[c] = "serve" /\ Served(c)
  BY <1>1, RestServed
<1> QED
  BY <1>2, Serving, ServedFrames, ServedOK

LEMMA McpListsOK ==
    ASSUME NEW c \in Conns, Shapes, StageOK(c), ReadingOK(c), ToldOK(c), McpLists(c)
    PROVE  StageOK(c)' /\ ReadingOK(c)' /\ ToldOK(c)'
<1> DEFINE r == req[c]
<1>1. /\ pc[c] = "serve" /\ Answer(c, Reply(200), TRUE) /\ did'[c] = Asked(r)
      /\ UNCHANGED <<request, reading, actor, slot, tried>>
  BY DEF McpLists, Shapes
<1>2. Answering(c, Reply(200))
  BY <1>1, AnswerGives, Zenon
<1>3. /\ HandlerRefusal(conf, r, actor[c]) = Pass /\ Asked(r) # "none"
      /\ r.route = "mcp" => McpBodyRefusal(r.h, r.b) = Pass
  BY <1>1, Serving
<1>4. sample'[c] = "none" \/ sample'[c] = "success"
  BY <1>2, SuccessReply DEF Answering
<1>5. watch[c] = {}
  BY <1>1 DEF ReadingOK, Reading
<1> HIDE DEF r
<1>6. Stage(conf, "answered", r, actor[c], Asked(r), tried[c])
  <2>1. pc[c] \in Inside \cup {"handle"}
    BY <1>1 DEF Inside
  <2> QED
    BY <1>3, <2>1, StageDone DEF StageOK, r
<1>7. Reading("answered", r, ctx[c], slot[c], sock[c], watch[c], got[c], Reply(200), age[c])
  BY <1>1, <1>5, ReadingAnswered DEF ReadingOK, r
<1>8. Told("answered", r, got[c], Reply(200), Asked(r), tried[c], sample'[c])
  BY <1>3, <1>4, SuccessReply, ToldDone
<1> QED
  BY <1>1, <1>2, <1>6, <1>7, <1>8
     DEF StageOK, ReadingOK, ToldOK, Answering, request, reading, r

LEMMA McpVerifyUnavailableOK ==
    ASSUME NEW c \in Conns, Shapes, StageOK(c), ReadingOK(c), ToldOK(c),
           McpVerifyUnavailable(c)
    PROVE  StageOK(c)' /\ ReadingOK(c)' /\ ToldOK(c)'
<1> DEFINE a == ToolError("unavailable")
<1>1. /\ pc[c] = "serve" /\ Answer(c, a, TRUE)
      /\ UNCHANGED <<request, reading, actor, slot, did, tried>>
  BY DEF McpVerifyUnavailable
<1>2. NoRetry(a) /\ Outcome(a) # "success"
  BY ToolErrorsFail DEF Failure
<1> HIDE DEF a
<1>3. Answering(c, a)
  BY <1>1, AnswerGives, Zenon
<1>4. watch[c] = {}
  BY <1>1 DEF ReadingOK, Reading
<1> QED
  BY <1>1, <1>2, <1>3, <1>4, RefusedOK DEF request, reading

\* A tool's failure is recorded as one: only a listing that a policy denies
\* is answered 200, and listings are not counted.
LEMMA ToolFailures ==
    ASSUME NEW code, NEW who, NEW tool
    PROVE  LET a == McpServiceError(code, who, tool)
           IN NoRetry(a) /\ (tool # "list_profiles" => Outcome(a) # "success")
<1>1. NoRetry(Reply(200)) /\ Failure(Reply(503)) /\ Failure(Reply(403))
  BY SuccessReply, ErrorsFail DEF Errors
<1>2. McpServiceError(code, who, tool) \in
        {Reply(503), Reply(403), ToolError("invalid_request"), ToolError("unavailable"),
         ToolError("failed")}
      \/ (tool = "list_profiles" /\ McpServiceError(code, who, tool) = Reply(200))
  BY DEF McpServiceError
<1>3. /\ Failure(ToolError("invalid_request")) /\ Failure(ToolError("unavailable"))
      /\ Failure(ToolError("failed"))
  BY ToolErrorsFail
<1> QED
  BY <1>1, <1>2, <1>3 DEF Failure

LEMMA McpToolOK ==
    ASSUME NEW c \in Conns, Shapes, StageOK(c), ReadingOK(c), ToldOK(c), McpTool(c)
    PROVE  Shapes' /\ Frame(c) /\ StageOK(c)' /\ ReadingOK(c)' /\ ToldOK(c)'
<1> DEFINE tool == Asked(req[c])
<1>1. /\ req[c].route = "mcp" /\ tool \notin Listing
      /\ pc[c] = "serve" /\ tried' = [tried EXCEPT ![c] = TRUE]
      /\ UNCHANGED <<request, reading, actor, slot>>
      /\ \/ Answer(c, Reply(200), TRUE) /\ did' = [did EXCEPT ![c] = Asked(req[c])]
         \/ /\ \E code : Answer(c, McpServiceError(code, actor[c], tool), TRUE)
            /\ did' = did
  BY DEF McpTool, Call
<1>2. UNCHANGED <<conf, req, actor, ctx, sock, watch, got, age, slot>>
  BY <1>1 DEF request, reading
<1>3. tool = "list_profiles" => ~Sampled(req[c])
  <2>1. req[c].h.method = "call" => tool = req[c].h.tool
    BY <1>1, Serving
  <2>2. "mcp" \notin Bodied
    BY DEF Bodied, CanonicalOperation
  <2> QED
    BY <1>1, <2>1, <2>2 DEF Sampled
<1> HIDE DEF tool
<1>4. Served(c)
  <2>1. CASE Answer(c, Reply(200), TRUE) /\ did' = [did EXCEPT ![c] = Asked(req[c])]
    BY <1>1, <1>2, <2>1 DEF Served
  <2>2. CASE /\ \E code : Answer(c, McpServiceError(code, actor[c], tool), TRUE)
             /\ did' = did
    <3>1. PICK code : Answer(c, McpServiceError(code, actor[c], tool), TRUE)
      BY <2>2
    <3> DEFINE a == McpServiceError(code, actor[c], tool)
    <3>2. NoRetry(a) /\ (Outcome(a) # "success" \/ ~Sampled(req[c]))
      BY <1>3, ToolFailures
    <3>3. \E b : Answer(c, b, TRUE) /\ NoRetry(b) /\ (Outcome(b) # "success" \/ ~Sampled(req[c]))
      BY <3>1, <3>2, Zenon
    <3> QED
      BY <1>1, <1>2, <2>2, <3>3 DEF Served
  <2> QED
    BY <1>1, <2>1, <2>2
<1> QED
  BY <1>1, <1>4, Serving, ServedFrames, ServedOK

LEMMA FinishOK ==
    ASSUME NEW c \in Conns, Shapes, StageOK(c), ReadingOK(c), ToldOK(c), Finish(c)
    PROVE  StageOK(c)' /\ ReadingOK(c)' /\ ToldOK(c)'
<1>1. /\ pc[c] = "answered" /\ pc'[c] = "idle" /\ req'[c] = NoRequest
      /\ actor'[c] = NoActor /\ got'[c] = "none" /\ ans'[c] = Pass /\ did'[c] = "none"
      /\ tried'[c] = FALSE /\ sample'[c] = "none" /\ age'[c] = 0 /\ slot'[c] = "none"
      /\ UNCHANGED <<conf, sock, watch>>
  BY DEF Finish, Forget, Shapes
<1>2. watch[c] = {}
  BY <1>1 DEF ReadingOK, Reading
<1>3. Stage(conf, "idle", NoRequest, NoActor, "none", FALSE)
  <2>1. NoRequest.route = "none"
    BY DEF NoRequest
  <2> QED
    BY <2>1, ActorFacts DEF Stage, Inside, Worked
<1>4. Reading("idle", NoRequest, ctx'[c], "none", sock[c], {}, "none", Pass, 0)
  BY DEF Reading
<1>5. Told("idle", NoRequest, "none", Pass, "none", FALSE, "none")
  BY ReplyFacts DEF Told
<1> QED
  BY <1>1, <1>2, <1>3, <1>4, <1>5 DEF StageOK, ReadingOK, ToldOK

-----------------------------------------------------------------------------
(* The slots.                                                              *)

Holders(s, p) == {c \in Conns : s[c] = p}

LEMMA InUseIs ==
    ASSUME NEW p
    PROVE  /\ InUse(p) = Cardinality(Holders(slot, p))
           /\ InUse(p)' = Cardinality(Holders(slot', p))
  BY DEF InUse, Holders

LEMMA HoldersFinite ==
    ASSUME NEW s, NEW p
    PROVE  IsFiniteSet(Holders(s, p)) /\ Cardinality(Holders(s, p)) \in Nat
<1>1. Holders(s, p) \subseteq Conns
  BY DEF Holders
<1>2. IsFiniteSet(Holders(s, p))
  BY <1>1, HttpApiAssumption, FS_Subset
<1> QED
  BY <1>2, FS_CardinalityType

\* A step that takes no slot keeps every pool within its capacity.
LEMMA SlotsKept ==
    ASSUME Shapes, WithinCapacity, NEW c \in Conns,
           slot' = slot \/ slot' = [slot EXCEPT ![c] = "none"]
    PROVE  WithinCapacity'
<1> SUFFICES ASSUME NEW p \in {"ops", "verifier"}
             PROVE  InUse(p)' <= Capacity[p]
  BY DEF WithinCapacity
<1>1. Holders(slot', p) \subseteq Holders(slot, p)
  BY DEF Holders, Shapes
<1>2. Cardinality(Holders(slot', p)) <= Cardinality(Holders(slot, p))
  BY <1>1, HoldersFinite, FS_Subset
<1>3. Cardinality(Holders(slot, p)) <= Capacity[p]
  BY InUseIs DEF WithinCapacity
<1>4. Cardinality(Holders(slot', p)) \in Nat /\ Cardinality(Holders(slot, p)) \in Nat
  BY HoldersFinite
<1>5. Capacity[p] \in Nat
  BY HttpApiAssumption
<1> QED
  BY <1>2, <1>3, <1>4, <1>5, InUseIs

\* TryAcquire takes a slot only when one is free.
LEMMA SlotTaken ==
    ASSUME Shapes, WithinCapacity, NEW c \in Conns, ReadingOK(c), Acquire(c)
    PROVE  WithinCapacity'
<1> DEFINE q == Pool(req[c])
<1>1. \/ slot' = slot
      \/ ~Full(q) /\ slot' = [slot EXCEPT ![c] = q]
  BY DEF Acquire
<1>2. slot[c] = "none" /\ q \in {"ops", "verifier"}
  BY DEF Acquire, ReadingOK, Reading, Pool
<1> HIDE DEF q
<1>3. CASE slot' = slot
  BY <1>3, SlotsKept
<1>4. CASE ~Full(q) /\ slot' = [slot EXCEPT ![c] = q]
  <2> SUFFICES ASSUME NEW p \in {"ops", "verifier"}
               PROVE  InUse(p)' <= Capacity[p]
    BY DEF WithinCapacity
  <2>1. Cardinality(Holders(slot, p)) <= Capacity[p]
    BY InUseIs DEF WithinCapacity
  <2>2. Cardinality(Holders(slot', p)) \in Nat /\ Cardinality(Holders(slot, p)) \in Nat
    BY HoldersFinite
  <2>3. Capacity[p] \in Nat
    BY HttpApiAssumption
  <2>4. CASE p # q
    <3>1. Holders(slot', p) = Holders(slot, p)
      BY <1>2, <1>4, <2>4 DEF Holders, Shapes
    <3> QED
      BY <2>1, <3>1, InUseIs
  <2>5. CASE p = q
    <3>1. Holders(slot', p) = Holders(slot, p) \cup {c} /\ c \notin Holders(slot, p)
      BY <1>2, <1>4, <2>5 DEF Holders, Shapes
    <3>2. IsFiniteSet(Holders(slot, p))
      BY HoldersFinite
    <3>3. Cardinality(Holders(slot', p)) = Cardinality(Holders(slot, p)) + 1
      BY <3>1, <3>2, FS_AddElement
    <3>4. ~(Cardinality(Holders(slot, p)) >= Capacity[p])
      BY <1>4, <2>5, InUseIs DEF Full
    <3> QED
      BY <2>2, <2>3, <3>3, <3>4, InUseIs
  <2> QED
    BY <2>4, <2>5
<1> QED
  BY <1>1, <1>3, <1>4

-----------------------------------------------------------------------------
(* The theorems.                                                           *)

LEMMA InitHolds ==
    ASSUME Init
    PROVE  Inv
<1>1. Shapes
  BY DEF Init, Shapes
<1>2. ASSUME NEW c \in Conns
      PROVE  StageOK(c) /\ ReadingOK(c) /\ ToldOK(c)
  <2>1. /\ pc[c] = "idle" /\ req[c] = NoRequest /\ actor[c] = NoActor /\ ctx[c] = "ended"
        /\ slot[c] = "none" /\ sock[c] = "open" /\ watch[c] = {} /\ got[c] = "none"
        /\ ans[c] = Pass /\ did[c] = "none" /\ tried[c] = FALSE /\ sample[c] = "none"
    BY DEF Init
  <2>2. Stage(conf, "idle", NoRequest, NoActor, "none", FALSE)
    <3>1. NoRequest.route = "none"
      BY DEF NoRequest
    <3> QED
      BY <3>1, ActorFacts DEF Stage, Inside, Worked
  <2>3. Reading("idle", NoRequest, "ended", "none", "open", {}, "none", Pass, age[c])
    BY DEF Reading
  <2>4. Told("idle", NoRequest, "none", Pass, "none", FALSE, "none")
    BY ReplyFacts DEF Told
  <2> QED
    BY <2>1, <2>2, <2>3, <2>4 DEF StageOK, ReadingOK, ToldOK
<1>3. WithinCapacity
  <2> SUFFICES ASSUME NEW p \in {"ops", "verifier"}
               PROVE  InUse(p) <= Capacity[p]
    BY DEF WithinCapacity
  <2>1. Holders(slot, p) = {}
    BY DEF Init, Holders
  <2>2. Cardinality(Holders(slot, p)) = 0
    BY <2>1, FS_EmptySet
  <2>3. Capacity[p] \in Nat
    BY HttpApiAssumption
  <2> QED
    BY <2>2, <2>3, InUseIs
<1> QED
  BY <1>1, <1>2, <1>3 DEF Inv

LEMMA StepHolds ==
    ASSUME Inv, [Next]_vars
    PROVE  Inv'
<1>1. CASE UNCHANGED vars
  <2>1. Shapes'
    BY <1>1 DEF Inv, Shapes, vars
  <2>2. \A c \in Conns : StageOK(c)' /\ ReadingOK(c)' /\ ToldOK(c)'
    BY <1>1 DEF Inv, StageOK, ReadingOK, ToldOK, vars
  <2>3. WithinCapacity'
    BY <1>1 DEF Inv, WithinCapacity, InUse, vars
  <2> QED
    BY <2>1, <2>2, <2>3 DEF Inv
<1>2. ASSUME NEW c \in Conns, Receive(c) \/ Server(c) \/ Tick(c) \/ ContextEnds(c)
      PROVE  Inv'
  <2> USE DEF Inv
  <2>1. Shapes' /\ Frame(c)
    BY <1>2, ReceiveFrames, VerifyTokenFrames, LoadSessionFrames, ServeFlowFrames,
       HandleFrames, AcquireFrames, ReadReturnsFrames, WatcherWakesFrames,
       WatcherEndsFrames, JoinFrames, TickFrames, DeadlineFrames, SocketTimeoutFrames,
       ContextEndsFrames, DecodeFrames, ServeRestOK, McpListsFrames,
       McpVerifyUnavailableFrames, McpToolOK, FinishFrames
       DEF Server
  <2>2. StageOK(c)' /\ ReadingOK(c)' /\ ToldOK(c)'
    BY <1>2, ReceiveOK, VerifyTokenOK, LoadSessionOK, ServeFlowOK, HandleOK, AcquireOK,
       ReadReturnsOK, WatcherWakesOK, WatcherEndsOK, JoinOK, TickOK, DeadlineOK,
       SocketTimeoutOK, ContextEndsOK, DecodeOK, ServeRestOK, McpListsOK,
       McpVerifyUnavailableOK, McpToolOK, FinishOK
       DEF Server
  <2>3. \A d \in Conns : StageOK(d)' /\ ReadingOK(d)' /\ ToldOK(d)'
    BY <2>1, <2>2, Elsewhere
  <2>4. WithinCapacity'
    <3>1. CASE Acquire(c)
      BY <3>1, SlotTaken
    <3>2. CASE ~Acquire(c)
      <4>1. slot' = slot \/ slot' = [slot EXCEPT ![c] = "none"]
        BY <1>2, <3>2
           DEF Receive, Server, VerifyToken, LoadSession, ServeFlow, Handle, ReadReturns,
               WatcherWakes, WatcherEnds, Join, Tick, Deadline, SocketTimeout, ContextEnds,
               Decode, Call, ServeCanonical, ServeLegacy, ServeRotate, ServeGenerate,
               ServeVerify, McpLists, McpVerifyUnavailable, McpTool, Finish
      <4> QED
        BY <4>1, SlotsKept
    <3> QED
      BY <3>1, <3>2
  <2> QED
    BY <2>1, <2>3, <2>4
<1> QED
  BY <1>1, <1>2 DEF Next

\* The inductive invariant: on every connection the request has passed the
\* checks of the steps behind it, its read and watcher belong together, and
\* what is told about it is so; no pool is overdrawn.  (internal/httpapi)
THEOREM HttpApiInvariance == Spec => []Inv
<1>1. Init => Inv
  BY InitHolds
<1>2. Inv /\ [Next]_vars => Inv'
  BY StepHolds
<1> QED
  BY <1>1, <1>2, PTL DEF Spec

\* The classes of the routes that something is done on.
LEMMA RouteClasses ==
    ASSUME NEW r \in Routes
    PROVE  /\ CredentialRoute(r) = "none" => r \in {"public", "unknown"}
           /\ r \in Flow => CredentialRoute(r) = "flow"
           /\ r = "operations" => CredentialRoute(r) = "session"
           /\ r = "mcp" => CredentialRoute(r) = "mcp"
           /\ r \in (Bodied \ {"operations"}) \cup {"profiles"} => CredentialRoute(r) = "either"
           /\ CredentialRoute(r) \in {"none", "flow", "session", "mcp", "either"}
  BY DEF Routes, CredentialRoute, Flow, Bodied, CanonicalOperation

\* The tables of scopes, entry by entry: each agrees with the documented one.
LEMMA RouteScopes ==
    \A t \in (Bodied \ {"operations", "badprofile"}) \cup {"profiles"} :
       RouteScope(t) = ScopeOf(t) /\ RouteScope(t) # "none"
  BY DEF Bodied, CanonicalOperation, RouteScope, RequiredScope, ScopeOf

LEMMA ToolScopes ==
    ASSUME NEW r, r.route = "mcp", r.h.method = "call", r.h.tool \in McpTools
    PROVE  /\ McpPreflightScope(r) = ScopeOf(r.h.tool)
           /\ McpScope(r.h) = ScopeOf(r.h.tool)
           /\ RegistrationScope(r.h.tool) = ScopeOf(r.h.tool)
           /\ ScopeOf(r.h.tool) # "none"
<1>1. r.h.tool \in {"list_profiles", "encrypt", "decrypt", "rotate", "verify", "generate"}
  BY DEF McpTools
<1>2. McpScope(r.h) = ScopeOf(r.h.tool)
  BY <1>1 DEF McpScope, Listing, RequiredScope, ScopeOf
<1>3. RegistrationScope(r.h.tool) = ScopeOf(r.h.tool) /\ ScopeOf(r.h.tool) # "none"
  BY <1>1 DEF RegistrationScope, RequiredScope, ScopeOf
<1>4. McpPreflightScope(r) = ScopeOf(r.h.tool)
  BY <1>1, <1>2 DEF McpPreflightScope, VerifyCall, GenerateCall, RequiredScope, ScopeOf
<1> QED
  BY <1>2, <1>3, <1>4

LEMMA ListingScopes ==
    ASSUME NEW r, r.route = "mcp", r.h.method \in Listing
    PROVE  McpPreflightScope(r) = "read"
  BY DEF McpPreflightScope, McpScope, VerifyCall, GenerateCall, Listing

\* The table for the headers has the scope of every preflight there is.
LEMMA HeaderScopes ==
    ASSUME NEW r, r.route = "mcp"
    PROVE  McpPreflightScope(r) = "none" \/ McpPreflightScope(r) = McpScope(r.h)
  BY DEF McpPreflightScope, McpScope, VerifyCall, GenerateCall, RequiredScope, Listing

Worthy(r, done) ==
    /\ r.token = "good" /\ r.session = "none"
    /\ r.route \notin Flow \cup {"operations"}
    /\ \/ ScopeOf(done) \in r.scopes
       \/ done \in Listing /\ r.scopes \cap {"read", "verify"} # {}

\* A bearer who got through has the scope of what the request asks for.
LEMMA BearerIsEntitled ==
    ASSUME NEW k, NEW r \in RequestRecords, NEW who, k.mode = "native",
           Admitted(k, r), Identified(k, r, who), HandlerRefusal(k, r, who) = Pass,
           r.route = "mcp" => McpBodyRefusal(r.h, r.b) = Pass,
           Asked(r) # "public", r.auth = "bearer"
    PROVE  Worthy(r, Asked(r))
<1>1. r.route \in Routes /\ r.route # "badprofile" /\ r.route # "unknown"
  BY RequestFacts, HeaderFacts, HandlerFacts DEF Admitted
<1>2. CredentialRoute(r.route) # "none"
  <2>1. r.route # "public"
    BY DEF Asked
  <2> QED
    BY <1>1, <2>1, RouteClasses
<1>3. who.kind = "bearer" /\ who.scopes = r.scopes /\ r.token = "good"
  BY <1>2 DEF Identified
<1>4. r.session = "none" /\ CredentialRoute(r.route) \notin {"session", "flow"}
  BY <1>2, CredentialFacts DEF Admitted
<1>5. r.route \notin Flow \cup {"operations"}
  BY <1>1, <1>4, RouteClasses
<1>6. r.route \in (Bodied \ {"operations", "badprofile"}) \cup {"profiles", "mcp"}
  BY <1>1, <1>2, <1>5 DEF Routes, CredentialRoute
<1>7. Preflight(k, r, who) = Pass
  BY <1>6, HandlerFacts DEF NeedsCaller
<1>8. CASE r.route # "mcp"
  <2>1. ScopeOf(r.route) \in r.scopes
    <3>1. RouteScope(r.route) # "none" /\ RouteScope(r.route) = ScopeOf(r.route)
      BY <1>6, <1>8, RouteScopes
    <3> QED
      BY <1>3, <1>7, <1>8, <3>1, PreflightFacts
  <2>2. Asked(r) = r.route
    BY <1>8 DEF Asked
  <2> QED
    BY <1>3, <1>4, <1>5, <2>1, <2>2 DEF Worthy
<1>9. CASE r.route = "mcp"
  <2>1. /\ r.b.method = r.h.method
        /\ r.b.method \in Listing \cup {"call"}
        /\ r.b.method = "call" => r.b.tool \in McpTools /\ r.b.tool = r.h.tool
    BY <1>9, McpBodyFacts
  <2>2. \/ McpPreflightScope(r) = "none" \/ McpPreflightScope(r) \in r.scopes
        \/ r.h.method \in Listing /\ "verify" \in r.scopes
    BY <1>3, <1>7, <1>9, PreflightFacts
  <2>3. CASE r.b.method = "call"
    <3>1. Asked(r) = r.h.tool /\ r.h.method = "call" /\ r.h.tool \in McpTools
      BY <1>9, <2>1, <2>3 DEF Asked
    <3>2. r.h.method \notin Listing
      BY <2>1, <2>3 DEF Listing
    <3>3. McpPreflightScope(r) = ScopeOf(r.h.tool) /\ ScopeOf(r.h.tool) # "none"
      BY <1>9, <3>1, ToolScopes
    <3>4. ScopeOf(Asked(r)) \in r.scopes
      BY <2>2, <3>1, <3>2, <3>3
    <3> QED
      BY <1>3, <1>4, <1>5, <3>4 DEF Worthy
  <2>4. CASE r.b.method \in Listing
    <3>1. r.b.method # "call"
      BY <2>4 DEF Listing
    <3>2. Asked(r) \in Listing /\ McpPreflightScope(r) = "read"
      BY <1>9, <2>1, <2>4, <3>1, ListingScopes DEF Asked
    <3>3. r.scopes \cap {"read", "verify"} # {}
      BY <2>2, <3>2
    <3> QED
      BY <1>3, <1>4, <1>5, <3>2, <3>3 DEF Worthy
  <2> QED
    BY <2>1, <2>3, <2>4
<1> QED
  BY <1>8, <1>9

\* Anybody else has a live session, or there is no authentication.
LEMMA OthersAreEntitled ==
    ASSUME NEW k, NEW r \in RequestRecords, NEW who, k.mode \in {"native", "off"},
           Admitted(k, r), Identified(k, r, who), HandlerRefusal(k, r, who) = Pass,
           Asked(r) \notin {"public", "session", "login", "callback"}
    PROVE  /\ k.mode = "off" => r.auth = "none"
           /\ k.mode = "native" /\ r.auth # "bearer" =>
                /\ r.auth = "none" /\ r.route # "mcp"
                /\ Asked(r) # "logout" => r.session = "live"
<1>1. r.route \in Routes /\ r.route # "badprofile" /\ r.route # "unknown"
  BY RequestFacts, HeaderFacts, HandlerFacts DEF Admitted
<1>2. r.route \notin {"public", "session", "login", "callback"}
  BY DEF Asked
<1>3. CredentialRoute(r.route) # "none" /\ r.auth \in {"none", "malformed", "bearer"}
  BY <1>1, <1>2, RouteClasses, RequestFacts
<1>4. k.mode = "off" => r.auth = "none"
  BY <1>3, CredentialFacts DEF Admitted
<1>5. ASSUME k.mode = "native", r.auth # "bearer"
      PROVE  /\ r.auth = "none" /\ r.route # "mcp"
             /\ Asked(r) # "logout" => r.session = "live"
  <2>1. r.auth = "none" /\ CredentialRoute(r.route) # "mcp"
    BY <1>1, <1>3, <1>5, CredentialFacts, RouteClasses DEF Admitted
  <2>2. r.route # "mcp"
    BY <1>1, <2>1, RouteClasses
  <2>3. ASSUME Asked(r) # "logout"
        PROVE  r.session = "live"
    <3>1. r.route # "logout"
      BY <2>2, <2>3 DEF Asked
    <3>2. NeedsCaller(r)
      BY <1>1, <1>2, <3>1 DEF NeedsCaller, Routes, Flow
    <3>3. who.kind # "none"
      BY <3>2, HandlerFacts
    <3> QED
      BY <1>5, <3>3 DEF Identified
  <2> QED
    BY <2>1, <2>2, <2>3
<1> QED
  BY <1>4, <1>5

\* What was done was asked for by a request that had passed every check.
LEMMA DoneFacts ==
    ASSUME Inv, NEW c \in Conns, did[c] # "none" \/ tried[c]
    PROVE  /\ req[c] \in RequestRecords /\ conf.mode \in {"native", "off"}
           /\ pc[c] = "answered"
           /\ Admitted(conf, req[c]) /\ Identified(conf, req[c], actor[c])
           /\ HandlerRefusal(conf, req[c], actor[c]) = Pass
           /\ did[c] # "none" => did[c] = Asked(req[c])
           /\ req[c].route = "mcp" => McpBodyRefusal(req[c].h, req[c].b) = Pass
<1>1. StageOK(c) /\ Shapes
  BY DEF Inv
<1>2. Worked(did[c], tried[c])
  BY DEF Worked
<1>3. conf.mode \in {"native", "off"}
  BY <1>1, HttpApiAssumption DEF Shapes
<1>4. pc[c] = "answered"
  BY <1>1, <1>2 DEF StageOK, Stage, Worked
<1> QED
  BY <1>1, <1>2, <1>3, <1>4 DEF StageOK, Stage

LEMMA InvEntitles ==
    ASSUME Inv
    PROVE  ExecutedIsEntitled
<1> SUFFICES ASSUME NEW c \in Conns, Acted(c), did[c] \notin {"session", "login", "callback"}
             PROVE  IF conf.mode = "off" THEN req[c].auth = "none"
                    ELSE IF req[c].auth = "bearer" THEN Worthy(req[c], did[c])
                    ELSE /\ req[c].auth = "none" /\ req[c].route # "mcp"
                         /\ did[c] # "logout" => req[c].session = "live"
  BY DEF ExecutedIsEntitled, Worthy
<1>1. /\ req[c] \in RequestRecords /\ conf.mode \in {"native", "off"}
      /\ Admitted(conf, req[c]) /\ Identified(conf, req[c], actor[c])
      /\ HandlerRefusal(conf, req[c], actor[c]) = Pass
      /\ did[c] = Asked(req[c])
      /\ req[c].route = "mcp" => McpBodyRefusal(req[c].h, req[c].b) = Pass
  BY DoneFacts DEF Acted
<1>2. did[c] # "public"
  BY DEF Acted
<1>3. conf.mode = "native" /\ req[c].auth = "bearer" => Worthy(req[c], did[c])
  BY <1>1, <1>2, BearerIsEntitled
<1>4. /\ conf.mode = "off" => req[c].auth = "none"
      /\ conf.mode = "native" /\ req[c].auth # "bearer" =>
           /\ req[c].auth = "none" /\ req[c].route # "mcp"
           /\ did[c] # "logout" => req[c].session = "live"
  BY <1>1, <1>2, OthersAreEntitled
<1> QED
  BY <1>1, <1>3, <1>4

LEMMA InvSeparatesSites ==
    ASSUME Inv
    PROVE  CrossSiteCannotAct
<1> SUFFICES ASSUME NEW c \in Conns, did[c] # "none"
             PROVE  /\ req[c].origin \notin {"null", "foreign"}
                    /\ (conf.mode = "native" /\ req[c].method = "POST"
                          /\ req[c].auth = "none") =>
                         /\ req[c].csrf = [cookie |-> "valid", header |-> TRUE]
                         /\ \/ req[c].origin \in {"same", "allowed"}
                            \/ req[c].origin = "none" /\ req[c].referer = "same"
  BY DEF CrossSiteCannotAct
<1> DEFINE r == req[c]
<1>1. /\ r \in RequestRecords /\ Admitted(conf, r)
      /\ HandlerRefusal(conf, r, actor[c]) = Pass
  BY DoneFacts
<1> HIDE DEF r
<1>2. r.origin \in {"none", "same", "allowed"}
  BY <1>1, CorsFacts DEF Admitted
<1>3. ASSUME conf.mode = "native", r.method = "POST", r.auth = "none"
      PROVE  /\ r.csrf = [cookie |-> "valid", header |-> TRUE]
             /\ \/ r.origin \in {"same", "allowed"}
                \/ r.origin = "none" /\ r.referer = "same"
  <2>1. r.route \in Routes /\ r.route # "unknown" /\ r.route \notin GetOnly
    BY <1>1, <1>3, RequestFacts, HandlerFacts
  <2>2. CredentialRoute(r.route) # "none"
    BY <2>1, RouteClasses DEF GetOnly
  <2>3. CsrfPasses(r)
    BY <1>1, <1>3, <2>2, CredentialFacts DEF Admitted
  <2>4. r.csrf \in [cookie : STRING, header : BOOLEAN]
    BY <1>1 DEF RequestRecords
  <2>5. r.csrf = [cookie |-> "valid", header |-> TRUE]
    BY <2>3, <2>4 DEF CsrfPasses
  <2>6. \/ r.origin \in {"same", "allowed"}
        \/ r.origin = "none" /\ r.referer = "same"
    BY <1>2, <2>3 DEF CsrfPasses, CsrfOriginAllowed, OriginAllowed
  <2> QED
    BY <2>5, <2>6
<1> QED
  BY <1>2, <1>3 DEF r

LEMMA InvChecksTools ==
    ASSUME Inv
    PROVE  ToolIsTheCheckedTool
<1> SUFFICES ASSUME NEW c \in Conns, req[c].route = "mcp", did[c] # "none" \/ tried[c]
             PROVE  /\ req[c].b.method = req[c].h.method
                    /\ did[c] \in McpTools => did[c] = req[c].h.tool
  BY DEF ToolIsTheCheckedTool
<1>1. /\ did[c] # "none" => did[c] = Asked(req[c])
      /\ McpBodyRefusal(req[c].h, req[c].b) = Pass
  BY DoneFacts
<1>2. /\ req[c].b.method = req[c].h.method
      /\ req[c].b.method \in Listing \cup {"call"}
      /\ req[c].b.method = "call" => req[c].b.tool = req[c].h.tool
  BY <1>1, McpBodyFacts
<1>3. Listing \cap McpTools = {} /\ "none" \notin McpTools
  BY DEF Listing, McpTools
<1> QED
  BY <1>1, <1>2, <1>3 DEF Asked

LEMMA InvListsTools ==
    ASSUME Inv
    PROVE  ListedAreCallable
<1> SUFFICES ASSUME NEW c \in Conns, did[c] = "list"
             PROVE  VisibleTools(conf, actor[c]) =
                      {t \in McpTools :
                         /\ Preflight(conf, [req[c] EXCEPT !.h.method = "call",
                                                           !.h.tool = t], actor[c]) = Pass
                         /\ t = "verify" => conf.attest = "on"}
  BY DEF ListedAreCallable
<1>1. req[c] \in RequestRecords /\ Asked(req[c]) = "list"
  BY DoneFacts
<1>2. req[c].route = "mcp"
  <2>1. "list" \notin Routes
    BY DEF Routes, Bodied, CanonicalOperation, Flow
  <2> QED
    BY <1>1, <2>1, RequestFacts DEF Asked
<1>3. ASSUME NEW t \in McpTools
      PROVE  Preflight(conf, [req[c] EXCEPT !.h.method = "call", !.h.tool = t], actor[c]) = Pass
               <=> actor[c].kind # "bearer" \/ RegistrationScope(t) \in actor[c].scopes
  <2> DEFINE call == [req[c] EXCEPT !.h.method = "call", !.h.tool = t]
  <2>1. call.route = "mcp" /\ call.h.method = "call" /\ call.h.tool = t
    BY <1>1, <1>2 DEF RequestRecords
  <2> HIDE DEF call
  <2>2. "call" \notin Listing
    BY DEF Listing
  <2>3. McpPreflightScope(call) = RegistrationScope(t) /\ RegistrationScope(t) # "none"
    BY <2>1, ToolScopes
  <2>4. Preflight(conf, call, actor[c]) = Pass <=>
          /\ ~(actor[c].kind = "bearer" /\ McpPreflightScope(call) # "none"
                 /\ McpPreflightScope(call) \notin actor[c].scopes
                 /\ ~(call.h.method \in Listing /\ "verify" \in actor[c].scopes))
    BY <2>1, PreflightFacts
  <2> QED
    BY <2>1, <2>2, <2>3, <2>4 DEF call
<1> QED
  BY <1>3 DEF VisibleTools

LEMMA InvNamesTheScope ==
    ASSUME Inv
    PROVE  ChallengeNamesTheScope
<1> SUFFICES ASSUME NEW c \in Conns, req[c].route = "mcp"
             PROVE  Preflight(conf, req[c], [kind |-> "bearer",
                                             scopes |-> {McpScope(req[c].h)}]) = Pass
  BY DEF ChallengeNamesTheScope
<1> DEFINE again == [kind |-> "bearer", scopes |-> {McpScope(req[c].h)}]
<1>1. McpPreflightScope(req[c]) = "none" \/ McpPreflightScope(req[c]) \in again.scopes
  BY HeaderScopes
<1> HIDE DEF again
<1>2. Preflight(conf, req[c], again) = Pass
  BY <1>1, PreflightFacts
<1> QED
  BY <1>2 DEF again

LEMMA InvTellsTheTruth ==
    ASSUME Inv
    PROVE  AnswerIsTrue
<1>1. TypeOK
  <2>1. \A c \in Conns : /\ (req[c] = NoRequest) <=> (pc[c] = "idle")
                         /\ actor[c].kind \in {"none", "anonymous", "session", "bearer"}
                         /\ ans[c].retry \in BOOLEAN
    BY DEF Inv, StageOK, Stage, ToldOK, Told
  <2> QED
    BY <2>1 DEF Inv, Shapes, WithinCapacity, TypeOK
<1>2. RetryMeansNothingDone
  BY DEF Inv, ToldOK, Told, RetryMeansNothingDone
<1>3. StalledIsUnavailable
  BY DEF Inv, ReadingOK, Reading, StalledIsUnavailable
<1>4. CountedAsDone
  BY DEF Inv, ToldOK, Told, CountedAsDone
<1> QED
  BY <1>1, <1>2, <1>3, <1>4 DEF AnswerIsTrue

LEMMA InvContainsStalls ==
    ASSUME Inv
    PROVE  SlotHeldBriefly /\ OnlyOwnDeadline
<1>1. SlotHeldBriefly
  BY DEF Inv, ReadingOK, Reading, SlotHeldBriefly
<1>2. OnlyOwnDeadline
  BY DEF Inv, ReadingOK, Reading, OnlyOwnDeadline
<1> QED
  BY <1>1, <1>2

\* Whatever is carried out was asked for by a caller entitled to it by
\* exactly one credential, however requests interleave.
\* (credentialDispatchMiddleware, preflightBearerRoute, serveMCP)
THEOREM OnlyTheEntitledAct == Spec => []ExecutedIsEntitled
  BY HttpApiInvariance, InvEntitles, PTL

\* Nothing is done for a page of another site, and no cookie alone
\* authenticates a POST.  (corsMiddleware, csrfMiddleware)
THEOREM OtherSitesCannotAct == Spec => []CrossSiteCannotAct
  BY HttpApiInvariance, InvSeparatesSites, PTL

\* The MCP tool that runs is the one whose scope was checked, tools/list shows
\* exactly the tools that may be called, for every set of scopes, and a refused
\* call is told the scope it needs: the scopes of registration, of the
\* preflights and of the headers' table agree entry by entry.
\* (validateMCPNameMirror, mcpTools, serveMCP, mcpHeaderRequiredScope)
THEOREM McpStaysConsistent == Spec => []McpIsConsistent
<1>1. Inv => McpIsConsistent
  BY InvChecksTools, InvListsTools, InvNamesTheScope DEF McpIsConsistent
<1> QED
  BY <1>1, HttpApiInvariance, PTL

\* Retry-After, the status of a stalled body and the outcome counted say
\* what happened, and no pool of slots is overdrawn.
\* (writeOperationAdmissionSaturated, readRequestBody, operationOutcome)
THEOREM AnswersAreTrue == Spec => []AnswerIsTrue
  BY HttpApiInvariance, InvTellsTheTruth, PTL

\* A stalled body keeps its slot no longer than the application deadline,
\* and only the reading request's own watcher or the server's timeout ends
\* the read, for every setting of the two.  (readRequestBody)
THEOREM StallsAreContained == Spec => [](SlotHeldBriefly /\ OnlyOwnDeadline)
  BY HttpApiInvariance, InvContainsStalls, PTL
=============================================================================
