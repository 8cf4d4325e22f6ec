---------------------------- MODULE Authorization ----------------------------
(***************************************************************************)
(* Who may do what: the policy file and its reloading                      *)
(* (backend/internal/authz/authorizer.go), the callers' kinds and scopes   *)
(* (backend/internal/caller/caller.go) and the service's profile listing   *)
(* and preparation of an operation (backend/internal/vaultservice/         *)
(* service.go).  Requests run concurrently with an operator who rewrites   *)
(* the policy file; reading the loaded policy, stat, load and store are    *)
(* separate steps.  A name is a member of a small set; a selector ending   *)
(* in "*" is the set of profile ids it matches.                            *)
(***************************************************************************)
EXTENDS Integers, Sequences, FiniteSets

CONSTANTS Requests,   \* requests being served
          ProfileSeq, \* the configured profiles, in order
          Deployments \* by name: what the operator may write to the policy
                      \* file and how often, whether attestations are enabled,
                      \* how many requests are served at a time, the callers
                      \* [kind, groups, scopes] and their commands
                      \* [op, profile, source, destination, value, attested]

None == "none"
Configured == {ProfileSeq[i] : i \in DOMAIN ProfileSeq}
N == Len(ProfileSeq)

ASSUME AuthorizationAssumption ==
    /\ ProfileSeq \in Seq(Configured)
    /\ None \notin Configured
    /\ \A d \in DOMAIN Deployments :
          /\ Deployments[d].writes \in Nat /\ Deployments[d].atOnce \in Nat
          /\ Deployments[d].attest \in BOOLEAN
          \* a row that names a parent names two roles
          /\ \A p \in Deployments[d].policies : \A e \in p.parents : e = <<e[1], e[2]>>

VARIABLES
    deployment,\* the deployment, fixed at the start
    contents,  \* what each version of the policy file says
    version,   \* the version of the file on disk
    loaded,    \* Authorizer.policy: [stamp, version]
    pc,        \* where each request is
    job        \* what it asks and what it has got so far

vars == <<deployment, contents, version, loaded, pc, job>>

Deployed == Deployments[deployment]

-----------------------------------------------------------------------------
(* Policies: the file's rows and validatePolicy.                           *)

\* a file that is missing, or that does not parse
Unreadable == [readable |-> FALSE, rules |-> {}, groupRoles |-> {}, parents |-> {}]

ProfileResource(p) == <<"profile", p>>
RotationResource(s, t) == <<"rotation", s, t>>
ResourceProfiles == <<"profiles">>

ValidObject(object, action) ==
    CASE action = "rotate" ->
            /\ object[1] = "rotation"
            /\ {object[2], object[3]} \subseteq Configured
      [] action = "profiles:list" -> object = ResourceProfiles
      [] OTHER ->
            \/ object[1] = "profile" /\ object[2] \in Configured
            \/ object[1] = "prefix" /\ object[2] \cap Configured # {}

KnownRoles(p) ==
    {r.role : r \in p.rules} \cup UNION {{e[1], e[2]} : e \in p.parents}

\* LoadPolicy and validatePolicy
ValidPolicy(p) ==
    /\ p.readable
    /\ \A r \in p.rules : /\ r.effect \in {"allow", "deny"}
                          /\ ValidObject(r.object, r.action)
    /\ \A e, f \in p.parents : /\ e[1] = f[1] => e = f
                               /\ e[2] # f[1]
    /\ {g[2] : g \in p.groupRoles} \subseteq KnownRoles(p)

-----------------------------------------------------------------------------
(* authorizeWithPolicy.                                                    *)

\* rolesForGroups: the roles of the groups and, one level up, their parents
RolesForGroups(p, groups) ==
    LET direct == {g[2] : g \in {m \in p.groupRoles : m[1] \in groups}}
    IN direct \cup {e[2] : e \in {q \in p.parents : q[1] \in direct}}

MatchesPolicyObject(resource, object) ==
    IF object[1] = "prefix"
    THEN resource[1] = "profile" /\ resource[2] \in object[2]
    ELSE resource = object

\* the effect of model.conf: some allow and no deny
Enforce(p, roles, check) ==
    LET effects == {r.effect : r \in
                      {s \in p.rules : /\ s.role \in roles
                                       /\ s.action = check.action
                                       /\ MatchesPolicyObject(check.resource,
                                                              s.object)}}
    IN "allow" \in effects /\ "deny" \notin effects

AuthorizeWithPolicy(p, actor, check) ==
    LET roles == RolesForGroups(p, actor.groups)
    IN roles # {} /\ Enforce(p, roles, check)

\* Evaluate: all checks against one policy
Evaluate(p, actor, checks) ==
    [i \in DOMAIN checks |-> AuthorizeWithPolicy(p, actor, checks[i])]

-----------------------------------------------------------------------------
(* The service's checks.                                                   *)

Scope(op) == CASE op = "encrypt" -> "vaultsmith.encrypt"
               [] op = "decrypt" -> "vaultsmith.decrypt"
               [] op = "rotate" -> "vaultsmith.rotate"
               [] op = "list" -> "vaultsmith.profile.read"

HasScope(actor, op) == actor.kind = "bearer" => Scope(op) \in actor.scopes

Check(a, r) == [action |-> a, resource |-> r]

OperationCheck(c) ==
    Check(c.op, IF c.op = "rotate" THEN RotationResource(c.source, c.destination)
                                   ELSE ProfileResource(c.profile))

\* ListProfiles: the catalog, each profile's two rights, then every pair
ListChecks ==
    [i \in 1..(1 + 2 * N + N * N) |->
       CASE i = 1 -> Check("profiles:list", ResourceProfiles)
         [] i \in 2..(1 + 2 * N) ->
               Check(IF i % 2 = 0 THEN "encrypt" ELSE "decrypt",
                     ProfileResource(ProfileSeq[i \div 2]))
         [] OTHER -> LET k == i - 2 - 2 * N
                     IN Check("rotate",
                              RotationResource(ProfileSeq[(k \div N) + 1],
                                               ProfileSeq[(k % N) + 1]))]

PairIndex(s, t) == 2 + 2 * N + (s - 1) * N + (t - 1)

Capabilities(actor, allowed, i) ==
    LET pairs == {st \in (1..N) \X (1..N) :
                    allowed[PairIndex(st[1], st[2])] /\ HasScope(actor, "rotate")}
    IN [profile |-> ProfileSeq[i],
        encrypt |-> allowed[2 * i] /\ HasScope(actor, "encrypt"),
        decrypt |-> allowed[2 * i + 1] /\ HasScope(actor, "decrypt"),
        rotateSource |-> \E t \in 1..N : <<i, t>> \in pairs,
        rotateDestination |-> \E s \in 1..N : <<s, i>> \in pairs,
        destinations |-> {ProfileSeq[t] : t \in {u \in 1..N : <<i, u>> \in pairs}}]

\* Mutant of Visible: a profile that is only a destination is not shown.
VisibleAsSource(cap) == cap.encrypt \/ cap.decrypt \/ cap.rotateSource

\* ProfileCapabilities.any
Visible(cap) ==
    cap.encrypt \/ cap.decrypt \/ cap.rotateSource \/ cap.rotateDestination

\* the listing an authenticated caller gets under a policy
Listing(p, actor) ==
    LET allowed == Evaluate(p, actor, ListChecks)
    IN IF ~allowed[1] THEN {}
       ELSE {cap \in {Capabilities(actor, allowed, i) : i \in 1..N} : Visible(cap)}

EveryRight(i) ==
    [profile |-> ProfileSeq[i], encrypt |-> TRUE, decrypt |-> TRUE,
     rotateSource |-> TRUE, rotateDestination |-> TRUE,
     destinations |-> Configured]

-----------------------------------------------------------------------------
(* Prepare: the checks on a command apart from its lease.                  *)

WellShaped(c) ==
    IF c.op = "rotate"
    THEN c.profile = None /\ c.source # None /\ c.destination # None
    ELSE /\ c.op \in {"encrypt", "decrypt"}
         /\ c.profile # None /\ c.source = None /\ c.destination = None

NeededProfiles(c) ==
    IF c.op = "rotate" THEN {c.source, c.destination} ELSE {c.profile}

\* what is found out before the policy is asked; "ask" when it is to be asked
BeforePolicy(actor, c) ==
    CASE c.attested /\ c.op # "rotate" -> "invalid_request"
      [] c.attested /\ c.op = "rotate" /\ ~Deployed.attest -> "feature_unavailable"
      [] ~(c.attested /\ (c.op # "rotate" \/ ~Deployed.attest)) /\ ~WellShaped(c) ->
            "invalid_request"
      [] OTHER -> IF actor.kind = "anonymous" THEN "resolve"
                  ELSE IF HasScope(actor, c.op) THEN "ask" ELSE "forbidden"

\* resolveCommand and validateCommandValue
AfterPolicy(actor, c) ==
    CASE ~(NeededProfiles(c) \subseteq Configured) ->
            IF actor.kind = "anonymous" THEN "not_found" ELSE "forbidden"
      [] NeededProfiles(c) \subseteq Configured /\ c.value # "good" ->
            IF c.value = "large" THEN "too_large" ELSE "invalid_request"
      [] OTHER -> "prepared"

\* Mutant of Prepared: the command is looked at before the policy's decision.
PreparedEarly(p, actor, c) ==
    IF AfterPolicy(actor, c) # "prepared" THEN AfterPolicy(actor, c)
    ELSE IF Evaluate(p, actor, <<OperationCheck(c)>>)[1] THEN "prepared"
    ELSE "denied"

\* what Prepare answers once the policy is there
Prepared(p, actor, c) ==
    IF Evaluate(p, actor, <<OperationCheck(c)>>)[1] THEN AfterPolicy(actor, c)
    ELSE "denied"

-----------------------------------------------------------------------------
(* Requests.                                                               *)

NoActor == [kind |-> None, groups |-> {}, scopes |-> {}]
NoJob == [actor |-> NoActor, command |-> [op |-> None], since |-> 0, policy |-> [stamp |-> 0,
          version |-> 0], answer |-> None, listing |-> {}]

Goto(r, l) == pc' = [pc EXCEPT ![r] = l]
Update(r, j) == job' = [job EXCEPT ![r] = j]

Finish(r, answer, listing) ==
    /\ Goto(r, "done")
    /\ Update(r, [job[r] EXCEPT !.answer = answer, !.listing = listing])

\* PreflightProfiles and the start of ListProfiles
BeginList(r, actor) ==
    /\ pc[r] = "idle"
    /\ LET begun == [NoJob EXCEPT !.actor = actor, !.command = [op |-> "list"],
                                  !.since = version]
       IN CASE actor.kind = "anonymous" ->
                 /\ Update(r, [begun EXCEPT !.answer = "listed",
                              !.listing = {EveryRight(i) : i \in 1..N}])
                 /\ Goto(r, "done")
            [] actor.kind # "anonymous" /\ ~HasScope(actor, "list") ->
                 /\ Update(r, [begun EXCEPT !.answer = "forbidden"])
                 /\ Goto(r, "done")
            [] OTHER -> Update(r, begun) /\ Goto(r, "policy")
    /\ UNCHANGED <<contents, version, loaded>>

BeginPrepare(r, actor, c) ==
    /\ pc[r] = "idle"
    /\ LET begun == [NoJob EXCEPT !.actor = actor, !.command = c,
                                  !.since = version]
           before == BeforePolicy(actor, c)
       IN CASE before = "ask" -> Update(r, begun) /\ Goto(r, "policy")
            [] before = "resolve" ->
                 /\ Update(r, [begun EXCEPT !.answer = AfterPolicy(actor, c)])
                 /\ Goto(r, "done")
            [] OTHER -> /\ Update(r, [begun EXCEPT !.answer = before])
                        /\ Goto(r, "done")
    /\ UNCHANGED <<contents, version, loaded>>

\* currentPolicy: the loaded policy, under the read lock
ReadLoaded(r) ==
    /\ pc[r] = "policy"
    /\ Update(r, [job[r] EXCEPT !.policy = loaded])
    /\ Goto(r, "stat")
    /\ UNCHANGED <<contents, version, loaded>>

\* Mutant of StatFile: the file is not looked at again.
StatNothing(r) ==
    /\ pc[r] = "stat"
    /\ Goto(r, "decide")
    /\ UNCHANGED <<contents, version, loaded, job>>

\* os.Stat: same modification time and size, or load again
StatFile(r) ==
    /\ pc[r] = "stat"
    /\ Goto(r, IF job[r].policy.stamp = version THEN "decide" ELSE "loadstat")
    /\ UNCHANGED <<contents, version, loaded, job>>

\* LoadPolicy: stat first, then the rows
LoadStat(r) ==
    /\ pc[r] = "loadstat"
    /\ Update(r, [job[r] EXCEPT !.policy.stamp = version])
    /\ Goto(r, "loadread")
    /\ UNCHANGED <<contents, version, loaded>>

LoadRead(r) ==
    /\ pc[r] = "loadread"
    /\ IF ValidPolicy(contents[version])
       THEN /\ Update(r, [job[r] EXCEPT !.policy.version = version])
            /\ Goto(r, "store")
       ELSE Finish(r, "not_ready", {})
    /\ UNCHANGED <<contents, version, loaded>>

\* stat of a missing file
StatFails(r) ==
    /\ pc[r] \in {"stat", "loadstat"}
    /\ ~contents[version].readable
    /\ Finish(r, "not_ready", {})
    /\ UNCHANGED <<contents, version, loaded>>

Store(r) ==
    /\ pc[r] = "store"
    /\ loaded' = job[r].policy
    /\ Goto(r, "decide")
    /\ UNCHANGED <<contents, version, job>>

Decide(r) ==
    /\ pc[r] = "decide"
    /\ LET p == contents[job[r].policy.version]
           j == job[r]
       IN IF j.command.op = "list"
          THEN Finish(r, "listed", Listing(p, j.actor))
          ELSE Finish(r, Prepared(p, j.actor, j.command), {})
    /\ UNCHANGED <<contents, version, loaded>>

\* the context ends: the caller is told to come again
GiveUp(r) ==
    /\ pc[r] \notin {"idle", "done"}
    /\ Finish(r, "temporarily_unavailable", {})
    /\ UNCHANGED <<contents, version, loaded>>

Leave(r) ==
    /\ pc[r] = "done"
    /\ Goto(r, "idle")
    /\ Update(r, NoJob)
    /\ UNCHANGED <<contents, version, loaded>>

\* the operator replaces the file; every version has its own time or size
Write(p) ==
    /\ version <= Deployed.writes
    /\ version' = version + 1
    /\ contents' = [contents EXCEPT ![version + 1] = p]
    /\ UNCHANGED <<loaded, pc, job>>

\* the server starts only with a policy that loads
Init ==
    /\ deployment \in DOMAIN Deployments
    /\ contents \in {[v \in 1..(Deployed.writes + 1) |-> IF v = 1 THEN p ELSE Unreadable] :
                       p \in {q \in Deployed.policies : ValidPolicy(q)}}
    /\ version = 1
    /\ loaded = [stamp |-> 1, version |-> 1]
    /\ pc = [r \in Requests |-> "idle"]
    /\ job = [r \in Requests |-> NoJob]

\* another request may come in
Room == Cardinality({r \in Requests : pc[r] # "idle"}) < Deployed.atOnce

Next ==
  /\ UNCHANGED deployment
  /\ \/ \E r \in Requests :
          \/ Room /\ \E a \in Deployed.actors :
                \/ BeginList(r, a)
                \/ \E c \in Deployed.commands : BeginPrepare(r, a, c)
          \/ ReadLoaded(r) \/ StatFile(r) \/ LoadStat(r) \/ LoadRead(r)
          \/ StatFails(r) \/ Store(r) \/ Decide(r) \/ GiveUp(r) \/ Leave(r)
     \/ \E p \in Deployed.policies : Write(p)

Spec == Init /\ [][Next]_vars

-----------------------------------------------------------------------------
(* Properties.                                                             *)

\* The versions of the file that were on disk while a request was served.
Window(r) == job[r].since..version

\* What the policy file says, read as a document: a caller with a group that
\* has a role, or a role whose parent, is allowed and nowhere denied.
Granted(p, actor, check) ==
    LET has(role) == \E m \in p.groupRoles :
                        /\ m[1] \in actor.groups
                        /\ m[2] = role \/ <<m[2], role>> \in p.parents
        says(effect) == \E r \in p.rules :
                           /\ has(r.role) /\ r.effect = effect
                           /\ r.action = check.action
                           /\ MatchesPolicyObject(check.resource, r.object)
    IN says("allow") /\ ~says("deny")

\* The right to an operation: the scope of a token and the policy's grant.
May(p, actor, op, resource) ==
    HasScope(actor, op) /\ Granted(p, actor, Check(op, resource))

\* The variables have the shapes the code gives them, and the loaded policy is
\* never older than the file's time recorded with it.
TypeOK ==
    /\ version \in 1..(Deployed.writes + 1)
    /\ loaded.stamp \in 1..loaded.version
    /\ loaded.version <= version
    /\ ValidPolicy(contents[loaded.version])
    /\ \A r \in Requests :
          /\ pc[r] \in {"idle", "policy", "stat", "loadstat", "loadread", "store",
                        "decide", "done"}
          /\ job[r].since <= version

\* Every decision on an authenticated caller's operation is the decision of a
\* policy that was in the file while the request was served, however reloads
\* interleave; without a valid one at some time in it, nothing is denied or
\* refused for want of a policy (currentPolicy, Evaluate).
DecisionIsCurrent ==
    /\ TypeOK
    /\ \A r \in Requests :
       LET actor == job[r].actor
           check == OperationCheck(job[r].command)
       IN /\ job[r].answer = "prepared" /\ actor.kind # "anonymous" =>
                \E v \in Window(r) :
                   /\ ValidPolicy(contents[v])
                   /\ May(contents[v], actor, check.action, check.resource)
          /\ job[r].answer = "denied" =>
                \E v \in Window(r) : /\ ValidPolicy(contents[v])
                                     /\ ~Granted(contents[v], actor, check)
          /\ job[r].answer = "not_ready" =>
                \E v \in Window(r) : ~ValidPolicy(contents[v])

\* What a caller may do with a profile under a policy, right by right.
Rights(p, actor, q) ==
    LET to == {t \in Configured : May(p, actor, "rotate", RotationResource(q, t))}
        from == {s \in Configured : May(p, actor, "rotate", RotationResource(s, q))}
    IN [profile |-> q,
        encrypt |-> May(p, actor, "encrypt", ProfileResource(q)),
        decrypt |-> May(p, actor, "decrypt", ProfileResource(q)),
        rotateSource |-> to # {}, rotateDestination |-> from # {}, destinations |-> to]

NoRights(q) ==
    [profile |-> q, encrypt |-> FALSE, decrypt |-> FALSE, rotateSource |-> FALSE,
     rotateDestination |-> FALSE, destinations |-> {}]

\* The whole listing: every configured profile with a right, if the caller
\* may list profiles, and no other.
RightListing(p, actor) ==
    {entry \in {Rights(p, actor, q) : q \in Configured} :
        /\ Granted(p, actor, Check("profiles:list", ResourceProfiles))
        /\ entry # NoRights(entry.profile)}

\* A listing is exactly what preparing each operation would grant under one
\* policy that was in the file meanwhile: no configured profile with a right
\* is missing, none without one is shown, and each comes with every right and
\* every directed pair it has and no other; a caller who may not list profiles
\* sees none (ListProfiles, its index arithmetic included).
ListingIsPrepared ==
    \A r \in Requests :
       job[r].answer = "listed" /\ job[r].actor.kind # "anonymous" =>
          \E v \in Window(r) :
             /\ ValidPolicy(contents[v])
             /\ job[r].listing = RightListing(contents[v], job[r].actor)

\* Whether a profile exists and whether a value is acceptable is told only to
\* callers the policy lets through; an authenticated caller never learns that
\* a profile does not exist (the order of the checks in Prepare).
StrangersLearnNothing ==
    \A r \in Requests :
       job[r].actor.kind \notin {None, "anonymous"} =>
          /\ job[r].answer # "not_found"
          /\ job[r].answer = "too_large" =>
                \E v \in Window(r) :
                   Granted(contents[v], job[r].actor, OperationCheck(job[r].command))

=============================================================================
