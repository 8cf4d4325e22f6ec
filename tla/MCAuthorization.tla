--------------------------- MODULE MCAuthorization ---------------------------
EXTENDS Authorization, TLC

TwoProfiles == <<"a", "b">>

Rule(r, o, a, e) == [role |-> r, object |-> o, action |-> a, effect |-> e]

\* rows of a policy file; "c" is not configured, the selector matches a and c
ListRule == Rule("user", <<"profiles">>, "profiles:list", "allow")
RuleRows == {ListRule,
             Rule("user", <<"prefix", {"a", "c"}>>, "encrypt", "allow"),
             Rule("admin", <<"profile", "a">>, "encrypt", "deny"),
             Rule("admin", <<"profile", "b">>, "decrypt", "allow"),
             Rule("user", <<"rotation", "a", "b">>, "rotate", "allow"),
             Rule("admin", <<"rotation", "b", "a">>, "rotate", "allow")}
Members == {{<<"g", "user">>}, {<<"g", "user">>, <<"h", "admin">>}}
Parents == {{}, {<<"user", "admin">>}, {<<"user", "admin">>, <<"admin", "user">>}}

Policy(rules, members, parents) ==
    [readable |-> TRUE, rules |-> rules, groupRoles |-> members, parents |-> parents]

AllPolicies ==
    {Policy(rules, members, parents) :
       rules \in SUBSET RuleRows, members \in Members, parents \in Parents}

Open == Policy(RuleRows, {<<"g", "user">>}, {})
Closed == Policy({ListRule}, {<<"g", "user">>}, {})
Wrong == Policy({Rule("user", <<"profile", "c">>, "encrypt", "allow")}, {}, {})
FewPolicies == {Open, Closed, Wrong, Unreadable}

Actor(kind, groups, scopes) == [kind |-> kind, groups |-> groups, scopes |-> scopes]
Scopes == {"vaultsmith.profile.read", "vaultsmith.encrypt", "vaultsmith.decrypt",
           "vaultsmith.rotate"}
AllActors == {Actor("anonymous", {}, {}), Actor("session", {"g"}, {}),
              Actor("session", {"g", "h"}, {}), Actor("bearer", {"h"}, Scopes),
              Actor("bearer", {"g"}, {"vaultsmith.profile.read", "vaultsmith.decrypt"}),
              Actor("bearer", {"g"}, {})}
OneActor == {Actor("session", {"g"}, {})}

Command(op, p, s, t, value, attested) ==
    [op |-> op, profile |-> p, source |-> s, destination |-> t, value |-> value,
     attested |-> attested]
AllCommands ==
    {Command(op, p, None, None, v, FALSE) :
       op \in {"encrypt", "decrypt"}, p \in {"a", "b", "c"}, v \in {"good", "large", "bad"}}
    \cup {Command("rotate", None, "a", t, v, att) :
            t \in {"a", "b", "c"}, v \in {"good", "large"}, att \in BOOLEAN}
    \cup {Command("rotate", "a", "a", "b", "good", FALSE),
          Command("encrypt", "a", None, None, "good", TRUE)}
FewCommands == {Command("encrypt", "a", None, None, "good", FALSE),
                Command("rotate", None, "a", "b", "large", FALSE)}

\* Every policy and every command, one request at a time, the file as it is;
\* and two requests at once while the file is replaced twice.
TwoDeployments ==
    [still |-> [policies |-> AllPolicies, actors |-> AllActors, commands |-> AllCommands,
                attest |-> FALSE, atOnce |-> 1, writes |-> 0],
     reloading |-> [policies |-> FewPolicies, actors |-> OneActor, commands |-> FewCommands,
                    attest |-> TRUE, atOnce |-> 2, writes |-> 2]]

Symmetry == Permutations(Requests)
=============================================================================
