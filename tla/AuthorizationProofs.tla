------------------------- MODULE AuthorizationProofs -------------------------
(***************************************************************************)
(* Theorems about Authorization, for every policy file, every sequence of  *)
(* its replacements, every set of callers and commands and any number of   *)
(* profiles and concurrent requests.                                       *)
(***************************************************************************)
EXTENDS Authorization, TLAPS

-----------------------------------------------------------------------------
(* What the policy's evaluation computes.                                  *)

\* A row that names a parent names two roles.
Rows(p) == \A e \in p.parents : e = <<e[1], e[2]>>

\* rolesForGroups finds exactly the roles a group has or inherits.
LEMMA RolesFound ==
    ASSUME NEW p, Rows(p), NEW groups, NEW role
    PROVE  role \in RolesForGroups(p, groups) <=>
             \E m \in p.groupRoles :
                m[1] \in groups /\ (m[2] = role \/ <<m[2], role>> \in p.parents)
<1> DEFINE direct == {g[2] : g \in {m \in p.groupRoles : m[1] \in groups}}
<1>1. RolesForGroups(p, groups)
        = direct \cup {e[2] : e \in {q \in p.parents : q[1] \in direct}}
  BY DEF RolesForGroups
<1>2. ASSUME NEW e \in p.parents, e[1] \in direct, role = e[2]
      PROVE  \E m \in p.groupRoles : m[1] \in groups /\ <<m[2], role>> \in p.parents
  <2>1. PICK m \in p.groupRoles : m[1] \in groups /\ e[1] = m[2]
    BY <1>2
  <2> QED
    BY <1>2, <2>1 DEF Rows
<1>3. ASSUME NEW m \in p.groupRoles, m[1] \in groups, <<m[2], role>> \in p.parents
      PROVE  role \in {e[2] : e \in {q \in p.parents : q[1] \in direct}}
  <2>1. m[2] \in direct
    BY <1>3
  <2>2. <<m[2], role>>[1] = m[2] /\ <<m[2], role>>[2] = role
    OBVIOUS
  <2> QED
    BY <1>3, <2>1, <2>2
<1> QED
  BY <1>1, <1>2, <1>3

\* What authorizeWithPolicy computes in three passes is what the file says
\* when it is read as a document: allowed somewhere and denied nowhere.
LEMMA AuthorizedIsGranted ==
    ASSUME NEW p, Rows(p), NEW who, NEW check
    PROVE  AuthorizeWithPolicy(p, who, check) <=> Granted(p, who, check)
<1> DEFINE roles == RolesForGroups(p, who.groups)
           has(role) == \E m \in p.groupRoles :
                           /\ m[1] \in who.groups
                           /\ m[2] = role \/ <<m[2], role>> \in p.parents
           found == {s \in p.rules : /\ s.role \in roles
                                     /\ s.action = check.action
                                     /\ MatchesPolicyObject(check.resource, s.object)}
           says(effect) == \E r \in p.rules :
                              /\ has(r.role) /\ r.effect = effect
                              /\ r.action = check.action
                              /\ MatchesPolicyObject(check.resource, r.object)
<1>1. \A role : role \in roles <=> has(role)
  BY RolesFound
<1>2. \A effect : effect \in {r.effect : r \in found} <=> says(effect)
  BY <1>1
<1>3. says("allow") => roles # {}
  BY <1>1
<1>4. AuthorizeWithPolicy(p, who, check)
        <=> /\ roles # {}
            /\ "allow" \in {r.effect : r \in found} /\ "deny" \notin {r.effect : r \in found}
  BY DEF AuthorizeWithPolicy, Enforce
<1>5. Granted(p, who, check) <=> says("allow") /\ ~says("deny")
  BY DEF Granted
<1> QED
  BY <1>2, <1>3, <1>4, <1>5

-----------------------------------------------------------------------------
(* The index arithmetic of ListProfiles.                                   *)

LEMMA ProfileFacts ==
    /\ N \in Nat
    /\ DOMAIN ProfileSeq = 1..N
    /\ \A i \in 1..N : ProfileSeq[i] \in Configured
    /\ \A q \in Configured : \E i \in 1..N : ProfileSeq[i] = q
<1>1. ProfileSeq \in Seq(Configured)
  BY AuthorizationAssumption
<1>2. N \in Nat /\ DOMAIN ProfileSeq = 1..N
  BY <1>1 DEF N
<1> QED
  BY <1>1, <1>2 DEF Configured

\* A number below n * n is a row and a column of n.
LEMMA RowAndColumn ==
    ASSUME NEW n \in Nat, NEW a \in 0..(n - 1), NEW b \in 0..(n - 1)
    PROVE  /\ a * n + b \in 0..(n * n - 1)
           /\ (a * n + b) \div n = a
           /\ (a * n + b) % n = b
<1> DEFINE x == a * n + b
           q == x \div n
           r == x % n
<1>1. n \in Int /\ n > 0 /\ a \in Int /\ b \in Int /\ a >= 0 /\ b >= 0 /\ b < n /\ a <= n - 1
  OBVIOUS
<1>2. a * n \in Int /\ a * n >= 0 /\ a * n <= (n - 1) * n /\ (n - 1) * n = n * n - n
  BY <1>1
<1>3. x \in Int /\ x >= 0 /\ x <= n * n - 1
  BY <1>1, <1>2
<1>4. q \in Int /\ r \in Int /\ x = n * q + r /\ 0 <= r /\ r < n
  BY <1>1, <1>3
<1>5. q = a
  <2>1. CASE q > a
    <3>1. n * q >= n * (a + 1) /\ n * (a + 1) = a * n + n
      BY <1>1, <1>4, <2>1
    <3> QED
      BY <1>1, <1>2, <1>4, <3>1
  <2>2. CASE q < a
    <3>1. n * (q + 1) <= n * a /\ n * (q + 1) = n * q + n /\ n * a = a * n
      BY <1>1, <1>4, <2>2
    <3> QED
      BY <1>1, <1>2, <1>4, <3>1
  <2> QED
    BY <1>1, <1>4, <2>1, <2>2
<1>6. r = b
  <2>1. n * q = a * n
    BY <1>1, <1>5
  <2> HIDE DEF q, r
  <2> QED
    BY <1>1, <1>2, <1>4, <2>1
<1> QED
  BY <1>3, <1>5, <1>6

\* Which check the listing makes at each index it reads.
LEMMA ListIndices ==
    /\ DOMAIN ListChecks = 1..(1 + 2 * N + N * N)
    /\ 1 \in DOMAIN ListChecks
    /\ ListChecks[1] = Check("profiles:list", ResourceProfiles)
    /\ \A i \in 1..N :
          /\ 2 * i \in DOMAIN ListChecks /\ 2 * i + 1 \in DOMAIN ListChecks
          /\ ListChecks[2 * i] = Check("encrypt", ProfileResource(ProfileSeq[i]))
          /\ ListChecks[2 * i + 1] = Check("decrypt", ProfileResource(ProfileSeq[i]))
    /\ \A i, j \in 1..N :
          /\ PairIndex(i, j) \in DOMAIN ListChecks
          /\ ListChecks[PairIndex(i, j)]
               = Check("rotate", RotationResource(ProfileSeq[i], ProfileSeq[j]))
<1>0. N \in Nat /\ N * N \in Nat
  BY ProfileFacts
<1>1. DOMAIN ListChecks = 1..(1 + 2 * N + N * N)
  BY DEF ListChecks
<1>2. 1 \in DOMAIN ListChecks /\ ListChecks[1] = Check("profiles:list", ResourceProfiles)
  BY <1>0 DEF ListChecks
<1>3. ASSUME NEW i \in 1..N
      PROVE  /\ 2 * i \in DOMAIN ListChecks /\ 2 * i + 1 \in DOMAIN ListChecks
             /\ ListChecks[2 * i] = Check("encrypt", ProfileResource(ProfileSeq[i]))
             /\ ListChecks[2 * i + 1] = Check("decrypt", ProfileResource(ProfileSeq[i]))
  <2>1. 2 * i \in 2..(1 + 2 * N) /\ 2 * i + 1 \in 2..(1 + 2 * N)
    BY <1>0
  <2>2. 2 * i \in 1..(1 + 2 * N + N * N) /\ 2 * i + 1 \in 1..(1 + 2 * N + N * N)
    BY <1>0, <2>1
  <2>3. (2 * i) % 2 = 0 /\ (2 * i) \div 2 = i /\ (2 * i + 1) % 2 = 1 /\ (2 * i + 1) \div 2 = i
    BY <1>0
  <2>4. 2 * i # 1 /\ 2 * i + 1 # 1
    BY <1>0
  <2>5. ListChecks[2 * i] = Check("encrypt", ProfileResource(ProfileSeq[i]))
    BY <2>1, <2>2, <2>3, <2>4 DEF ListChecks
  <2>6. ListChecks[2 * i + 1] = Check("decrypt", ProfileResource(ProfileSeq[i]))
    BY <2>1, <2>2, <2>3, <2>4 DEF ListChecks
  <2> QED
    BY <1>1, <2>2, <2>5, <2>6
<1>4. ASSUME NEW i \in 1..N, NEW j \in 1..N
      PROVE  /\ PairIndex(i, j) \in DOMAIN ListChecks
             /\ ListChecks[PairIndex(i, j)]
                  = Check("rotate", RotationResource(ProfileSeq[i], ProfileSeq[j]))
  <2> DEFINE x == PairIndex(i, j)
             k == (i - 1) * N + (j - 1)
  <2>1. i - 1 \in 0..(N - 1) /\ j - 1 \in 0..(N - 1)
    BY <1>0
  <2>2. k \in 0..(N * N - 1) /\ k \div N = i - 1 /\ k % N = j - 1
    BY <1>0, <2>1, RowAndColumn
  <2>3. (i - 1) * N \in Int
    BY <1>0
  <2>4. x - 2 - 2 * N = k /\ x = k + 2 + 2 * N
    BY <1>0, <2>3 DEF PairIndex
  <2> HIDE DEF x, k
  <2>5. x \in 1..(1 + 2 * N + N * N) /\ x # 1 /\ x \notin 2..(1 + 2 * N)
    BY <1>0, <2>2, <2>4
  <2>6. ListChecks[x] = LET m == x - 2 - 2 * N
                        IN Check("rotate", RotationResource(ProfileSeq[(m \div N) + 1],
                                                            ProfileSeq[(m % N) + 1]))
    BY <2>5 DEF ListChecks
  <2>7. (i - 1) + 1 = i /\ (j - 1) + 1 = j
    BY <1>0
  <2>8. ListChecks[x] = Check("rotate", RotationResource(ProfileSeq[i], ProfileSeq[j]))
    BY <2>2, <2>4, <2>6, <2>7
  <2> QED
    BY <1>1, <2>5, <2>8 DEF x
<1> QED
  BY <1>1, <1>2, <1>3, <1>4

\* A listing names every profile with a right, with exactly the rights that
\* the policy and the caller's scopes give, every pair in its direction.
LEMMA ListingIsRight ==
    ASSUME NEW p, Rows(p), NEW who
    PROVE  Listing(p, who) = RightListing(p, who)
<1> DEFINE allowed == Evaluate(p, who, ListChecks)
<1>1. \A i \in DOMAIN ListChecks :
         /\ allowed[i] \in BOOLEAN
         /\ allowed[i] <=> Granted(p, who, ListChecks[i])
  <2> SUFFICES ASSUME NEW i \in DOMAIN ListChecks
               PROVE  /\ allowed[i] \in BOOLEAN
                      /\ allowed[i] <=> Granted(p, who, ListChecks[i])
    OBVIOUS
  <2>1. allowed[i] = AuthorizeWithPolicy(p, who, ListChecks[i])
    BY DEF Evaluate
  <2>2. AuthorizeWithPolicy(p, who, ListChecks[i]) \in BOOLEAN
    BY DEF AuthorizeWithPolicy
  <2> QED
    BY <2>1, <2>2, AuthorizedIsGranted
<1> HIDE DEF allowed
<1>2. allowed[1] <=> Granted(p, who, Check("profiles:list", ResourceProfiles))
  BY <1>1, ListIndices
<1>3. ASSUME NEW i \in 1..N
      PROVE  /\ allowed[2 * i] \in BOOLEAN /\ allowed[2 * i + 1] \in BOOLEAN
             /\ allowed[2 * i] <=> Granted(p, who, Check("encrypt", ProfileResource(ProfileSeq[i])))
             /\ allowed[2 * i + 1]
                  <=> Granted(p, who, Check("decrypt", ProfileResource(ProfileSeq[i])))
  BY <1>1, ListIndices
<1>4. ASSUME NEW i \in 1..N, NEW j \in 1..N
      PROVE  allowed[PairIndex(i, j)]
               <=> Granted(p, who, Check("rotate", RotationResource(ProfileSeq[i], ProfileSeq[j])))
  BY <1>1, ListIndices
<1>5. ASSUME NEW i \in 1..N
      PROVE  Capabilities(who, allowed, i) = Rights(p, who, ProfileSeq[i])
  <2> DEFINE pairs == {st \in (1..N) \X (1..N) :
                         allowed[PairIndex(st[1], st[2])] /\ HasScope(who, "rotate")}
             may(s, t) == May(p, who, "rotate", RotationResource(s, t))
             cap == Capabilities(who, allowed, i)
             q == ProfileSeq[i]
  <2>1. cap = [profile |-> q,
               encrypt |-> allowed[2 * i] /\ HasScope(who, "encrypt"),
               decrypt |-> allowed[2 * i + 1] /\ HasScope(who, "decrypt"),
               rotateSource |-> \E t \in 1..N : <<i, t>> \in pairs,
               rotateDestination |-> \E s \in 1..N : <<s, i>> \in pairs,
               destinations |-> {ProfileSeq[t] : t \in {u \in 1..N : <<i, u>> \in pairs}}]
    BY DEF Capabilities
  <2>2. \A s, t \in 1..N : <<s, t>> \in pairs <=> may(ProfileSeq[s], ProfileSeq[t])
    <3> SUFFICES ASSUME NEW s \in 1..N, NEW t \in 1..N
                 PROVE  <<s, t>> \in pairs <=> may(ProfileSeq[s], ProfileSeq[t])
      OBVIOUS
    <3>1. <<s, t>> \in pairs <=> allowed[PairIndex(s, t)] /\ HasScope(who, "rotate")
      OBVIOUS
    <3> QED
      BY <1>4, <3>1 DEF May
  <2> HIDE DEF pairs, may
  <2>3. (allowed[2 * i] /\ HasScope(who, "encrypt")) = May(p, who, "encrypt", ProfileResource(q))
    BY <1>3 DEF May
  <2>4. (allowed[2 * i + 1] /\ HasScope(who, "decrypt"))
          = May(p, who, "decrypt", ProfileResource(q))
    BY <1>3 DEF May
  <2> DEFINE to == {t \in Configured : may(q, t)}
             from == {s \in Configured : may(s, q)}
             reached == {ProfileSeq[t] : t \in {u \in 1..N : <<i, u>> \in pairs}}
  <2>5. reached = to
    <3>1. ASSUME NEW x \in reached PROVE x \in to
      <4>1. PICK t \in {u \in 1..N : <<i, u>> \in pairs} : x = ProfileSeq[t]
        OBVIOUS
      <4>2. may(ProfileSeq[i], ProfileSeq[t]) /\ ProfileSeq[t] \in Configured
        BY <2>2, <4>1, ProfileFacts
      <4> QED
        BY <4>1, <4>2
    <3>2. ASSUME NEW x \in to PROVE x \in reached
      <4>1. PICK t \in 1..N : ProfileSeq[t] = x
        BY ProfileFacts
      <4>2. <<i, t>> \in pairs
        BY <2>2, <3>2, <4>1
      <4> QED
        BY <4>1, <4>2
    <3> QED
      BY <3>1, <3>2
  <2>6. (\E t \in 1..N : <<i, t>> \in pairs) = (to # {})
    <3>1. (\E t \in 1..N : <<i, t>> \in pairs) <=> reached # {}
      OBVIOUS
    <3> QED
      BY <2>5, <3>1
  <2>7. (\E s \in 1..N : <<s, i>> \in pairs) = (from # {})
    <3>1. ASSUME NEW s \in 1..N, <<s, i>> \in pairs PROVE from # {}
      <4>1. may(ProfileSeq[s], ProfileSeq[i]) /\ ProfileSeq[s] \in Configured
        BY <2>2, <3>1, ProfileFacts
      <4> QED
        BY <4>1
    <3>2. ASSUME NEW s \in from PROVE \E u \in 1..N : <<u, i>> \in pairs
      <4>1. PICK u \in 1..N : ProfileSeq[u] = s
        BY <3>2, ProfileFacts
      <4> QED
        BY <2>2, <3>2, <4>1
    <3> QED
      BY <3>1, <3>2
  <2>8. Rights(p, who, q)
          = [profile |-> q,
             encrypt |-> May(p, who, "encrypt", ProfileResource(q)),
             decrypt |-> May(p, who, "decrypt", ProfileResource(q)),
             rotateSource |-> to # {}, rotateDestination |-> from # {}, destinations |-> to]
    BY DEF Rights, may
  <2> HIDE DEF to, from, reached
  <2>9. cap = [profile |-> q,
               encrypt |-> May(p, who, "encrypt", ProfileResource(q)),
               decrypt |-> May(p, who, "decrypt", ProfileResource(q)),
               rotateSource |-> to # {}, rotateDestination |-> from # {}, destinations |-> reached]
    BY <2>1, <2>3, <2>4, <2>6, <2>7 DEF reached
  <2> QED
    BY <2>5, <2>8, <2>9
\* a profile is shown when its rights are not none
<1>6. ASSUME NEW q \in Configured
      PROVE  LET rights == Rights(p, who, q)
             IN /\ rights.profile = q
                /\ Visible(rights) <=> rights # NoRights(rights.profile)
  <2> DEFINE rights == Rights(p, who, q)
  <2>1. /\ rights = [profile |-> rights.profile, encrypt |-> rights.encrypt,
                      decrypt |-> rights.decrypt, rotateSource |-> rights.rotateSource,
                      rotateDestination |-> rights.rotateDestination,
                      destinations |-> rights.destinations]
        /\ rights.profile = q
        /\ rights.encrypt \in BOOLEAN /\ rights.decrypt \in BOOLEAN
        /\ rights.rotateSource \in BOOLEAN /\ rights.rotateDestination \in BOOLEAN
        /\ rights.rotateSource <=> rights.destinations # {}
    BY DEF Rights, May
  <2> HIDE DEF rights
  <2>2. ~Visible(rights) => rights = NoRights(q)
    BY <2>1 DEF Visible, NoRights
  <2>3. rights = NoRights(q) => ~Visible(rights)
    BY DEF Visible, NoRights
  <2> QED
    BY <2>1, <2>2, <2>3 DEF rights
<1>7. {Capabilities(who, allowed, i) : i \in 1..N} = {Rights(p, who, q) : q \in Configured}
  BY <1>5, ProfileFacts
<1>8. \A cap \in {Rights(p, who, q) : q \in Configured} :
         Visible(cap) <=> cap # NoRights(cap.profile)
  BY <1>6
<1>9. Listing(p, who) = IF ~allowed[1] THEN {}
                        ELSE {cap \in {Capabilities(who, allowed, i) : i \in 1..N} : Visible(cap)}
  BY DEF Listing, allowed
<1> QED
  BY <1>2, <1>7, <1>8, <1>9 DEF RightListing

-----------------------------------------------------------------------------
(* The inductive invariant.                                                *)

Labels == {"idle", "policy", "stat", "loadstat", "loadread", "store", "decide", "done"}
Asking == Labels \ {"idle", "done"}

\* The file and the loaded policy: the loaded rows are valid, were read from
\* a version the file had, and no earlier than the time recorded with them.
FileOK ==
    /\ deployment \in DOMAIN Deployments
    /\ contents \in [1..(Deployed.writes + 1) -> Deployed.policies \cup {Unreadable}]
    /\ version \in 1..(Deployed.writes + 1)
    /\ loaded \in [stamp : Nat, version : Nat]
    /\ loaded.version \in 1..version /\ loaded.stamp \in 1..loaded.version
    /\ ValidPolicy(contents[loaded.version])

\* The fields of a job.
Shaped(j) ==
    /\ j = [actor |-> j.actor, command |-> j.command, since |-> j.since,
            policy |-> j.policy, answer |-> j.answer, listing |-> j.listing]
    /\ j.since \in Nat
    /\ j.policy \in [stamp : Nat, version : Nat]

JobsOK ==
    /\ pc \in [Requests -> Labels]
    /\ job = [r \in Requests |-> job[r]]
    /\ \A r \in Requests : Shaped(job[r]) /\ job[r].since <= version

\* The rest is of one request at label l with the job j, when files[v] is what
\* version v of the file says and last is the version on disk.

\* Who asks for the policy, and since when.
Asks(l, j) ==
    l \in Asking =>
       /\ j.since >= 1
       /\ j.actor.kind # "anonymous"
       /\ j.command.op # "list" => HasScope(j.actor, j.command.op)
       /\ j.answer = None

\* Which policy it has in hand: before the stat any the process ever loaded;
\* what is decided with was in the file while the request was served.
InHand(files, last, l, j) ==
    /\ l \in {"stat", "store", "decide"} =>
          /\ j.policy.version \in 1..last /\ j.policy.stamp \in 1..j.policy.version
          /\ ValidPolicy(files[j.policy.version])
    /\ l = "loadread" => j.policy.stamp \in 1..last
    /\ l \in {"store", "decide"} => j.policy.version >= j.since

\* What an answer says was so under a version of the file in its window.
Justified(files, last, j) ==
    LET check == OperationCheck(j.command)
    IN /\ j.answer = "prepared" /\ j.actor.kind # "anonymous" =>
             \E v \in j.since..last : /\ ValidPolicy(files[v])
                                      /\ May(files[v], j.actor, check.action, check.resource)
       /\ j.answer = "denied" =>
             \E v \in j.since..last : /\ ValidPolicy(files[v])
                                      /\ ~Granted(files[v], j.actor, check)
       /\ j.answer = "not_ready" => \E v \in j.since..last : ~ValidPolicy(files[v])
       /\ j.answer = "listed" /\ j.actor.kind # "anonymous" =>
             \E v \in j.since..last : /\ ValidPolicy(files[v])
                                      /\ j.listing = RightListing(files[v], j.actor)
       /\ j.actor.kind \notin {None, "anonymous"} =>
             /\ j.answer # "not_found"
             /\ j.answer = "too_large" =>
                   \E v \in j.since..last : Granted(files[v], j.actor, check)

\* The window of a request with an answer is one of versions of the file.
Answered(j) == j.answer # None => j.since >= 1

RequestOK(files, last, l, j) ==
    Asks(l, j) /\ InHand(files, last, l, j) /\ Answered(j) /\ Justified(files, last, j)

Inv ==
    /\ FileOK
    /\ JobsOK
    /\ \A r \in Requests : RequestOK(contents, version, pc[r], job[r])

-----------------------------------------------------------------------------
(* Facts about one request.                                                *)

\* The file is replaced, never rewritten: what was right stays right.
LEMMA StaysOK ==
    ASSUME NEW files, NEW last \in Nat, NEW files2, NEW last2 \in Nat,
           last <= last2, \A v \in 1..last : files2[v] = files[v],
           NEW l, NEW j, Shaped(j), RequestOK(files, last, l, j)
    PROVE  RequestOK(files2, last2, l, j)
<1> USE DEF RequestOK, Shaped
<1>1. Asks(l, j) /\ Answered(j)
  OBVIOUS
<1>2. j.policy.version \in Nat /\ j.policy.stamp \in Nat /\ j.since \in Nat
  OBVIOUS
<1>3. InHand(files2, last2, l, j)
  BY <1>2 DEF InHand
<1>4. CASE j.answer = None
  BY <1>1, <1>3, <1>4 DEF Justified, None
<1>5. CASE j.answer # None
  <2>1. j.since >= 1
    BY <1>5 DEF Answered
  <2>2. \A v \in j.since..last : v \in j.since..last2 /\ files2[v] = files[v]
    BY <1>2, <2>1
  <2>3. Justified(files, last, j)
    OBVIOUS
  <2>4. Justified(files2, last2, j)
    BY <2>2, <2>3 DEF Justified
  <2> QED
    BY <1>1, <1>3, <2>4
<1> QED
  BY <1>4, <1>5

\* The assignments to a job.
Answering(j, a, x) == [j EXCEPT !.answer = a, !.listing = x]
Refusing(j, a) == [j EXCEPT !.answer = a]
Holding(j, p) == [j EXCEPT !.policy = p]
Stamping(j, n) == [j EXCEPT !.policy.stamp = n]
Reading(j, n) == [j EXCEPT !.policy.version = n]
Beginning(who, c, n) == [NoJob EXCEPT !.actor = who, !.command = c, !.since = n]

LEMMA AnswerFields ==
    ASSUME NEW j, Shaped(j), NEW a, NEW x
    PROVE  LET k == Answering(j, a, x)
           IN /\ Shaped(k)
              /\ k.actor = j.actor /\ k.command = j.command /\ k.since = j.since
              /\ k.answer = a /\ k.listing = x
<1> DEFINE k == Answering(j, a, x)
<1>0. PICK who, c, s, q, b, y :
         /\ j = [actor |-> who, command |-> c, since |-> s, policy |-> q, answer |-> b,
                 listing |-> y]
         /\ s \in Nat /\ q \in [stamp : Nat, version : Nat]
  BY DEF Shaped
<1> DEFINE J(qq, bb, yy) == [actor |-> who, command |-> c, since |-> s, policy |-> qq,
                             answer |-> bb, listing |-> yy]
<1>1. k = J(q, a, x)
  <2>1. [j EXCEPT !.answer = a, !.listing = x] = [[j EXCEPT !.answer = a] EXCEPT !.listing = x]
    OBVIOUS
  <2>2. [j EXCEPT !.answer = a] = J(q, a, y)
    BY <1>0
  <2>3. [J(q, a, y) EXCEPT !.listing = x] = J(q, a, x)
    OBVIOUS
  <2> QED
    BY <2>1, <2>2, <2>3 DEF Answering
<1>2. \A qq \in [stamp : Nat, version : Nat] : \A bb, yy :
         /\ Shaped(J(qq, bb, yy))
         /\ J(qq, bb, yy).actor = who /\ J(qq, bb, yy).command = c
         /\ J(qq, bb, yy).since = s /\ J(qq, bb, yy).policy = qq
         /\ J(qq, bb, yy).answer = bb /\ J(qq, bb, yy).listing = yy
  BY <1>0 DEF Shaped
<1>3. j = J(q, b, y)
  BY <1>0
<1> HIDE DEF J, k
<1> QED
  BY <1>0, <1>1, <1>2, <1>3 DEF k

LEMMA RefusalFields ==
    ASSUME NEW j, Shaped(j), NEW a
    PROVE  LET k == Refusing(j, a)
           IN /\ Shaped(k)
              /\ k.actor = j.actor /\ k.command = j.command /\ k.since = j.since
              /\ k.answer = a
<1> DEFINE k == Refusing(j, a)
<1>0. PICK who, c, s, q, b, y :
         /\ j = [actor |-> who, command |-> c, since |-> s, policy |-> q, answer |-> b,
                 listing |-> y]
         /\ s \in Nat /\ q \in [stamp : Nat, version : Nat]
  BY DEF Shaped
<1> DEFINE J(qq, bb, yy) == [actor |-> who, command |-> c, since |-> s, policy |-> qq,
                             answer |-> bb, listing |-> yy]
<1>1. k = J(q, a, y)
  BY <1>0 DEF Refusing
<1>2. \A qq \in [stamp : Nat, version : Nat] : \A bb, yy :
         /\ Shaped(J(qq, bb, yy))
         /\ J(qq, bb, yy).actor = who /\ J(qq, bb, yy).command = c
         /\ J(qq, bb, yy).since = s /\ J(qq, bb, yy).policy = qq
         /\ J(qq, bb, yy).answer = bb /\ J(qq, bb, yy).listing = yy
  BY <1>0 DEF Shaped
<1>3. j = J(q, b, y)
  BY <1>0
<1> HIDE DEF J, k
<1> QED
  BY <1>0, <1>1, <1>2, <1>3 DEF k

LEMMA PolicyFields ==
    ASSUME NEW j, Shaped(j), NEW p \in [stamp : Nat, version : Nat]
    PROVE  LET k == Holding(j, p)
           IN /\ Shaped(k)
              /\ k.actor = j.actor /\ k.command = j.command /\ k.since = j.since
              /\ k.policy = p /\ k.answer = j.answer
<1> DEFINE k == Holding(j, p)
<1>0. PICK who, c, s, q, b, y :
         /\ j = [actor |-> who, command |-> c, since |-> s, policy |-> q, answer |-> b,
                 listing |-> y]
         /\ s \in Nat /\ q \in [stamp : Nat, version : Nat]
  BY DEF Shaped
<1> DEFINE J(qq, bb, yy) == [actor |-> who, command |-> c, since |-> s, policy |-> qq,
                             answer |-> bb, listing |-> yy]
<1>1. k = J(p, b, y)
  BY <1>0 DEF Holding
<1>2. \A qq \in [stamp : Nat, version : Nat] : \A bb, yy :
         /\ Shaped(J(qq, bb, yy))
         /\ J(qq, bb, yy).actor = who /\ J(qq, bb, yy).command = c
         /\ J(qq, bb, yy).since = s /\ J(qq, bb, yy).policy = qq
         /\ J(qq, bb, yy).answer = bb /\ J(qq, bb, yy).listing = yy
  BY <1>0 DEF Shaped
<1>3. j = J(q, b, y)
  BY <1>0
<1> HIDE DEF J, k
<1> QED
  BY <1>0, <1>1, <1>2, <1>3 DEF k

LEMMA StampFields ==
    ASSUME NEW j, Shaped(j), NEW n \in Nat
    PROVE  LET k == Stamping(j, n)
           IN /\ Shaped(k)
              /\ k.actor = j.actor /\ k.command = j.command /\ k.since = j.since
              /\ k.policy.stamp = n /\ k.policy.version = j.policy.version /\ k.answer = j.answer
<1> DEFINE k == Stamping(j, n)
<1>0. PICK who, c, s, q, b, y :
         /\ j = [actor |-> who, command |-> c, since |-> s, policy |-> q, answer |-> b,
                 listing |-> y]
         /\ s \in Nat /\ q \in [stamp : Nat, version : Nat]
  BY DEF Shaped
<1> DEFINE J(qq, bb, yy) == [actor |-> who, command |-> c, since |-> s, policy |-> qq,
                             answer |-> bb, listing |-> yy]
<1>1. k = J([q EXCEPT !.stamp = n], b, y)
  BY <1>0 DEF Stamping
<1>2. \A qq \in [stamp : Nat, version : Nat] : \A bb, yy :
         /\ Shaped(J(qq, bb, yy))
         /\ J(qq, bb, yy).actor = who /\ J(qq, bb, yy).command = c
         /\ J(qq, bb, yy).since = s /\ J(qq, bb, yy).policy = qq
         /\ J(qq, bb, yy).answer = bb /\ J(qq, bb, yy).listing = yy
  BY <1>0 DEF Shaped
<1>3. j = J(q, b, y)
  BY <1>0
<1>4. /\ [q EXCEPT !.stamp = n] \in [stamp : Nat, version : Nat]
      /\ [q EXCEPT !.stamp = n].stamp = n /\ [q EXCEPT !.stamp = n].version = q.version
  BY <1>0
<1> HIDE DEF J, k
<1> QED
  BY <1>0, <1>1, <1>2, <1>3, <1>4 DEF k

LEMMA VersionFields ==
    ASSUME NEW j, Shaped(j), NEW n \in Nat
    PROVE  LET k == Reading(j, n)
           IN /\ Shaped(k)
              /\ k.actor = j.actor /\ k.command = j.command /\ k.since = j.since
              /\ k.policy.version = n /\ k.policy.stamp = j.policy.stamp /\ k.answer = j.answer
<1> DEFINE k == Reading(j, n)
<1>0. PICK who, c, s, q, b, y :
         /\ j = [actor |-> who, command |-> c, since |-> s, policy |-> q, answer |-> b,
                 listing |-> y]
         /\ s \in Nat /\ q \in [stamp : Nat, version : Nat]
  BY DEF Shaped
<1> DEFINE J(qq, bb, yy) == [actor |-> who, command |-> c, since |-> s, policy |-> qq,
                             answer |-> bb, listing |-> yy]
<1>1. k = J([q EXCEPT !.version = n], b, y)
  BY <1>0 DEF Reading
<1>2. \A qq \in [stamp : Nat, version : Nat] : \A bb, yy :
         /\ Shaped(J(qq, bb, yy))
         /\ J(qq, bb, yy).actor = who /\ J(qq, bb, yy).command = c
         /\ J(qq, bb, yy).since = s /\ J(qq, bb, yy).policy = qq
         /\ J(qq, bb, yy).answer = bb /\ J(qq, bb, yy).listing = yy
  BY <1>0 DEF Shaped
<1>3. j = J(q, b, y)
  BY <1>0
<1>4. /\ [q EXCEPT !.version = n] \in [stamp : Nat, version : Nat]
      /\ [q EXCEPT !.version = n].version = n /\ [q EXCEPT !.version = n].stamp = q.stamp
  BY <1>0
<1> HIDE DEF J, k
<1> QED
  BY <1>0, <1>1, <1>2, <1>3, <1>4 DEF k

\* A job as it begins.
LEMMA NewFields ==
    ASSUME NEW who, NEW c, NEW n \in Nat
    PROVE  LET k == Beginning(who, c, n)
           IN /\ Shaped(k)
              /\ k.actor = who /\ k.command = c /\ k.since = n /\ k.answer = None
<1> DEFINE p == [stamp |-> 0, version |-> 0]
           J(w, d, m) == [actor |-> w, command |-> d, since |-> m, policy |-> p,
                          answer |-> None, listing |-> {}]
           k == J(who, c, n)
<1>1. Beginning(who, c, n) = k
  <2>1. Beginning(who, c, n)
          = [[[NoJob EXCEPT !.actor = who] EXCEPT !.command = c] EXCEPT !.since = n]
    BY DEF Beginning
  <2>2. NoJob = J(NoActor, [op |-> None], 0)
    BY DEF NoJob
  <2>3. [J(NoActor, [op |-> None], 0) EXCEPT !.actor = who] = J(who, [op |-> None], 0)
    OBVIOUS
  <2>4. [J(who, [op |-> None], 0) EXCEPT !.command = c] = J(who, c, 0)
    OBVIOUS
  <2>5. [J(who, c, 0) EXCEPT !.since = n] = J(who, c, n)
    OBVIOUS
  <2> HIDE DEF J
  <2> QED
    BY <2>1, <2>2, <2>3, <2>4, <2>5
<1>2. p \in [stamp : Nat, version : Nat]
  OBVIOUS
<1> HIDE DEF p
<1>3. /\ k.actor = who /\ k.command = c /\ k.since = n /\ k.answer = None
      /\ k.policy = p /\ k.listing = {}
  OBVIOUS
<1>4. Shaped(k)
  BY <1>2, <1>3 DEF Shaped
<1> HIDE DEF k
<1> QED
  BY <1>1, <1>3, <1>4

\* What may be answered to the request j while version last is on disk.
MayAnswer(files, last, j, a, x) ==
    Justified(files, last, [actor |-> j.actor, command |-> j.command, since |-> j.since,
                            answer |-> a, listing |-> x])

LEMMA FinishedOK ==
    ASSUME NEW files, NEW last, NEW j, Shaped(j), j.since >= 1,
           NEW k, Shaped(k), k.actor = j.actor, k.command = j.command,
           k.since = j.since, MayAnswer(files, last, j, k.answer, k.listing)
    PROVE  RequestOK(files, last, "done", k)
<1>1. Asks("done", k) /\ InHand(files, last, "done", k) /\ Answered(k)
  BY DEF Asks, Asking, InHand, Answered
<1>2. Justified(files, last, k)
  BY DEF MayAnswer, Justified
<1> QED
  BY <1>1, <1>2 DEF RequestOK

\* An unanswered request on its way.
LEMMA UnansweredOK ==
    ASSUME NEW files, NEW last, NEW l \in Asking, NEW j, Asks(l, j), InHand(files, last, l, j)
    PROVE  RequestOK(files, last, l, j)
  BY DEF RequestOK, Asks, Answered, Justified, None

\* What is found out before the policy is asked.
LEMMA BeforeFacts ==
    ASSUME NEW who, NEW c
    PROVE  /\ BeforePolicy(who, c) \in {"ask", "resolve", "forbidden", "invalid_request",
                                        "feature_unavailable"}
           /\ BeforePolicy(who, c) = "resolve" => who.kind = "anonymous"
           /\ BeforePolicy(who, c) = "ask" =>
                 who.kind # "anonymous" /\ HasScope(who, c.op)
  BY DEF BeforePolicy

\* What is found out after it.
LEMMA AfterFacts ==
    ASSUME NEW who, NEW c
    PROVE  /\ AfterPolicy(who, c) \in {"not_found", "forbidden", "too_large",
                                       "invalid_request", "prepared"}
           /\ AfterPolicy(who, c) = "not_found" => who.kind = "anonymous"
  BY DEF AfterPolicy

\* Answers about which nothing is claimed.
Silent == {"forbidden", "invalid_request", "feature_unavailable", "temporarily_unavailable"}

LEMMA SilentOK ==
    ASSUME NEW files, NEW last, NEW j, NEW a \in Silent, NEW x
    PROVE  MayAnswer(files, last, j, a, x)
  BY DEF MayAnswer, Justified, Silent

\* What Decide answers, when the version it decides with is in the window.
LEMMA DecisionOK ==
    ASSUME NEW files, NEW last \in Nat, NEW j, NEW v \in j.since..last,
           ValidPolicy(files[v]), Rows(files[v]),
           j.command.op # "list", HasScope(j.actor, j.command.op)
    PROVE  MayAnswer(files, last, j, Prepared(files[v], j.actor, j.command), {})
<1> DEFINE check == OperationCheck(j.command)
           p == files[v]
           a == Prepared(p, j.actor, j.command)
<1>1. Evaluate(p, j.actor, <<check>>)[1] <=> Granted(p, j.actor, check)
  <2>1. Evaluate(p, j.actor, <<check>>)[1] = AuthorizeWithPolicy(p, j.actor, check)
    BY DEF Evaluate
  <2> QED
    BY <2>1, AuthorizedIsGranted
<1>2. check.action = j.command.op /\ check = Check(check.action, check.resource)
  BY DEF OperationCheck, Check
<1>3. May(p, j.actor, check.action, check.resource) <=> Granted(p, j.actor, check)
  BY <1>2 DEF May
<1>4. CASE Granted(p, j.actor, check)
  <2>1. a = AfterPolicy(j.actor, j.command)
    BY <1>1, <1>4 DEF Prepared
  <2> QED
    BY <1>3, <1>4, <2>1, AfterFacts DEF MayAnswer, Justified
<1>5. CASE ~Granted(p, j.actor, check)
  <2>1. a = "denied"
    BY <1>1, <1>5 DEF Prepared
  <2> QED
    BY <1>5, <2>1 DEF MayAnswer, Justified
<1> QED
  BY <1>4, <1>5

-----------------------------------------------------------------------------
(* Steps.                                                                  *)

\* A request moves to label l with the job j; the file stays as it is.
LEMMA Moved ==
    ASSUME Inv, FileOK', NEW r \in Requests, NEW l \in Labels, NEW j,
           Shaped(j), j.since <= version,
           RequestOK(contents, version, l, j),
           pc' = [pc EXCEPT ![r] = l], job' = [job EXCEPT ![r] = j],
           UNCHANGED <<contents, version>>
    PROVE  Inv'
<1>1. /\ pc' \in [Requests -> Labels]
      /\ pc'[r] = l /\ \A q \in Requests \ {r} : pc'[q] = pc[q]
  BY DEF Inv, JobsOK
<1>2. /\ job' = [q \in Requests |-> job'[q]]
      /\ job'[r] = j /\ \A q \in Requests \ {r} : job'[q] = job[q]
  BY DEF Inv, JobsOK
<1>3. contents' = contents /\ version' = version
  OBVIOUS
<1>4. ASSUME NEW q \in Requests
      PROVE  /\ Shaped(job'[q]) /\ job'[q].since <= version'
             /\ RequestOK(contents', version', pc'[q], job'[q])
  <2>1. CASE q = r
    BY <1>1, <1>2, <1>3, <2>1
  <2>2. CASE q # r
    BY <1>1, <1>2, <1>3, <2>2 DEF Inv, JobsOK
  <2> QED
    BY <2>1, <2>2
<1> QED
  BY <1>1, <1>2, <1>4 DEF Inv, JobsOK

\* What is read of a request before its step.
LEMMA RequestFacts ==
    ASSUME Inv, NEW r \in Requests
    PROVE  /\ Shaped(job[r]) /\ job[r].since \in Nat /\ job[r].since <= version
           /\ job[r].policy \in [stamp : Nat, version : Nat]
           /\ RequestOK(contents, version, pc[r], job[r])
           /\ version \in Nat /\ version >= 1 /\ FileOK
  BY DEF Inv, JobsOK, FileOK, Shaped

\* Every policy the file held is made of rows.
LEMMA FilesAreRows ==
    FileOK => \A v \in 1..version : Rows(contents[v])
<1> SUFFICES ASSUME FileOK, NEW v \in 1..version
             PROVE  Rows(contents[v])
  OBVIOUS
<1>1. v \in 1..(Deployed.writes + 1)
  BY AuthorizationAssumption DEF FileOK, Deployed
<1>2. contents[v] \in Deployed.policies \cup {Unreadable}
  BY <1>1 DEF FileOK
<1>3. CASE contents[v] = Unreadable
  BY <1>3 DEF Rows, Unreadable
<1>4. CASE contents[v] \in Deployments[deployment].policies
  BY <1>4, AuthorizationAssumption DEF Rows, FileOK
<1> QED
  BY <1>2, <1>3, <1>4 DEF Deployed

LEMMA FileKept ==
    Inv /\ UNCHANGED <<deployment, contents, version, loaded>> => FileOK'
  BY DEF Inv, FileOK, Deployed

\* A request ends with an answer it may have.
LEMMA FinishStep ==
    ASSUME Inv, NEW r \in Requests, pc[r] \in Asking, NEW a, NEW x, Finish(r, a, x),
           MayAnswer(contents, version, job[r], a, x),
           UNCHANGED <<deployment, contents, version, loaded>>
    PROVE  Inv'
<1> DEFINE k == Answering(job[r], a, x)
<1>1. Shaped(job[r]) /\ job[r].since <= version /\ job[r].since >= 1
  BY RequestFacts DEF RequestOK, Asks
<1>2. /\ Shaped(k) /\ k.actor = job[r].actor /\ k.command = job[r].command
      /\ k.since = job[r].since /\ k.answer = a /\ k.listing = x
  BY <1>1, AnswerFields
<1>3. pc' = [pc EXCEPT ![r] = "done"] /\ job' = [job EXCEPT ![r] = k]
  BY DEF Finish, Goto, Update, Answering
<1> HIDE DEF k
<1>4. RequestOK(contents, version, "done", k)
  BY <1>1, <1>2, FinishedOK
<1>5. "done" \in Labels /\ k.since <= version /\ FileOK'
  BY <1>1, <1>2, FileKept DEF Labels
<1> QED
  BY <1>2, <1>3, <1>4, <1>5, Moved

LEMMA BeginListStep ==
    ASSUME Inv, NEW r \in Requests, NEW who, BeginList(r, who), UNCHANGED deployment
    PROVE  Inv'
<1> DEFINE begun == Beginning(who, [op |-> "list"], version)
           every == {EveryRight(i) : i \in 1..N}
<1>0. version \in Nat /\ version >= 1 /\ FileOK'
  BY RequestFacts, FileKept DEF BeginList
<1>1. /\ Shaped(begun) /\ begun.actor = who /\ begun.command = [op |-> "list"]
      /\ begun.since = version /\ begun.answer = None
  BY <1>0, NewFields
<1>2. UNCHANGED <<contents, version>> /\ begun.since <= version /\ begun.since >= 1
  BY <1>0, <1>1 DEF BeginList
<1>3. \/ /\ who.kind = "anonymous" /\ pc' = [pc EXCEPT ![r] = "done"]
         /\ job' = [job EXCEPT ![r] = Answering(begun, "listed", every)]
      \/ /\ pc' = [pc EXCEPT ![r] = "done"]
         /\ job' = [job EXCEPT ![r] = Refusing(begun, "forbidden")]
      \/ /\ who.kind # "anonymous" /\ pc' = [pc EXCEPT ![r] = "policy"]
         /\ job' = [job EXCEPT ![r] = begun]
  BY DEF BeginList, Goto, Update, Beginning, Answering, Refusing
<1> HIDE DEF begun, every
<1>4. CASE /\ who.kind = "anonymous" /\ pc' = [pc EXCEPT ![r] = "done"]
           /\ job' = [job EXCEPT ![r] = Answering(begun, "listed", every)]
  <2> DEFINE k == Answering(begun, "listed", every)
  <2>1. /\ Shaped(k) /\ k.actor = who /\ k.command = begun.command
        /\ k.since = version /\ k.answer = "listed" /\ k.listing = every
    BY <1>1, AnswerFields
  <2> HIDE DEF k
  <2>2. MayAnswer(contents, version, begun, k.answer, k.listing)
    BY <1>1, <1>4, <2>1 DEF MayAnswer, Justified
  <2>3. RequestOK(contents, version, "done", k)
    BY <1>1, <1>2, <2>1, <2>2, FinishedOK
  <2> QED
    BY <1>0, <1>1, <1>2, <1>4, <2>1, <2>3, Moved DEF Labels, k
<1>5. CASE /\ pc' = [pc EXCEPT ![r] = "done"]
           /\ job' = [job EXCEPT ![r] = Refusing(begun, "forbidden")]
  <2> DEFINE k == Refusing(begun, "forbidden")
  <2>1. /\ Shaped(k) /\ k.actor = who /\ k.command = begun.command
        /\ k.since = version /\ k.answer = "forbidden"
    BY <1>1, RefusalFields
  <2> HIDE DEF k
  <2>2. MayAnswer(contents, version, begun, k.answer, k.listing)
    BY <2>1, SilentOK DEF Silent
  <2>3. RequestOK(contents, version, "done", k)
    BY <1>1, <1>2, <2>1, <2>2, FinishedOK
  <2> QED
    BY <1>0, <1>1, <1>2, <1>5, <2>1, <2>3, Moved DEF Labels, k
<1>6. CASE /\ who.kind # "anonymous" /\ pc' = [pc EXCEPT ![r] = "policy"]
           /\ job' = [job EXCEPT ![r] = begun]
  <2>1. RequestOK(contents, version, "policy", begun)
    BY <1>1, <1>2, <1>6, UnansweredOK DEF Asks, Asking, Labels, InHand
  <2> QED
    BY <1>0, <1>1, <1>2, <1>6, <2>1, Moved DEF Labels
<1> QED
  BY <1>3, <1>4, <1>5, <1>6

LEMMA BeginPrepareStep ==
    ASSUME Inv, NEW r \in Requests, NEW who, NEW c, BeginPrepare(r, who, c),
           UNCHANGED deployment
    PROVE  Inv'
<1> DEFINE begun == Beginning(who, c, version)
           before == BeforePolicy(who, c)
<1>0. version \in Nat /\ version >= 1 /\ FileOK'
  BY RequestFacts, FileKept DEF BeginPrepare
<1>1. /\ Shaped(begun) /\ begun.actor = who /\ begun.command = c
      /\ begun.since = version /\ begun.answer = None
  BY <1>0, NewFields
<1>2. UNCHANGED <<contents, version>> /\ begun.since <= version /\ begun.since >= 1
  BY <1>0, <1>1 DEF BeginPrepare
<1>3. \/ /\ before = "ask" /\ pc' = [pc EXCEPT ![r] = "policy"]
         /\ job' = [job EXCEPT ![r] = begun]
      \/ \E a : /\ \/ before = "resolve" /\ a = AfterPolicy(who, c)
                   \/ before \notin {"ask", "resolve"} /\ a = before
                /\ pc' = [pc EXCEPT ![r] = "done"]
                /\ job' = [job EXCEPT ![r] = Refusing(begun, a)]
  BY DEF BeginPrepare, Goto, Update, Beginning, Refusing
<1> HIDE DEF begun
<1>4. CASE /\ before = "ask" /\ pc' = [pc EXCEPT ![r] = "policy"]
           /\ job' = [job EXCEPT ![r] = begun]
  <2>1. RequestOK(contents, version, "policy", begun)
    BY <1>1, <1>2, <1>4, UnansweredOK, BeforeFacts DEF Asks, Asking, Labels, InHand
  <2> QED
    BY <1>0, <1>1, <1>2, <1>4, <2>1, Moved DEF Labels
<1>5. ASSUME NEW a,
             \/ before = "resolve" /\ a = AfterPolicy(who, c)
             \/ before \notin {"ask", "resolve"} /\ a = before,
             pc' = [pc EXCEPT ![r] = "done"],
             job' = [job EXCEPT ![r] = Refusing(begun, a)]
      PROVE  Inv'
  <2> DEFINE k == Refusing(begun, a)
  <2>1. /\ Shaped(k) /\ k.actor = who /\ k.command = begun.command
        /\ k.since = version /\ k.answer = a
    BY <1>1, RefusalFields
  <2> HIDE DEF k
  <2>2. MayAnswer(contents, version, begun, k.answer, k.listing)
    <3>1. CASE before = "resolve"
      BY <1>1, <1>5, <2>1, <3>1, BeforeFacts, AfterFacts DEF MayAnswer, Justified
    <3>2. CASE before \notin {"ask", "resolve"}
      BY <1>5, <2>1, <3>2, BeforeFacts, SilentOK DEF Silent
    <3> QED
      BY <1>5, <3>1, <3>2
  <2>3. RequestOK(contents, version, "done", k)
    BY <1>1, <1>2, <2>1, <2>2, FinishedOK
  <2> QED
    BY <1>0, <1>1, <1>2, <1>5, <2>1, <2>3, Moved DEF Labels, k
<1> QED
  BY <1>3, <1>4, <1>5

LEMMA ReadLoadedStep ==
    ASSUME Inv, NEW r \in Requests, ReadLoaded(r), UNCHANGED deployment
    PROVE  Inv'
<1> DEFINE k == Holding(job[r], loaded)
<1>1. pc[r] = "policy" /\ UNCHANGED <<contents, version, loaded>>
  BY DEF ReadLoaded
<1>2. pc' = [pc EXCEPT ![r] = "stat"] /\ job' = [job EXCEPT ![r] = k]
  BY DEF ReadLoaded, Goto, Update, Holding
<1>3. Shaped(job[r]) /\ job[r].since <= version /\ Asks("policy", job[r]) /\ FileOK /\ FileOK'
  BY <1>1, RequestFacts, FileKept DEF RequestOK
<1>4. /\ loaded \in [stamp : Nat, version : Nat]
      /\ loaded.version \in 1..version /\ loaded.stamp \in 1..loaded.version
      /\ ValidPolicy(contents[loaded.version])
  BY <1>3 DEF FileOK
<1>5. /\ Shaped(k) /\ k.actor = job[r].actor /\ k.command = job[r].command
      /\ k.since = job[r].since /\ k.policy = loaded /\ k.answer = job[r].answer
  BY <1>3, <1>4, PolicyFields
<1> HIDE DEF k
<1>6. Asks("stat", k) /\ InHand(contents, version, "stat", k)
  BY <1>3, <1>4, <1>5 DEF Asks, Asking, Labels, InHand
<1>7. "stat" \in Asking /\ "stat" \in Labels
  BY DEF Asking, Labels
<1>8. RequestOK(contents, version, "stat", k)
  BY <1>6, <1>7, UnansweredOK
<1> QED
  BY <1>1, <1>2, <1>3, <1>5, <1>7, <1>8, Moved

\* The recorded time is the file's: the policy in hand is the file's version.
LEMMA StatFileStep ==
    ASSUME Inv, NEW r \in Requests, StatFile(r), UNCHANGED deployment
    PROVE  Inv'
<1> DEFINE l == IF job[r].policy.stamp = version THEN "decide" ELSE "loadstat"
<1>1. pc[r] = "stat" /\ UNCHANGED <<contents, version, loaded>>
  BY DEF StatFile
<1>2. /\ Shaped(job[r]) /\ job[r].since <= version /\ FileOK' /\ job[r].since \in Nat
      /\ Asks("stat", job[r]) /\ InHand(contents, version, "stat", job[r]) /\ version \in Nat
  BY <1>1, RequestFacts, FileKept DEF RequestOK
<1>3. pc' = [pc EXCEPT ![r] = l] /\ job' = [job EXCEPT ![r] = job[r]]
  <2>1. job' = job /\ job = [job EXCEPT ![r] = job[r]]
    BY DEF StatFile, Inv, JobsOK
  <2> QED
    BY <2>1 DEF StatFile, Goto
<1>4. job[r].policy.stamp = version => job[r].policy.version = version
  BY <1>2 DEF InHand
<1>5. l \in Asking /\ l \in Labels
  BY DEF Asking, Labels
<1>6. Asks(l, job[r]) /\ InHand(contents, version, l, job[r])
  BY <1>2, <1>4 DEF Asks, Asking, Labels, InHand
<1> HIDE DEF l
<1>7. RequestOK(contents, version, l, job[r])
  BY <1>5, <1>6, UnansweredOK
<1> QED
  BY <1>1, <1>2, <1>3, <1>5, <1>7, Moved

LEMMA LoadStatStep ==
    ASSUME Inv, NEW r \in Requests, LoadStat(r), UNCHANGED deployment
    PROVE  Inv'
<1> DEFINE k == Stamping(job[r], version)
<1>1. pc[r] = "loadstat" /\ UNCHANGED <<contents, version, loaded>>
  BY DEF LoadStat
<1>2. pc' = [pc EXCEPT ![r] = "loadread"] /\ job' = [job EXCEPT ![r] = k]
  BY DEF LoadStat, Goto, Update, Stamping
<1>3. /\ Shaped(job[r]) /\ job[r].since <= version /\ Asks("loadstat", job[r]) /\ FileOK'
      /\ version \in Nat /\ version >= 1
  BY <1>1, RequestFacts, FileKept DEF RequestOK
<1>4. /\ Shaped(k) /\ k.actor = job[r].actor /\ k.command = job[r].command
      /\ k.since = job[r].since /\ k.policy.stamp = version /\ k.answer = job[r].answer
  BY <1>3, StampFields
<1> HIDE DEF k
<1>5. Asks("loadread", k) /\ InHand(contents, version, "loadread", k)
  BY <1>3, <1>4 DEF Asks, Asking, Labels, InHand
<1>6. "loadread" \in Asking /\ "loadread" \in Labels
  BY DEF Asking, Labels
<1>7. RequestOK(contents, version, "loadread", k)
  BY <1>5, <1>6, UnansweredOK
<1> QED
  BY <1>1, <1>2, <1>3, <1>4, <1>6, <1>7, Moved

\* A file that does not load now makes the request fail, and says so truly.
LEMMA NotReadyOK ==
    ASSUME Inv, NEW r \in Requests, ~ValidPolicy(contents[version])
    PROVE  MayAnswer(contents, version, job[r], "not_ready", {})
<1>1. version \in job[r].since..version
  BY RequestFacts
<1> QED
  BY <1>1 DEF MayAnswer, Justified

LEMMA LoadReadStep ==
    ASSUME Inv, NEW r \in Requests, LoadRead(r), UNCHANGED deployment
    PROVE  Inv'
<1>1. pc[r] = "loadread" /\ UNCHANGED <<contents, version, loaded>>
  BY DEF LoadRead
<1>2. CASE ValidPolicy(contents[version])
  <2> DEFINE k == Reading(job[r], version)
  <2>2. pc' = [pc EXCEPT ![r] = "store"] /\ job' = [job EXCEPT ![r] = k]
    BY <1>2 DEF LoadRead, Goto, Update, Reading
  <2>3. /\ Shaped(job[r]) /\ job[r].since <= version /\ Asks("loadread", job[r]) /\ FileOK'
        /\ InHand(contents, version, "loadread", job[r])
        /\ version \in Nat /\ version >= 1
    BY <1>1, RequestFacts, FileKept DEF RequestOK
  <2>4. /\ Shaped(k) /\ k.actor = job[r].actor /\ k.command = job[r].command
        /\ k.since = job[r].since /\ k.policy.version = version
        /\ k.policy.stamp = job[r].policy.stamp /\ k.answer = job[r].answer
    BY <2>3, VersionFields
  <2> HIDE DEF k
  <2>5. Asks("store", k) /\ InHand(contents, version, "store", k)
    BY <1>2, <2>3, <2>4 DEF Asks, Asking, Labels, InHand
  <2>6. "store" \in Asking /\ "store" \in Labels
    BY DEF Asking, Labels
  <2>7. RequestOK(contents, version, "store", k)
    BY <2>5, <2>6, UnansweredOK
  <2> QED
    BY <1>1, <2>2, <2>3, <2>4, <2>6, <2>7, Moved
<1>3. CASE ~ValidPolicy(contents[version])
  <2>1. Finish(r, "not_ready", {}) /\ pc[r] \in Asking
    BY <1>1, <1>3 DEF LoadRead, Asking, Labels
  <2> QED
    BY <1>1, <1>3, <2>1, NotReadyOK, FinishStep
<1> QED
  BY <1>2, <1>3

LEMMA StatFailsStep ==
    ASSUME Inv, NEW r \in Requests, StatFails(r), UNCHANGED deployment
    PROVE  Inv'
<1>1. ~ValidPolicy(contents[version]) /\ UNCHANGED <<contents, version, loaded>>
  BY DEF StatFails, ValidPolicy
<1>2. Finish(r, "not_ready", {}) /\ pc[r] \in Asking
  BY DEF StatFails, Asking, Labels
<1> QED
  BY <1>1, <1>2, NotReadyOK, FinishStep

LEMMA StoreStep ==
    ASSUME Inv, NEW r \in Requests, Store(r), UNCHANGED deployment
    PROVE  Inv'
<1>1. /\ pc[r] = "store" /\ UNCHANGED <<contents, version>> /\ loaded' = job[r].policy
      /\ pc' = [pc EXCEPT ![r] = "decide"]
  BY DEF Store, Goto
<1>2. job' = [job EXCEPT ![r] = job[r]]
  <2>1. job' = job /\ job = [job EXCEPT ![r] = job[r]]
    BY DEF Store, Inv, JobsOK
  <2> QED
    BY <2>1
<1>3. /\ Shaped(job[r]) /\ job[r].since <= version /\ FileOK
      /\ job[r].policy \in [stamp : Nat, version : Nat]
      /\ Asks("store", job[r]) /\ InHand(contents, version, "store", job[r])
  BY <1>1, RequestFacts DEF RequestOK
<1>4. FileOK'
  BY <1>1, <1>3 DEF FileOK, InHand, Deployed
<1>5. "decide" \in Asking /\ "decide" \in Labels
  BY DEF Asking, Labels
<1>6. Asks("decide", job[r]) /\ InHand(contents, version, "decide", job[r])
  BY <1>3 DEF Asks, Asking, Labels, InHand
<1>7. RequestOK(contents, version, "decide", job[r])
  BY <1>5, <1>6, UnansweredOK
<1> QED
  BY <1>1, <1>2, <1>3, <1>4, <1>5, <1>7, Moved

LEMMA DecideStep ==
    ASSUME Inv, NEW r \in Requests, Decide(r), UNCHANGED deployment
    PROVE  Inv'
<1> DEFINE j == job[r]
           v == j.policy.version
           p == contents[v]
<1>1. pc[r] = "decide" /\ UNCHANGED <<contents, version, loaded>>
  BY DEF Decide
<1>2. /\ j.since \in Nat /\ j.since <= version /\ version \in Nat /\ FileOK
      /\ Asks("decide", j) /\ InHand(contents, version, "decide", j)
  BY <1>1, RequestFacts DEF RequestOK
<1>3. v \in j.since..version /\ v \in 1..version /\ ValidPolicy(p)
  BY <1>2 DEF InHand
<1>4. Rows(p)
  BY <1>2, <1>3, FilesAreRows
<1>5. pc[r] \in Asking
  BY <1>1 DEF Asking, Labels
<1>6. CASE j.command.op = "list"
  <2>1. Finish(r, "listed", Listing(p, j.actor))
    BY <1>6 DEF Decide
  <2>2. MayAnswer(contents, version, j, "listed", Listing(p, j.actor))
    BY <1>3, <1>4, ListingIsRight DEF MayAnswer, Justified
  <2> QED
    BY <1>1, <1>5, <2>1, <2>2, FinishStep
<1>7. CASE j.command.op # "list"
  <2>1. Finish(r, Prepared(p, j.actor, j.command), {})
    BY <1>7 DEF Decide
  <2>2. HasScope(j.actor, j.command.op)
    BY <1>1, <1>2, <1>7 DEF Asks, Asking, Labels
  <2>3. MayAnswer(contents, version, j, Prepared(p, j.actor, j.command), {})
    BY <1>2, <1>3, <1>4, <1>7, <2>2, DecisionOK
  <2> QED
    BY <1>1, <1>5, <2>1, <2>3, FinishStep
<1> QED
  BY <1>6, <1>7

LEMMA GiveUpStep ==
    ASSUME Inv, NEW r \in Requests, GiveUp(r), UNCHANGED deployment
    PROVE  Inv'
<1>1. pc[r] \in Asking
  BY DEF GiveUp, Asking, Inv, JobsOK
<1>2. MayAnswer(contents, version, job[r], "temporarily_unavailable", {})
  BY SilentOK DEF Silent
<1> QED
  BY <1>1, <1>2, FinishStep DEF GiveUp

LEMMA LeaveStep ==
    ASSUME Inv, NEW r \in Requests, Leave(r), UNCHANGED deployment
    PROVE  Inv'
<1>1. UNCHANGED <<contents, version, loaded>> /\ FileOK' /\ version \in Nat
  BY FileKept, RequestFacts DEF Leave
<1>2. pc' = [pc EXCEPT ![r] = "idle"] /\ job' = [job EXCEPT ![r] = NoJob]
  BY DEF Leave, Goto, Update
<1>3. Shaped(NoJob) /\ NoJob.since = 0 /\ NoJob.answer = None /\ "idle" \in Labels
  BY DEF NoJob, Shaped, Labels
<1>4. RequestOK(contents, version, "idle", NoJob)
  BY <1>3 DEF RequestOK, Asks, Asking, InHand, Answered, Justified, None
<1>5. NoJob.since <= version
  BY <1>1, <1>3
<1> QED
  BY <1>1, <1>2, <1>3, <1>4, <1>5, Moved

\* A new version comes after the others, which keep saying what they said.
LEMMA WriteStep ==
    ASSUME Inv, NEW p \in Deployed.policies, Write(p), UNCHANGED deployment
    PROVE  Inv'
<1>1. /\ version <= Deployed.writes /\ version' = version + 1
      /\ contents' = [contents EXCEPT ![version + 1] = p]
      /\ loaded' = loaded /\ pc' = pc /\ job' = job /\ Deployed' = Deployed
  BY DEF Write, Deployed
<1>2. FileOK /\ Deployed.writes \in Nat /\ version \in Nat
  BY AuthorizationAssumption DEF Inv, FileOK, Deployed
<1>3. version' \in 1..(Deployed.writes + 1) /\ version' \in Nat /\ version <= version'
  BY <1>1, <1>2 DEF FileOK
<1>4. /\ contents' \in [1..(Deployed.writes + 1) -> Deployed.policies \cup {Unreadable}]
      /\ \A v \in 1..version : contents'[v] = contents[v]
  BY <1>1, <1>2, <1>3 DEF FileOK
<1>5. loaded.version \in 1..version' /\ contents'[loaded.version] = contents[loaded.version]
  BY <1>2, <1>3, <1>4 DEF FileOK
<1>6. FileOK'
  BY <1>1, <1>2, <1>3, <1>4, <1>5 DEF FileOK
<1>7. ASSUME NEW q \in Requests
      PROVE  /\ Shaped(job'[q]) /\ job'[q].since <= version'
             /\ RequestOK(contents', version', pc'[q], job'[q])
  <2>1. /\ Shaped(job[q]) /\ job[q].since \in Nat /\ job[q].since <= version
        /\ RequestOK(contents, version, pc[q], job[q])
    BY RequestFacts
  <2>2. RequestOK(contents', version', pc[q], job[q])
    BY <1>2, <1>3, <1>4, <2>1, StaysOK
  <2> QED
    BY <1>1, <1>2, <1>3, <2>1, <2>2
<1> QED
  BY <1>1, <1>6, <1>7 DEF Inv, JobsOK

LEMMA InitOK == Init => Inv
<1> SUFFICES ASSUME Init PROVE Inv
  OBVIOUS
<1>1. Deployed.writes \in Nat /\ deployment \in DOMAIN Deployments
  BY AuthorizationAssumption DEF Init, Deployed
<1>2. PICK p \in {q \in Deployed.policies : ValidPolicy(q)} :
         contents = [v \in 1..(Deployed.writes + 1) |-> IF v = 1 THEN p ELSE Unreadable]
  BY DEF Init
<1>3. contents[1] = p /\ 1 \in 1..(Deployed.writes + 1)
  BY <1>1, <1>2
<1>4. loaded = [stamp |-> 1, version |-> 1] /\ version = 1
  BY DEF Init
<1>5. FileOK
  BY <1>1, <1>2, <1>3, <1>4 DEF FileOK
<1>6. Shaped(NoJob) /\ NoJob.since = 0 /\ NoJob.answer = None
  BY DEF NoJob, Shaped
<1>7. RequestOK(contents, version, "idle", NoJob)
  BY <1>6 DEF RequestOK, Asks, Asking, InHand, Answered, Justified, None
<1>8. \A r \in Requests : pc[r] = "idle" /\ job[r] = NoJob
  BY DEF Init
<1>9. JobsOK
  BY <1>4, <1>6, <1>8 DEF JobsOK, Init, Labels
<1> QED
  BY <1>5, <1>7, <1>8, <1>9 DEF Inv

LEMMA NextOK == Inv /\ [Next]_vars => Inv'
<1> SUFFICES ASSUME Inv, [Next]_vars PROVE Inv'
  OBVIOUS
<1>1. CASE UNCHANGED vars
  BY <1>1 DEF vars, Inv, FileOK, JobsOK, Deployed
<1>2. CASE Next
  <2>1. UNCHANGED deployment
    BY <1>2 DEF Next
  <2>2. ASSUME NEW r \in Requests, NEW who, BeginList(r, who) PROVE Inv'
    BY <2>1, <2>2, BeginListStep
  <2>3. ASSUME NEW r \in Requests, NEW who, NEW c, BeginPrepare(r, who, c) PROVE Inv'
    BY <2>1, <2>3, BeginPrepareStep
  <2>4. ASSUME NEW r \in Requests, ReadLoaded(r) PROVE Inv'
    BY <2>1, <2>4, ReadLoadedStep
  <2>5. ASSUME NEW r \in Requests, StatFile(r) PROVE Inv'
    BY <2>1, <2>5, StatFileStep
  <2>6. ASSUME NEW r \in Requests, LoadStat(r) PROVE Inv'
    BY <2>1, <2>6, LoadStatStep
  <2>7. ASSUME NEW r \in Requests, LoadRead(r) PROVE Inv'
    BY <2>1, <2>7, LoadReadStep
  <2>8. ASSUME NEW r \in Requests, StatFails(r) PROVE Inv'
    BY <2>1, <2>8, StatFailsStep
  <2>9. ASSUME NEW r \in Requests, Store(r) PROVE Inv'
    BY <2>1, <2>9, StoreStep
  <2>10. ASSUME NEW r \in Requests, Decide(r) PROVE Inv'
    BY <2>1, <2>10, DecideStep
  <2>11. ASSUME NEW r \in Requests, GiveUp(r) PROVE Inv'
    BY <2>1, <2>11, GiveUpStep
  <2>12. ASSUME NEW r \in Requests, Leave(r) PROVE Inv'
    BY <2>1, <2>12, LeaveStep
  <2>13. ASSUME NEW p \in Deployed.policies, Write(p) PROVE Inv'
    BY <2>1, <2>13, WriteStep
  <2> QED
    BY <1>2, <2>2, <2>3, <2>4, <2>5, <2>6, <2>7, <2>8, <2>9, <2>10, <2>11, <2>12, <2>13
       DEF Next
<1> QED
  BY <1>1, <1>2

-----------------------------------------------------------------------------
(* Theorems.                                                               *)

\* The inductive invariant holds: what every request has in hand at every step
\* of currentPolicy and what its answer says are as Inv states.
THEOREM AuthorizationInvariance == Spec => []Inv
  BY InitOK, NextOK, PTL DEF Spec

\* Every decision on an authenticated caller's operation, by Evaluate under
\* the policy currentPolicy handed out, is that of a policy the file held
\* while the request was served, however reloads of concurrent requests
\* interleave with each other and with the operator.
THEOREM DecisionsAreCurrent == Spec => []DecisionIsCurrent
<1>1. Inv => DecisionIsCurrent
  <2> SUFFICES ASSUME Inv PROVE DecisionIsCurrent
    OBVIOUS
  <2>1. TypeOK
    BY DEF Inv, FileOK, JobsOK, Labels, TypeOK
  <2>2. \A r \in Requests : Justified(contents, version, job[r])
    BY DEF Inv, RequestOK
  <2> QED
    BY <2>1, <2>2 DEF DecisionIsCurrent, Justified, Window
<1> QED
  BY <1>1, AuthorizationInvariance, PTL

\* What ListProfiles shows, through its index arithmetic, is under one policy
\* the file held meanwhile the whole of what preparing each operation would
\* grant, and nothing else: no profile with a right is hidden, none without
\* one shown, for any number of profiles.
THEOREM ListingsAreTrue == Spec => []ListingIsPrepared
<1>1. Inv => ListingIsPrepared
  <2> SUFFICES ASSUME Inv, NEW r \in Requests, job[r].answer = "listed",
                      job[r].actor.kind # "anonymous"
               PROVE  \E v \in Window(r) :
                         /\ ValidPolicy(contents[v])
                         /\ job[r].listing = RightListing(contents[v], job[r].actor)
    BY DEF ListingIsPrepared
  <2>1. Justified(contents, version, job[r])
    BY DEF Inv, RequestOK
  <2> QED
    BY <2>1 DEF Justified, Window
<1> QED
  BY <1>1, AuthorizationInvariance, PTL

\* A caller the policy does not let through learns from Prepare neither which
\* profiles exist nor whether a value was acceptable.
THEOREM RefusalsTellNothing == Spec => []StrangersLearnNothing
<1>1. Inv => StrangersLearnNothing
  <2> SUFFICES ASSUME Inv, NEW r \in Requests,
                      job[r].actor.kind \notin {None, "anonymous"}
               PROVE  /\ job[r].answer # "not_found"
                      /\ job[r].answer = "too_large" =>
                            \E v \in Window(r) :
                               Granted(contents[v], job[r].actor,
                                       OperationCheck(job[r].command))
    BY DEF StrangersLearnNothing
  <2>1. Justified(contents, version, job[r])
    BY DEF Inv, RequestOK
  <2> QED
    BY <2>1 DEF Justified, Window
<1> QED
  BY <1>1, AuthorizationInvariance, PTL
=============================================================================
