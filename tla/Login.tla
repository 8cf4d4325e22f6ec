-------------------------------- MODULE Login --------------------------------
(***************************************************************************)
(* The browser login of backend/internal/authn: BeginLogin stores a        *)
(* pre-authentication session and a one-shot login transaction and sends   *)
(* the browser to the provider; CompleteLogin consumes the transaction,    *)
(* compares the session, exchanges the code, renews the session token,     *)
(* moves the fence to it and stores the principal.  Both run inside        *)
(* SessionMiddleware, next to other requests of the same browsers.  Any    *)
(* browser may open a callback URL, any number of times; every Redis call  *)
(* may fail with or without having been applied; locks, sessions and       *)
(* transactions expire; responses are lost, delayed and reordered.         *)
(***************************************************************************)
EXTENDS Integers, FiniteSets

CONSTANTS Browsers,
          Requests,   \* requests; a login's state is named by its request
          Earlier,    \* the state of a login that ended before the run
          None,       \* an absent key, cookie, token or principal
          MaxTokens,  \* bound on the session tokens generated
          MaxLogins   \* bound on the logins begun

Tokens == 1..MaxTokens
States == Requests \cup {Earlier}

ASSUME LoginAssumption ==
    /\ MaxTokens \in Nat \ {0}
    /\ MaxLogins \in Nat
    /\ Earlier \notin Requests
    /\ None \notin Browsers \cup States \cup Tokens \cup (Tokens \X Requests)

VARIABLES
    lock,      \* Redis lock key of each token: the owner
    fence,     \* Redis fence key of each token: <<token of the lock, owner>>
    session,   \* Redis session key of each token
    txn,       \* Redis login transaction of each state: its pre-auth token
    minted,    \* how many tokens were generated
    cookie,    \* the session cookie of each browser
    issued,    \* states with which a browser was sent to the provider
    pc,        \* where each request is
    req,       \* what each request asks
    copy,      \* the session data in its context
    reply,     \* its response: the outcome and the effect on the cookie
    begun,     \* history: the logins begun
    preAuth,   \* history: the pre-auth token of each login
    beganBy,   \* history: the browser that began each login
    redeemed,  \* history: <<state, request>> that got the transaction
    complete   \* history: states whose CompleteLogin succeeded

redis == <<lock, fence, session, txn>>
history == <<begun, preAuth, beganBy, redeemed, complete>>
vars == <<redis, minted, cookie, issued, pc, req, copy, reply, history>>

\* effects of a response on the cookie, other than setting it to a token
Keep == 0
Clear == -1

NoRequest == [kind |-> "none", by |-> None, sent |-> None, state |-> None]
NoReply == [code |-> "none", cookie |-> Keep]

\* scs: a session not (yet) in the store
NewSession(status) ==
    [token |-> None, who |-> None, fence |-> None,
     status |-> status]

\* what is stored: the login that authenticated the session
Data(r) == [who |-> copy[r].who]

Goto(r, l) == pc' = [pc EXCEPT ![r] = l]
Answer(r, code) == reply' = [reply EXCEPT ![r].code = code]

\* serveCallback: an error clears the cookie before it is written
CallbackFails(r) ==
    /\ reply' = [reply EXCEPT ![r] = [code |-> "failed", cookie |-> Clear]]
    /\ Goto(r, "write")

-----------------------------------------------------------------------------
(* The Redis scripts; ok = FALSE is an error, whatever Redis did.          *)

Activate(t, f, ok) ==
    \/ lock[f[1]] = f[2] /\ fence' = [fence EXCEPT ![t] = f]
    \/ ~ok /\ UNCHANGED fence

Commit(r, ok) ==
    LET t == copy[r].token
        f == copy[r].fence
    IN \/ /\ lock[f[1]] = f[2]
          /\ fence[t] = f
          /\ session' = [session EXCEPT ![t] = Data(r)]
       \/ ~ok /\ UNCHANGED session

Delete(t, f, ok) ==
    \/ /\ fence[t] = f
       /\ lock[f[1]] = f[2]
       /\ session' = [session EXCEPT ![t] = None]
       /\ fence' = [fence EXCEPT ![t] = None]
    \/ ~ok /\ UNCHANGED <<session, fence>>

\* unlocking may fail and leave the key to its TTL
Unlock(t, r) ==
    lock' \in {lock, [lock EXCEPT ![t] = IF @ = r THEN None ELSE @]}

-----------------------------------------------------------------------------
(* SessionMiddleware before the route.                                     *)

Entry(kind) == CASE kind = "login" -> "begin"
                 [] kind = "callback" -> "consume"
                 [] OTHER -> "write"

Arrive(r) ==
    /\ pc[r] = "idle"
    /\ \E b \in Browsers, kind \in {"plain", "login", "callback"},
          s \in issued \cup {None} :
          /\ (kind = "callback") <=> (s # None)
          /\ kind = "plain" => cookie[b] # None
          /\ kind = "login" => Cardinality(begun) < MaxLogins
          /\ begun' = IF kind = "login" THEN begun \cup {r} ELSE begun
          /\ req' = [req EXCEPT ![r] = [kind |-> kind, by |-> b,
                                        sent |-> cookie[b], state |-> s]]
          /\ Goto(r, IF cookie[b] = None THEN Entry(kind) ELSE "lock")
    /\ UNCHANGED <<redis, minted, cookie, issued, copy, reply, preAuth, beganBy,
                   redeemed, complete>>

AcquireSessionMutex(r) ==
    /\ pc[r] = "lock"
    /\ lock[req[r].sent] = None
    /\ lock' = [lock EXCEPT ![req[r].sent] = r]
    /\ Goto(r, "load")
    /\ UNCHANGED <<fence, session, txn, minted, cookie, issued, req, copy, reply, history>>

AcquireTimeout(r) ==
    /\ pc[r] = "lock"
    /\ lock' \in {lock, [lock EXCEPT ![req[r].sent] = IF @ = None THEN r ELSE @]}
    /\ Answer(r, "failed")
    /\ Goto(r, "done")
    /\ UNCHANGED <<fence, session, txn, minted, cookie, issued, req, copy,
                   history>>

\* Mutant of Load: the fence of the lock is not bound to the loaded session.
LoadWithoutFence(r) ==
    /\ pc[r] = "load"
    /\ LET t == req[r].sent
       IN /\ copy' = [copy EXCEPT ![r] =
                        IF session[t] = None THEN NewSession("unmodified")
                        ELSE [token |-> t, who |-> session[t].who,
                              fence |-> None,
                              status |-> "modified"]]
          /\ Goto(r, Entry(req[r].kind))
    /\ UNCHANGED <<redis, minted, cookie, issued, req, reply, history>>

\* a stale cookie gets a new session, without the fence of the old token
Load(r) ==
    /\ pc[r] = "load"
    /\ LET t == req[r].sent
       IN \/ /\ Answer(r, "failed")
             /\ Goto(r, "release")
             /\ UNCHANGED copy
          \/ /\ session[t] = None
             /\ copy' = [copy EXCEPT ![r] = NewSession("unmodified")]
             /\ Goto(r, Entry(req[r].kind))
             /\ UNCHANGED reply
          \/ /\ session[t] # None
             /\ copy' = [copy EXCEPT ![r] =
                           [token |-> t, who |-> session[t].who,
                            fence |-> None,
                            status |-> "modified"]]
             /\ Goto(r, "activate")
             /\ UNCHANGED reply
    /\ UNCHANGED <<redis, minted, cookie, issued, req, history>>

ActivateFence(r) ==
    LET f == <<req[r].sent, r>>
    IN /\ pc[r] = "activate"
       /\ \E ok \in BOOLEAN :
             /\ Activate(req[r].sent, f, ok)
             /\ IF ok THEN /\ copy' = [copy EXCEPT ![r].fence = f]
                           /\ Goto(r, Entry(req[r].kind))
                           /\ UNCHANGED reply
                      ELSE /\ Answer(r, "failed")
                           /\ Goto(r, "release")
                           /\ UNCHANGED copy
       /\ UNCHANGED <<lock, session, txn, minted, cookie, issued, req,
                      history>>

-----------------------------------------------------------------------------
(* The session commit, fenced or not, of BeginLogin ("commit") and of the  *)
(* response ("write").                                                     *)

CommitDone(r, ok) ==
    IF pc[r] \in {"commit", "commitProbed"}
    THEN /\ Goto(r, IF ok THEN "save" ELSE "write")
         /\ Answer(r, IF ok THEN "none" ELSE "failed")
    ELSE /\ Goto(r, "release")
         /\ reply' = [reply EXCEPT ![r] =
                        IF ok THEN [@ EXCEPT !.cookie = copy[r].token]
                        ELSE [@ EXCEPT !.code = "failed"]]

FencedCommit(r) ==
    /\ pc[r] \in {"commit", "write"}
    /\ copy[r].status = "modified"
    /\ copy[r].fence # None
    /\ \E ok \in BOOLEAN : Commit(r, ok) /\ CommitDone(r, ok)
    /\ UNCHANGED <<lock, fence, txn, minted, cookie, issued, req, copy,
                   history>>

\* the fence key is read on one connection and the session written on another
FenceProbe(r) ==
    /\ pc[r] \in {"commit", "write"}
    /\ copy[r].status = "modified"
    /\ copy[r].fence = None
    /\ \/ /\ fence[copy[r].token] = None
          /\ Goto(r, IF pc[r] = "commit" THEN "commitProbed" ELSE "writeProbed")
          /\ UNCHANGED reply
       \/ CommitDone(r, FALSE)
    /\ UNCHANGED <<redis, minted, cookie, issued, req, copy, history>>

UnfencedCommit(r) ==
    /\ pc[r] \in {"commitProbed", "writeProbed"}
    /\ \E ok \in BOOLEAN :
          /\ \/ session' = [session EXCEPT ![copy[r].token] = Data(r)]
             \/ ~ok /\ UNCHANGED session
          /\ CommitDone(r, ok)
    /\ UNCHANGED <<lock, fence, txn, minted, cookie, issued, req, copy,
                   history>>

\* nothing to commit, or the lease was found lost, which it may be any time
WriteWithoutCommit(r) ==
    /\ pc[r] = "write"
    /\ \/ /\ req[r].sent # None
          /\ Answer(r, "failed")
       \/ /\ copy[r].status = "destroyed"
          /\ reply' = [reply EXCEPT ![r].cookie = Clear]
       \/ /\ copy[r].status = "unmodified"
          /\ UNCHANGED reply
    /\ Goto(r, "release")
    /\ UNCHANGED <<redis, minted, cookie, issued, req, copy, history>>

-----------------------------------------------------------------------------
(* BeginLogin.                                                             *)

\* put the pending state; scs gives a new session its token when it commits
BeginLogin(r) ==
    /\ pc[r] = "begin"
    /\ IF copy[r].token = None
       THEN /\ minted < MaxTokens
            /\ minted' = minted + 1
            /\ copy' = [copy EXCEPT ![r] = [@ EXCEPT !.token = minted + 1,
                                                     !.status = "modified"]]
       ELSE UNCHANGED <<minted, copy>>
    /\ Goto(r, "commit")
    /\ UNCHANGED <<redis, cookie, issued, req, reply, history>>

SaveLoginTransaction(r) ==
    /\ pc[r] = "save"
    /\ \/ /\ txn' = [txn EXCEPT ![r] = copy[r].token]
          /\ Answer(r, "redirect")
          /\ Goto(r, "write")
       \/ /\ txn' \in {txn, [txn EXCEPT ![r] = copy[r].token]}
          /\ Answer(r, "failed")
          /\ Goto(r, IF copy[r].token = req[r].sent THEN "destroy" ELSE "relock")
    /\ preAuth' = [preAuth EXCEPT ![r] = copy[r].token]
    /\ beganBy' = [beganBy EXCEPT ![r] = req[r].by]
    /\ UNCHANGED <<lock, fence, session, minted, cookie, issued, req, copy,
                   begun, redeemed, complete>>

\* Logout after a failed save: a new session is locked and fenced first
Relock(r) ==
    /\ pc[r] = "relock"
    /\ \/ /\ lock[copy[r].token] = None
          /\ lock' = [lock EXCEPT ![copy[r].token] = r]
          /\ Goto(r, "refence")
       \/ Goto(r, "write") /\ UNCHANGED lock
    /\ UNCHANGED <<fence, session, txn, minted, cookie, issued, req, copy, reply, history>>

Refence(r) ==
    LET t == copy[r].token
    IN /\ pc[r] = "refence"
       /\ \E ok \in BOOLEAN :
             /\ Activate(t, <<t, r>>, ok)
             /\ IF ok THEN Goto(r, "destroy") /\ UNCHANGED lock
                      ELSE Goto(r, "write") /\ Unlock(t, r)
       /\ UNCHANGED <<session, txn, minted, cookie, issued, req, copy, reply, history>>

\* its error is ignored
Destroy(r) ==
    LET t == copy[r].token
    IN /\ pc[r] = "destroy"
       /\ \E ok \in BOOLEAN :
             /\ Delete(t, <<t, r>>, ok)
             /\ copy' = IF ok THEN [copy EXCEPT ![r] = NewSession("destroyed")]
                              ELSE copy
       /\ IF t = req[r].sent THEN UNCHANGED lock ELSE Unlock(t, r)
       /\ Goto(r, "write")
       /\ UNCHANGED <<txn, minted, cookie, issued, req, reply, history>>

-----------------------------------------------------------------------------
(* CompleteLogin.                                                          *)

\* Mutant of Consumed: the transaction is read and not deleted.
StaysThere(s) == txn

\* the script's effect
Consumed(s) == [txn EXCEPT ![s] = None]

\* Mutant of SameBrowser: any session will do.
AnySession(r, s) == copy[r].token # None

SameBrowser(r, s) == copy[r].token # None /\ copy[r].token = txn[s]

ConsumeLoginTransaction(r) ==
    LET s == req[r].state
    IN /\ pc[r] = "consume"
       /\ \/ /\ txn[s] = None
             /\ CallbackFails(r)
             /\ UNCHANGED <<txn, redeemed>>
          \/ /\ txn[s] # None
             /\ txn' = Consumed(s)
             /\ IF SameBrowser(r, s)
                THEN /\ Goto(r, "exchange")
                     /\ redeemed' = redeemed \cup {<<s, r>>}
                     /\ UNCHANGED reply
                ELSE CallbackFails(r) /\ UNCHANGED redeemed
          \/ /\ txn' \in {txn, Consumed(s)}
             /\ CallbackFails(r)
             /\ UNCHANGED redeemed
       /\ UNCHANGED <<lock, fence, session, minted, cookie, issued, req, copy,
                      begun, preAuth, beganBy, complete>>

\* the provider refuses, times out, or returns an ID token that verifies
Exchange(r) ==
    /\ pc[r] = "exchange"
    /\ \/ CallbackFails(r)
       \/ Goto(r, "renew") /\ UNCHANGED reply
    /\ UNCHANGED <<redis, minted, cookie, issued, req, copy, history>>

\* scs deletes the old session, then sets a new token (and a new absolute
\* deadline, which is left out)
RenewToken(r) ==
    /\ pc[r] = "renew"
    /\ minted < MaxTokens
    /\ \E ok \in BOOLEAN :
          /\ Delete(copy[r].token, copy[r].fence, ok)
          /\ IF ok THEN /\ minted' = minted + 1
                        /\ copy' = [copy EXCEPT ![r].token = minted + 1]
                        /\ Goto(r, "rebind")
                        /\ UNCHANGED reply
                   ELSE /\ CallbackFails(r)
                        /\ UNCHANGED <<minted, copy>>
    /\ UNCHANGED <<lock, txn, cookie, issued, req, history>>

\* rebindSessionLock: the new token's fence names the old token's lock
Rebind(r) ==
    /\ pc[r] = "rebind"
    /\ \E ok \in BOOLEAN :
          /\ Activate(copy[r].token, copy[r].fence, ok)
          /\ IF ok THEN /\ copy' = [copy EXCEPT ![r].who = req[r].state]
                        /\ Answer(r, "redirect")
                        /\ Goto(r, "write")
                        /\ complete' = complete \cup {req[r].state}
                   ELSE /\ CallbackFails(r)
                        /\ UNCHANGED <<copy, complete>>
    /\ UNCHANGED <<lock, session, txn, minted, cookie, issued, req, begun,
                   preAuth, beganBy, redeemed>>

-----------------------------------------------------------------------------
(* After the route: the lock is released, the response travels.  A         *)
(* response that arrives before the unlock is one that arrives after an    *)
(* unlock that failed: the lock may expire at any time.                    *)

Release(r) ==
    /\ pc[r] = "release"
    /\ IF req[r].sent = None THEN UNCHANGED lock ELSE Unlock(req[r].sent, r)
    /\ Goto(r, "done")
    /\ UNCHANGED <<fence, session, txn, minted, cookie, issued, req, copy, reply, history>>

\* the browser processes the Set-Cookie headers; the last one wins
Deliver(r) ==
    LET b == req[r].by
    IN /\ pc[r] = "done"
       /\ reply[r] # NoReply
       /\ cookie' = [cookie EXCEPT ![b] =
                       CASE reply[r].cookie = Keep -> @
                         [] reply[r].cookie = Clear -> None
                         [] OTHER -> reply[r].cookie]
       /\ issued' = IF req[r].kind = "login" /\ reply[r].code = "redirect"
                    THEN issued \cup {r} ELSE issued
       /\ reply' = [reply EXCEPT ![r] = NoReply]
       /\ req' = [req EXCEPT ![r] = NoRequest]
       /\ UNCHANGED <<redis, minted, pc, copy, history>>

\* The response never arrives.  A pod that dies in the middle of a request
\* is this after failures of all the calls that were left.
DropReply(r) ==
    /\ pc[r] = "done"
    /\ reply[r] # NoReply
    /\ reply' = [reply EXCEPT ![r] = NoReply]
    /\ req' = [req EXCEPT ![r] = NoRequest]
    /\ UNCHANGED <<redis, minted, cookie, issued, pc, copy, history>>

ExpireLock(t) ==
    /\ lock[t] # None
    /\ lock' = [lock EXCEPT ![t] = None]
    /\ UNCHANGED <<fence, session, txn, minted, cookie, issued, pc, req, copy, reply, history>>

\* the fence key lives at least as long as the session key
ExpireSession(t) ==
    /\ session[t] # None
    /\ session' = [session EXCEPT ![t] = None]
    /\ fence' \in {fence, [fence EXCEPT ![t] = None]}
    /\ UNCHANGED <<lock, txn, minted, cookie, issued, pc, req, copy, reply,
                   history>>

ExpireTransaction(s) ==
    /\ txn[s] # None
    /\ txn' = [txn EXCEPT ![s] = None]
    /\ UNCHANGED <<lock, fence, session, minted, cookie, issued, pc, req, copy, reply, history>>

-----------------------------------------------------------------------------
\* one browser is already logged in, the others have no cookie
Init ==
    /\ lock = [t \in Tokens |-> None]
    /\ fence = [t \in Tokens |-> None]
    /\ \E known \in Browsers :
          /\ session = [t \in Tokens |->
                          IF t = 1 THEN [who |-> Earlier]
                          ELSE None]
          /\ cookie = [b \in Browsers |-> IF b = known THEN 1 ELSE None]
          /\ beganBy = [s \in States |-> IF s = Earlier THEN known ELSE None]
          /\ minted = 1
    /\ txn = [s \in Requests |-> None]
    /\ issued = {}
    /\ pc = [r \in Requests |-> "idle"]
    /\ req = [r \in Requests |-> NoRequest]
    /\ copy = [r \in Requests |-> NewSession("unmodified")]
    /\ reply = [r \in Requests |-> NoReply]
    /\ begun = {}
    /\ preAuth = [s \in States |-> None]
    /\ redeemed = {}
    /\ complete = {}

Step(r) ==
    \/ Arrive(r) \/ AcquireSessionMutex(r) \/ AcquireTimeout(r) \/ Load(r)
    \/ ActivateFence(r) \/ FencedCommit(r) \/ FenceProbe(r) \/ UnfencedCommit(r)
    \/ WriteWithoutCommit(r) \/ BeginLogin(r) \/ SaveLoginTransaction(r)
    \/ Relock(r) \/ Refence(r) \/ Destroy(r) \/ ConsumeLoginTransaction(r)
    \/ Exchange(r) \/ RenewToken(r) \/ Rebind(r) \/ Release(r)

Next ==
    \/ \E r \in Requests : Step(r) \/ Deliver(r) \/ DropReply(r)
    \/ \E t \in Tokens : ExpireLock(t) \/ ExpireSession(t)
    \/ \E s \in Requests : ExpireTransaction(s)

Spec == Init /\ [][Next]_vars

-----------------------------------------------------------------------------
Fences == Tokens \X Requests
Stored == [who : States \cup {None}]
Labels == {"idle", "lock", "load", "activate", "begin", "commit", "commitProbed",
           "save", "relock", "refence", "destroy", "consume", "exchange", "renew",
           "rebind", "write", "writeProbed", "release", "done"}
Asked == [kind : {"none", "plain", "login", "callback"}, by : Browsers \cup {None},
          sent : Tokens \cup {None}, state : Requests \cup {None}]
Copies == [token : Tokens \cup {None}, who : States \cup {None},
           fence : Fences \cup {None}, status : {"unmodified", "modified", "destroyed"}]
Replies == [code : {"none", "redirect", "failed"}, cookie : {Keep, Clear} \cup Tokens]

\* Types of the Redis keys, the cookies and the requests' locals.
TypeOK ==
    /\ lock \in [Tokens -> Requests \cup {None}]
    /\ fence \in [Tokens -> Fences \cup {None}]
    /\ session \in [Tokens -> Stored \cup {None}]
    /\ txn \in [Requests -> Tokens \cup {None}]
    /\ minted \in 0..MaxTokens
    /\ cookie \in [Browsers -> Tokens \cup {None}]
    /\ issued \subseteq Requests
    /\ pc \in [Requests -> Labels]
    /\ req \in [Requests -> Asked]
    /\ copy \in [Requests -> Copies]
    /\ reply \in [Requests -> Replies]
    /\ begun \subseteq Requests
    /\ preAuth \in [States -> Tokens \cup {None}]
    /\ beganBy \in [States -> Browsers \cup {None}]
    /\ redeemed \subseteq Requests \X Requests
    /\ complete \subseteq Requests

\* The verifier and the nonce of a login are handed to at most one callback,
\* however often and in however many browsers it is opened, and whatever
\* becomes of that one (the one-shot script).
TransactionOnce == \A p, q \in redeemed : p[1] = q[1] => p = q

\* The session a login establishes is only ever the cookie of the browser
\* that began the login (PreAuthSessionHash).
CookieIsBound ==
    \A b \in Browsers, t \in Tokens :
        /\ cookie[b] = t
        /\ session[t] # None
        /\ session[t].who # None
        => beganBy[session[t].who] = b

\* Once a login has renewed its token, the session it replaced is gone for
\* good: no concurrent request of the old cookie can store it again.
ReplacedIsGone == \A s \in complete : session[preAuth[s]] = None

\* What a login used up stays used up: its transaction is redeemed once, and
\* the session it replaced never returns (ConsumeLoginTransaction, RenewToken).
SpentStaysSpent == TypeOK /\ TransactionOnce /\ ReplacedIsGone

\* The commit without a fence, whose check and write are two calls, only
\* happens to a token that no browser and no other request knows.
UnfencedIsPrivate ==
    \A r \in Requests : pc[r] \in {"commitProbed", "writeProbed"} =>
        /\ \A b \in Browsers : cookie[b] # copy[r].token
        /\ \A q \in Requests \ {r} : copy[q].token # copy[r].token

\* A callback that used up its login and is answered with an error does not
\* hand the browser the session of that login, although the commit may set a
\* cookie after the error path cleared it.
FailureIsNoLogin ==
    \A r \in Requests, t \in Tokens :
        /\ <<req[r].state, r>> \in redeemed
        /\ reply[r].code = "failed"
        /\ reply[r].cookie = t
        /\ session[t] # None
        => session[t].who # req[r].state

\* A login belongs to the browser that began it and was told it succeeded.
BoundBrowser == CookieIsBound /\ FailureIsNoLogin
=============================================================================
