----------------------------- MODULE LoginProofs -----------------------------
(***************************************************************************)
(* Proofs about Login for any browsers, requests and number of tokens: a   *)
(* login's transaction is redeemed once, the session it replaced never     *)
(* returns, the session it establishes belongs to the browser that began   *)
(* it and was told so, and the commit without a fence is a private one.    *)
(***************************************************************************)
EXTENDS Login, TLAPS

-----------------------------------------------------------------------------
(* The inductive invariant.                                                *)

\* a request between the middleware's load and the end of its response
Busy == {"begin", "commit", "commitProbed", "save", "relock", "refence",
         "destroy", "consume", "exchange", "renew", "rebind", "write",
         "writeProbed"}
LoginSteps == {"begin", "commit", "commitProbed", "save", "relock", "refence",
               "destroy"}
Redeeming == {"exchange", "renew", "rebind"}
Saved == {"relock", "refence", "destroy", "write", "writeProbed", "release",
          "done"}

\* What a request has in hand where it is: a session it loaded comes with the
\* fence of its lock, one it was given has neither been loaded nor, in a
\* login, been fenced, and no response has a cookie before it is written.
LocalsOf(r) ==
    /\ pc[r] \in {"idle", "lock", "load"} => copy[r] = NewSession("unmodified")
    /\ pc[r] = "idle" => req[r] = NoRequest
    /\ pc[r] \in {"lock", "load", "activate"} => req[r].sent # None
    /\ pc[r] \notin {"idle", "done"} => req[r].by \in Browsers
    /\ pc[r] = "activate" => copy[r].token = req[r].sent
    /\ copy[r].status = "modified" <=> copy[r].token # None
    /\ pc[r] \in Busy =>
          /\ copy[r].fence # None => /\ copy[r].fence = <<req[r].sent, r>>
                                     /\ req[r].sent # None
          /\ copy[r].token = req[r].sent /\ req[r].sent # None
                => copy[r].fence # None
    /\ pc[r] \in (LoginSteps \ {"begin"}) \cup Redeeming \cup {"writeProbed"}
          => copy[r].token # None
    /\ pc[r] \in {"begin", "consume", "exchange", "renew"} =>
          copy[r].token \in {req[r].sent, None}
    /\ pc[r] \in {"commitProbed", "writeProbed"} => copy[r].fence = None
    /\ pc[r] \in {"relock", "refence"} => copy[r].token # req[r].sent
    /\ pc[r] = "rebind" => copy[r].token # req[r].sent /\ copy[r].fence # None
    /\ pc[r] \notin {"release", "done"} => reply[r].cookie \in {Keep, Clear}
    /\ pc[r] \in LoginSteps => req[r].state = None
    /\ pc[r] \in Redeeming \cup {"consume"} => req[r].state # None
    /\ req[r].kind = "callback" <=> req[r].state # None
    /\ req[r].state # None => req[r].state \in issued

Locals == \A r \in Requests : LocalsOf(r)

\* the tokens generated so far
Given == 1..minted

\* No other token is in use.
Known ==
    /\ \A b \in Browsers : cookie[b] \in Given \cup {None}
    /\ \A t \in Tokens : session[t] # None => t \in Given
    /\ \A s \in States : preAuth[s] \in Given \cup {None}
    /\ \A r \in Requests : /\ req[r].sent \in Given \cup {None}
                           /\ copy[r].token \in Given \cup {None}
                           /\ reply[r].cookie \in Given \cup {Keep, Clear}

\* A request that generated the token of its session, and has not answered yet
Minting(q) ==
    pc[q] \in Busy /\ copy[q].token # None /\ copy[q].token # req[q].sent

\* ... is the only one to know it.
Private ==
    \A q \in Requests :
        Minting(q) =>
            /\ \A b \in Browsers : cookie[b] # copy[q].token
            /\ \A r \in Requests : /\ req[r].sent # copy[q].token
                                   /\ reply[r].cookie # copy[q].token
                                   /\ r # q => copy[r].token # copy[q].token
            /\ \A s \in States \ {q} : preAuth[s] # copy[q].token

\* A login's transaction is there at most from its save to the first callback
\* that takes it, and a callback exists only for a login that has ended.
OneShot ==
    /\ \A s \in Requests :
          /\ txn[s] # None => pc[s] \in Saved /\ preAuth[s] = txn[s]
          /\ s \in issued => pc[s] = "done"
    /\ \A s, r \in Requests :
          <<s, r>> \in redeemed =>
              /\ txn[s] = None /\ pc[s] = "done" /\ preAuth[s] # None
              /\ pc[r] \in Redeeming \cup {"write", "writeProbed", "release", "done"}
    /\ \A r \in Requests : pc[r] \in Redeeming => <<req[r].state, r>> \in redeemed
    /\ TransactionOnce

\* The browser of every token: whoever has it, sent it, is to be given it,
\* began a login with it or is logged in by it is that browser.
OwnedBy(own) ==
    /\ \A b \in Browsers : cookie[b] # None => own[cookie[b]] = b
    /\ \A r \in Requests :
          /\ req[r].sent # None => own[req[r].sent] = req[r].by
          /\ reply[r].cookie \in Tokens => own[reply[r].cookie] = req[r].by
          /\ pc[r] \notin {"idle", "done"} =>
                /\ copy[r].token # None => own[copy[r].token] = req[r].by
                /\ copy[r].who # None => beganBy[copy[r].who] = req[r].by
          /\ pc[r] \in Redeeming => beganBy[req[r].state] = req[r].by
    /\ \A s \in States : preAuth[s] # None => own[preAuth[s]] = beganBy[s]
    /\ \A t \in Tokens :
          session[t] # None /\ session[t].who # None => own[t] = beganBy[session[t].who]

Owned == \E own \in [Tokens -> Browsers] : OwnedBy(own)

\* the response of r hands out a session although its callback failed
Failing(r) ==
    /\ <<req[r].state, r>> \in redeemed
    /\ reply[r].code = "failed"
    /\ pc[r] \in {"write", "writeProbed"} \/ reply[r].cookie \in Tokens

\* A session names a login only once that login is complete, and the callback
\* that redeemed a login and failed has not completed it.
Completed ==
    /\ \A s \in complete : \E r \in Requests : <<s, r>> \in redeemed
    /\ \A t \in Tokens :
          session[t] # None => session[t].who \in complete \cup {Earlier, None}
    /\ \A r \in Requests :
          /\ copy[r].who \in complete \cup {Earlier, None}
          /\ pc[r] \in Redeeming => req[r].state \notin complete
          /\ Failing(r) => req[r].state \notin complete

\* A fence names only a request that has activated it.
Fenced == \A t, x \in Tokens, q \in Requests :
             fence[t] = <<x, q>> => pc[q] \notin {"idle", "lock", "load"}

\* nothing is stored, and nobody who holds the lock has a copy to store
Gone(t) ==
    /\ session[t] = None
    /\ \A q \in Requests :
          lock[t] = q => /\ fence[t] # <<t, q>>
                         /\ ~(pc[q] = "activate" /\ req[q].sent = t)

\* The session of a login is gone from the renewal of its token on.
Replaced ==
    /\ \A r \in Requests :
          /\ pc[r] \in {"exchange", "renew"} => copy[r].token = preAuth[req[r].state]
          /\ pc[r] = "rebind" => Gone(preAuth[req[r].state])
    /\ \A s \in complete : Gone(preAuth[s])

Inv == /\ TypeOK
       /\ Locals
       /\ Known
       /\ Private
       /\ OneShot
       /\ Owned
       /\ Completed
       /\ Fenced
       /\ Replaced


-----------------------------------------------------------------------------
(* Types.                                                                  *)

\* A token that is generated is a new one.
LEMMA NewToken ==
    TypeOK /\ minted < MaxTokens => minted + 1 \in Tokens /\ minted + 1 \in 0..MaxTokens
BY LoginAssumption DEF TypeOK, Tokens

\* The next token is not in use; the ones in use are tokens.
LEMMA NextToken ==
    TypeOK => /\ minted + 1 \notin Given /\ minted + 1 \in 1..(minted + 1)
              /\ Given \subseteq 1..(minted + 1) /\ Given \subseteq Tokens
              /\ {None, Keep, Clear} \cap Tokens = {}
BY LoginAssumption DEF TypeOK, Tokens, Given, Keep, Clear

\* A copy with another token is a copy.
LEMMA GivenToken ==
    ASSUME NEW k \in Copies, NEW t \in Tokens
    PROVE  /\ [k EXCEPT !.token = t] \in Copies
           /\ [k EXCEPT !.token = t, !.status = "modified"] \in Copies
BY DEF Copies

\* Every step keeps the types.
LEMMA TypeStep ==
    TypeOK /\ Locals /\ [Next]_vars => TypeOK'
<1> SUFFICES ASSUME TypeOK, Locals, [Next]_vars
             PROVE  TypeOK'
  OBVIOUS
<1> USE LoginAssumption
      DEF TypeOK, Labels, redis, history, Goto, Answer, CallbackFails
<1>1. ASSUME NEW r \in Requests, Arrive(r) PROVE TypeOK'
  BY <1>1
     DEF Arrive, Asked, Entry
<1>2. ASSUME NEW r \in Requests, AcquireSessionMutex(r) PROVE TypeOK'
  BY <1>2 DEF AcquireSessionMutex
<1>3. ASSUME NEW r \in Requests, AcquireTimeout(r) PROVE TypeOK'
  BY <1>3
     DEF AcquireTimeout, Replies
<1>4. ASSUME NEW r \in Requests, Load(r) PROVE TypeOK'
  <2>1. copy' \in [Requests -> Copies]
    BY <1>4
       DEF Load, Copies, Stored, NewSession, Asked, Locals, LocalsOf
  <2>2. pc' \in [Requests -> Labels]
    BY <1>4
       DEF Load, Entry
  <2>3. reply' \in [Requests -> Replies]
    BY <1>4
       DEF Load, Replies
  <2> QED
    BY <1>4, <2>1, <2>2, <2>3 DEF Load
<1>5. ASSUME NEW r \in Requests, ActivateFence(r) PROVE TypeOK'
  <2>1. <<req[r].sent, r>> \in Fences
    BY <1>5 DEF ActivateFence, Locals, LocalsOf, Asked, Fences
  <2>2. [copy[r] EXCEPT !.fence = <<req[r].sent, r>>] \in Copies
    BY <2>1 DEF Copies
  <2>3. fence' \in [Tokens -> Fences \cup {None}]
    BY <1>5, <2>1
       DEF ActivateFence, Activate
  <2>4. copy' \in [Requests -> Copies]
    BY <1>5, <2>2
       DEF ActivateFence
  <2>5. pc' \in [Requests -> Labels]
    BY <1>5
       DEF ActivateFence, Entry
  <2>6. reply' \in [Requests -> Replies]
    BY <1>5
       DEF ActivateFence, Replies
  <2> QED
    BY <1>5, <2>3, <2>4, <2>5, <2>6 DEF ActivateFence
<1>6. ASSUME NEW r \in Requests, FencedCommit(r) PROVE TypeOK'
  <2>1. [reply[r] EXCEPT !.cookie = copy[r].token] \in Replies
    <3>1. copy[r].token \in Tokens
      BY <1>6 DEF FencedCommit, Locals, LocalsOf, Copies
    <3> QED
      BY <3>1 DEF Replies
  <2>2. \A c \in {"none", "failed"} : [reply[r] EXCEPT !.code = c] \in Replies
    BY DEF Replies
  <2>3. session' \in [Tokens -> Stored \cup {None}]
    BY <1>6
       DEF FencedCommit, Commit, Data, Copies, Stored
  <2>4. pc' \in [Requests -> Labels]
    BY <1>6
       DEF FencedCommit, CommitDone
  <2>5. reply' \in [Requests -> Replies]
    BY <1>6, <2>1, <2>2
       DEF FencedCommit, CommitDone
  <2> QED
    BY <1>6, <2>3, <2>4, <2>5 DEF FencedCommit
<1>7. ASSUME NEW r \in Requests, FenceProbe(r) PROVE TypeOK'
  <2>1. \A c \in {"none", "failed"} : [reply[r] EXCEPT !.code = c] \in Replies
    BY DEF Replies
  <2>2. pc' \in [Requests -> Labels]
    BY <1>7
       DEF FenceProbe, CommitDone
  <2>3. reply' \in [Requests -> Replies]
    BY <1>7, <2>1
       DEF FenceProbe, CommitDone
  <2> QED
    BY <1>7, <2>2, <2>3 DEF FenceProbe
<1>8. ASSUME NEW r \in Requests, UnfencedCommit(r) PROVE TypeOK'
  <2>1. [reply[r] EXCEPT !.cookie = copy[r].token] \in Replies
    <3>1. copy[r].token \in Tokens
      BY <1>8 DEF UnfencedCommit, Locals, LocalsOf, LoginSteps, Copies
    <3> QED
      BY <3>1 DEF Replies
  <2>2. \A c \in {"none", "failed"} : [reply[r] EXCEPT !.code = c] \in Replies
    BY DEF Replies
  <2>3. session' \in [Tokens -> Stored \cup {None}]
    BY <1>8
       DEF UnfencedCommit, Data, Copies, Stored
  <2>4. pc' \in [Requests -> Labels]
    BY <1>8
       DEF UnfencedCommit, CommitDone
  <2>5. reply' \in [Requests -> Replies]
    BY <1>8, <2>1, <2>2
       DEF UnfencedCommit, CommitDone
  <2> QED
    BY <1>8, <2>3, <2>4, <2>5 DEF UnfencedCommit
<1>9. ASSUME NEW r \in Requests, WriteWithoutCommit(r) PROVE TypeOK'
  BY <1>9
     DEF WriteWithoutCommit, Replies
<1>10. ASSUME NEW r \in Requests, BeginLogin(r) PROVE TypeOK'
  <2>1. minted' \in 0..MaxTokens /\ pc' \in [Requests -> Labels]
    BY <1>10, NewToken DEF BeginLogin
  <2>2. copy' \in [Requests -> Copies]
    <3>1. CASE copy[r].token = None
      <4>1. minted + 1 \in Tokens
        BY <1>10, <3>1, NewToken DEF BeginLogin
      <4>2. [copy[r] EXCEPT !.token = minted + 1, !.status = "modified"] \in Copies
        BY <4>1, GivenToken
      <4>3. copy' = [copy EXCEPT ![r] = [copy[r] EXCEPT !.token = minted + 1,
                                                        !.status = "modified"]]
        BY <1>10, <3>1, Zenon DEF BeginLogin
      <4> QED
        BY <4>2, <4>3
    <3>2. CASE copy[r].token # None
      BY <1>10, <3>2 DEF BeginLogin
    <3> QED
      BY <3>1, <3>2
  <2> QED
    BY <1>10, <2>1, <2>2 DEF BeginLogin
<1>11. ASSUME NEW r \in Requests, SaveLoginTransaction(r) PROVE TypeOK'
  <2>1. txn' \in [Requests -> Tokens \cup {None}]
    BY <1>11
       DEF SaveLoginTransaction, Copies
  <2>2. preAuth' \in [States -> Tokens \cup {None}]
    BY <1>11
       DEF SaveLoginTransaction, Copies, States
  <2>3. beganBy' \in [States -> Browsers \cup {None}]
    BY <1>11
       DEF SaveLoginTransaction, Asked, States
  <2>4. reply' \in [Requests -> Replies]
    BY <1>11
       DEF SaveLoginTransaction, Replies
  <2> QED
    BY <1>11, <2>1, <2>2, <2>3, <2>4 DEF SaveLoginTransaction
<1>12. ASSUME NEW r \in Requests, Relock(r) PROVE TypeOK'
  BY <1>12 DEF Relock
<1>13. ASSUME NEW r \in Requests, Refence(r) PROVE TypeOK'
  <2>1. <<copy[r].token, r>> \in Fences
    BY <1>13 DEF Refence, Locals, LocalsOf, LoginSteps, Copies, Fences
  <2>2. fence' \in [Tokens -> Fences \cup {None}]
    BY <1>13, <2>1
       DEF Refence, Activate
  <2>3. lock' \in [Tokens -> Requests \cup {None}]
    BY <1>13
       DEF Refence, Unlock
  <2> QED
    BY <1>13, <2>2, <2>3 DEF Refence
<1>14. ASSUME NEW r \in Requests, Destroy(r) PROVE TypeOK'
  <2>1. /\ session' \in [Tokens -> Stored \cup {None}]
        /\ fence' \in [Tokens -> Fences \cup {None}]
    BY <1>14
       DEF Destroy, Delete
  <2>2. lock' \in [Tokens -> Requests \cup {None}]
    BY <1>14
       DEF Destroy, Unlock
  <2>3. copy' \in [Requests -> Copies]
    BY <1>14
       DEF Destroy, Copies, NewSession
  <2> QED
    BY <1>14, <2>1, <2>2, <2>3 DEF Destroy
<1>15. ASSUME NEW r \in Requests, ConsumeLoginTransaction(r) PROVE TypeOK'
  <2>1. req[r].state \in Requests
    BY <1>15 DEF ConsumeLoginTransaction, Locals, LocalsOf, Asked
  <2>2. txn' \in [Requests -> Tokens \cup {None}]
    BY <1>15
       DEF ConsumeLoginTransaction, Consumed
  <2>3. reply' \in [Requests -> Replies]
    BY <1>15
       DEF ConsumeLoginTransaction, Replies
  <2>4. redeemed' \subseteq Requests \X Requests
    BY <1>15, <2>1
       DEF ConsumeLoginTransaction
  <2> QED
    BY <1>15, <2>2, <2>3, <2>4 DEF ConsumeLoginTransaction
<1>16. ASSUME NEW r \in Requests, Exchange(r) PROVE TypeOK'
  <2>1. reply' \in [Requests -> Replies]
    BY <1>16
       DEF Exchange, Replies
  <2>2. pc' \in [Requests -> Labels]
    BY <1>16
       DEF Exchange
  <2> QED
    BY <1>16, <2>1, <2>2 DEF Exchange
<1>17. ASSUME NEW r \in Requests, RenewToken(r) PROVE TypeOK'
  <2>1. ASSUME NEW t \in Tokens PROVE [copy[r] EXCEPT !.token = t] \in Copies
    BY GivenToken
  <2>2. /\ session' \in [Tokens -> Stored \cup {None}]
        /\ fence' \in [Tokens -> Fences \cup {None}]
    BY <1>17
       DEF RenewToken, Delete
  <2>3. minted' \in 0..MaxTokens
    BY <1>17, NewToken
       DEF RenewToken
  <2>4. copy' \in [Requests -> Copies]
    BY <1>17, <2>1, NewToken
       DEF RenewToken
  <2>5. reply' \in [Requests -> Replies]
    BY <1>17
       DEF RenewToken, Replies
  <2> QED
    BY <1>17, <2>2, <2>3, <2>4, <2>5 DEF RenewToken
<1>18. ASSUME NEW r \in Requests, Rebind(r) PROVE TypeOK'
  <2>1. req[r].state \in Requests
    BY <1>18 DEF Rebind, Locals, LocalsOf, Redeeming, Asked
  <2>2. /\ [reply[r] EXCEPT !.code = "redirect"] \in Replies
        /\ [code |-> "failed", cookie |-> Clear] \in Replies
    BY DEF Replies
  <2>3. fence' \in [Tokens -> Fences \cup {None}]
    BY <1>18
       DEF Rebind, Activate, Copies, Locals, LocalsOf
  <2>4. copy' \in [Requests -> Copies]
    BY <1>18, <2>1
       DEF Rebind, Copies, States
  <2>5. reply' \in [Requests -> Replies]
    BY <1>18, <2>2
       DEF Rebind
  <2>6. complete' \subseteq Requests
    BY <1>18, <2>1
       DEF Rebind
  <2> QED
    BY <1>18, <2>3, <2>4, <2>5, <2>6 DEF Rebind
<1>19. ASSUME NEW r \in Requests, Release(r) PROVE TypeOK'
  BY <1>19 DEF Release, Unlock
<1>20. ASSUME NEW r \in Requests, Deliver(r) PROVE TypeOK'
  <2>1. cookie' \in [Browsers -> Tokens \cup {None}]
    BY <1>20
       DEF Deliver, Asked, Replies
  <2>2. reply' \in [Requests -> Replies]
    BY <1>20
       DEF Deliver, Replies, NoReply
  <2>3. req' \in [Requests -> Asked]
    BY <1>20
       DEF Deliver, Asked, NoRequest
  <2> QED
    BY <1>20, <2>1, <2>2, <2>3 DEF Deliver
<1>21. ASSUME NEW r \in Requests, DropReply(r) PROVE TypeOK'
  <2>1. reply' \in [Requests -> Replies]
    BY <1>21
       DEF DropReply, Replies, NoReply
  <2>2. req' \in [Requests -> Asked]
    BY <1>21
       DEF DropReply, Asked, NoRequest
  <2> QED
    BY <1>21, <2>1, <2>2 DEF DropReply
<1>22. ASSUME NEW t \in Tokens, ExpireLock(t) PROVE TypeOK'
  BY <1>22 DEF ExpireLock
<1>23. ASSUME NEW t \in Tokens, ExpireSession(t) PROVE TypeOK'
  BY <1>23 DEF ExpireSession
<1>24. ASSUME NEW s \in Requests, ExpireTransaction(s) PROVE TypeOK'
  BY <1>24 DEF ExpireTransaction
<1>25. CASE UNCHANGED vars
  BY <1>25 DEF vars
<1> QED
  BY <1>1, <1>2, <1>3, <1>4, <1>5, <1>6, <1>7, <1>8, <1>9, <1>10, <1>11,
     <1>12, <1>13, <1>14, <1>15, <1>16, <1>17, <1>18, <1>19, <1>20, <1>21,
     <1>22, <1>23, <1>24, <1>25
     DEF Next, Step


-----------------------------------------------------------------------------
(* What the steps do, field by field.                                      *)

\* no other request than r moves
Only(r) ==
    \A q \in Requests \ {r} :
        pc'[q] = pc[q] /\ req'[q] = req[q] /\ copy'[q] = copy[q] /\ reply'[q] = reply[q]

\* A request sends the cookie its browser has, and waits for the lock of it.
LEMMA ArriveEffect ==
    ASSUME TypeOK, Locals, NEW r \in Requests, Arrive(r)
    PROVE  /\ Only(r)
           /\ pc[r] = "idle" /\ copy' = copy /\ reply' = reply
           /\ \E b \in Browsers :
                 /\ req'[r].by = b
                 /\ req'[r].sent = cookie[b]
                 /\ pc'[r] \in IF cookie[b] = None THEN {"begin", "consume", "write"}
                               ELSE {"lock"}
           /\ req'[r].state \in issued \cup {None}
           /\ req'[r].kind = "callback" <=> req'[r].state # None
           /\ pc'[r] = "consume" => req'[r].state # None
           /\ pc'[r] = "begin" => req'[r].state = None
           /\ UNCHANGED <<lock, fence, session, txn, minted, cookie, issued,
                          preAuth, beganBy, redeemed, complete>>
BY LoginAssumption
   DEF TypeOK, Only, redis, history, Goto, Answer, CallbackFails, Arrive,
       Entry, Asked

\* It takes the lock of that token when nobody has it.
LEMMA AcquireSessionMutexEffect ==
    ASSUME TypeOK, Locals, NEW r \in Requests, AcquireSessionMutex(r)
    PROVE  /\ Only(r)
           /\ pc[r] = "lock" /\ pc'[r] = "load"
           /\ req' = req /\ copy' = copy /\ reply' = reply
           /\ req[r].sent \in Tokens
           /\ lock[req[r].sent] = None
           /\ lock' = [lock EXCEPT ![req[r].sent] = r]
           /\ UNCHANGED <<fence, session, txn, minted, cookie, issued, begun,
                          preAuth, beganBy, redeemed, complete>>
BY LoginAssumption
   DEF TypeOK, Only, redis, history, Goto, Answer, CallbackFails,
       AcquireSessionMutex, Locals, LocalsOf, Asked

\* It gives up waiting, having taken the lock or not.
LEMMA AcquireTimeoutEffect ==
    ASSUME TypeOK, Locals, NEW r \in Requests, AcquireTimeout(r)
    PROVE  /\ Only(r)
           /\ pc[r] = "lock" /\ pc'[r] = "done"
           /\ req' = req /\ copy' = copy
           /\ reply'[r].cookie = reply[r].cookie /\ reply'[r].code = "failed"
           /\ req[r].sent \in Tokens
           /\ \/ lock' = lock
              \/ /\ lock[req[r].sent] = None
                 /\ lock' = [lock EXCEPT ![req[r].sent] = r]
           /\ UNCHANGED <<fence, session, txn, minted, cookie, issued, begun,
                          preAuth, beganBy, redeemed, complete>>
<1>1. req[r].sent \in Tokens
  BY DEF TypeOK, Locals, LocalsOf, Asked, AcquireTimeout
<1>2. ASSUME lock[req[r].sent] # None,
             lock' = [lock EXCEPT ![req[r].sent] = IF @ = None THEN r ELSE @]
      PROVE  lock' = lock
  BY <1>1, <1>2 DEF TypeOK
<1> QED
  BY <1>1, <1>2
     DEF TypeOK, Only, redis, history, Goto, Answer, AcquireTimeout, Replies

\* It has a new session, or the stored one under the token it sent.
LEMMA LoadEffect ==
    ASSUME TypeOK, Locals, NEW r \in Requests, Load(r)
    PROVE  /\ Only(r)
           /\ pc[r] = "load" /\ req' = req
           /\ req[r].sent \in Tokens
           /\ reply'[r].cookie = reply[r].cookie
           /\ copy'[r].fence = None
           /\ \/ /\ pc'[r] = "release" /\ reply'[r].code = "failed" /\ copy' = copy
              \/ /\ pc'[r] \in {"begin", "consume", "write"} /\ reply' = reply
                 /\ copy'[r].token = None /\ copy'[r].who = None
                 /\ copy'[r].status = "unmodified"
              \/ /\ pc'[r] = "activate" /\ reply' = reply
                 /\ copy'[r].token = req[r].sent
                 /\ session[req[r].sent] # None
                 /\ copy'[r].who = session[req[r].sent].who
                 /\ copy'[r].status = "modified"
           /\ pc'[r] = "consume" => req[r].state # None
           /\ pc'[r] = "begin" => req[r].state = None
           /\ UNCHANGED <<lock, fence, session, txn, minted, cookie, issued,
                          begun, preAuth, beganBy, redeemed, complete>>
BY LoginAssumption
   DEF TypeOK, Only, redis, history, Goto, Answer, CallbackFails, Load,
       Locals, LocalsOf, Asked, Replies, Copies, Entry, NewSession

\* It makes its lock the fence of that session, or fails.
LEMMA ActivateFenceEffect ==
    ASSUME TypeOK, Locals, NEW r \in Requests, ActivateFence(r)
    PROVE  /\ Only(r)
           /\ pc[r] = "activate" /\ req' = req
           /\ req[r].sent \in Tokens
           /\ reply'[r].cookie = reply[r].cookie
           /\ /\ copy'[r].token = copy[r].token /\ copy'[r].who = copy[r].who
              /\ copy'[r].status = copy[r].status
           /\ \/ /\ pc'[r] = "release" /\ reply'[r].code = "failed" /\ copy' = copy
              \/ /\ pc'[r] \in {"begin", "consume", "write"} /\ reply' = reply
                 /\ copy'[r].fence = <<req[r].sent, r>>
           /\ \/ fence' = fence
              \/ /\ lock[req[r].sent] = r
                 /\ fence' = [fence EXCEPT ![req[r].sent] = <<req[r].sent, r>>]
           /\ pc'[r] = "consume" => req[r].state # None
           /\ pc'[r] = "begin" => req[r].state = None
           /\ UNCHANGED <<lock, session, txn, minted, cookie, issued, begun,
                          preAuth, beganBy, redeemed, complete>>
BY LoginAssumption
   DEF TypeOK, Only, redis, history, Goto, Answer, CallbackFails,
       ActivateFence, Activate, Locals, LocalsOf, Asked, Replies, Copies,
       Entry

\* It stores its session only under its own lock and fence.
LEMMA FencedCommitEffect ==
    ASSUME TypeOK, Locals, NEW r \in Requests, FencedCommit(r)
    PROVE  /\ Only(r)
           /\ req' = req /\ copy' = copy
           /\ copy[r].token \in Tokens /\ copy[r].fence = <<req[r].sent, r>> /\ req[r].sent \in Tokens
           /\ \/ /\ pc[r] \in {"commit"}
                 /\ pc'[r] \in {"save", "write"} /\ reply'[r].cookie = reply[r].cookie
                 /\ reply'[r].code = "failed" \/ pc'[r] = "save"
              \/ /\ pc[r] \in {"write"}
                 /\ pc'[r] = "release"
                 /\ \/ reply'[r].cookie = copy[r].token /\ reply'[r].code = reply[r].code
                    \/ reply'[r].cookie = reply[r].cookie /\ reply'[r].code = "failed"
           /\ \/ session' = session
              \/ /\ lock[req[r].sent] = r /\ fence[copy[r].token] = <<req[r].sent, r>>
                 /\ session' = [session EXCEPT ![copy[r].token] = Data(r)]
           /\ UNCHANGED <<lock, fence, txn, minted, cookie, issued, begun,
                          preAuth, beganBy, redeemed, complete>>
BY LoginAssumption
   DEF TypeOK, Only, redis, history, Goto, Answer, CallbackFails,
       FencedCommit, Commit, CommitDone, Locals, LocalsOf, Busy, Copies,
       Replies, Asked

\* It finds no fence on a session that has none, or fails.
LEMMA FenceProbeEffect ==
    ASSUME TypeOK, Locals, NEW r \in Requests, FenceProbe(r)
    PROVE  /\ Only(r)
           /\ req' = req /\ copy' = copy
           /\ copy[r].token \in Tokens /\ copy[r].fence = None
           /\ \/ pc[r] = "commit" /\ pc'[r] = "commitProbed" /\ reply' = reply
              \/ pc[r] = "write" /\ pc'[r] = "writeProbed" /\ reply' = reply
              \/ /\ pc[r] = "commit" /\ pc'[r] = "write"
                 /\ reply'[r].cookie = reply[r].cookie /\ reply'[r].code = "failed"
              \/ /\ pc[r] = "write" /\ pc'[r] = "release"
                 /\ reply'[r].cookie = reply[r].cookie /\ reply'[r].code = "failed"
           /\ UNCHANGED <<lock, fence, session, txn, minted, cookie, issued,
                          begun, preAuth, beganBy, redeemed, complete>>
BY LoginAssumption
   DEF TypeOK, Only, redis, history, Goto, Answer, CallbackFails, FenceProbe,
       CommitDone, Locals, LocalsOf, Copies, Replies

\* It stores a session that has no fence.
LEMMA UnfencedCommitEffect ==
    ASSUME TypeOK, Locals, NEW r \in Requests, UnfencedCommit(r)
    PROVE  /\ Only(r)
           /\ req' = req /\ copy' = copy
           /\ copy[r].token \in Tokens /\ copy[r].fence = None
           /\ \/ /\ pc[r] \in {"commitProbed"}
                 /\ pc'[r] \in {"save", "write"} /\ reply'[r].cookie = reply[r].cookie
                 /\ reply'[r].code = "failed" \/ pc'[r] = "save"
              \/ /\ pc[r] \in {"writeProbed"}
                 /\ pc'[r] = "release"
                 /\ \/ reply'[r].cookie = copy[r].token /\ reply'[r].code = reply[r].code
                    \/ reply'[r].cookie = reply[r].cookie /\ reply'[r].code = "failed"
           /\ session' = session \/ session' = [session EXCEPT ![copy[r].token] = Data(r)]
           /\ UNCHANGED <<lock, fence, txn, minted, cookie, issued, begun,
                          preAuth, beganBy, redeemed, complete>>
BY LoginAssumption
   DEF TypeOK, Only, redis, history, Goto, Answer, CallbackFails,
       UnfencedCommit, CommitDone, Locals, LocalsOf, LoginSteps, Copies,
       Replies

\* It answers without a session of its own.
LEMMA WriteWithoutCommitEffect ==
    ASSUME TypeOK, Locals, NEW r \in Requests, WriteWithoutCommit(r)
    PROVE  /\ Only(r)
           /\ pc[r] = "write" /\ pc'[r] = "release"
           /\ req' = req /\ copy' = copy
           /\ reply'[r].cookie \in {reply[r].cookie, Clear}
           /\ reply'[r].code \in {reply[r].code, "failed"}
           /\ UNCHANGED <<lock, fence, session, txn, minted, cookie, issued,
                          begun, preAuth, beganBy, redeemed, complete>>
BY LoginAssumption
   DEF TypeOK, Only, redis, history, Goto, Answer, CallbackFails,
       WriteWithoutCommit, Replies

\* A login keeps the session it was sent, or generates the next token.
LEMMA BeginLoginEffect ==
    ASSUME TypeOK, Locals, NEW r \in Requests, BeginLogin(r)
    PROVE  /\ Only(r)
           /\ pc[r] = "begin" /\ pc'[r] = "commit"
           /\ req' = req /\ reply' = reply
           /\ copy'[r].fence = copy[r].fence /\ copy'[r].who = copy[r].who
           /\ \/ copy[r].token # None /\ copy' = copy /\ minted' = minted
              \/ /\ copy[r].token = None /\ copy'[r].token = minted + 1
                 /\ copy'[r].status = "modified"
                 /\ minted' = minted + 1 /\ minted + 1 \in Tokens
           /\ UNCHANGED <<lock, fence, session, txn, cookie, issued, begun,
                          preAuth, beganBy, redeemed, complete>>
<1>1. CASE copy[r].token = None
  <2>1. copy' = [copy EXCEPT ![r] = [copy[r] EXCEPT !.token = minted + 1,
                                                    !.status = "modified"]]
    BY <1>1, Zenon DEF BeginLogin
  <2>2. /\ copy'[r].token = minted + 1 /\ copy'[r].status = "modified"
        /\ copy'[r].fence = copy[r].fence /\ copy'[r].who = copy[r].who
        /\ \A q \in Requests \ {r} : copy'[q] = copy[q]
    BY <2>1 DEF TypeOK, Copies
  <2> QED
    BY <1>1, <2>2, NewToken DEF TypeOK, Only, redis, history, Goto, BeginLogin
<1>2. CASE copy[r].token # None
  BY <1>2 DEF TypeOK, Only, redis, history, Goto, BeginLogin
<1> QED
  BY <1>1, <1>2

\* A login's transaction names the token of its session.
LEMMA SaveLoginTransactionEffect ==
    ASSUME TypeOK, Locals, NEW r \in Requests, SaveLoginTransaction(r)
    PROVE  /\ Only(r)
           /\ pc[r] = "save"
           /\ req' = req /\ copy' = copy
           /\ reply'[r].cookie = reply[r].cookie
           /\ copy[r].token \in Tokens
           /\ txn' = txn \/ txn' = [txn EXCEPT ![r] = copy[r].token]
           /\ \/ pc'[r] = "write"
              \/ pc'[r] = "destroy" /\ copy[r].token = req[r].sent
              \/ pc'[r] = "relock" /\ copy[r].token # req[r].sent
           /\ preAuth' = [preAuth EXCEPT ![r] = copy[r].token]
           /\ beganBy' = [beganBy EXCEPT ![r] = req[r].by]
           /\ UNCHANGED <<lock, fence, session, minted, cookie, issued, begun,
                          redeemed, complete>>
BY LoginAssumption
   DEF TypeOK, Only, redis, history, Goto, Answer, CallbackFails,
       SaveLoginTransaction, Locals, LocalsOf, LoginSteps, Replies, Copies

\* To undo it, a login locks the session it generated,
LEMMA RelockEffect ==
    ASSUME TypeOK, Locals, NEW r \in Requests, Relock(r)
    PROVE  /\ Only(r)
           /\ pc[r] = "relock"
           /\ req' = req /\ copy' = copy /\ reply' = reply
           /\ copy[r].token \in Tokens
           /\ \/ /\ pc'[r] = "refence" /\ lock[copy[r].token] = None
                 /\ lock' = [lock EXCEPT ![copy[r].token] = r]
              \/ pc'[r] = "write" /\ lock' = lock
           /\ UNCHANGED <<fence, session, txn, minted, cookie, issued, begun,
                          preAuth, beganBy, redeemed, complete>>
BY LoginAssumption
   DEF TypeOK, Only, redis, history, Goto, Answer, CallbackFails, Relock,
       Locals, LocalsOf, LoginSteps, Copies

\* fences it
LEMMA RefenceEffect ==
    ASSUME TypeOK, Locals, NEW r \in Requests, Refence(r)
    PROVE  /\ Only(r)
           /\ pc[r] = "refence" /\ pc'[r] \in {"destroy", "write"}
           /\ req' = req /\ copy' = copy /\ reply' = reply
           /\ copy[r].token \in Tokens
           /\ \/ lock' = lock
              \/ lock[copy[r].token] = r /\ lock' = [lock EXCEPT ![copy[r].token] = None]
           /\ \/ fence' = fence
              \/ /\ lock[copy[r].token] = r
                 /\ fence' = [fence EXCEPT ![copy[r].token] = <<copy[r].token, r>>]
           /\ UNCHANGED <<session, txn, minted, cookie, issued, begun,
                          preAuth, beganBy, redeemed, complete>>
BY LoginAssumption
   DEF TypeOK, Only, redis, history, Goto, Answer, CallbackFails, Refence,
       Activate, Unlock, Locals, LocalsOf, LoginSteps, Copies

\* and deletes it.
LEMMA DestroyEffect ==
    ASSUME TypeOK, Locals, NEW r \in Requests, Destroy(r)
    PROVE  /\ Only(r)
           /\ pc[r] = "destroy" /\ pc'[r] = "write"
           /\ req' = req /\ reply' = reply
           /\ copy[r].token \in Tokens
           /\ \/ lock' = lock
              \/ lock[copy[r].token] = r /\ lock' = [lock EXCEPT ![copy[r].token] = None]
           /\ \/ session' = session /\ fence' = fence
              \/ /\ session' = [session EXCEPT ![copy[r].token] = None]
                 /\ fence' = [fence EXCEPT ![copy[r].token] = None]
           /\ \/ copy' = copy
              \/ /\ copy'[r].token = None /\ copy'[r].who = None
                 /\ copy'[r].fence = None /\ copy'[r].status = "destroyed"
           /\ UNCHANGED <<txn, minted, cookie, issued, begun, preAuth,
                          beganBy, redeemed, complete>>
BY LoginAssumption
   DEF TypeOK, Only, redis, history, Goto, Answer, CallbackFails, Destroy,
       Delete, Unlock, NewSession, Locals, LocalsOf, LoginSteps, Copies

\* A callback goes on only with the transaction, and in the same session.
LEMMA ConsumeLoginTransactionEffect ==
    ASSUME TypeOK, Locals, NEW r \in Requests, ConsumeLoginTransaction(r)
    PROVE  /\ Only(r)
           /\ pc[r] = "consume"
           /\ req' = req /\ copy' = copy
           /\ req[r].state \in Requests
           /\ txn' = txn \/ txn' = [txn EXCEPT ![req[r].state] = None]
           /\ \/ /\ pc'[r] = "exchange" /\ reply' = reply
                 /\ copy[r].token \in Tokens /\ copy[r].token = txn[req[r].state]
                 /\ txn' = [txn EXCEPT ![req[r].state] = None]
                 /\ redeemed' = redeemed \cup {<<req[r].state, r>>}
              \/ /\ pc'[r] = "write" /\ reply'[r].code = "failed"
                 /\ reply'[r].cookie = Clear
                 /\ redeemed' = redeemed
           /\ UNCHANGED <<lock, fence, session, minted, cookie, issued, begun,
                          preAuth, beganBy, complete>>
BY LoginAssumption
   DEF TypeOK, Only, redis, history, Goto, Answer, CallbackFails,
       ConsumeLoginTransaction, Consumed, SameBrowser, Locals, LocalsOf,
       Asked, Copies, Replies

\* It gets an ID token or fails.
LEMMA ExchangeEffect ==
    ASSUME TypeOK, Locals, NEW r \in Requests, Exchange(r)
    PROVE  /\ Only(r)
           /\ pc[r] = "exchange"
           /\ req' = req /\ copy' = copy
           /\ \/ pc'[r] = "renew" /\ reply' = reply
              \/ pc'[r] = "write" /\ reply'[r].code = "failed" /\ reply'[r].cookie = Clear
           /\ UNCHANGED <<lock, fence, session, txn, minted, cookie, issued,
                          begun, preAuth, beganBy, redeemed, complete>>
BY LoginAssumption
   DEF TypeOK, Only, redis, history, Goto, Answer, CallbackFails, Exchange,
       Replies

\* It deletes the session under its own fence before it generates a token.
LEMMA RenewTokenEffect ==
    ASSUME TypeOK, Locals, NEW r \in Requests, RenewToken(r)
    PROVE  /\ Only(r)
           /\ pc[r] = "renew" /\ req' = req
           /\ copy[r].token \in Tokens /\ copy[r].fence = <<copy[r].token, r>>
           /\ copy[r].token = req[r].sent
           /\ minted + 1 \in Tokens
           /\ copy'[r].fence = copy[r].fence /\ copy'[r].who = copy[r].who
           /\ copy'[r].status = copy[r].status
           /\ \/ session' = session /\ fence' = fence
              \/ /\ session' = [session EXCEPT ![copy[r].token] = None]
                 /\ fence' = [fence EXCEPT ![copy[r].token] = None]
           /\ \/ /\ pc'[r] = "rebind" /\ reply' = reply
                 /\ minted' = minted + 1 /\ copy'[r].token = minted + 1
                 /\ lock[copy[r].token] = r
                 /\ session'[copy[r].token] = None
                 /\ fence'[copy[r].token] = None
              \/ /\ pc'[r] = "write" /\ reply'[r].code = "failed" /\ reply'[r].cookie = Clear
                 /\ minted' = minted /\ copy' = copy
           /\ UNCHANGED <<lock, txn, cookie, issued, begun, preAuth, beganBy,
                          redeemed, complete>>
BY LoginAssumption, NewToken
   DEF TypeOK, Only, redis, history, Goto, Answer, CallbackFails, RenewToken,
       Delete, Locals, LocalsOf, Redeeming, Busy, Copies, Replies, Asked

\* Its lock is the new token's fence before it is complete.
LEMMA RebindEffect ==
    ASSUME TypeOK, Locals, NEW r \in Requests, Rebind(r)
    PROVE  /\ Only(r)
           /\ pc[r] = "rebind" /\ pc'[r] = "write"
           /\ req' = req
           /\ req[r].state \in Requests
           /\ copy[r].token \in Tokens /\ copy[r].fence = <<req[r].sent, r>> /\ req[r].sent \in Tokens
           /\ copy'[r].token = copy[r].token /\ copy'[r].fence = copy[r].fence
           /\ copy'[r].status = copy[r].status
           /\ \/ /\ copy'[r].who = req[r].state
                 /\ reply'[r].cookie = reply[r].cookie /\ reply'[r].code = "redirect"
                 /\ complete' = complete \cup {req[r].state}
              \/ /\ copy' = copy /\ complete' = complete
                 /\ reply'[r].cookie = Clear /\ reply'[r].code = "failed"
           /\ \/ fence' = fence
              \/ /\ lock[req[r].sent] = r
                 /\ fence' = [fence EXCEPT ![copy[r].token] = <<req[r].sent, r>>]
           /\ UNCHANGED <<lock, session, txn, minted, cookie, issued, begun,
                          preAuth, beganBy, redeemed>>
BY LoginAssumption
   DEF TypeOK, Only, redis, history, Goto, Answer, CallbackFails, Rebind,
       Activate, Locals, LocalsOf, Redeeming, Busy, Copies, Replies, Asked

\* A request unlocks only its own lock.
LEMMA ReleaseEffect ==
    ASSUME TypeOK, Locals, NEW r \in Requests, Release(r)
    PROVE  /\ Only(r)
           /\ pc[r] = "release" /\ pc'[r] = "done"
           /\ req' = req /\ copy' = copy /\ reply' = reply
           /\ \/ lock' = lock
              \/ /\ req[r].sent \in Tokens /\ lock[req[r].sent] = r
                 /\ lock' = [lock EXCEPT ![req[r].sent] = None]
           /\ UNCHANGED <<fence, session, txn, minted, cookie, issued, begun,
                          preAuth, beganBy, redeemed, complete>>
BY LoginAssumption
   DEF TypeOK, Only, redis, history, Goto, Answer, CallbackFails, Release,
       Unlock, Asked

\* Its browser gets the cookie of the response.
LEMMA DeliverEffect ==
    ASSUME TypeOK, Locals, NEW r \in Requests, Deliver(r)
    PROVE  /\ Only(r)
           /\ pc[r] = "done" /\ pc' = pc
           /\ copy' = copy
           /\ req'[r] = NoRequest /\ reply'[r] = NoReply
           /\ \/ cookie' = cookie
              \/ /\ req[r].by \in Browsers
                 /\ \/ cookie' = [cookie EXCEPT ![req[r].by] = None]
                    \/ /\ reply[r].cookie \in Tokens
                       /\ cookie' = [cookie EXCEPT ![req[r].by] = reply[r].cookie]
           /\ issued' = issued \/ issued' = issued \cup {r}
           /\ UNCHANGED <<lock, fence, session, txn, minted, begun, preAuth,
                          beganBy, redeemed, complete>>
<1>1. \/ cookie' = cookie
      \/ /\ req[r].by \in Browsers
         /\ \/ cookie' = [cookie EXCEPT ![req[r].by] = None]
            \/ /\ reply[r].cookie \in Tokens
               /\ cookie' = [cookie EXCEPT ![req[r].by] = reply[r].cookie]
  <2>1. CASE reply[r].cookie = Keep
    <3>1. cookie' = [cookie EXCEPT ![req[r].by] = cookie[req[r].by]]
      BY <2>1 DEF Deliver, Keep, Clear
    <3> QED
      BY <3>1 DEF TypeOK
  <2>3. CASE req[r].by \notin Browsers
    <3>1. PICK v : cookie' = [cookie EXCEPT ![req[r].by] = v]
      BY Zenon DEF Deliver
    <3> QED
      BY <2>3, <3>1 DEF TypeOK
  <2>2. CASE req[r].by \in Browsers /\ reply[r].cookie # Keep
    BY <2>2 DEF Deliver, TypeOK, Replies, Keep, Clear
  <2> QED
    BY <2>1, <2>2, <2>3
<1> QED
  BY <1>1 DEF TypeOK, Only, redis, history, Deliver

\* Or it does not.
LEMMA DropReplyEffect ==
    ASSUME TypeOK, Locals, NEW r \in Requests, DropReply(r)
    PROVE  /\ Only(r)
           /\ pc[r] = "done" /\ pc' = pc
           /\ copy' = copy
           /\ req'[r] = NoRequest /\ reply'[r] = NoReply
           /\ UNCHANGED <<lock, fence, session, txn, minted, cookie, issued,
                          begun, preAuth, beganBy, redeemed, complete>>
BY LoginAssumption
   DEF TypeOK, Only, redis, history, Goto, Answer, CallbackFails, DropReply,
       Replies, Asked

-----------------------------------------------------------------------------
(* The steps preserve the rest of the invariant.                           *)


-----------------------------------------------------------------------------
(* What any step may do to the tokens in use.                              *)

\* a browser keeps its cookie, loses it, or gets one that it was answered with
CookieMove ==
    \A b \in Browsers :
        \/ cookie'[b] \in {cookie[b], None}
        \/ \E r \in Requests : /\ req[r].by = b /\ reply[r].cookie \in Tokens
                               /\ cookie'[b] = reply[r].cookie

\* a request sends the cookie its browser had when it began
AskMove ==
    \A r \in Requests :
        \/ req'[r] = req[r]
        \/ /\ pc[r] = "done" /\ pc'[r] = "done"
           /\ req'[r] = NoRequest /\ reply'[r] = NoReply
        \/ /\ pc[r] = "idle" /\ pc'[r] \in {"lock", "begin", "consume", "write"}
           /\ req'[r].by \in Browsers /\ req'[r].sent = cookie[req'[r].by]
           /\ copy' = copy /\ reply' = reply /\ cookie' = cookie
           /\ minted' = minted

\* a response is given the token of the session it committed, at its end
ReplyMove ==
    \A r \in Requests :
        \/ reply'[r].cookie \in {reply[r].cookie, Keep, Clear}
        \/ /\ pc[r] \in {"write", "writeProbed"} /\ pc'[r] = "release"
           /\ copy[r].token \in Tokens /\ reply'[r].cookie = copy[r].token
           /\ req' = req /\ copy' = copy /\ Only(r) /\ cookie' = cookie
           /\ preAuth' = preAuth

\* a copy keeps its token or loses it, or the one sent is loaded, or the next
\* is generated
CopyMove ==
    /\ minted' \in {minted, minted + 1}
    /\ \A r \in Requests :
        \/ copy'[r].token \in {copy[r].token, None}
        \/ /\ pc[r] = "load" /\ pc'[r] = "activate" /\ req' = req
           /\ copy'[r].token = req[r].sent
        \/ /\ pc[r] \in {"begin", "renew"} /\ copy'[r].token = minted + 1
           /\ minted + 1 \in Tokens /\ minted' = minted + 1
           /\ req' = req /\ cookie' = cookie /\ preAuth' = preAuth /\ Only(r)
           /\ reply'[r].cookie = reply[r].cookie

\* the token of a login is the one its request has when it saves
PreAuthMove ==
    \A s \in States :
        \/ preAuth'[s] = preAuth[s] /\ beganBy'[s] = beganBy[s]
        \/ /\ s \in Requests /\ pc[s] = "save" /\ copy[s].token \in Tokens
           /\ preAuth'[s] = copy[s].token /\ beganBy'[s] = req[s].by
           /\ preAuth' = [preAuth EXCEPT ![s] = copy[s].token]
           /\ req' = req /\ copy' = copy /\ cookie' = cookie /\ Only(s)

\* a session is deleted, or stored by a request that has it in its context and
\* holds its fence or has none
SessionMove ==
    \A t \in Tokens :
        \/ session'[t] \in {session[t], None}
        \/ \E r \in Requests :
              /\ pc[r] \in {"commit", "commitProbed", "write", "writeProbed"}
              /\ copy[r].token = t /\ session'[t] = Data(r)
              /\ \/ copy[r].fence = None
                 \/ lock[req[r].sent] = r /\ fence[t] = <<req[r].sent, r>>
              /\ UNCHANGED <<lock, fence, copy, req, minted, complete, beganBy>>

\* a token is the private one of a request as long as the request is busy with
\* it, from its generation on
MintMove ==
    \A q \in Requests :
        Minting(q)' =>
            \/ Minting(q) /\ copy'[q].token = copy[q].token /\ req'[q] = req[q]
            \/ /\ copy'[q].token = minted + 1 /\ minted + 1 \in Tokens
               /\ req' = req /\ cookie' = cookie /\ preAuth' = preAuth /\ Only(q)
               /\ reply'[q].cookie = reply[q].cookie

\* a lock is taken by a request that waits for it, before or after its route
LockMove ==
    \A t \in Tokens, q \in Requests :
        lock'[t] = q =>
            \/ lock[t] = q
            \/ pc[q] = "lock" /\ pc'[q] \in {"load", "done"} /\ fence' = fence
            \/ pc[q] = "relock" /\ copy[q].token = t

\* a fence is deleted, or activated by a request for the token it sent or for
\* one it generated
FenceMove ==
    \A t \in Tokens :
        \/ fence'[t] \in {fence[t], None}
        \/ \E r \in Requests : /\ fence'[t] = <<req[r].sent, r>>
                               /\ pc[r] = "activate" /\ req[r].sent = t
        \/ \E r \in Requests : pc[r] \in {"refence", "rebind"} /\ copy[r].token = t

\* where a request has been shows where it is
PlaceMove ==
    \A r \in Requests :
        /\ pc[r] = "done" => pc'[r] = "done"
        /\ pc'[r] = "idle" => pc[r] = "idle"
        /\ pc'[r] = "activate" =>
              /\ req'[r] = req[r]
              /\ \/ pc[r] = "activate"
                 \/ pc[r] = "load" /\ session[req[r].sent] # None
        /\ pc'[r] \in Redeeming =>
              /\ req'[r] = req[r]
              /\ \/ pc[r] \in Redeeming
                 \/ /\ pc[r] = "consume" /\ copy[r].token \in Tokens
                    /\ copy[r].token = txn[req[r].state]
                    /\ UNCHANGED <<complete, beganBy, preAuth, copy>>
        /\ pc'[r] \in {"exchange", "renew"} => copy'[r] = copy[r] /\ pc[r] # "rebind"
        /\ pc'[r] = "rebind" =>
              \/ pc[r] = "rebind"
              \/ /\ pc[r] = "renew" /\ lock[copy[r].token] = r /\ lock' = lock
                 /\ session'[copy[r].token] = None /\ fence'[copy[r].token] = None
                 /\ preAuth' = preAuth /\ Only(r)

\* the principal of a copy is the one loaded or, at the end of a callback, its
\* login's
WhoMove ==
    \A r \in Requests :
        \/ copy'[r].who \in {copy[r].who, None}
        \/ /\ pc[r] = "load" /\ req' = req /\ session[req[r].sent] # None
           /\ copy'[r].who = session[req[r].sent].who
           /\ req[r].sent \in Tokens /\ pc'[r] = "activate"
        \/ /\ pc[r] = "rebind" /\ req' = req /\ copy'[r].who = req[r].state
           /\ complete' = complete \cup {req[r].state}

\* a login is complete when its callback says so
CompleteMove ==
    /\ redeemed \subseteq redeemed'
    /\ \/ complete' = complete
       \/ \E r \in Requests :
             /\ pc[r] = "rebind" /\ pc'[r] = "write" /\ reply'[r].code = "redirect"
             /\ complete' = complete \cup {req[r].state} /\ Only(r)
             /\ redeemed' = redeemed /\ req' = req

\* Tokens are generated by BeginLogin and RenewToken alone.
LEMMA MintMoves ==
    TypeOK /\ Locals /\ [Next]_vars => MintMove
<1> SUFFICES ASSUME TypeOK, Locals, [Next]_vars
             PROVE  MintMove
  OBVIOUS
<1> USE LoginAssumption
      DEF TypeOK, Only, MintMove, Minting, Locals, LocalsOf, Busy, NewSession
<1>1. ASSUME NEW r \in Requests, Arrive(r) PROVE MintMove
  BY <1>1, ArriveEffect
<1>2. ASSUME NEW r \in Requests, AcquireSessionMutex(r) PROVE MintMove
  BY <1>2, AcquireSessionMutexEffect
<1>3. ASSUME NEW r \in Requests, AcquireTimeout(r) PROVE MintMove
  BY <1>3, AcquireTimeoutEffect
<1>4. ASSUME NEW r \in Requests, Load(r) PROVE MintMove
  BY <1>4, LoadEffect
<1>5. ASSUME NEW r \in Requests, ActivateFence(r) PROVE MintMove
  BY <1>5, ActivateFenceEffect
<1>6. ASSUME NEW r \in Requests, FencedCommit(r) PROVE MintMove
  BY <1>6, FencedCommitEffect
<1>7. ASSUME NEW r \in Requests, FenceProbe(r) PROVE MintMove
  BY <1>7, FenceProbeEffect
<1>8. ASSUME NEW r \in Requests, UnfencedCommit(r) PROVE MintMove
  BY <1>8, UnfencedCommitEffect
<1>9. ASSUME NEW r \in Requests, WriteWithoutCommit(r) PROVE MintMove
  BY <1>9, WriteWithoutCommitEffect
<1>10. ASSUME NEW r \in Requests, BeginLogin(r) PROVE MintMove
  BY <1>10, BeginLoginEffect
<1>11. ASSUME NEW r \in Requests, SaveLoginTransaction(r) PROVE MintMove
  BY <1>11, SaveLoginTransactionEffect
<1>12. ASSUME NEW r \in Requests, Relock(r) PROVE MintMove
  BY <1>12, RelockEffect
<1>13. ASSUME NEW r \in Requests, Refence(r) PROVE MintMove
  BY <1>13, RefenceEffect
<1>14. ASSUME NEW r \in Requests, Destroy(r) PROVE MintMove
  BY <1>14, DestroyEffect
<1>15. ASSUME NEW r \in Requests, ConsumeLoginTransaction(r) PROVE MintMove
  BY <1>15, ConsumeLoginTransactionEffect
<1>16. ASSUME NEW r \in Requests, Exchange(r) PROVE MintMove
  BY <1>16, ExchangeEffect
<1>17. ASSUME NEW r \in Requests, RenewToken(r) PROVE MintMove
  BY <1>17, RenewTokenEffect
<1>18. ASSUME NEW r \in Requests, Rebind(r) PROVE MintMove
  BY <1>18, RebindEffect
<1>19. ASSUME NEW r \in Requests, Release(r) PROVE MintMove
  BY <1>19, ReleaseEffect
<1>20. ASSUME NEW r \in Requests, Deliver(r) PROVE MintMove
  BY <1>20, DeliverEffect
     DEF NoRequest, NoReply
<1>21. ASSUME NEW r \in Requests, DropReply(r) PROVE MintMove
  BY <1>21, DropReplyEffect
     DEF NoRequest, NoReply
<1>22. ASSUME NEW t \in Tokens, ExpireLock(t) PROVE MintMove
  BY <1>22 DEF ExpireLock, redis, history
<1>23. ASSUME NEW t \in Tokens, ExpireSession(t) PROVE MintMove
  BY <1>23 DEF ExpireSession, redis, history
<1>24. ASSUME NEW s \in Requests, ExpireTransaction(s) PROVE MintMove
  BY <1>24 DEF ExpireTransaction, redis, history
<1>25. CASE UNCHANGED vars
  BY <1>25 DEF vars, redis, history
<1> QED
  BY <1>1, <1>2, <1>3, <1>4, <1>5, <1>6, <1>7, <1>8, <1>9, <1>10, <1>11,
     <1>12, <1>13, <1>14, <1>15, <1>16, <1>17, <1>18, <1>19, <1>20, <1>21,
     <1>22, <1>23, <1>24, <1>25
     DEF Next, Step


\* all of that but the generation
Moves ==
    /\ CookieMove
    /\ AskMove
    /\ ReplyMove
    /\ CopyMove
    /\ PreAuthMove
    /\ SessionMove
    /\ LockMove
    /\ FenceMove
    /\ PlaceMove
    /\ WhoMove
    /\ CompleteMove

\* Every step is such a move.
LEMMA AllMoves ==
    TypeOK /\ Locals /\ [Next]_vars => Moves
<1> SUFFICES ASSUME TypeOK, Locals, [Next]_vars
             PROVE  Moves
  OBVIOUS
<1> USE LoginAssumption
      DEF TypeOK, Only, Redeeming, States, Moves, CookieMove, AskMove,
          ReplyMove, CopyMove, PreAuthMove, SessionMove, LockMove, FenceMove,
          PlaceMove, WhoMove, CompleteMove
<1>1. ASSUME NEW r \in Requests, Arrive(r) PROVE Moves
  BY <1>1, ArriveEffect
<1>2. ASSUME NEW r \in Requests, AcquireSessionMutex(r) PROVE Moves
  BY <1>2, AcquireSessionMutexEffect
<1>3. ASSUME NEW r \in Requests, AcquireTimeout(r) PROVE Moves
  BY <1>3, AcquireTimeoutEffect
<1>4. ASSUME NEW r \in Requests, Load(r) PROVE Moves
  BY <1>4, LoadEffect
<1>5. ASSUME NEW r \in Requests, ActivateFence(r) PROVE Moves
  BY <1>5, ActivateFenceEffect
<1>6. ASSUME NEW r \in Requests, FencedCommit(r) PROVE Moves
  BY <1>6, FencedCommitEffect
<1>7. ASSUME NEW r \in Requests, FenceProbe(r) PROVE Moves
  BY <1>7, FenceProbeEffect
<1>8. ASSUME NEW r \in Requests, UnfencedCommit(r) PROVE Moves
  BY <1>8, UnfencedCommitEffect
<1>9. ASSUME NEW r \in Requests, WriteWithoutCommit(r) PROVE Moves
  BY <1>9, WriteWithoutCommitEffect
<1>10. ASSUME NEW r \in Requests, BeginLogin(r) PROVE Moves
  BY <1>10, BeginLoginEffect
<1>11. ASSUME NEW r \in Requests, SaveLoginTransaction(r) PROVE Moves
  BY <1>11, SaveLoginTransactionEffect
<1>12. ASSUME NEW r \in Requests, Relock(r) PROVE Moves
  BY <1>12, RelockEffect
<1>13. ASSUME NEW r \in Requests, Refence(r) PROVE Moves
  BY <1>13, RefenceEffect
<1>14. ASSUME NEW r \in Requests, Destroy(r) PROVE Moves
  BY <1>14, DestroyEffect
<1>15. ASSUME NEW r \in Requests, ConsumeLoginTransaction(r) PROVE Moves
  BY <1>15, ConsumeLoginTransactionEffect
<1>16. ASSUME NEW r \in Requests, Exchange(r) PROVE Moves
  BY <1>16, ExchangeEffect
<1>17. ASSUME NEW r \in Requests, RenewToken(r) PROVE Moves
  BY <1>17, RenewTokenEffect
<1>18. ASSUME NEW r \in Requests, Rebind(r) PROVE Moves
  BY <1>18, RebindEffect
<1>19. ASSUME NEW r \in Requests, Release(r) PROVE Moves
  BY <1>19, ReleaseEffect
<1>20. ASSUME NEW r \in Requests, Deliver(r) PROVE Moves
  BY <1>20, DeliverEffect
     DEF NoRequest, NoReply
<1>21. ASSUME NEW r \in Requests, DropReply(r) PROVE Moves
  BY <1>21, DropReplyEffect
     DEF NoRequest, NoReply
<1>22. ASSUME NEW t \in Tokens, ExpireLock(t) PROVE Moves
  BY <1>22 DEF ExpireLock, redis, history
<1>23. ASSUME NEW t \in Tokens, ExpireSession(t) PROVE Moves
  BY <1>23 DEF ExpireSession, redis, history
<1>24. ASSUME NEW s \in Requests, ExpireTransaction(s) PROVE Moves
  BY <1>24 DEF ExpireTransaction, redis, history
<1>25. CASE UNCHANGED vars
  BY <1>25 DEF vars, redis, history
<1> QED
  BY <1>1, <1>2, <1>3, <1>4, <1>5, <1>6, <1>7, <1>8, <1>9, <1>10, <1>11,
     <1>12, <1>13, <1>14, <1>15, <1>16, <1>17, <1>18, <1>19, <1>20, <1>21,
     <1>22, <1>23, <1>24, <1>25
     DEF Next, Step

\* a callback fails on its way, or has failed before it is answered
FailMove ==
    \A r \in Requests :
        Failing(r)' => /\ req'[r] = req[r]
                       /\ <<req[r].state, r>> \in redeemed
                       /\ \/ Failing(r)
                          \/ pc[r] \in Redeeming /\ complete' = complete

\* No callback fails after it has completed its login (CallbackFails).
LEMMA FailMoves ==
    TypeOK /\ Locals /\ OneShot /\ [Next]_vars => FailMove
<1> SUFFICES ASSUME TypeOK, Locals, OneShot, [Next]_vars
             PROVE  FailMove
  OBVIOUS
<1>a. \A s, r :
         <<s, r>> \in redeemed =>
             /\ s # None /\ r \in Requests
             /\ pc[r] \in Redeeming \cup {"write", "writeProbed", "release", "done"}
  BY LoginAssumption DEF TypeOK, OneShot, States
<1>b. /\ Keep \notin Tokens /\ Clear \notin Tokens
      /\ \A r \in Requests :
            pc[r] \notin {"release", "done"} => reply[r].cookie \notin Tokens
  BY NextToken DEF Locals, LocalsOf
<1> USE <1>a, <1>b
      DEF Only, FailMove, Failing, Redeeming
<1>1. ASSUME NEW r \in Requests, Arrive(r) PROVE FailMove
  BY <1>1, ArriveEffect
<1>2. ASSUME NEW r \in Requests, AcquireSessionMutex(r) PROVE FailMove
  BY <1>2, AcquireSessionMutexEffect
<1>3. ASSUME NEW r \in Requests, AcquireTimeout(r) PROVE FailMove
  BY <1>3, AcquireTimeoutEffect
<1>4. ASSUME NEW r \in Requests, Load(r) PROVE FailMove
  BY <1>4, LoadEffect
<1>5. ASSUME NEW r \in Requests, ActivateFence(r) PROVE FailMove
  BY <1>5, ActivateFenceEffect
<1>6. ASSUME NEW r \in Requests, FencedCommit(r) PROVE FailMove
  BY <1>6, FencedCommitEffect
<1>7. ASSUME NEW r \in Requests, FenceProbe(r) PROVE FailMove
  BY <1>7, FenceProbeEffect
<1>8. ASSUME NEW r \in Requests, UnfencedCommit(r) PROVE FailMove
  BY <1>8, UnfencedCommitEffect
<1>9. ASSUME NEW r \in Requests, WriteWithoutCommit(r) PROVE FailMove
  BY <1>9, WriteWithoutCommitEffect
<1>10. ASSUME NEW r \in Requests, BeginLogin(r) PROVE FailMove
  BY <1>10, BeginLoginEffect
<1>11. ASSUME NEW r \in Requests, SaveLoginTransaction(r) PROVE FailMove
  BY <1>11, SaveLoginTransactionEffect
<1>12. ASSUME NEW r \in Requests, Relock(r) PROVE FailMove
  BY <1>12, RelockEffect
<1>13. ASSUME NEW r \in Requests, Refence(r) PROVE FailMove
  BY <1>13, RefenceEffect
<1>14. ASSUME NEW r \in Requests, Destroy(r) PROVE FailMove
  BY <1>14, DestroyEffect
<1>15. ASSUME NEW r \in Requests, ConsumeLoginTransaction(r) PROVE FailMove
  BY <1>15, ConsumeLoginTransactionEffect
<1>16. ASSUME NEW r \in Requests, Exchange(r) PROVE FailMove
  BY <1>16, ExchangeEffect
<1>17. ASSUME NEW r \in Requests, RenewToken(r) PROVE FailMove
  BY <1>17, RenewTokenEffect
<1>18. ASSUME NEW r \in Requests, Rebind(r) PROVE FailMove
  BY <1>18, RebindEffect
<1>19. ASSUME NEW r \in Requests, Release(r) PROVE FailMove
  BY <1>19, ReleaseEffect
<1>20. ASSUME NEW r \in Requests, Deliver(r) PROVE FailMove
  BY <1>20, DeliverEffect
     DEF NoRequest, NoReply, States
<1>21. ASSUME NEW r \in Requests, DropReply(r) PROVE FailMove
  BY <1>21, DropReplyEffect
     DEF NoRequest, NoReply, States
<1>22. ASSUME NEW t \in Tokens, ExpireLock(t) PROVE FailMove
  BY <1>22 DEF ExpireLock, redis, history
<1>23. ASSUME NEW t \in Tokens, ExpireSession(t) PROVE FailMove
  BY <1>23 DEF ExpireSession, redis, history
<1>24. ASSUME NEW s \in Requests, ExpireTransaction(s) PROVE FailMove
  BY <1>24 DEF ExpireTransaction, redis, history
<1>25. CASE UNCHANGED vars
  BY <1>25 DEF vars, redis, history
<1> QED
  BY <1>1, <1>2, <1>3, <1>4, <1>5, <1>6, <1>7, <1>8, <1>9, <1>10, <1>11,
     <1>12, <1>13, <1>14, <1>15, <1>16, <1>17, <1>18, <1>19, <1>20, <1>21,
     <1>22, <1>23, <1>24, <1>25
     DEF Next, Step

\* No step takes a request where it lacks what it needs there.
LEMMA LocalsStep ==
    TypeOK /\ Locals /\ Known /\ [Next]_vars => Locals'
<1> SUFFICES ASSUME TypeOK, Locals, Known, [Next]_vars
             PROVE  Locals'
  OBVIOUS
<1> USE LoginAssumption
      DEF TypeOK, Only, Locals, LocalsOf, Busy, LoginSteps, Redeeming, Keep,
          Clear, Asked, Copies, Replies
<1>1. ASSUME NEW r \in Requests, Arrive(r) PROVE Locals'
  <2>1. ASSUME NEW q \in Requests \ {r} PROVE LocalsOf(q)'
    BY <1>1, ArriveEffect, <2>1 DEF NewSession, NoRequest
  <2>2. LocalsOf(r)'
    BY <1>1, ArriveEffect, LocalsOf(r) DEF NewSession
  <2> QED
    BY <2>1, <2>2
<1>2. ASSUME NEW r \in Requests, AcquireSessionMutex(r) PROVE Locals'
  BY <1>2, AcquireSessionMutexEffect
<1>3. ASSUME NEW r \in Requests, AcquireTimeout(r) PROVE Locals'
  BY <1>3, AcquireTimeoutEffect
<1>4. ASSUME NEW r \in Requests, Load(r) PROVE Locals'
  <2>1. ASSUME NEW q \in Requests \ {r} PROVE LocalsOf(q)'
    BY <1>4, LoadEffect, <2>1 DEF NewSession, NoRequest
  <2>2. LocalsOf(r)'
    BY <1>4, LoadEffect, LocalsOf(r) DEF NewSession
  <2> QED
    BY <2>1, <2>2
<1>5. ASSUME NEW r \in Requests, ActivateFence(r) PROVE Locals'
  <2>1. ASSUME NEW q \in Requests \ {r} PROVE LocalsOf(q)'
    BY <1>5, ActivateFenceEffect, <2>1 DEF NewSession, NoRequest
  <2>3. <<req[r].sent, r>> # None
    BY <1>5, ActivateFenceEffect
  <2>2. LocalsOf(r)'
    <3>1. CASE pc'[r] = "release"
      BY <1>5, ActivateFenceEffect, LocalsOf(r), <3>1
    <3>2. CASE pc'[r] # "release"
      <4>1. /\ pc'[r] \in {"begin", "consume", "write"}
            /\ copy'[r].fence = <<req[r].sent, r>>
        BY <1>5, ActivateFenceEffect, <3>2
      <4>2. /\ copy'[r].token = req[r].sent /\ copy'[r].status = "modified"
            /\ req[r].by \in Browsers
            /\ req'[r] = req[r] /\ req[r].sent # None /\ issued' = issued
            /\ reply'[r].cookie \in {Keep, Clear}
            /\ pc'[r] = "consume" => req[r].state # None
            /\ pc'[r] = "begin" => req[r].state = None
        BY <1>5, ActivateFenceEffect, LocalsOf(r)
      <4> QED
        BY <4>1, <4>2, <2>3, LocalsOf(r), SMTT(30)
    <3> QED
      BY <3>1, <3>2
  <2> QED
    BY <2>1, <2>2
<1>6. ASSUME NEW r \in Requests, FencedCommit(r) PROVE Locals'
  BY <1>6, FencedCommitEffect
<1>7. ASSUME NEW r \in Requests, FenceProbe(r) PROVE Locals'
  BY <1>7, FenceProbeEffect
<1>8. ASSUME NEW r \in Requests, UnfencedCommit(r) PROVE Locals'
  BY <1>8, UnfencedCommitEffect
<1>9. ASSUME NEW r \in Requests, WriteWithoutCommit(r) PROVE Locals'
  BY <1>9, WriteWithoutCommitEffect
<1>10. ASSUME NEW r \in Requests, BeginLogin(r) PROVE Locals'
  <2>1. ASSUME NEW q \in Requests \ {r} PROVE LocalsOf(q)'
    BY <1>10, BeginLoginEffect, <2>1 DEF NewSession, NoRequest
  <2>2. LocalsOf(r)'
    BY <1>10, BeginLoginEffect, LocalsOf(r), NextToken DEF Known
  <2> QED
    BY <2>1, <2>2
<1>11. ASSUME NEW r \in Requests, SaveLoginTransaction(r) PROVE Locals'
  BY <1>11, SaveLoginTransactionEffect
<1>12. ASSUME NEW r \in Requests, Relock(r) PROVE Locals'
  BY <1>12, RelockEffect
<1>13. ASSUME NEW r \in Requests, Refence(r) PROVE Locals'
  BY <1>13, RefenceEffect
<1>14. ASSUME NEW r \in Requests, Destroy(r) PROVE Locals'
  BY <1>14, DestroyEffect
<1>15. ASSUME NEW r \in Requests, ConsumeLoginTransaction(r) PROVE Locals'
  BY <1>15, ConsumeLoginTransactionEffect
<1>16. ASSUME NEW r \in Requests, Exchange(r) PROVE Locals'
  BY <1>16, ExchangeEffect
<1>17. ASSUME NEW r \in Requests, RenewToken(r) PROVE Locals'
  <2>1. ASSUME NEW q \in Requests \ {r} PROVE LocalsOf(q)'
    BY <1>17, RenewTokenEffect, <2>1 DEF NewSession, NoRequest
  <2>2. LocalsOf(r)'
    BY <1>17, RenewTokenEffect, LocalsOf(r), NextToken DEF Known
  <2> QED
    BY <2>1, <2>2
<1>18. ASSUME NEW r \in Requests, Rebind(r) PROVE Locals'
  <2>1. ASSUME NEW q \in Requests \ {r} PROVE LocalsOf(q)'
    BY <1>18, RebindEffect, <2>1 DEF NewSession, NoRequest
  <2>2. LocalsOf(r)'
    BY <1>18, RebindEffect, LocalsOf(r)
  <2> QED
    BY <2>1, <2>2
<1>19. ASSUME NEW r \in Requests, Release(r) PROVE Locals'
  BY <1>19, ReleaseEffect
<1>20. ASSUME NEW r \in Requests, Deliver(r) PROVE Locals'
  <2>1. ASSUME NEW q \in Requests \ {r} PROVE LocalsOf(q)'
    <3>1. /\ pc'[q] = pc[q] /\ req'[q] = req[q] /\ copy'[q] = copy[q]
          /\ reply'[q] = reply[q] /\ issued \subseteq issued'
      BY <1>20, DeliverEffect
    <3> QED
      BY <3>1, LocalsOf(q) DEF NewSession, NoRequest
  <2>2. LocalsOf(r)'
    BY <1>20, DeliverEffect, LocalsOf(r) DEF NoRequest, NoReply, NewSession
  <2> QED
    BY <2>1, <2>2
<1>21. ASSUME NEW r \in Requests, DropReply(r) PROVE Locals'
  <2>1. ASSUME NEW q \in Requests \ {r} PROVE LocalsOf(q)'
    BY <1>21, DropReplyEffect, <2>1 DEF NewSession, NoRequest
  <2>2. LocalsOf(r)'
    BY <1>21, DropReplyEffect, LocalsOf(r) DEF NoRequest, NoReply, NewSession
  <2> QED
    BY <2>1, <2>2
<1>22. ASSUME NEW t \in Tokens, ExpireLock(t) PROVE Locals'
  BY <1>22 DEF ExpireLock, redis, history
<1>23. ASSUME NEW t \in Tokens, ExpireSession(t) PROVE Locals'
  BY <1>23 DEF ExpireSession, redis, history
<1>24. ASSUME NEW s \in Requests, ExpireTransaction(s) PROVE Locals'
  BY <1>24 DEF ExpireTransaction, redis, history
<1>25. CASE UNCHANGED vars
  BY <1>25 DEF vars, redis, history
<1> QED
  BY <1>1, <1>2, <1>3, <1>4, <1>5, <1>6, <1>7, <1>8, <1>9, <1>10, <1>11,
     <1>12, <1>13, <1>14, <1>15, <1>16, <1>17, <1>18, <1>19, <1>20, <1>21,
     <1>22, <1>23, <1>24, <1>25
     DEF Next, Step

\* No step brings a transaction back.
LEMMA OneShotStep ==
    TypeOK /\ Locals /\ OneShot /\ [Next]_vars => OneShot'
<1> SUFFICES ASSUME TypeOK, Locals, OneShot, [Next]_vars
             PROVE  OneShot'
  OBVIOUS
<1>a. \A r \in Requests : req[r].state # None => req[r].state \in issued
  BY DEF Locals, LocalsOf
<1>b. /\ None \notin Requests /\ None \notin Tokens
      /\ txn \in [Requests -> Tokens \cup {None}]
      /\ preAuth \in [States -> Tokens \cup {None}] /\ Requests \subseteq States
  BY LoginAssumption DEF TypeOK, States
<1> USE <1>a, <1>b
      DEF Only, OneShot, TransactionOnce, Redeeming, Saved
<1>1. ASSUME NEW r \in Requests, Arrive(r) PROVE OneShot'
  <2>1. /\ pc[r] \notin Saved \cup Redeeming /\ pc'[r] \notin Redeeming
        /\ txn[r] = None /\ r \notin issued
        /\ \A s \in Requests : <<s, r>> \notin redeemed /\ <<r, s>> \notin redeemed
    BY <1>1, ArriveEffect
  <2>2. /\ \A q \in Requests \ {r} : pc'[q] = pc[q] /\ req'[q] = req[q]
        /\ UNCHANGED <<issued, redeemed>>
        /\ UNCHANGED <<txn, preAuth>>
    BY <1>1, ArriveEffect
  <2> QED
    BY <2>1, <2>2
<1>2. ASSUME NEW r \in Requests, AcquireSessionMutex(r) PROVE OneShot'
  BY <1>2, AcquireSessionMutexEffect
<1>3. ASSUME NEW r \in Requests, AcquireTimeout(r) PROVE OneShot'
  BY <1>3, AcquireTimeoutEffect
<1>4. ASSUME NEW r \in Requests, Load(r) PROVE OneShot'
  BY <1>4, LoadEffect
<1>5. ASSUME NEW r \in Requests, ActivateFence(r) PROVE OneShot'
  BY <1>5, ActivateFenceEffect
<1>6. ASSUME NEW r \in Requests, FencedCommit(r) PROVE OneShot'
  BY <1>6, FencedCommitEffect
<1>7. ASSUME NEW r \in Requests, FenceProbe(r) PROVE OneShot'
  BY <1>7, FenceProbeEffect
<1>8. ASSUME NEW r \in Requests, UnfencedCommit(r) PROVE OneShot'
  BY <1>8, UnfencedCommitEffect
<1>9. ASSUME NEW r \in Requests, WriteWithoutCommit(r) PROVE OneShot'
  BY <1>9, WriteWithoutCommitEffect
<1>10. ASSUME NEW r \in Requests, BeginLogin(r) PROVE OneShot'
  BY <1>10, BeginLoginEffect
<1>11. ASSUME NEW r \in Requests, SaveLoginTransaction(r) PROVE OneShot'
  <2>1. /\ pc[r] \notin Saved \cup Redeeming /\ pc'[r] \notin Redeeming
        /\ txn[r] = None /\ r \notin issued
        /\ \A s \in Requests : <<s, r>> \notin redeemed /\ <<r, s>> \notin redeemed
    BY <1>11, SaveLoginTransactionEffect
  <2>2. /\ \A q \in Requests \ {r} : pc'[q] = pc[q] /\ req'[q] = req[q]
        /\ UNCHANGED <<issued, redeemed>>
        /\ pc'[r] \in Saved /\ preAuth'[r] = copy[r].token
        /\ txn'[r] \in {None, copy[r].token}
        /\ \A q \in Requests \ {r} : txn'[q] = txn[q] /\ preAuth'[q] = preAuth[q]
    BY <1>11, SaveLoginTransactionEffect
  <2> QED
    BY <2>1, <2>2
<1>12. ASSUME NEW r \in Requests, Relock(r) PROVE OneShot'
  BY <1>12, RelockEffect
<1>13. ASSUME NEW r \in Requests, Refence(r) PROVE OneShot'
  BY <1>13, RefenceEffect
<1>14. ASSUME NEW r \in Requests, Destroy(r) PROVE OneShot'
  BY <1>14, DestroyEffect
<1>15. ASSUME NEW r \in Requests, ConsumeLoginTransaction(r) PROVE OneShot'
  <2> DEFINE s == req[r].state
  <2>1. /\ s \in Requests /\ s \in issued /\ pc[s] = "done" /\ pc[r] = "consume"
        /\ \A x \in Requests : <<x, r>> \notin redeemed
        /\ \A x \in Requests : x # r => pc'[x] = pc[x] /\ req'[x] = req[x]
        /\ req' = req
        /\ UNCHANGED <<issued, preAuth>>
    BY <1>15, ConsumeLoginTransactionEffect
  <2>2. CASE pc'[r] = "exchange"
    <3>1. /\ txn[s] \in Tokens
          /\ txn' = [txn EXCEPT ![s] = None]
          /\ redeemed' = redeemed \cup {<<s, r>>}
      BY <1>15, <2>2, ConsumeLoginTransactionEffect
    <3>2. /\ preAuth[s] # None
          /\ \A x \in Requests : <<s, x>> \notin redeemed
      BY <2>1, <3>1
    <3>3. \A x, q \in Requests :
             <<x, q>> \in redeemed' => <<x, q>> \in redeemed \/ (x = s /\ q = r)
      BY <3>1
    <3>4. \A p \in redeemed' : p \in redeemed \/ p = <<s, r>>
      BY <3>1
    <3>5. TransactionOnce'
      BY <2>1, <3>2, <3>4 DEF TypeOK
    <3> QED
      BY <2>1, <2>2, <3>1, <3>2, <3>3, <3>5
  <2>3. CASE pc'[r] # "exchange"
    <3>1. /\ pc'[r] = "write" /\ redeemed' = redeemed
          /\ \A x \in Requests : txn'[x] \in {txn[x], None}
      BY <1>15, <2>3, ConsumeLoginTransactionEffect
    <3> QED
      BY <2>1, <3>1
  <2> QED
    BY <2>2, <2>3
<1>16. ASSUME NEW r \in Requests, Exchange(r) PROVE OneShot'
  BY <1>16, ExchangeEffect
<1>17. ASSUME NEW r \in Requests, RenewToken(r) PROVE OneShot'
  BY <1>17, RenewTokenEffect
<1>18. ASSUME NEW r \in Requests, Rebind(r) PROVE OneShot'
  BY <1>18, RebindEffect
<1>19. ASSUME NEW r \in Requests, Release(r) PROVE OneShot'
  BY <1>19, ReleaseEffect
<1>20. ASSUME NEW r \in Requests, Deliver(r) PROVE OneShot'
  BY <1>20, DeliverEffect
     DEF NoRequest, NoReply
<1>21. ASSUME NEW r \in Requests, DropReply(r) PROVE OneShot'
  BY <1>21, DropReplyEffect
     DEF NoRequest, NoReply
<1>22. ASSUME NEW t \in Tokens, ExpireLock(t) PROVE OneShot'
  BY <1>22 DEF ExpireLock, redis, history
<1>23. ASSUME NEW t \in Tokens, ExpireSession(t) PROVE OneShot'
  BY <1>23 DEF ExpireSession, redis, history
<1>24. ASSUME NEW s \in Requests, ExpireTransaction(s) PROVE OneShot'
  BY <1>24 DEF ExpireTransaction, redis, history
<1>25. CASE UNCHANGED vars
  BY <1>25 DEF vars, redis, history
<1> QED
  BY <1>1, <1>2, <1>3, <1>4, <1>5, <1>6, <1>7, <1>8, <1>9, <1>10, <1>11,
     <1>12, <1>13, <1>14, <1>15, <1>16, <1>17, <1>18, <1>19, <1>20, <1>21,
     <1>22, <1>23, <1>24, <1>25
     DEF Next, Step

\* Only a request that has loaded its session puts its name in a fence.
LEMMA FencedStep ==
    TypeOK /\ Locals /\ Fenced /\ [Next]_vars => Fenced'
<1> SUFFICES ASSUME TypeOK, Locals, Fenced, [Next]_vars
             PROVE  Fenced'
  OBVIOUS
<1> USE LoginAssumption
      DEF TypeOK, Only, Fenced, Fences
<1>1. ASSUME NEW r \in Requests, Arrive(r) PROVE Fenced'
  BY <1>1, ArriveEffect
<1>2. ASSUME NEW r \in Requests, AcquireSessionMutex(r) PROVE Fenced'
  BY <1>2, AcquireSessionMutexEffect
<1>3. ASSUME NEW r \in Requests, AcquireTimeout(r) PROVE Fenced'
  BY <1>3, AcquireTimeoutEffect
<1>4. ASSUME NEW r \in Requests, Load(r) PROVE Fenced'
  BY <1>4, LoadEffect
<1>5. ASSUME NEW r \in Requests, ActivateFence(r) PROVE Fenced'
  BY <1>5, ActivateFenceEffect
<1>6. ASSUME NEW r \in Requests, FencedCommit(r) PROVE Fenced'
  BY <1>6, FencedCommitEffect
<1>7. ASSUME NEW r \in Requests, FenceProbe(r) PROVE Fenced'
  BY <1>7, FenceProbeEffect
<1>8. ASSUME NEW r \in Requests, UnfencedCommit(r) PROVE Fenced'
  BY <1>8, UnfencedCommitEffect
<1>9. ASSUME NEW r \in Requests, WriteWithoutCommit(r) PROVE Fenced'
  BY <1>9, WriteWithoutCommitEffect
<1>10. ASSUME NEW r \in Requests, BeginLogin(r) PROVE Fenced'
  BY <1>10, BeginLoginEffect
<1>11. ASSUME NEW r \in Requests, SaveLoginTransaction(r) PROVE Fenced'
  BY <1>11, SaveLoginTransactionEffect
<1>12. ASSUME NEW r \in Requests, Relock(r) PROVE Fenced'
  BY <1>12, RelockEffect
<1>13. ASSUME NEW r \in Requests, Refence(r) PROVE Fenced'
  BY <1>13, RefenceEffect
<1>14. ASSUME NEW r \in Requests, Destroy(r) PROVE Fenced'
  BY <1>14, DestroyEffect
<1>15. ASSUME NEW r \in Requests, ConsumeLoginTransaction(r) PROVE Fenced'
  BY <1>15, ConsumeLoginTransactionEffect
<1>16. ASSUME NEW r \in Requests, Exchange(r) PROVE Fenced'
  BY <1>16, ExchangeEffect
<1>17. ASSUME NEW r \in Requests, RenewToken(r) PROVE Fenced'
  BY <1>17, RenewTokenEffect
<1>18. ASSUME NEW r \in Requests, Rebind(r) PROVE Fenced'
  BY <1>18, RebindEffect
<1>19. ASSUME NEW r \in Requests, Release(r) PROVE Fenced'
  BY <1>19, ReleaseEffect
<1>20. ASSUME NEW r \in Requests, Deliver(r) PROVE Fenced'
  BY <1>20, DeliverEffect
     DEF NoRequest, NoReply
<1>21. ASSUME NEW r \in Requests, DropReply(r) PROVE Fenced'
  BY <1>21, DropReplyEffect
     DEF NoRequest, NoReply
<1>22. ASSUME NEW t \in Tokens, ExpireLock(t) PROVE Fenced'
  BY <1>22 DEF ExpireLock, redis, history
<1>23. ASSUME NEW t \in Tokens, ExpireSession(t) PROVE Fenced'
  BY <1>23 DEF ExpireSession, redis, history
<1>24. ASSUME NEW s \in Requests, ExpireTransaction(s) PROVE Fenced'
  BY <1>24 DEF ExpireTransaction, redis, history
<1>25. CASE UNCHANGED vars
  BY <1>25 DEF vars, redis, history
<1> QED
  BY <1>1, <1>2, <1>3, <1>4, <1>5, <1>6, <1>7, <1>8, <1>9, <1>10, <1>11,
     <1>12, <1>13, <1>14, <1>15, <1>16, <1>17, <1>18, <1>19, <1>20, <1>21,
     <1>22, <1>23, <1>24, <1>25
     DEF Next, Step


\* No step uses a token that was not generated.
LEMMA KnownStep ==
    TypeOK /\ Locals /\ Known /\ [Next]_vars => Known'
<1> SUFFICES ASSUME TypeOK, Locals, Known, [Next]_vars
             PROVE  Known'
  OBVIOUS
<1>1. /\ Given \subseteq Given'
      /\ minted' = minted + 1 => minted + 1 \in Given'
  BY NextToken, AllMoves DEF Moves, CopyMove, Given
<1> USE NextToken
<1>2. ASSUME NEW b \in Browsers PROVE cookie'[b] \in Given' \cup {None}
  BY <1>1, AllMoves DEF Moves, CookieMove, Known
<1>3. ASSUME NEW r \in Requests PROVE req'[r].sent \in Given' \cup {None}
  BY <1>1, AllMoves DEF Moves, AskMove, Known, NoRequest
<1>4. ASSUME NEW r \in Requests PROVE copy'[r].token \in Given' \cup {None}
  BY <1>1, AllMoves DEF Moves, CopyMove, Known
<1>5. ASSUME NEW r \in Requests PROVE reply'[r].cookie \in Given' \cup {Keep, Clear}
  BY <1>1, AllMoves DEF Moves, ReplyMove, Known
<1>6. ASSUME NEW s \in States PROVE preAuth'[s] \in Given' \cup {None}
  BY <1>1, AllMoves DEF Moves, PreAuthMove, Known
<1>7. ASSUME NEW t \in Tokens, session'[t] # None PROVE t \in Given'
  BY <1>1, <1>7, AllMoves DEF Moves, SessionMove, Known
<1> QED
  BY <1>2, <1>3, <1>4, <1>5, <1>6, <1>7 DEF Known


\* No step tells anyone the token of a session before its request answers.
LEMMA PrivateStep ==
    TypeOK /\ Locals /\ Known /\ Private /\ [Next]_vars => Private'
<1> SUFFICES ASSUME TypeOK, Locals, Known, Private, [Next]_vars,
                    NEW q \in Requests, Minting(q)'
             PROVE  /\ \A b \in Browsers : cookie'[b] # copy'[q].token
                    /\ \A r \in Requests : /\ req'[r].sent # copy'[q].token
                                           /\ reply'[r].cookie # copy'[q].token
                                           /\ r # q => copy'[r].token # copy'[q].token
                    /\ \A s \in States \ {q} : preAuth'[s] # copy'[q].token
  BY DEF Private
<1> USE NextToken
<1>1. CASE /\ Minting(q) /\ copy'[q].token = copy[q].token /\ req'[q] = req[q]
  <2>0. /\ copy[q].token \in Tokens /\ copy[q].token \in Given
        /\ pc[q] \in Busy /\ pc'[q] \in Busy
        /\ copy[q].token # req[q].sent
    BY <1>1 DEF Minting, Known
  <2>1. ASSUME NEW b \in Browsers PROVE cookie'[b] # copy[q].token
    BY <1>1, <2>0, AllMoves DEF Moves, CookieMove, Private
  <2>2. ASSUME NEW r \in Requests PROVE req'[r].sent # copy[q].token
    BY <1>1, <2>0, AllMoves DEF Moves, AskMove, Private, NoRequest
  <2>3. ASSUME NEW r \in Requests PROVE reply'[r].cookie # copy[q].token
    BY <1>1, <2>0, AllMoves DEF Moves, ReplyMove, Private, Busy
  <2>4. ASSUME NEW r \in Requests, r # q PROVE copy'[r].token # copy[q].token
    BY <1>1, <2>0, <2>4, AllMoves DEF Moves, CopyMove, Private
  <2>5. ASSUME NEW s \in States \ {q} PROVE preAuth'[s] # copy[q].token
    BY <1>1, <2>0, AllMoves DEF Moves, PreAuthMove, Private
  <2> QED
    BY <1>1, <2>1, <2>2, <2>3, <2>4, <2>5
<1>2. CASE /\ copy'[q].token = minted + 1 /\ minted + 1 \in Tokens
           /\ req' = req /\ cookie' = cookie /\ preAuth' = preAuth /\ Only(q)
           /\ reply'[q].cookie = reply[q].cookie
  BY <1>2 DEF Known, Only
<1> QED
  BY <1>1, <1>2, MintMoves DEF MintMove


\* A login that is complete, or whose callback is on its way, has ended.
LEMMA LoginsEnded ==
    ASSUME TypeOK, Locals, OneShot, Completed
    PROVE  /\ \A s \in complete : s \in Requests /\ pc[s] = "done" /\ preAuth[s] # None
           /\ \A r \in Requests :
                 pc[r] \in Redeeming =>
                     /\ req[r].state \in Requests /\ pc[req[r].state] = "done"
                     /\ preAuth[req[r].state] # None
<1>1. \A r \in Requests : pc[r] \in Redeeming => req[r].state \in Requests
  BY LoginAssumption DEF TypeOK, Asked, Locals, LocalsOf
<1> QED
  BY <1>1 DEF OneShot, Completed, TypeOK

\* No step names a login that is not complete, or completes one that failed.
LEMMA CompletedStep ==
    TypeOK /\ Locals /\ OneShot /\ Completed /\ [Next]_vars => Completed'
<1> SUFFICES ASSUME TypeOK, Locals, OneShot, Completed, [Next]_vars
             PROVE  Completed'
  OBVIOUS
<1>1. /\ complete \subseteq complete' /\ redeemed \subseteq redeemed'
      /\ Moves /\ FailMove
  BY AllMoves, FailMoves DEF Moves, CompleteMove
<1>2. ASSUME NEW s \in complete' PROVE \E r \in Requests : <<s, r>> \in redeemed'
  BY <1>1 DEF Moves, CompleteMove, Completed, OneShot, Redeeming
<1>3. ASSUME NEW r \in Requests
      PROVE  copy'[r].who \in complete' \cup {Earlier, None}
  BY <1>1 DEF Moves, WhoMove, Completed
<1>4. ASSUME NEW t \in Tokens, session'[t] # None
      PROVE  session'[t].who \in complete' \cup {Earlier, None}
  <2>1. CASE session'[t] = session[t]
    BY <1>1, <1>4, <2>1 DEF Completed
  <2>2. CASE \E r \in Requests : session'[t] = Data(r)
    BY <1>1, <2>2 DEF Completed, Data
  <2> QED
    BY <1>1, <1>4, <2>1, <2>2 DEF Moves, SessionMove
<1>5. ASSUME NEW r \in Requests, NEW s, <<s, r>> \in redeemed, s \notin complete,
             s \in complete'
      PROVE  pc[r] = "rebind" /\ pc'[r] = "write" /\ reply'[r].code = "redirect"
  <2>1. PICK q \in Requests :
             /\ pc[q] = "rebind" /\ pc'[q] = "write" /\ reply'[q].code = "redirect"
             /\ s = req[q].state
    BY <1>1, <1>5 DEF Moves, CompleteMove
  <2>2. <<s, q>> \in redeemed
    BY <2>1 DEF OneShot, Redeeming
  <2>3. q = r
    BY <1>5, <2>2 DEF OneShot, TransactionOnce
  <2> QED
    BY <2>1, <2>3
<1>6. ASSUME NEW r \in Requests, pc'[r] \in Redeeming
      PROVE  req'[r].state \notin complete'
  <2>1. CASE pc[r] \in Redeeming
    <3>1. /\ req'[r] = req[r] /\ <<req[r].state, r>> \in redeemed
          /\ req[r].state \notin complete
      BY <1>1, <1>6, <2>1 DEF Moves, PlaceMove, Completed, OneShot
    <3> QED
      BY <1>5, <1>6, <3>1 DEF Redeeming
  <2>2. CASE pc[r] = "consume"
    <3>1. /\ req'[r] = req[r] /\ complete' = complete
          /\ txn[req[r].state] \in Tokens
      BY <1>1, <1>6, <2>2 DEF Moves, PlaceMove, Redeeming
    <3> QED
      BY <3>1, NextToken DEF Completed, OneShot, TypeOK
  <2> QED
    BY <1>1, <1>6, <2>1, <2>2 DEF Moves, PlaceMove
<1>7. ASSUME NEW r \in Requests, Failing(r)' PROVE req'[r].state \notin complete'
  <2>1. /\ req'[r] = req[r] /\ <<req[r].state, r>> \in redeemed
        /\ reply'[r].code = "failed"
        /\ req[r].state \notin complete
    BY <1>1, <1>7 DEF FailMove, Completed, Failing
  <2> QED
    BY <2>1, <1>5
<1> QED
  BY <1>2, <1>3, <1>4, <1>6, <1>7 DEF Completed


\* What a step does to a token agrees with the owners of the tokens, if the
\* token it generates belongs to the browser of the request it is for.
LEMMA OwnerStep ==
    ASSUME TypeOK, Locals, Known, OneShot, Completed, [Next]_vars,
           NEW own \in [Tokens -> Browsers], OwnedBy(own),
           \A r \in Requests :
              /\ pc[r] \in {"begin", "renew"} /\ minted + 1 \in Tokens
              /\ copy'[r].token = minted + 1
              => own[minted + 1] = req[r].by
    PROVE  OwnedBy(own)'
<1>0. /\ Moves
      /\ None \notin Tokens \cup Requests /\ {Keep, Clear} \cap Tokens = {}
      /\ Earlier \notin Requests
  BY AllMoves, NextToken, LoginAssumption DEF States
<1>1. /\ \A s \in complete \cup {Earlier} : beganBy'[s] = beganBy[s]
      /\ \A r \in Requests :
            pc[r] \in Redeeming => beganBy'[req[r].state] = beganBy[req[r].state]
  BY <1>0, LoginsEnded DEF Moves, PreAuthMove, States
<1>2. ASSUME NEW b \in Browsers, cookie'[b] # None PROVE own[cookie'[b]] = b
  BY <1>0, <1>2 DEF Moves, CookieMove, OwnedBy
<1>3. ASSUME NEW r \in Requests, req'[r].sent # None
      PROVE  own[req'[r].sent] = req'[r].by
  BY <1>0, <1>3 DEF Moves, AskMove, OwnedBy, NoRequest
<1>4. ASSUME NEW r \in Requests, reply'[r].cookie \in Tokens
      PROVE  own[reply'[r].cookie] = req'[r].by
  <2>1. /\ pc[r] = "idle" => reply[r].cookie \notin Tokens
    BY <1>0 DEF Locals, LocalsOf
  <2>2. req'[r] = req[r]
    BY <1>0, <1>4, <2>1 DEF Moves, AskMove, NoReply
  <2> QED
    BY <1>0, <1>4, <2>2 DEF Moves, ReplyMove, OwnedBy
<1>5. ASSUME NEW r \in Requests, pc'[r] \notin {"idle", "done"}
      PROVE  \/ pc[r] \notin {"idle", "done"} /\ req'[r] = req[r]
             \/ copy'[r].token = None /\ copy'[r].who = None
  <2>1. pc[r] = "idle" => copy[r].token = None /\ copy[r].who = None
    BY DEF Locals, LocalsOf, NewSession
  <2> QED
    BY <1>0, <1>5, <2>1 DEF Moves, PlaceMove, AskMove, CopyMove, WhoMove
<1>6. ASSUME NEW r \in Requests, pc'[r] \notin {"idle", "done"},
             copy'[r].token # None
      PROVE  own[copy'[r].token] = req'[r].by
  BY <1>0, <1>5, <1>6 DEF Moves, CopyMove, OwnedBy
<1>7. ASSUME NEW r \in Requests, pc'[r] \notin {"idle", "done"},
             copy'[r].who # None
      PROVE  beganBy'[copy'[r].who] = req'[r].by
  BY <1>0, <1>1, <1>5, <1>7 DEF Moves, WhoMove, OwnedBy, Completed, Redeeming
<1>8. ASSUME NEW r \in Requests, pc'[r] \in Redeeming
      PROVE  beganBy'[req'[r].state] = req'[r].by
  <2>1. CASE pc[r] \in Redeeming
    BY <1>0, <1>1, <1>8, <2>1 DEF Moves, PlaceMove, OwnedBy
  <2>2. CASE pc[r] \notin Redeeming
    <3> DEFINE s == req[r].state
    <3>1. /\ req'[r] = req[r] /\ pc[r] = "consume" /\ beganBy' = beganBy
          /\ copy[r].token \in Tokens /\ copy[r].token = txn[s]
      BY <1>0, <1>8, <2>2 DEF Moves, PlaceMove
    <3>2. s \in Requests
      BY <3>1 DEF TypeOK, Asked, Locals, LocalsOf
    <3>3. preAuth[s] = copy[r].token
      BY <1>0, <3>1, <3>2 DEF OneShot
    <3> QED
      BY <1>0, <3>1, <3>2, <3>3 DEF OwnedBy, States
  <2> QED
    BY <2>1, <2>2
<1>9. ASSUME NEW s \in States, preAuth'[s] # None
      PROVE  own[preAuth'[s]] = beganBy'[s]
  BY <1>0, <1>9 DEF Moves, PreAuthMove, OwnedBy
<1>10. ASSUME NEW t \in Tokens, session'[t] # None, session'[t].who # None
       PROVE  own[t] = beganBy'[session'[t].who]
  <2>1. CASE session'[t] = session[t]
    BY <1>1, <1>10, <2>1 DEF OwnedBy, Completed
  <2>2. ASSUME NEW r \in Requests, pc[r] \notin {"idle", "done"}, beganBy' = beganBy,
               copy[r].token = t, session'[t] = Data(r)
        PROVE  own[t] = beganBy'[session'[t].who]
    BY <1>0, <1>10, <2>2 DEF OwnedBy, Data
  <2> QED
    BY <1>0, <1>10, <2>1, <2>2 DEF Moves, SessionMove
<1> QED
  BY <1>2, <1>3, <1>4, <1>6, <1>7, <1>8, <1>9, <1>10 DEF OwnedBy

\* Every step leaves each token to one browser.
LEMMA OwnedStep ==
    TypeOK /\ Locals /\ Known /\ OneShot /\ Completed /\ Owned /\ [Next]_vars => Owned'
<1> SUFFICES ASSUME TypeOK, Locals, Known, OneShot, Completed, Owned, [Next]_vars
             PROVE  Owned'
  OBVIOUS
<1>1. PICK own \in [Tokens -> Browsers] : OwnedBy(own)
  BY DEF Owned
<1>2. CASE \E r \in Requests : /\ pc[r] \in {"begin", "renew"}
                               /\ minted + 1 \in Tokens
                               /\ copy'[r].token = minted + 1
  <2>1. PICK r \in Requests : /\ pc[r] \in {"begin", "renew"}
                              /\ minted + 1 \in Tokens
                              /\ copy'[r].token = minted + 1
    BY <1>2
  <2> DEFINE own2 == [own EXCEPT ![minted + 1] = req[r].by]
  <2>2. req[r].by \in Browsers
    BY <2>1 DEF Locals, LocalsOf
  <2>3. /\ own2 \in [Tokens -> Browsers] /\ own2[minted + 1] = req[r].by
        /\ \A t \in Tokens : t # minted + 1 => own2[t] = own[t]
    BY <2>1, <2>2
  <2> HIDE DEF own2
  <2>4. OwnedBy(own2)
    BY <1>1, <2>3, NextToken DEF OwnedBy, Known
  <2>5. \A q \in Requests :
           /\ pc[q] \in {"begin", "renew"} /\ copy'[q].token = minted + 1
           => q = r
    <3>1. copy[r].token # minted + 1 /\ \A q \in Requests : copy[q].token # minted + 1
      BY <2>1, NextToken DEF Known
    <3> QED
      BY <2>1, <3>1, AllMoves, NextToken DEF Moves, CopyMove, Only
  <2> QED
    BY <2>3, <2>4, <2>5, OwnerStep DEF Owned
<1>3. CASE \A r \in Requests : ~ /\ pc[r] \in {"begin", "renew"}
                                 /\ minted + 1 \in Tokens
                                 /\ copy'[r].token = minted + 1
  BY <1>1, <1>3, OwnerStep DEF Owned
<1> QED
  BY <1>2, <1>3


\* What is gone stays gone, unless it is the private session of a request.
LEMMA GoneStep ==
    ASSUME TypeOK, Locals, Fenced, [Next]_vars,
           NEW t \in Tokens, Gone(t), \A q \in Requests : Minting(q) => copy[q].token # t
    PROVE  Gone(t)'
<1>0. /\ Moves /\ None \notin Tokens \cup Requests \cup (Tokens \X Requests)
  BY AllMoves, LoginAssumption DEF States
<1>1. \A q \in Requests :
         /\ pc[q] \in {"relock", "refence", "rebind"} => copy[q].token # t
         /\ pc[q] \in Busy /\ copy[q].token = t =>
               req[q].sent = t /\ copy[q].fence # None
  BY <1>0 DEF Minting, Locals, LocalsOf, Busy, LoginSteps, Redeeming
<1>2. session'[t] = None
  <2>1. ASSUME NEW r \in Requests,
               pc[r] \in {"commit", "commitProbed", "write", "writeProbed"},
               copy[r].token = t,
               \/ copy[r].fence = None
               \/ lock[req[r].sent] = r /\ fence[t] = <<req[r].sent, r>>
        PROVE  FALSE
    BY <1>1, <2>1 DEF Gone, Busy
  <2> QED
    BY <1>0, <2>1 DEF Moves, SessionMove, Gone
<1>3. ASSUME NEW q \in Requests, lock'[t] = q PROVE fence'[t] # <<t, q>>
  <2>1. CASE lock[t] = q
    <3>1. fence[t] # <<t, q>> /\ None # <<t, q>>
      BY <1>0, <2>1 DEF Gone
    <3>2. ASSUME NEW r \in Requests, fence'[t] = <<req[r].sent, r>>,
                 pc[r] = "activate", req[r].sent = t, fence'[t] = <<t, q>>
          PROVE  FALSE
      <4>1. r = q
        BY <3>2
      <4> QED
        BY <2>1, <3>2, <4>1 DEF Gone
    <3> QED
      BY <1>0, <1>1, <3>1, <3>2 DEF Moves, FenceMove
  <2>2. CASE pc[q] = "lock" /\ fence' = fence
    BY <2>2 DEF Fenced
  <2> QED
    BY <1>0, <1>1, <1>3, <2>1, <2>2 DEF Moves, LockMove
<1>4. ASSUME NEW q \in Requests, lock'[t] = q
      PROVE  ~(pc'[q] = "activate" /\ req'[q].sent = t)
  BY <1>0, <1>1, <1>4 DEF Moves, LockMove, PlaceMove, Gone
<1> QED
  BY <1>2, <1>3, <1>4 DEF Gone

\* Every step leaves the session that a login replaced where it is: nowhere.
LEMMA ReplacedStep ==
    /\ TypeOK /\ Locals /\ Private /\ OneShot /\ Completed /\ Fenced /\ Replaced
    /\ [Next]_vars
    => Replaced'
<1> SUFFICES ASSUME TypeOK, Locals, Private, OneShot, Completed, Fenced, Replaced,
                    [Next]_vars
             PROVE  Replaced'
  OBVIOUS
<1>0. Moves
  BY AllMoves
<1>1. ASSUME NEW s \in Requests, pc[s] = "done", preAuth[s] # None, Gone(preAuth[s])
      PROVE  Gone(preAuth[s])'
  <2>1. /\ preAuth'[s] = preAuth[s] /\ preAuth[s] \in Tokens
    BY <1>0, <1>1 DEF Moves, PreAuthMove, TypeOK, States
  <2>2. \A q \in Requests : Minting(q) => copy[q].token # preAuth[s]
    BY <1>1 DEF Private, Minting, Busy, States
  <2> DEFINE t == preAuth[s]
  <2>3. Gone(t)'
    BY <1>1, <2>1, <2>2, GoneStep
  <2> QED
    BY <2>1, <2>3
<1>2. ASSUME NEW r \in Requests, pc'[r] \in {"exchange", "renew"}
      PROVE  copy'[r].token = preAuth'[req'[r].state]
  <2>1. req'[r] = req[r] /\ copy'[r] = copy[r]
    BY <1>0, <1>2 DEF Moves, PlaceMove, Redeeming
  <2>2. CASE pc[r] \in Redeeming
    BY <1>0, <1>2, <2>1, <2>2, LoginsEnded
       DEF Moves, PlaceMove, PreAuthMove, Replaced, Redeeming, States
  <2>3. CASE pc[r] \notin Redeeming
    BY <1>0, <1>2, <2>1, <2>3, NextToken
       DEF Moves, PlaceMove, OneShot, Redeeming, TypeOK, Asked, Locals, LocalsOf
  <2> QED
    BY <2>2, <2>3
<1>3. ASSUME NEW r \in Requests, pc'[r] = "rebind"
      PROVE  Gone(preAuth[req[r].state])' /\ req'[r] = req[r]
  <2>1. req'[r] = req[r] /\ pc[r] \in Redeeming
    BY <1>0, <1>3 DEF Moves, PlaceMove, Redeeming
  <2>2. CASE pc[r] = "rebind"
    BY <1>1, <2>1, <2>2, LoginsEnded DEF Replaced, Redeeming
  <2>3. CASE pc[r] # "rebind"
    <3>1. /\ pc[r] = "renew" /\ lock[copy[r].token] = r /\ lock' = lock
          /\ session'[copy[r].token] = None /\ fence'[copy[r].token] = None
          /\ preAuth' = preAuth /\ copy[r].token = preAuth[req[r].state]
      BY <1>0, <1>3, <2>3 DEF Moves, PlaceMove, Replaced
    <3>2. \A q \in Requests : lock'[copy[r].token] = q => q = r
      BY <3>1
    <3>3. \A q \in Requests, x \in Tokens : <<x, q>> # None
      BY LoginAssumption
    <3>4. copy[r].token \in Tokens
      BY <3>1 DEF TypeOK, Copies, Locals, LocalsOf, Redeeming
    <3> QED
      BY <1>3, <2>1, <3>1, <3>2, <3>3, <3>4 DEF Gone
  <2> QED
    BY <2>1, <2>2, <2>3
<1>4. ASSUME NEW s \in complete' PROVE Gone(preAuth[s])'
  <2>1. CASE s \in complete
    BY <1>1, <2>1, LoginsEnded DEF Replaced
  <2>2. CASE s \notin complete
    <3>1. PICK r \in Requests : pc[r] = "rebind" /\ s = req[r].state
      BY <1>0, <1>4, <2>2 DEF Moves, CompleteMove
    <3> QED
      BY <1>1, <3>1, LoginsEnded DEF Replaced, Redeeming
  <2> QED
    BY <2>1, <2>2
<1> QED
  BY <1>2, <1>3, <1>4 DEF Replaced


-----------------------------------------------------------------------------
(* The theorems.                                                           *)

\* Nothing has been asked at first, and one browser has a session.
LEMMA Initially == Init => Inv
<1> SUFFICES ASSUME Init PROVE Inv
  OBVIOUS
<1> USE LoginAssumption DEF Init
<1>1. PICK known \in Browsers :
         /\ session = [t \in Tokens |-> IF t = 1 THEN [who |-> Earlier] ELSE None]
         /\ cookie = [b \in Browsers |-> IF b = known THEN 1 ELSE None]
         /\ beganBy = [s \in States |-> IF s = Earlier THEN known ELSE None]
         /\ minted = 1
  OBVIOUS
<1>2. 1 \in Tokens /\ 1 \in Given /\ 1 \in 0..MaxTokens
  BY <1>1 DEF Tokens, Given
<1>3. TypeOK
  <2>1. /\ session \in [Tokens -> Stored \cup {None}]
        /\ cookie \in [Browsers -> Tokens \cup {None}]
        /\ beganBy \in [States -> Browsers \cup {None}]
        /\ minted \in 0..MaxTokens
    BY <1>1, <1>2 DEF Stored, States
  <2>2. /\ lock \in [Tokens -> Requests \cup {None}]
        /\ fence \in [Tokens -> Fences \cup {None}]
        /\ txn \in [Requests -> Tokens \cup {None}]
        /\ pc \in [Requests -> Labels]
        /\ preAuth \in [States -> Tokens \cup {None}]
    BY DEF Labels
  <2>3. req \in [Requests -> Asked]
    BY DEF Asked, NoRequest
  <2>4. copy \in [Requests -> Copies]
    BY DEF Copies, NewSession
  <2>5. reply \in [Requests -> Replies]
    BY DEF Replies, NoReply
  <2> QED
    BY <2>1, <2>2, <2>3, <2>4, <2>5 DEF TypeOK
<1>4. \A r \in Requests : /\ pc[r] = "idle" /\ req[r] = NoRequest
                          /\ copy[r] = NewSession("unmodified")
                          /\ reply[r] = NoReply
  OBVIOUS
<1>5. Locals
  BY <1>4 DEF Locals, LocalsOf, Busy, LoginSteps, Redeeming, NoRequest, NoReply,
              NewSession
<1>6. Known
  BY <1>1, <1>2, <1>4 DEF Known, NoRequest, NoReply, NewSession
<1>7. Private
  BY <1>4 DEF Private, Minting, Busy
<1>8. OneShot
  BY <1>4 DEF OneShot, TransactionOnce, Redeeming
<1>9. Owned
  <2> DEFINE own == [t \in Tokens |-> known]
  <2>1. own \in [Tokens -> Browsers] /\ \A t \in Tokens : own[t] = known
    OBVIOUS
  <2> HIDE DEF own
  <2>2. /\ \A r \in Requests : /\ req[r].sent = None /\ reply[r].cookie \notin Tokens
                               /\ pc[r] = "idle" /\ pc[r] \notin Redeeming
        /\ \A s \in States : preAuth[s] = None
    BY <1>3, <1>4, NextToken DEF NoRequest, NoReply, Redeeming
  <2>3. OwnedBy(own)
    BY <1>1, <1>2, <2>1, <2>2 DEF OwnedBy, States
  <2> QED
    BY <2>1, <2>3 DEF Owned
<1>10. Completed
  BY <1>1, <1>4 DEF Completed, NewSession, Failing, Redeeming
<1>11. Fenced
  BY DEF Fenced
<1>12. Replaced
  BY <1>4 DEF Replaced
<1> QED
  BY <1>3, <1>5, <1>6, <1>7, <1>8, <1>9, <1>10, <1>11, <1>12 DEF Inv

\* Every step of every request, delivery and expiry preserves the invariant.
THEOREM LoginInvariance == Spec => []Inv
<1>1. Inv /\ [Next]_vars => Inv'
  BY TypeStep, LocalsStep, KnownStep, PrivateStep, OneShotStep, OwnedStep,
     CompletedStep, FencedStep, ReplacedStep DEF Inv
<1> QED
  BY Initially, <1>1, PTL DEF Spec

\* A login's transaction is handed to one callback at most, and the session it
\* replaced never returns, whatever any number of concurrent requests of the
\* old cookie still does (ConsumeLoginTransaction, RenewToken).
THEOREM LoginsAreSpent == Spec => []SpentStaysSpent
<1>1. Inv => SpentStaysSpent
  BY DEF Inv, SpentStaysSpent, OneShot, Replaced, ReplacedIsGone, Gone
<1> QED
  BY LoginInvariance, <1>1, PTL

\* The session of a login is the cookie of no browser but the one that began
\* it, and no callback answered with an error hands that session out.
THEOREM LoginsAreBound == Spec => []BoundBrowser
<1>1. Inv => CookieIsBound
  <2> SUFFICES ASSUME Inv, NEW b \in Browsers, NEW t \in Tokens, cookie[b] = t,
                      session[t] # None, session[t].who # None
               PROVE  beganBy[session[t].who] = b
    BY DEF CookieIsBound
  <2>1. PICK own \in [Tokens -> Browsers] : OwnedBy(own)
    BY DEF Inv, Owned
  <2> QED
    BY <2>1, LoginAssumption DEF OwnedBy
<1>2. Inv => FailureIsNoLogin
  <2> SUFFICES ASSUME Inv, NEW r \in Requests, NEW t \in Tokens,
                      <<req[r].state, r>> \in redeemed, reply[r].code = "failed",
                      reply[r].cookie = t, session[t] # None
               PROVE  session[t].who # req[r].state
    BY DEF FailureIsNoLogin
  <2>1. req[r].state \in Requests
    BY DEF Inv, TypeOK
  <2>2. Failing(r)
    BY DEF Failing
  <2>3. Completed
    BY DEF Inv
  <2>4. req[r].state \notin complete \cup {Earlier, None}
    BY <2>1, <2>2, <2>3, LoginAssumption DEF Completed, States
  <2> QED
    BY <2>3, <2>4 DEF Completed
<1> QED
  BY LoginInvariance, <1>1, <1>2, PTL DEF BoundBrowser

\* The commit that checks the fence in one call and writes in another is never
\* made to a token that a browser or another request knows.
THEOREM UnfencedCommitsArePrivate == Spec => []UnfencedIsPrivate
<1>1. Inv => UnfencedIsPrivate
  <2> SUFFICES ASSUME Inv, NEW r \in Requests,
                      pc[r] \in {"commitProbed", "writeProbed"}
               PROVE  Minting(r) /\ Private
    BY DEF UnfencedIsPrivate, Private
  <2>1. LocalsOf(r)
    BY DEF Inv, Locals
  <2> QED
    BY <2>1 DEF Inv, Minting, LocalsOf, Busy, LoginSteps
<1> QED
  BY LoginInvariance, <1>1, PTL
=============================================================================
