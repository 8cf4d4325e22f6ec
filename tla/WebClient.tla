------------------------------ MODULE WebClient ------------------------------
(***************************************************************************)
(* The web client: frontend/src/App.tsx and GenerateWorkbench.tsx.          *)
(*                                                                         *)
(* The browser runs one handler at a time, so a user's event is one step,   *)
(* and so is the continuation of an await.  Between the two lie calls that  *)
(* are under way: the load at start (session, then profiles), the refresh   *)
(* of capabilities after a 403, an operation, a generation, a verification, *)
(* a sign-out, the clipboard.  cur names the call each role waits for (the  *)
(* refs with their AbortController and generation, which change together);  *)
(* a call that is no longer current, aborted or not, may still settle late. *)
(*                                                                         *)
(* Environments are numbers in the order the server lists them, 0 is the    *)
(* empty selection.  A text is 0 when empty; a result is the request it     *)
(* answers.  Messages, sizes and formats are left out.                      *)
(***************************************************************************)
EXTENDS Integers, FiniteSets, FiniteSetsExt

CONSTANTS Environments,   \* 1..N
          Snapshots,      \* capabilities the server may answer with
          Texts,          \* what the user types, positive numbers
          Users,          \* [views, copies]: the views a user visits besides
                          \* "operation", and what that user copies
          Calls,          \* how many calls are under way at most
          None

Copies == {"result", "attestation"}

\* 0 is the call of nobody; there are two things to copy
ASSUME WebClientAssumption ==
    /\ 0 \notin Calls
    /\ \A u \in Users : u.copies \subseteq Copies

ResultText == 0 - 1     \* a result put into the input
Modes == {"encrypt", "decrypt", "rotate"}
Roles == {"load", "refresh", "operation", "verify", "generate", "logout"} \cup Copies
NoCall == [role |-> "none", aborted |-> FALSE, what |-> None]
NoSnapshot == [e \in Environments |-> [encrypt |-> FALSE, decrypt |-> FALSE, to |-> {}]]
Blank == [out |-> None, att |-> None, revealed |-> FALSE, verdict |-> None]

VARIABLES
    user,    \* who uses the client, the same throughout
    view,    \* activeView
    form,    \* mode, profile, dest, value, issue (an attestation is wanted)
    shown,   \* output, attestation, revealed, verificationResult
    ver,     \* what the verification fields hold
    copied,  \* the text each copy feedback speaks of
    snap,    \* caps, valid, loading, failed, recovering, first (no selection yet)
    auth,    \* session, signingOut, signedOut, logoutFailed, leaving
    busy,    \* an operation or a verification is awaited
    gen,     \* the Generate workbench: profile, setting, result, busy
    cur,     \* the call each role waits for, or 0
    calls    \* the calls under way

vars == <<user, view, form, shown, ver, copied, snap, auth, busy, gen, cur, calls>>

Eligible(caps, m) ==
    {e \in Environments : IF m = "rotate" THEN caps[e].to # {} ELSE caps[e][m]}
Destinations(caps, e) == IF e = 0 THEN {} ELSE caps[e].to
First(S) == IF S = {} THEN 0 ELSE Min(S)
Keep(e, S) == IF e \in S THEN e ELSE 0

Ready == snap.valid /\ ~snap.loading /\ ~snap.failed
\* workbenchLocked, or the signed-out screen has taken the workbench's place
Locked == busy \/ auth.signingOut \/ auth.signedOut
Proof == auth.session = "proof"
\* the mode switch of the Generate view is disabled with its form
SwitchLocked == Locked \/ (view = "generate" /\ (gen.busy \/ ~Ready))

NoGenerate == [profile |-> 0, setting |-> 0, result |-> None, busy |-> FALSE]
NoFeedback == [k \in Copies |-> None]

\* dropping copies: their callbacks are no longer current
Dropped(c, ks) == [r \in Roles |-> IF r \in ks THEN 0 ELSE c[r]]
Aborted(cs, ids) == [c \in Calls |-> IF c \in ids THEN [cs[c] EXCEPT !.aborted = TRUE] ELSE cs[c]]
Begin(c, role, what) == [calls EXCEPT ![c] = [role |-> role, aborted |-> FALSE, what |-> what]]
Free(c) == calls[c] = NoCall

Init ==
    /\ user \in Users
    /\ view = "operation"
    /\ form = [mode |-> "encrypt", profile |-> 0, dest |-> 0, value |-> 0, issue |-> FALSE]
    /\ shown = Blank
    /\ ver = 0
    /\ copied = NoFeedback
    /\ snap = [caps |-> NoSnapshot, valid |-> FALSE, loading |-> TRUE, failed |-> FALSE,
               recovering |-> FALSE, first |-> TRUE]
    /\ auth = [session |-> "none", signingOut |-> FALSE, signedOut |-> FALSE,
               logoutFailed |-> FALSE, leaving |-> FALSE]
    /\ busy = FALSE
    /\ gen = NoGenerate
    /\ \E c \in Calls :
          /\ calls = [d \in Calls |-> IF d = c THEN [role |-> "load", aborted |-> FALSE,
                                                      what |-> "session"] ELSE NoCall]
          /\ cur = [r \in Roles |-> IF r = "load" THEN c ELSE 0]

-----------------------------------------------------------------------------
(* What the user does.  A control is there and enabled under the guard.    *)

\* the result, what came with it and its feedback are gone; v is what the
\* verification fields hold afterwards
invalidateOutput(v) ==
    /\ shown' = Blank
    /\ ver' = v
    /\ copied' = NoFeedback
    /\ cur' = Dropped(cur, Copies)

\* the Generate view is unmounted when another one takes its place
Unmount == gen' = NoGenerate /\ calls' = Aborted(calls, {cur["generate"]})

changeMode(m) ==
    /\ ~SwitchLocked
    /\ view = "operation" => Ready /\ Eligible(snap.caps, m) # {}
    /\ view' = "operation"
    /\ LET e == Keep(form.profile, Eligible(snap.caps, m))
       IN form' = [form EXCEPT !.mode = m, !.profile = e,
                               !.dest = Keep(@, Destinations(snap.caps, e))]
    /\ shown' = Blank /\ ver' = 0 /\ copied' = NoFeedback
    /\ cur' = Dropped(cur, Copies \cup {"generate"})
    /\ Unmount
    /\ UNCHANGED <<snap, auth, busy>>

changeVerifyMode ==
    /\ "verify" \in user.views /\ ~SwitchLocked /\ Proof
    /\ view' = "verify"
    /\ shown' = [shown EXCEPT !.verdict = None]
    /\ cur' = Dropped(cur, {"generate"})
    /\ Unmount
    /\ UNCHANGED <<form, ver, copied, snap, auth, busy>>

\* the workbench is mounted with the first environment
changeGenerateMode ==
    /\ "generate" \in user.views /\ view # "generate"
    /\ ~Locked /\ Ready /\ Eligible(snap.caps, "encrypt") # {}
    /\ view' = "generate"
    /\ shown' = [shown EXCEPT !.verdict = None]
    /\ ver' = 0
    /\ gen' = [NoGenerate EXCEPT !.profile = First(Eligible(snap.caps, "encrypt"))]
    /\ UNCHANGED <<form, copied, snap, auth, busy, cur, calls>>

\* typing, or a paste that is normalised first
changeValue(v) ==
    /\ view = "operation" /\ ~Locked
    /\ \/ snap.recovering
       \/ ~snap.loading /\ Eligible(snap.caps, form.mode) # {}
       \/ form.value # 0
    /\ v # form.value
    /\ form' = [form EXCEPT !.value = v]
    /\ invalidateOutput(ver)
    /\ UNCHANGED <<view, snap, auth, busy, gen, calls>>

\* Mutant of changeProfile: the result of the other environment stays.
changeProfileKeeping(e) ==
    /\ view = "operation" /\ ~Locked /\ Ready
    /\ e \in Eligible(snap.caps, form.mode) /\ e # form.profile
    /\ form' = [form EXCEPT !.profile = e, !.dest = Keep(@, Destinations(snap.caps, e))]
    /\ UNCHANGED <<view, shown, ver, copied, snap, auth, busy, gen, cur, calls>>

\* the select, or the environment suggested by the Vault text's label
changeProfile(e) ==
    /\ view = "operation" /\ ~Locked /\ Ready
    /\ e \in Eligible(snap.caps, form.mode) /\ e # form.profile
    /\ form' = [form EXCEPT !.profile = e, !.dest = Keep(@, Destinations(snap.caps, e))]
    /\ invalidateOutput(ver)
    /\ UNCHANGED <<view, snap, auth, busy, gen, calls>>

changeDestinationProfile(e) ==
    /\ view = "operation" /\ ~Locked /\ Ready /\ form.mode = "rotate"
    /\ e \in Destinations(snap.caps, form.profile) /\ e # form.dest
    /\ form' = [form EXCEPT !.dest = e]
    /\ invalidateOutput(ver)
    /\ UNCHANGED <<view, snap, auth, busy, gen, calls>>

\* the checkbox; an edit of the binding drops the attestation in the same way
changeIssueAttestation ==
    /\ view = "operation" /\ ~Locked /\ form.mode = "rotate"
    /\ Proof \/ form.issue
    /\ form' = [form EXCEPT !.issue = ~@]
    /\ shown' = [shown EXCEPT !.att = None, !.verdict = None]
    /\ copied' = [k \in Copies |-> IF k = "attestation" THEN None ELSE copied[k]]
    /\ cur' = Dropped(cur, Copies \cap {"attestation"})
    /\ UNCHANGED <<view, ver, snap, auth, busy, gen, calls>>

toggleRevealed ==
    /\ view = "operation" /\ ~Locked /\ form.mode = "decrypt" /\ shown.out # None
    /\ shown' = [shown EXCEPT !.revealed = ~@]
    /\ copied' = [k \in Copies |-> IF k = "result" THEN None ELSE copied[k]]
    /\ UNCHANGED <<view, form, ver, snap, auth, busy, gen, cur, calls>>

useResultAsInput ==
    /\ view = "operation" /\ ~Locked /\ Ready /\ shown.out # None
    /\ LET next == IF form.mode = "decrypt" THEN "encrypt" ELSE "decrypt"
           target == IF form.mode = "rotate" THEN form.dest ELSE form.profile
       IN /\ target \in Eligible(snap.caps, next)
          /\ form' = [form EXCEPT !.mode = next, !.profile = target, !.value = ResultText]
    /\ invalidateOutput(0)
    /\ UNCHANGED <<view, snap, auth, busy, gen, calls>>

verifyAttestedResult ==
    /\ "verify" \in user.views
    /\ view = "operation" /\ ~Locked /\ shown.att # None
    /\ view' = "verify"
    /\ ver' = ResultText
    /\ shown' = [shown EXCEPT !.verdict = None]
    /\ UNCHANGED <<form, copied, snap, auth, busy, gen, cur, calls>>

editVerification(v) ==
    /\ view = "verify" /\ ~Locked /\ v # ver
    /\ ver' = v
    /\ shown' = [shown EXCEPT !.verdict = None]
    /\ UNCHANGED <<view, form, copied, snap, auth, busy, gen, cur, calls>>

Request == [mode |-> form.mode, profile |-> form.profile, value |-> form.value,
            dest |-> IF form.mode = "rotate" THEN form.dest ELSE 0]

\* what is shown when an operation is sent
dispatched == Blank

\* an operation, or in its view a verification
submit(c) ==
    /\ Free(c) /\ ~Locked
    /\ \/ /\ view = "verify" /\ Proof /\ ver # 0
          /\ calls' = Begin(c, "verify", ver)
          /\ cur' = [Dropped(cur, Copies) EXCEPT !["verify"] = c]
          /\ shown' = [shown EXCEPT !.verdict = None]
          /\ UNCHANGED copied
       \/ /\ view = "operation" /\ Ready /\ form.value # 0
          /\ form.profile \in Eligible(snap.caps, form.mode)
          /\ form.mode = "rotate" => form.dest \in Destinations(snap.caps, form.profile)
          /\ calls' = Begin(c, "operation", <<Request, form.mode = "rotate" /\ form.issue>>)
          /\ cur' = [Dropped(cur, Copies) EXCEPT !["operation"] = c]
          /\ shown' = dispatched
          /\ copied' = NoFeedback
    /\ busy' = TRUE
    /\ UNCHANGED <<view, form, ver, snap, auth, gen>>

cancelOperation ==
    /\ busy /\ ~auth.signingOut
    /\ calls' = Aborted(calls, {cur["operation"]})
    /\ calls' # calls
    /\ UNCHANGED <<view, form, shown, ver, copied, snap, auth, busy, gen, cur>>

clearAll ==
    /\ view # "generate" /\ ~Locked
    /\ form.value # 0 \/ ver # 0 \/ shown # Blank
    /\ view' = "operation"
    /\ form' = [form EXCEPT !.value = 0, !.issue = FALSE]
    /\ invalidateOutput(0)
    /\ UNCHANGED <<snap, auth, busy, gen, calls>>

CanRetry == snap.failed /\ ~auth.logoutFailed /\ ~snap.loading /\ ~Locked /\ ~gen.busy

\* the effect runs again: an earlier load is aborted
retryProfiles(c) ==
    /\ Free(c) /\ CanRetry
    /\ snap' = [snap EXCEPT !.valid = FALSE, !.loading = TRUE, !.failed = FALSE]
    /\ calls' = [Aborted(calls, {cur["load"]}) EXCEPT
                    ![c] = [role |-> "load", aborted |-> FALSE, what |-> "session"]]
    /\ cur' = [cur EXCEPT !["load"] = c]
    /\ UNCHANGED <<view, form, shown, ver, copied, auth, busy, gen>>

copy(k, c) ==
    /\ Free(c) /\ ~Locked /\ view = "operation"
    /\ LET text == IF k = "result" THEN shown.out ELSE shown.att
       IN /\ text # None
          /\ calls' = Begin(c, k, text)
    /\ cur' = [cur EXCEPT ![k] = c]
    /\ copied' = [copied EXCEPT ![k] = None]
    /\ UNCHANGED <<view, form, shown, ver, snap, auth, busy, gen>>

\* Mutant of clearSensitiveStateForSignOut: the operation is aborted and its
\* controller kept.
clearSensitiveStateKeepingOperation(c) ==
    /\ calls' = [Aborted(calls, {cur[r] : r \in Roles \ {"operation"}}) EXCEPT
                    ![c] = [role |-> "logout", aborted |-> FALSE, what |-> None]]
    /\ cur' = [r \in Roles |-> CASE r = "logout" -> c
                                 [] r = "operation" -> cur["operation"]
                                 [] OTHER -> 0]

\* everything under way is aborted and no longer current
clearSensitiveStateForSignOut(c) ==
    /\ calls' = [Aborted(calls, {cur[r] : r \in Roles}) EXCEPT
                    ![c] = [role |-> "logout", aborted |-> FALSE, what |-> None]]
    /\ cur' = [r \in Roles |-> IF r = "logout" THEN c ELSE 0]

handleLogout(c) ==
    /\ Free(c) /\ auth.session # "none" /\ ~auth.signingOut
    /\ clearSensitiveStateForSignOut(c)
    /\ auth' = [auth EXCEPT !.signingOut = TRUE, !.logoutFailed = FALSE]
    /\ view' = "operation"
    /\ form' = [form EXCEPT !.value = 0, !.issue = FALSE]
    /\ shown' = Blank
    /\ ver' = 0
    /\ copied' = NoFeedback
    /\ snap' = [snap EXCEPT !.loading = FALSE]
    /\ busy' = FALSE
    /\ gen' = NoGenerate

GenLocked == auth.signingOut \/ gen.busy \/ ~Ready

\* a change of any field of the Generate form
changeGenerateForm(e, g) ==
    /\ view = "generate" /\ ~GenLocked
    /\ e \in Eligible(snap.caps, "encrypt")
    /\ <<e, g>> # <<gen.profile, gen.setting>>
    /\ gen' = [gen EXCEPT !.profile = e, !.setting = g, !.result = None]
    /\ UNCHANGED <<view, form, shown, ver, copied, snap, auth, busy, cur, calls>>

submitGenerate(c) ==
    /\ Free(c) /\ view = "generate" /\ ~GenLocked
    /\ gen.profile \in Eligible(snap.caps, "encrypt")
    /\ calls' = Begin(c, "generate", <<gen.profile, gen.setting>>)
    /\ cur' = [cur EXCEPT !["generate"] = c]
    /\ gen' = [gen EXCEPT !.result = None, !.busy = TRUE]
    /\ UNCHANGED <<view, form, shown, ver, copied, snap, auth, busy>>

\* the call is dropped at once; a refresh that it waits for goes on
cancelGeneration ==
    /\ view = "generate" /\ ~auth.signingOut /\ gen.busy
    /\ calls' = Aborted(calls, {cur["generate"]} \ {cur["refresh"]})
    /\ cur' = [cur EXCEPT !["generate"] = 0]
    /\ gen' = [gen EXCEPT !.busy = FALSE]
    /\ UNCHANGED <<view, form, shown, ver, copied, snap, auth, busy>>

-----------------------------------------------------------------------------
(* What comes back.                                                        *)

Current(c) == cur[calls[c].role] = c

\* the timer of an operation, a verification or a generation
timeout(c) ==
    /\ calls[c].role \in {"operation", "verify", "generate"} /\ ~calls[c].aborted
    /\ calls' = Aborted(calls, {c})
    /\ UNCHANGED <<view, form, shown, ver, copied, snap, auth, busy, gen, cur>>

\* a call that nobody waits for has no effect
late(c) ==
    /\ ~Free(c) /\ ~Current(c)
    /\ calls' = [calls EXCEPT ![c] = NoCall]
    /\ UNCHANGED <<view, form, shown, ver, copied, snap, auth, busy, gen, cur>>

\* Mutant of selectionFor: the first environment stands in for one that is gone.
selectionForFirst(caps) ==
    LET m == IF Eligible(caps, form.mode) # {} THEN form.mode
             ELSE IF Eligible(caps, "encrypt") # {} THEN "encrypt"
             ELSE IF Eligible(caps, "decrypt") # {} THEN "decrypt"
             ELSE IF Eligible(caps, "rotate") # {} THEN "rotate" ELSE "encrypt"
        e == IF form.profile \in Eligible(caps, m) THEN form.profile ELSE First(Eligible(caps, m))
        to == Destinations(caps, e)
    IN [form EXCEPT !.mode = m, !.profile = e,
                    !.dest = IF @ \in to THEN @ ELSE First(to)]

\* The selection under new capabilities: another mode if this one is gone;
\* an environment that is gone is replaced only the first time and while
\* nothing is typed, otherwise the selection is empty.
selectionFor(caps) ==
    LET m == IF Eligible(caps, form.mode) # {} THEN form.mode
             ELSE IF Eligible(caps, "encrypt") # {} THEN "encrypt"
             ELSE IF Eligible(caps, "decrypt") # {} THEN "decrypt"
             ELSE IF Eligible(caps, "rotate") # {} THEN "rotate" ELSE "encrypt"
        initial(S) == IF snap.first /\ form.value = 0 THEN First(S) ELSE 0
        eligible == Eligible(caps, m)
        e == IF form.profile \in eligible THEN form.profile ELSE initial(eligible)
        to == Destinations(caps, e)
    IN [form EXCEPT !.mode = m, !.profile = e,
                    !.dest = IF @ \in to THEN @ ELSE initial(to)]

\* Both discoveries end here: new capabilities (the Generate form drops an
\* environment that is gone), a failure, or the way to the login.  A
\* generation that waited for the refresh is over.
discovered(c, role, caps, outcome) ==
    /\ calls' = [calls EXCEPT ![c] = NoCall]
    /\ cur' = [r \in Roles |-> IF cur[r] = c THEN 0 ELSE cur[r]]
    /\ \/ /\ outcome = "ok"
          /\ form' = selectionFor(caps)
          /\ snap' = [caps |-> caps, valid |-> TRUE, loading |-> FALSE, failed |-> snap.failed,
                      recovering |-> FALSE, first |-> FALSE]
          /\ LET gone == gen.profile # 0 /\ gen.profile \notin Eligible(caps, "encrypt")
             IN gen' = [gen EXCEPT !.profile = IF gone THEN 0 ELSE @,
                                   !.result = IF gone THEN None ELSE @,
                                   !.busy = cur["generate"] \notin {0, c}]
          /\ UNCHANGED auth
       \/ /\ outcome \in {"failed", "unauthorized"}
          /\ snap' = [snap EXCEPT !.loading = FALSE,
                                  !.failed = @ \/ outcome = "failed",
                                  !.recovering = @ /\ ~(role = "refresh" /\ outcome = "unauthorized")]
          /\ auth' = [auth EXCEPT !.leaving = @ \/ outcome = "unauthorized"]
          /\ gen' = [gen EXCEPT !.busy = cur["generate"] \notin {0, c}]
          /\ UNCHANGED form
    /\ UNCHANGED <<view, shown, ver, copied, busy>>

Authority(c) == Current(c) /\ ~calls[c].aborted /\ ~auth.signingOut

\* the session is there: on to the profiles, unless a login is needed
sessionArrives(c, session) ==
    /\ calls[c].role = "load" /\ calls[c].what = "session" /\ Authority(c)
    /\ auth' = [auth EXCEPT !.session = session, !.leaving = @ \/ session = "none"]
    /\ IF session = "none"
       THEN /\ snap' = [snap EXCEPT !.loading = FALSE]
            /\ calls' = [calls EXCEPT ![c] = NoCall]
            /\ cur' = [cur EXCEPT !["load"] = 0]
       ELSE /\ calls' = [calls EXCEPT ![c].what = "profiles"]
            /\ UNCHANGED <<snap, cur>>
    /\ UNCHANGED <<view, form, shown, ver, copied, busy, gen>>

profilesArrive(c, caps) ==
    /\ \/ calls[c].role = "load" /\ calls[c].what = "profiles"
       \/ calls[c].role = "refresh"
    /\ Authority(c)
    /\ discovered(c, calls[c].role, caps, "ok")

discoveryFails(c, outcome) ==
    /\ calls[c].role \in {"load", "refresh"} /\ Authority(c)
    /\ discovered(c, calls[c].role, snap.caps, outcome)

\* Mutant of refreshCapabilitiesAfterForbidden: it does not count as loading.
refreshCapabilitiesUnmarked(c) ==
    /\ calls' = [Aborted(calls, {cur["refresh"]}) EXCEPT
                    ![c] = [role |-> "refresh", aborted |-> FALSE, what |-> None]]
    /\ snap' = [snap EXCEPT !.valid = FALSE, !.failed = FALSE, !.recovering = TRUE]

\* After a 403 the capabilities are fetched anew: the call goes on as that.
refreshCapabilitiesAfterForbidden(c) ==
    /\ calls' = [Aborted(calls, {cur["refresh"]}) EXCEPT
                    ![c] = [role |-> "refresh", aborted |-> FALSE, what |-> None]]
    /\ snap' = [snap EXCEPT !.valid = FALSE, !.loading = TRUE, !.failed = FALSE,
                            !.recovering = TRUE]

\* an operation or a verification comes back; it was aborted, or it did
\* succeed, fail, or meet an ended session
operationSettles(c, outcome) ==
    /\ calls[c].role \in {"operation", "verify"} /\ Current(c)
    /\ busy' = FALSE
    /\ calls' = [calls EXCEPT ![c] = NoCall]
    /\ cur' = [cur EXCEPT ![calls[c].role] = 0]
    /\ LET done == outcome = "ok" /\ ~calls[c].aborted
           op == calls[c].role = "operation"
       IN shown' = [shown EXCEPT
                       !.out = IF done /\ op THEN calls[c].what[1] ELSE @,
                       !.att = IF done /\ op /\ calls[c].what[2] THEN calls[c].what[1] ELSE @,
                       !.verdict = IF done /\ ~op THEN calls[c].what ELSE @]
    /\ auth' = [auth EXCEPT !.leaving = @ \/ (outcome = "unauthorized" /\ ~calls[c].aborted)]
    /\ UNCHANGED <<view, form, ver, copied, snap, gen>>

operationForbidden(c) ==
    /\ calls[c].role = "operation" /\ Current(c) /\ ~calls[c].aborted
    /\ busy' = FALSE
    /\ refreshCapabilitiesAfterForbidden(c)
    /\ cur' = [cur EXCEPT !["operation"] = 0, !["refresh"] = c]
    /\ UNCHANGED <<view, form, shown, ver, copied, auth, gen>>

generateSettles(c, outcome) ==
    /\ calls[c].role = "generate" /\ Current(c)
    /\ calls' = [calls EXCEPT ![c] = NoCall]
    /\ cur' = [cur EXCEPT !["generate"] = 0]
    /\ gen' = [gen EXCEPT !.busy = FALSE,
                          !.result = IF outcome = "ok" /\ ~calls[c].aborted
                                     THEN calls[c].what ELSE @]
    /\ auth' = [auth EXCEPT !.leaving = @ \/ (outcome = "unauthorized" /\ ~calls[c].aborted)]
    /\ UNCHANGED <<view, form, shown, ver, copied, snap, busy>>

\* the workbench stays busy until the refresh is over
generateForbidden(c) ==
    /\ calls[c].role = "generate" /\ Current(c) /\ ~calls[c].aborted
    /\ refreshCapabilitiesAfterForbidden(c)
    /\ cur' = [cur EXCEPT !["refresh"] = c]
    /\ UNCHANGED <<view, form, shown, ver, copied, auth, busy, gen>>

logoutSettles(c, confirmed) ==
    /\ calls[c].role = "logout" /\ Current(c)
    /\ calls' = [calls EXCEPT ![c] = NoCall]
    /\ cur' = [cur EXCEPT !["logout"] = 0]
    /\ IF confirmed
       THEN /\ auth' = [auth EXCEPT !.session = "none", !.signingOut = FALSE, !.signedOut = TRUE]
            /\ snap' = [snap EXCEPT !.caps = NoSnapshot, !.valid = FALSE, !.failed = FALSE,
                                    !.recovering = FALSE]
       ELSE /\ auth' = [auth EXCEPT !.signingOut = FALSE, !.logoutFailed = TRUE]
            /\ UNCHANGED snap
    /\ UNCHANGED <<view, form, shown, ver, copied, busy, gen>>

copySettles(c, ok) ==
    /\ calls[c].role \in Copies /\ Current(c)
    /\ calls' = [calls EXCEPT ![c] = NoCall]
    /\ cur' = [cur EXCEPT ![calls[c].role] = 0]
    /\ copied' = [copied EXCEPT ![calls[c].role] = IF ok THEN calls[c].what ELSE None]
    /\ UNCHANGED <<view, form, shown, ver, snap, auth, busy, gen>>

-----------------------------------------------------------------------------
User ==
    \/ \E m \in Modes : changeMode(m)
    \/ changeVerifyMode
    \/ changeGenerateMode
    \/ \E v \in Texts \cup {0} : changeValue(v) \/ editVerification(v)
    \/ \E e \in Environments : changeProfile(e) \/ changeDestinationProfile(e)
    \/ changeIssueAttestation
    \/ toggleRevealed
    \/ useResultAsInput
    \/ verifyAttestedResult
    \/ cancelOperation
    \/ clearAll
    \/ \E e \in Environments, g \in 0..1 : changeGenerateForm(e, g)
    \/ cancelGeneration
    \/ \E c \in Calls : \/ submit(c) \/ retryProfiles(c) \/ handleLogout(c) \/ submitGenerate(c)
                        \/ \E k \in user.copies : copy(k, c)

Settles(c) ==
    \/ timeout(c)
    \/ late(c)
    \/ \E session \in {"none", "plain", "proof"} : sessionArrives(c, session)
    \/ \E caps \in Snapshots : profilesArrive(c, caps)
    \/ \E outcome \in {"failed", "unauthorized"} : discoveryFails(c, outcome)
    \/ \E outcome \in {"ok", "failed", "unauthorized"} :
          operationSettles(c, outcome) \/ generateSettles(c, outcome)
    \/ operationForbidden(c)
    \/ generateForbidden(c)
    \/ \E b \in BOOLEAN : logoutSettles(c, b) \/ copySettles(c, b)

Next ==
    /\ UNCHANGED user
    /\ User \/ \E c \in Calls : Settles(c)

Spec == Init /\ [][Next]_vars

-----------------------------------------------------------------------------
(* Properties.                                                             *)

(* What is on the screen belongs together: a result answers exactly the    *)
(* mode, the environments and the text beside it, an attestation the       *)
(* result beside it, a verdict the fields above it, generated material its *)
(* form, "Copied" the text that was copied; whatever was edited, refreshed *)
(* or came late.                                                           *)
ShownBelongsTogether ==
    /\ view = "operation" /\ shown.out # None => shown.out = Request
    /\ view = "operation" /\ shown.att # None => shown.att = shown.out
    /\ shown.verdict # None => view = "verify" /\ shown.verdict = ver
    /\ view = "generate" /\ gen.result # None => gen.result = <<gen.profile, gen.setting>>
    /\ \A k \in Copies : copied[k] # None =>
          copied[k] = (IF k = "result" THEN shown.out ELSE shown.att)

(* What comes in while the user looks on never acts on its own: new        *)
(* capabilities do not aim what was typed at another environment (a        *)
(* selection that is gone becomes empty), and a decrypted value is in      *)
(* clear only after the user revealed it (a new result comes hidden, and   *)
(* no refresh turns the view into one that shows it).                      *)
NoSilentChange ==
    [][ /\ snap' # snap /\ form.value # 0 /\ form'.value = form.value =>
             form'.profile \in {form.profile, 0} /\ form'.dest \in {form.dest, 0}
        /\ shown'.out # None /\ shown'.out # shown.out => ~shown'.revealed
        /\ view' = "operation" /\ shown'.out # None /\ shown'.out.mode = "decrypt"
             => form'.mode = "decrypt" ]_vars

(* From the moment sign-out begins nothing typed or received is left, and  *)
(* nothing under way brings any of it back before the user types again.    *)
SignedOutIsBlank ==
    auth.signingOut \/ auth.signedOut =>
        /\ form.value = 0 /\ shown = Blank /\ ver = 0
        /\ copied = NoFeedback /\ gen = NoGenerate

(* One discovery at a time decides what may be selected, so an older       *)
(* answer never replaces a newer one.                                      *)
OneDiscovery == cur["load"] = 0 \/ cur["refresh"] = 0

(* A workbench without capabilities is loading them, on its way to the     *)
(* login, or offers to load them, unless a sign-out has failed.            *)
NoDeadEnd ==
    ~Ready => \/ snap.loading \/ auth.leaving \/ auth.signingOut \/ auth.signedOut
              \/ auth.logoutFailed \/ CanRetry \/ busy

(* No progress is shown for ever: loading, an operation, a generation and  *)
(* a sign-out each wait for a call that is under way, and every call ends   *)
(* by its timer at the latest, whatever is cancelled, aborted or overtaken. *)
ProgressHasCall ==
    LET awaited(roles) == \E r \in roles : cur[r] # 0 /\ ~Free(cur[r])
    IN  /\ snap.loading => awaited({"load", "refresh"})
        /\ busy => awaited({"operation", "verify"})
        /\ gen.busy => awaited({"generate"})
        /\ auth.signingOut => awaited({"logout"})

(* The workbench is never stuck: its discoveries do not overtake each      *)
(* other, what it waits for is under way, and it can go on without.        *)
NeverStuck == OneDiscovery /\ NoDeadEnd /\ ProgressHasCall
=============================================================================
