--------------------------- MODULE WebClientProofs ---------------------------
(***************************************************************************)
(* Proofs about WebClient, for any environments, capabilities, texts and   *)
(* number of calls under way: what is on the screen belongs together, a    *)
(* sign-out leaves nothing behind, nothing changes silently, and the       *)
(* workbench is never stuck.                                               *)
(*                                                                         *)
(* Each property is about what a call that comes back may meet.  So the    *)
(* invariant says of every role what the client looks like while a call is *)
(* awaited in it: which view is open, which fields are locked, and that    *)
(* the call still speaks of what they hold.                                *)
(***************************************************************************)
EXTENDS WebClient, TLAPS

-----------------------------------------------------------------------------
(* The inductive invariant.                                                *)

FormOK(x) == x = [mode |-> x.mode, profile |-> x.profile, dest |-> x.dest,
                  value |-> x.value, issue |-> x.issue]
ShownOK(x) == x = [out |-> x.out, att |-> x.att, revealed |-> x.revealed,
                   verdict |-> x.verdict]
SnapOK(x) ==
    /\ x = [caps |-> x.caps, valid |-> x.valid, loading |-> x.loading,
            failed |-> x.failed, recovering |-> x.recovering, first |-> x.first]
    /\ {x.valid, x.loading, x.failed, x.recovering} \subseteq BOOLEAN
AuthOK(x) ==
    /\ x = [session |-> x.session, signingOut |-> x.signingOut,
            signedOut |-> x.signedOut, logoutFailed |-> x.logoutFailed,
            leaving |-> x.leaving]
    /\ {x.signingOut, x.signedOut, x.logoutFailed, x.leaving} \subseteq BOOLEAN
GenOK(x) ==
    /\ x = [profile |-> x.profile, setting |-> x.setting, result |-> x.result,
            busy |-> x.busy]
    /\ x.busy \in BOOLEAN
CallOK(x) ==
    /\ x = [role |-> x.role, aborted |-> x.aborted, what |-> x.what]
    /\ x.role \in Roles \cup {"none"}
    /\ x.aborted \in BOOLEAN
CallsOK(cs) == DOMAIN cs = Calls /\ \A c \in Calls : CallOK(cs[c])

\* the records have their fields
Shapes ==
    /\ user \in Users
    /\ FormOK(form) /\ ShownOK(shown) /\ SnapOK(snap) /\ AuthOK(auth) /\ GenOK(gen)
    /\ busy \in BOOLEAN
    /\ DOMAIN copied = Copies
    /\ cur \in [Roles -> Calls \cup {0}]
    /\ CallsOK(calls)

\* A call that is awaited is under way in its role; a generation that was
\* forbidden goes on as the refresh it waits for.
Awaited ==
    \A r \in Roles : cur[r] # 0 =>
        \/ calls[cur[r]].role = r
        \/ r = "generate" /\ calls[cur[r]].role = "refresh" /\ cur["refresh"] = cur[r]

\* At most one discovery runs, exactly while the client is loading, and
\* when none does there are capabilities or a reason that there are none.
Discovery ==
    /\ snap.loading <=> cur["load"] # 0 \/ cur["refresh"] # 0
    /\ OneDiscovery
    /\ snap.loading => ~snap.failed
    /\ \/ Ready \/ snap.loading \/ snap.failed
       \/ auth.leaving \/ auth.signingOut \/ auth.signedOut \/ auth.logoutFailed

\* While an operation is awaited its form is locked and nothing is shown;
\* while a verification is awaited its fields are locked.
Operating ==
    /\ busy <=> cur["operation"] # 0 \/ cur["verify"] # 0
    /\ cur["operation"] # 0 =>
          /\ view = "operation" /\ Ready /\ shown = Blank
          /\ calls[cur["operation"]].what[1] = Request
          /\ copied = NoFeedback
          /\ \A k \in Copies : cur[k] = 0
    /\ cur["verify"] # 0 =>
          /\ view = "verify"
          /\ calls[cur["verify"]].what = ver

\* While a generation is awaited its form is locked, and it is awaited only
\* in its own view.
Generating ==
    /\ gen.busy <=> cur["generate"] # 0
    /\ view # "generate" => gen = NoGenerate
    /\ cur["generate"] # 0 /\ calls[cur["generate"]].role = "generate" =>
          /\ Ready
          /\ calls[cur["generate"]].what = <<gen.profile, gen.setting>>
    /\ gen.result # None => gen.result = <<gen.profile, gen.setting>>

Text(k) == IF k = "result" THEN shown.out ELSE shown.att

\* A result is on the screen only while the capabilities stand, so that none
\* that arrive can change the form beside it.
Showing ==
    /\ ~Ready /\ view # "generate" => shown.out = None
    /\ view = "operation" /\ shown.out # None => shown.out = Request
    /\ shown.att # None => shown.att = shown.out
    /\ shown.verdict # None => view = "verify" /\ shown.verdict = ver
    /\ \A k \in Copies :
          /\ copied[k] # None => copied[k] = Text(k)
          /\ cur[k] # 0 => calls[cur[k]].what = Text(k)

\* From the start of a sign-out on nothing else is awaited.
SigningOut ==
    /\ auth.signingOut <=> cur["logout"] # 0
    /\ auth.signedOut => auth.session = "none"
    /\ auth.signingOut \/ auth.signedOut =>
          /\ view = "operation"
          /\ \A r \in Roles \ {"logout"} : cur[r] = 0
    /\ SignedOutIsBlank

Inv == Shapes /\ Awaited /\ Discovery /\ Operating /\ Generating /\ Showing /\ SigningOut

-----------------------------------------------------------------------------
(* Operators on the calls under way.                                       *)

\* ds are the calls cs, of which some may have been aborted
SameCalls(cs, ds) ==
    /\ CallsOK(ds)
    /\ \A c \in Calls : ds[c].role = cs[c].role /\ ds[c].what = cs[c].what

\* ds are the calls cs with x in the place of c
Replaced(cs, ds, c, x) ==
    /\ CallsOK(ds)
    /\ ds[c] = x
    /\ \A d \in Calls \ {c} : ds[d].role = cs[d].role /\ ds[d].what = cs[d].what

LEMMA AbortedCalls ==
    ASSUME NEW cs, CallsOK(cs), NEW ids
    PROVE  SameCalls(cs, Aborted(cs, ids))
<1> DEFINE ds == Aborted(cs, ids)
<1>1. DOMAIN ds = Calls
  BY DEF Aborted
<1>2. ASSUME NEW c \in Calls
      PROVE  CallOK(ds[c]) /\ ds[c].role = cs[c].role /\ ds[c].what = cs[c].what
  <2>1. CallOK(cs[c])
    BY DEF CallsOK
  <2>2. ds[c] = IF c \in ids THEN [cs[c] EXCEPT !.aborted = TRUE] ELSE cs[c]
    BY DEF Aborted
  <2>3. CASE c \in ids
    BY <2>1, <2>2, <2>3 DEF CallOK
  <2>4. CASE c \notin ids
    BY <2>1, <2>2, <2>4
  <2> QED
    BY <2>3, <2>4
<1> QED
  BY <1>1, <1>2 DEF SameCalls, CallsOK

LEMMA ReplacedCalls ==
    ASSUME NEW cs, CallsOK(cs), NEW c \in Calls, NEW x, CallOK(x)
    PROVE  Replaced(cs, [cs EXCEPT ![c] = x], c, x)
  BY DEF CallsOK, Replaced

\* the call awaited in role r is what it was
StillAwaited(r) ==
    cur[r] # 0 => /\ cur[r] \in Calls
                  /\ calls'[cur[r]].role = calls[cur[r]].role
                  /\ calls'[cur[r]].what = calls[cur[r]].what

\* Calls that are only aborted are awaited as before ...
LEMMA AbortedAwaited ==
    ASSUME Inv, NEW ids, calls' = Aborted(calls, ids)
    PROVE  CallsOK(calls') /\ \A r \in Roles : StillAwaited(r)
<1>1. SameCalls(calls, calls')
  BY AbortedCalls DEF Inv, Shapes
<1>2. \A r \in Roles : cur[r] \in Calls \cup {0}
  BY DEF Inv, Shapes
<1> QED
  BY <1>1, <1>2 DEF SameCalls, StillAwaited

\* ... and so are the others when a call is settled or goes on in another role,
\* or all of them when a new one begins.
LEMMA ReplacedKept ==
    ASSUME Inv, NEW c \in Calls, NEW x, Replaced(calls, calls', c, x)
    PROVE  /\ CallsOK(calls') /\ calls'[c] = x
           /\ \A r \in Roles : cur[r] # c => StillAwaited(r)
           /\ Free(c) => \A r \in Roles : cur[r] # c
<1>1. \A r \in Roles : cur[r] \in Calls \cup {0}
  BY DEF Inv, Shapes
<1>2. Free(c) => \A r \in Roles : cur[r] # c
  <2>1. "none" \notin Roles
    BY DEF Roles, Copies
  <2> QED
    BY <2>1, WebClientAssumption DEF Free, NoCall, Inv, Awaited
<1> QED
  BY <1>1, <1>2 DEF Replaced, StillAwaited

LEMMA ReplacedAwaited ==
    ASSUME Inv, NEW c \in Calls, NEW x, CallOK(x), calls' = [calls EXCEPT ![c] = x]
    PROVE  /\ CallsOK(calls') /\ calls'[c] = x
           /\ \A r \in Roles : cur[r] # c => StillAwaited(r)
           /\ Free(c) => \A r \in Roles : cur[r] # c
<1>1. CallsOK(calls)
  BY DEF Inv, Shapes
<1>2. Replaced(calls, calls', c, x)
  BY <1>1, ReplacedCalls
<1> QED
  BY <1>2, ReplacedKept

LEMMA AbortedReplacedAwaited ==
    ASSUME Inv, NEW c \in Calls, NEW x, CallOK(x), NEW ids,
           calls' = [Aborted(calls, ids) EXCEPT ![c] = x]
    PROVE  /\ CallsOK(calls') /\ calls'[c] = x
           /\ \A r \in Roles : cur[r] # c => StillAwaited(r)
           /\ Free(c) => \A r \in Roles : cur[r] # c
<1>1. SameCalls(calls, Aborted(calls, ids))
  BY AbortedCalls DEF Inv, Shapes
<1>2. Replaced(Aborted(calls, ids), calls', c, x)
  BY <1>1, ReplacedCalls DEF SameCalls
<1>3. Replaced(calls, calls', c, x)
  BY <1>1, <1>2 DEF SameCalls, Replaced
<1> QED
  BY <1>3, ReplacedKept

LEMMA NoCallOK == CallOK(NoCall)
  BY DEF CallOK, NoCall

-----------------------------------------------------------------------------
(* What the user does.                                                     *)

LEMMA changeValueKeeps ==
    ASSUME Inv, NEW v, changeValue(v), UNCHANGED user
    PROVE  Inv'
<1>1. Shapes'
  BY DEF Inv, changeValue, invalidateOutput, Dropped, Shapes, FormOK, ShownOK,
     Blank, NoFeedback, Copies
<1>2. Awaited'
  BY WebClientAssumption DEF Inv, changeValue, invalidateOutput, Dropped, Shapes,
     Awaited, Roles, Copies
<1>3. Discovery'
  BY WebClientAssumption DEF Inv, changeValue, invalidateOutput, Dropped, Shapes,
     SnapOK, AuthOK, Discovery, OneDiscovery, Ready, Roles, Copies
<1>4. Operating'
  BY WebClientAssumption DEF Inv, changeValue, invalidateOutput, Dropped, Shapes,
     FormOK, ShownOK, SnapOK, Awaited, Discovery, OneDiscovery, Operating, Ready,
     Locked, Request, NoFeedback, Blank, Roles, Copies
<1>5. Generating'
  BY WebClientAssumption DEF Inv, changeValue, invalidateOutput, Dropped, Shapes,
     SnapOK, GenOK, Awaited, Discovery, OneDiscovery, Operating, Generating, Ready,
     Locked, NoGenerate, Roles, Copies
<1>6. Showing'
  BY WebClientAssumption DEF Inv, changeValue, invalidateOutput, Dropped, Shapes,
     FormOK, ShownOK, SnapOK, Awaited, Discovery, OneDiscovery, Operating,
     Generating, Showing, SigningOut, Ready, Locked, Text, Request, NoFeedback,
     Blank, Roles, Copies
<1>7. SigningOut'
  BY WebClientAssumption DEF Inv, changeValue, invalidateOutput, Dropped, Shapes,
     FormOK, ShownOK, AuthOK, GenOK, Operating, Generating, SigningOut,
     SignedOutIsBlank, Locked, NoGenerate, NoFeedback, Blank, Roles, Copies
<1> QED
  BY <1>1, <1>2, <1>3, <1>4, <1>5, <1>6, <1>7 DEF Inv

LEMMA changeProfileKeeps ==
    ASSUME Inv, NEW e, changeProfile(e), UNCHANGED user
    PROVE  Inv'
<1>1. Shapes'
  BY DEF Inv, changeProfile, invalidateOutput, Dropped, Shapes, FormOK, ShownOK,
     Blank, NoFeedback, Copies
<1>2. Awaited'
  BY WebClientAssumption DEF Inv, changeProfile, invalidateOutput, Dropped, Shapes,
     Awaited, Roles, Copies
<1>3. Discovery'
  BY WebClientAssumption DEF Inv, changeProfile, invalidateOutput, Dropped, Shapes,
     SnapOK, AuthOK, Discovery, OneDiscovery, Ready, Roles, Copies
<1>4. Operating'
  BY WebClientAssumption DEF Inv, changeProfile, invalidateOutput, Dropped, Shapes,
     FormOK, ShownOK, SnapOK, Awaited, Discovery, OneDiscovery, Operating, Ready,
     Locked, Request, NoFeedback, Blank, Roles, Copies
<1>5. Generating'
  BY WebClientAssumption DEF Inv, changeProfile, invalidateOutput, Dropped, Shapes,
     SnapOK, GenOK, Awaited, Discovery, OneDiscovery, Operating, Generating, Ready,
     Locked, NoGenerate, Roles, Copies
<1>6. Showing'
  BY WebClientAssumption DEF Inv, changeProfile, invalidateOutput, Dropped, Shapes,
     FormOK, ShownOK, SnapOK, Awaited, Discovery, OneDiscovery, Operating,
     Generating, Showing, SigningOut, Ready, Locked, Text, Request, NoFeedback,
     Blank, Roles, Copies
<1>7. SigningOut'
  BY WebClientAssumption DEF Inv, changeProfile, invalidateOutput, Dropped, Shapes,
     FormOK, ShownOK, AuthOK, GenOK, Operating, Generating, SigningOut,
     SignedOutIsBlank, Locked, NoGenerate, NoFeedback, Blank, Roles, Copies
<1> QED
  BY <1>1, <1>2, <1>3, <1>4, <1>5, <1>6, <1>7 DEF Inv

LEMMA changeDestinationProfileKeeps ==
    ASSUME Inv, NEW e, changeDestinationProfile(e), UNCHANGED user
    PROVE  Inv'
<1>1. Shapes'
  BY DEF Inv, changeDestinationProfile, invalidateOutput, Dropped, Shapes, FormOK,
     ShownOK, Blank, NoFeedback, Copies
<1>2. Awaited'
  BY WebClientAssumption DEF Inv, changeDestinationProfile, invalidateOutput,
     Dropped, Shapes, Awaited, Roles, Copies
<1>3. Discovery'
  BY WebClientAssumption DEF Inv, changeDestinationProfile, invalidateOutput,
     Dropped, Shapes, SnapOK, AuthOK, Discovery, OneDiscovery, Ready, Roles, Copies
<1>4. Operating'
  BY WebClientAssumption DEF Inv, changeDestinationProfile, invalidateOutput,
     Dropped, Shapes, FormOK, ShownOK, SnapOK, Awaited, Discovery, OneDiscovery,
     Operating, Ready, Locked, Request, NoFeedback, Blank, Roles, Copies
<1>5. Generating'
  BY WebClientAssumption DEF Inv, changeDestinationProfile, invalidateOutput,
     Dropped, Shapes, SnapOK, GenOK, Awaited, Discovery, OneDiscovery, Operating,
     Generating, Ready, Locked, NoGenerate, Roles, Copies
<1>6. Showing'
  BY WebClientAssumption DEF Inv, changeDestinationProfile, invalidateOutput,
     Dropped, Shapes, FormOK, ShownOK, SnapOK, Awaited, Discovery, OneDiscovery,
     Operating, Generating, Showing, SigningOut, Ready, Locked, Text, Request,
     NoFeedback, Blank, Roles, Copies
<1>7. SigningOut'
  BY WebClientAssumption DEF Inv, changeDestinationProfile, invalidateOutput,
     Dropped, Shapes, FormOK, ShownOK, AuthOK, GenOK, Operating, Generating,
     SigningOut, SignedOutIsBlank, Locked, NoGenerate, NoFeedback, Blank, Roles,
     Copies
<1> QED
  BY <1>1, <1>2, <1>3, <1>4, <1>5, <1>6, <1>7 DEF Inv

LEMMA changeIssueAttestationKeeps ==
    ASSUME Inv, changeIssueAttestation, UNCHANGED user
    PROVE  Inv'
<1>1. Shapes'
  BY DEF Inv, changeIssueAttestation, Dropped, Shapes, FormOK, ShownOK, Copies
<1>2. Awaited'
  BY WebClientAssumption DEF Inv, changeIssueAttestation, Dropped, Shapes, Awaited,
     Roles, Copies
<1>3. Discovery'
  BY WebClientAssumption DEF Inv, changeIssueAttestation, Dropped, Shapes, SnapOK,
     AuthOK, Discovery, OneDiscovery, Ready, Roles, Copies
<1>4. Operating'
  BY WebClientAssumption DEF Inv, changeIssueAttestation, Dropped, Shapes, FormOK,
     ShownOK, SnapOK, Awaited, Discovery, OneDiscovery, Operating, Ready, Locked,
     Request, NoFeedback, Blank, Roles, Copies
<1>5. Generating'
  BY WebClientAssumption DEF Inv, changeIssueAttestation, Dropped, Shapes, SnapOK,
     GenOK, Awaited, Discovery, OneDiscovery, Operating, Generating, Ready, Locked,
     NoGenerate, Roles, Copies
<1>6. Showing'
  BY WebClientAssumption DEF Inv, changeIssueAttestation, Dropped, Shapes, FormOK,
     ShownOK, SnapOK, Awaited, Discovery, OneDiscovery, Operating, Generating,
     Showing, SigningOut, Ready, Locked, Text, Request, NoFeedback, Blank, Roles,
     Copies
<1>7. SigningOut'
  BY WebClientAssumption DEF Inv, changeIssueAttestation, Dropped, Shapes, FormOK,
     ShownOK, AuthOK, GenOK, Operating, Generating, SigningOut, SignedOutIsBlank,
     Locked, NoGenerate, NoFeedback, Blank, Roles, Copies
<1> QED
  BY <1>1, <1>2, <1>3, <1>4, <1>5, <1>6, <1>7 DEF Inv

LEMMA toggleRevealedKeeps ==
    ASSUME Inv, toggleRevealed, UNCHANGED user
    PROVE  Inv'
<1>1. Shapes'
  BY DEF Inv, toggleRevealed, Shapes, ShownOK, Copies
<1>2. Awaited'
  BY WebClientAssumption DEF Inv, toggleRevealed, Shapes, Awaited, Roles, Copies
<1>3. Discovery'
  BY WebClientAssumption DEF Inv, toggleRevealed, Shapes, SnapOK, AuthOK, Discovery,
     OneDiscovery, Ready, Roles, Copies
<1>4. Operating'
  BY WebClientAssumption DEF Inv, toggleRevealed, Shapes, FormOK, ShownOK, SnapOK,
     Awaited, Discovery, OneDiscovery, Operating, Ready, Locked, Request,
     NoFeedback, Blank, Roles, Copies
<1>5. Generating'
  BY WebClientAssumption DEF Inv, toggleRevealed, Shapes, SnapOK, GenOK, Awaited,
     Discovery, OneDiscovery, Operating, Generating, Ready, Locked, NoGenerate,
     Roles, Copies
<1>6. Showing'
  BY WebClientAssumption DEF Inv, toggleRevealed, Shapes, FormOK, ShownOK, SnapOK,
     Awaited, Discovery, OneDiscovery, Operating, Generating, Showing, SigningOut,
     Ready, Locked, Text, Request, NoFeedback, Blank, Roles, Copies
<1>7. SigningOut'
  BY WebClientAssumption DEF Inv, toggleRevealed, Shapes, FormOK, ShownOK, AuthOK,
     GenOK, Operating, Generating, SigningOut, SignedOutIsBlank, Locked, NoGenerate,
     NoFeedback, Blank, Roles, Copies
<1> QED
  BY <1>1, <1>2, <1>3, <1>4, <1>5, <1>6, <1>7 DEF Inv

LEMMA useResultAsInputKeeps ==
    ASSUME Inv, useResultAsInput, UNCHANGED user
    PROVE  Inv'
<1>1. Shapes'
  BY DEF Inv, useResultAsInput, invalidateOutput, Dropped, Shapes, FormOK, ShownOK,
     Blank, NoFeedback, Copies
<1>2. Awaited'
  BY WebClientAssumption DEF Inv, useResultAsInput, invalidateOutput, Dropped,
     Shapes, Awaited, Roles, Copies
<1>3. Discovery'
  BY WebClientAssumption DEF Inv, useResultAsInput, invalidateOutput, Dropped,
     Shapes, SnapOK, AuthOK, Discovery, OneDiscovery, Ready, Roles, Copies
<1>4. Operating'
  BY WebClientAssumption DEF Inv, useResultAsInput, invalidateOutput, Dropped,
     Shapes, FormOK, ShownOK, SnapOK, Awaited, Discovery, OneDiscovery, Operating,
     Ready, Locked, Request, NoFeedback, Blank, Roles, Copies
<1>5. Generating'
  BY WebClientAssumption DEF Inv, useResultAsInput, invalidateOutput, Dropped,
     Shapes, SnapOK, GenOK, Awaited, Discovery, OneDiscovery, Operating, Generating,
     Ready, Locked, NoGenerate, Roles, Copies
<1>6. Showing'
  BY WebClientAssumption DEF Inv, useResultAsInput, invalidateOutput, Dropped,
     Shapes, FormOK, ShownOK, SnapOK, Awaited, Discovery, OneDiscovery, Operating,
     Generating, Showing, SigningOut, Ready, Locked, Text, Request, NoFeedback,
     Blank, Roles, Copies
<1>7. SigningOut'
  BY WebClientAssumption DEF Inv, useResultAsInput, invalidateOutput, Dropped,
     Shapes, FormOK, ShownOK, AuthOK, GenOK, Operating, Generating, SigningOut,
     SignedOutIsBlank, Locked, NoGenerate, NoFeedback, Blank, Roles, Copies
<1> QED
  BY <1>1, <1>2, <1>3, <1>4, <1>5, <1>6, <1>7 DEF Inv

LEMMA verifyAttestedResultKeeps ==
    ASSUME Inv, verifyAttestedResult, UNCHANGED user
    PROVE  Inv'
<1>1. Shapes'
  BY DEF Inv, verifyAttestedResult, Shapes, ShownOK
<1>2. Awaited'
  BY WebClientAssumption DEF Inv, verifyAttestedResult, Shapes, Awaited, Roles,
     Copies
<1>3. Discovery'
  BY WebClientAssumption DEF Inv, verifyAttestedResult, Shapes, SnapOK, AuthOK,
     Discovery, OneDiscovery, Ready, Roles, Copies
<1>4. Operating'
  BY WebClientAssumption DEF Inv, verifyAttestedResult, Shapes, FormOK, ShownOK,
     SnapOK, Awaited, Discovery, OneDiscovery, Operating, Ready, Locked, Request,
     NoFeedback, Blank, Roles, Copies
<1>5. Generating'
  BY WebClientAssumption DEF Inv, verifyAttestedResult, Shapes, SnapOK, GenOK,
     Awaited, Discovery, OneDiscovery, Operating, Generating, Ready, Locked,
     NoGenerate, Roles, Copies
<1>6. Showing'
  BY WebClientAssumption DEF Inv, verifyAttestedResult, Shapes, FormOK, ShownOK,
     SnapOK, Awaited, Discovery, OneDiscovery, Operating, Generating, Showing,
     SigningOut, Ready, Locked, Text, Request, NoFeedback, Blank, Roles, Copies
<1>7. SigningOut'
  BY WebClientAssumption DEF Inv, verifyAttestedResult, Shapes, FormOK, ShownOK,
     AuthOK, GenOK, Operating, Generating, SigningOut, SignedOutIsBlank, Locked,
     NoGenerate, NoFeedback, Blank, Roles, Copies
<1> QED
  BY <1>1, <1>2, <1>3, <1>4, <1>5, <1>6, <1>7 DEF Inv

LEMMA editVerificationKeeps ==
    ASSUME Inv, NEW v, editVerification(v), UNCHANGED user
    PROVE  Inv'
<1>1. Shapes'
  BY DEF Inv, editVerification, Shapes, ShownOK
<1>2. Awaited'
  BY WebClientAssumption DEF Inv, editVerification, Shapes, Awaited, Roles, Copies
<1>3. Discovery'
  BY WebClientAssumption DEF Inv, editVerification, Shapes, SnapOK, AuthOK,
     Discovery, OneDiscovery, Ready, Roles, Copies
<1>4. Operating'
  BY WebClientAssumption DEF Inv, editVerification, Shapes, FormOK, ShownOK, SnapOK,
     Awaited, Discovery, OneDiscovery, Operating, Ready, Locked, Request,
     NoFeedback, Blank, Roles, Copies
<1>5. Generating'
  BY WebClientAssumption DEF Inv, editVerification, Shapes, SnapOK, GenOK, Awaited,
     Discovery, OneDiscovery, Operating, Generating, Ready, Locked, NoGenerate,
     Roles, Copies
<1>6. Showing'
  BY WebClientAssumption DEF Inv, editVerification, Shapes, FormOK, ShownOK, SnapOK,
     Awaited, Discovery, OneDiscovery, Operating, Generating, Showing, SigningOut,
     Ready, Locked, Text, Request, NoFeedback, Blank, Roles, Copies
<1>7. SigningOut'
  BY WebClientAssumption DEF Inv, editVerification, Shapes, FormOK, ShownOK, AuthOK,
     GenOK, Operating, Generating, SigningOut, SignedOutIsBlank, Locked, NoGenerate,
     NoFeedback, Blank, Roles, Copies
<1> QED
  BY <1>1, <1>2, <1>3, <1>4, <1>5, <1>6, <1>7 DEF Inv

LEMMA clearAllKeeps ==
    ASSUME Inv, clearAll, UNCHANGED user
    PROVE  Inv'
<1>1. Shapes'
  BY DEF Inv, clearAll, invalidateOutput, Dropped, Shapes, FormOK, ShownOK, Blank,
     NoFeedback, Copies
<1>2. Awaited'
  BY WebClientAssumption DEF Inv, clearAll, invalidateOutput, Dropped, Shapes,
     Awaited, Roles, Copies
<1>3. Discovery'
  BY WebClientAssumption DEF Inv, clearAll, invalidateOutput, Dropped, Shapes,
     SnapOK, AuthOK, Discovery, OneDiscovery, Ready, Roles, Copies
<1>4. Operating'
  BY WebClientAssumption DEF Inv, clearAll, invalidateOutput, Dropped, Shapes,
     FormOK, ShownOK, SnapOK, Awaited, Discovery, OneDiscovery, Operating, Ready,
     Locked, Request, NoFeedback, Blank, Roles, Copies
<1>5. Generating'
  BY WebClientAssumption DEF Inv, clearAll, invalidateOutput, Dropped, Shapes,
     SnapOK, GenOK, Awaited, Discovery, OneDiscovery, Operating, Generating, Ready,
     Locked, NoGenerate, Roles, Copies
<1>6. Showing'
  BY WebClientAssumption DEF Inv, clearAll, invalidateOutput, Dropped, Shapes,
     FormOK, ShownOK, SnapOK, Awaited, Discovery, OneDiscovery, Operating,
     Generating, Showing, SigningOut, Ready, Locked, Text, Request, NoFeedback,
     Blank, Roles, Copies
<1>7. SigningOut'
  BY WebClientAssumption DEF Inv, clearAll, invalidateOutput, Dropped, Shapes,
     FormOK, ShownOK, AuthOK, GenOK, Operating, Generating, SigningOut,
     SignedOutIsBlank, Locked, NoGenerate, NoFeedback, Blank, Roles, Copies
<1> QED
  BY <1>1, <1>2, <1>3, <1>4, <1>5, <1>6, <1>7 DEF Inv

LEMMA changeGenerateModeKeeps ==
    ASSUME Inv, changeGenerateMode, UNCHANGED user
    PROVE  Inv'
<1>1. Shapes'
  BY DEF Inv, changeGenerateMode, Shapes, ShownOK, GenOK, NoGenerate
<1>2. Awaited'
  BY WebClientAssumption DEF Inv, changeGenerateMode, Shapes, Awaited, Roles, Copies
<1>3. Discovery'
  BY WebClientAssumption DEF Inv, changeGenerateMode, Shapes, SnapOK, AuthOK,
     Discovery, OneDiscovery, Ready, Roles, Copies
<1>4. Operating'
  BY WebClientAssumption DEF Inv, changeGenerateMode, Shapes, FormOK, ShownOK,
     SnapOK, Awaited, Discovery, OneDiscovery, Operating, Ready, Locked, Request,
     NoFeedback, Blank, Roles, Copies
<1>5. Generating'
  BY WebClientAssumption DEF Inv, changeGenerateMode, Shapes, SnapOK, GenOK,
     Awaited, Discovery, OneDiscovery, Operating, Generating, Ready, Locked,
     NoGenerate, Roles, Copies
<1>6. Showing'
  BY WebClientAssumption DEF Inv, changeGenerateMode, Shapes, FormOK, ShownOK,
     SnapOK, Awaited, Discovery, OneDiscovery, Operating, Generating, Showing,
     SigningOut, Ready, Locked, Text, Request, NoFeedback, Blank, Roles, Copies
<1>7. SigningOut'
  BY WebClientAssumption DEF Inv, changeGenerateMode, Shapes, FormOK, ShownOK,
     AuthOK, GenOK, Operating, Generating, SigningOut, SignedOutIsBlank, Locked,
     NoGenerate, NoFeedback, Blank, Roles, Copies
<1> QED
  BY <1>1, <1>2, <1>3, <1>4, <1>5, <1>6, <1>7 DEF Inv

LEMMA changeGenerateFormKeeps ==
    ASSUME Inv, NEW e, NEW g, changeGenerateForm(e, g), UNCHANGED user
    PROVE  Inv'
<1>1. Shapes'
  BY DEF Inv, changeGenerateForm, GenLocked, Shapes, GenOK
<1>2. Awaited'
  BY WebClientAssumption DEF Inv, changeGenerateForm, GenLocked, Shapes, Awaited,
     Roles, Copies
<1>3. Discovery'
  BY WebClientAssumption DEF Inv, changeGenerateForm, GenLocked, Shapes, SnapOK,
     AuthOK, Discovery, OneDiscovery, Ready, Roles, Copies
<1>4. Operating'
  BY WebClientAssumption DEF Inv, changeGenerateForm, GenLocked, Shapes, FormOK,
     ShownOK, SnapOK, Awaited, Discovery, OneDiscovery, Operating, Ready, Locked,
     Request, NoFeedback, Blank, Roles, Copies
<1>5. Generating'
  BY WebClientAssumption DEF Inv, changeGenerateForm, GenLocked, Shapes, SnapOK,
     GenOK, Awaited, Discovery, OneDiscovery, Operating, Generating, Ready, Locked,
     NoGenerate, Roles, Copies
<1>6. Showing'
  BY WebClientAssumption DEF Inv, changeGenerateForm, GenLocked, Shapes, FormOK,
     ShownOK, SnapOK, Awaited, Discovery, OneDiscovery, Operating, Generating,
     Showing, SigningOut, Ready, Locked, Text, Request, NoFeedback, Blank, Roles,
     Copies
<1>7. SigningOut'
  BY WebClientAssumption DEF Inv, changeGenerateForm, GenLocked, Shapes, FormOK,
     ShownOK, AuthOK, GenOK, Operating, Generating, SigningOut, SignedOutIsBlank,
     Locked, NoGenerate, NoFeedback, Blank, Roles, Copies
<1> QED
  BY <1>1, <1>2, <1>3, <1>4, <1>5, <1>6, <1>7 DEF Inv

LEMMA changeModeKeeps ==
    ASSUME Inv, NEW m, changeMode(m), UNCHANGED user
    PROVE  Inv'
<1>0. CallsOK(calls') /\ \A r \in Roles : StillAwaited(r)
  BY AbortedAwaited DEF changeMode, Unmount
<1>t. cur' \in [Roles -> Calls \cup {0}]
  BY DEF Inv, Shapes, changeMode, Dropped
<1>1. Shapes'
  BY <1>0, <1>t DEF Inv, changeMode, Unmount, Shapes, FormOK, ShownOK, GenOK, Blank,
     NoGenerate, NoFeedback
<1>2. Awaited'
  BY <1>0, WebClientAssumption DEF Inv, changeMode, SwitchLocked, Dropped, Unmount,
     Shapes, Awaited, Roles, Copies, StillAwaited
<1>3. Discovery'
  BY <1>0, WebClientAssumption DEF Inv, changeMode, SwitchLocked, Dropped, Unmount,
     Shapes, SnapOK, AuthOK, Discovery, OneDiscovery, Ready, Roles, Copies
<1>4. Operating'
  BY <1>0, WebClientAssumption DEF Inv, changeMode, SwitchLocked, Dropped, Unmount,
     Shapes, FormOK, ShownOK, SnapOK, Awaited, Discovery, OneDiscovery, Operating,
     Ready, Locked, Request, NoFeedback, Blank, Roles, Copies, StillAwaited
<1>5. Generating'
  BY <1>0, WebClientAssumption DEF Inv, changeMode, SwitchLocked, Dropped, Unmount,
     Shapes, SnapOK, GenOK, Awaited, Discovery, OneDiscovery, Operating, Generating,
     Ready, Locked, NoGenerate, Roles, Copies, StillAwaited
<1>6. Showing'
  BY <1>0, WebClientAssumption DEF Inv, changeMode, SwitchLocked, Dropped, Unmount,
     Shapes, FormOK, ShownOK, SnapOK, Awaited, Discovery, OneDiscovery, Operating,
     Generating, Showing, SigningOut, Ready, Locked, Text, Request, NoFeedback,
     Blank, Roles, Copies, StillAwaited
<1>7. SigningOut'
  BY <1>0, WebClientAssumption DEF Inv, changeMode, SwitchLocked, Dropped, Unmount,
     Shapes, FormOK, ShownOK, AuthOK, GenOK, Operating, Generating, SigningOut,
     SignedOutIsBlank, Locked, NoGenerate, NoFeedback, Blank, Roles, Copies
<1> QED
  BY <1>1, <1>2, <1>3, <1>4, <1>5, <1>6, <1>7 DEF Inv

LEMMA changeVerifyModeKeeps ==
    ASSUME Inv, changeVerifyMode, UNCHANGED user
    PROVE  Inv'
<1>0. CallsOK(calls') /\ \A r \in Roles : StillAwaited(r)
  BY AbortedAwaited DEF changeVerifyMode, Unmount
<1>t. cur' \in [Roles -> Calls \cup {0}]
  BY DEF Inv, Shapes, changeVerifyMode, Dropped
<1>1. Shapes'
  BY <1>0, <1>t DEF Inv, changeVerifyMode, Unmount, Shapes, ShownOK, GenOK,
     NoGenerate
<1>2. Awaited'
  BY <1>0, WebClientAssumption DEF Inv, changeVerifyMode, SwitchLocked, Dropped,
     Unmount, Shapes, Awaited, Roles, Copies, StillAwaited
<1>3. Discovery'
  BY <1>0, WebClientAssumption DEF Inv, changeVerifyMode, SwitchLocked, Dropped,
     Unmount, Shapes, SnapOK, AuthOK, Discovery, OneDiscovery, Ready, Roles, Copies
<1>4. Operating'
  BY <1>0, WebClientAssumption DEF Inv, changeVerifyMode, SwitchLocked, Dropped,
     Unmount, Shapes, FormOK, ShownOK, SnapOK, Awaited, Discovery, OneDiscovery,
     Operating, Ready, Locked, Request, NoFeedback, Blank, Roles, Copies,
     StillAwaited
<1>5. Generating'
  BY <1>0, WebClientAssumption DEF Inv, changeVerifyMode, SwitchLocked, Dropped,
     Unmount, Shapes, SnapOK, GenOK, Awaited, Discovery, OneDiscovery, Operating,
     Generating, Ready, Locked, NoGenerate, Roles, Copies, StillAwaited
<1>6. Showing'
  BY <1>0, WebClientAssumption DEF Inv, changeVerifyMode, SwitchLocked, Dropped,
     Unmount, Shapes, FormOK, ShownOK, SnapOK, Awaited, Discovery, OneDiscovery,
     Operating, Generating, Showing, SigningOut, Ready, Locked, Text, Request,
     NoFeedback, Blank, Roles, Copies, StillAwaited
<1>7. SigningOut'
  BY <1>0, WebClientAssumption DEF Inv, changeVerifyMode, SwitchLocked, Dropped,
     Unmount, Shapes, FormOK, ShownOK, AuthOK, GenOK, Operating, Generating,
     SigningOut, SignedOutIsBlank, Locked, NoGenerate, NoFeedback, Blank, Roles,
     Copies
<1> QED
  BY <1>1, <1>2, <1>3, <1>4, <1>5, <1>6, <1>7 DEF Inv

LEMMA cancelOperationKeeps ==
    ASSUME Inv, cancelOperation, UNCHANGED user
    PROVE  Inv'
<1>0. CallsOK(calls') /\ \A r \in Roles : StillAwaited(r)
  BY AbortedAwaited DEF cancelOperation
<1>1. Shapes'
  BY <1>0 DEF Inv, cancelOperation, Shapes
<1>2. Awaited'
  BY <1>0, WebClientAssumption DEF Inv, cancelOperation, Shapes, Awaited, Roles,
     Copies, StillAwaited
<1>3. Discovery'
  BY <1>0, WebClientAssumption DEF Inv, cancelOperation, Shapes, SnapOK, AuthOK,
     Discovery, OneDiscovery, Ready, Roles, Copies
<1>4. Operating'
  BY <1>0, WebClientAssumption DEF Inv, cancelOperation, Shapes, FormOK, ShownOK,
     SnapOK, Awaited, Discovery, OneDiscovery, Operating, Ready, Locked, Request,
     NoFeedback, Blank, Roles, Copies, StillAwaited
<1>5. Generating'
  BY <1>0, WebClientAssumption DEF Inv, cancelOperation, Shapes, SnapOK, GenOK,
     Awaited, Discovery, OneDiscovery, Operating, Generating, Ready, Locked,
     NoGenerate, Roles, Copies, StillAwaited
<1>6. Showing'
  BY <1>0, WebClientAssumption DEF Inv, cancelOperation, Shapes, FormOK, ShownOK,
     SnapOK, Awaited, Discovery, OneDiscovery, Operating, Generating, Showing,
     SigningOut, Ready, Locked, Text, Request, NoFeedback, Blank, Roles, Copies,
     StillAwaited
<1>7. SigningOut'
  BY <1>0, WebClientAssumption DEF Inv, cancelOperation, Shapes, FormOK, ShownOK,
     AuthOK, GenOK, Operating, Generating, SigningOut, SignedOutIsBlank, Locked,
     NoGenerate, NoFeedback, Blank, Roles, Copies
<1> QED
  BY <1>1, <1>2, <1>3, <1>4, <1>5, <1>6, <1>7 DEF Inv

LEMMA cancelGenerationKeeps ==
    ASSUME Inv, cancelGeneration, UNCHANGED user
    PROVE  Inv'
<1>0. CallsOK(calls') /\ \A r \in Roles : StillAwaited(r)
  BY AbortedAwaited DEF cancelGeneration
<1>1. Shapes'
  BY <1>0 DEF Inv, cancelGeneration, Shapes, GenOK
<1>2. Awaited'
  BY <1>0, WebClientAssumption DEF Inv, cancelGeneration, Shapes, Awaited, Roles,
     Copies, StillAwaited
<1>3. Discovery'
  BY <1>0, WebClientAssumption DEF Inv, cancelGeneration, Shapes, SnapOK, AuthOK,
     Discovery, OneDiscovery, Ready, Roles, Copies
<1>4. Operating'
  BY <1>0, WebClientAssumption DEF Inv, cancelGeneration, Shapes, FormOK, ShownOK,
     SnapOK, Awaited, Discovery, OneDiscovery, Operating, Ready, Locked, Request,
     NoFeedback, Blank, Roles, Copies, StillAwaited
<1>5. Generating'
  BY <1>0, WebClientAssumption DEF Inv, cancelGeneration, Shapes, SnapOK, GenOK,
     Awaited, Discovery, OneDiscovery, Operating, Generating, Ready, Locked,
     NoGenerate, Roles, Copies, StillAwaited
<1>6. Showing'
  BY <1>0, WebClientAssumption DEF Inv, cancelGeneration, Shapes, FormOK, ShownOK,
     SnapOK, Awaited, Discovery, OneDiscovery, Operating, Generating, Showing,
     SigningOut, Ready, Locked, Text, Request, NoFeedback, Blank, Roles, Copies,
     StillAwaited
<1>7. SigningOut'
  BY <1>0, WebClientAssumption DEF Inv, cancelGeneration, Shapes, FormOK, ShownOK,
     AuthOK, GenOK, Operating, Generating, SigningOut, SignedOutIsBlank, Locked,
     NoGenerate, NoFeedback, Blank, Roles, Copies
<1> QED
  BY <1>1, <1>2, <1>3, <1>4, <1>5, <1>6, <1>7 DEF Inv

LEMMA retryProfilesKeeps ==
    ASSUME Inv, NEW c \in Calls, retryProfiles(c), UNCHANGED user
    PROVE  Inv'
<1> DEFINE x == [role |-> "load", aborted |-> FALSE, what |-> "session"]
<1>r. CallOK(x)
  BY DEF CallOK, Roles
<1>e. calls' = [Aborted(calls, {cur["load"]}) EXCEPT ![c] = x]
  BY DEF retryProfiles
<1>x. x.role = "load" /\ x.what = "session"
  OBVIOUS
<1> HIDE DEF x
<1>f. Free(c)
  BY DEF retryProfiles
<1>a. CallsOK(calls') /\ calls'[c] = x /\ \A r \in Roles : cur[r] # c /\ StillAwaited(r)
  BY <1>r, <1>e, <1>f, AbortedReplacedAwaited
<1>0. /\ CallsOK(calls') /\ calls'[c].role = "load" /\ calls'[c].what = "session"
      /\ \A r \in Roles : cur[r] # c /\ StillAwaited(r)
  BY <1>a, <1>x
<1>t. cur' \in [Roles -> Calls \cup {0}]
  BY DEF Inv, Shapes, retryProfiles
<1>k. cur'["load"] = c /\ \A r \in Roles \ {"load"} : cur'[r] = cur[r]
  BY DEF Inv, Shapes, retryProfiles, Roles
<1>1. Shapes'
  BY <1>0, <1>t DEF Inv, retryProfiles, CanRetry, Shapes, SnapOK
<1>2. Awaited'
  BY <1>0, <1>k DEF Inv, Awaited, StillAwaited, Roles, Copies
<1>3. Discovery'
  BY <1>0, WebClientAssumption DEF Inv, retryProfiles, CanRetry, Shapes, SnapOK,
     AuthOK, Discovery, OneDiscovery, Ready, Roles, Copies
<1>4. Operating'
  BY <1>0, WebClientAssumption DEF Inv, retryProfiles, CanRetry, Shapes, FormOK,
     ShownOK, SnapOK, Awaited, Discovery, OneDiscovery, Operating, Ready, Locked,
     Request, NoFeedback, Blank, Roles, Copies, StillAwaited
<1>5. Generating'
  BY <1>0, WebClientAssumption DEF Inv, retryProfiles, CanRetry, Shapes, SnapOK,
     GenOK, Awaited, Discovery, OneDiscovery, Operating, Generating, Ready, Locked,
     NoGenerate, Roles, Copies, StillAwaited
<1>6. Showing'
  <2>1. UNCHANGED <<shown, view, form, ver, copied>> /\ ~Ready
    BY DEF retryProfiles, CanRetry, Ready
  <2>2. \A k \in Copies : k \in Roles \ {"load"}
    BY DEF Roles, Copies
  <2> QED
    BY <1>0, <1>k, <2>1, <2>2 DEF Inv, Showing, Text, Request, StillAwaited
<1>7. SigningOut'
  BY <1>0, WebClientAssumption DEF Inv, retryProfiles, CanRetry, Shapes, FormOK,
     ShownOK, AuthOK, GenOK, Operating, Generating, SigningOut, SignedOutIsBlank,
     Locked, NoGenerate, NoFeedback, Blank, Roles, Copies
<1> QED
  BY <1>1, <1>2, <1>3, <1>4, <1>5, <1>6, <1>7 DEF Inv

LEMMA submitGenerateKeeps ==
    ASSUME Inv, NEW c \in Calls, submitGenerate(c), UNCHANGED user
    PROVE  Inv'
<1> DEFINE x == [role |-> "generate", aborted |-> FALSE, what |-> <<gen.profile, gen.setting>>]
<1>r. CallOK(x)
  BY DEF CallOK, Roles
<1>e. calls' = [calls EXCEPT ![c] = x]
  BY DEF submitGenerate, Begin
<1>x. x.role = "generate" /\ x.what = <<gen.profile, gen.setting>>
  OBVIOUS
<1> HIDE DEF x
<1>f. Free(c)
  BY DEF submitGenerate
<1>a. CallsOK(calls') /\ calls'[c] = x /\ \A r \in Roles : cur[r] # c /\ StillAwaited(r)
  BY <1>r, <1>e, <1>f, ReplacedAwaited
<1>0. /\ CallsOK(calls') /\ calls'[c].role = "generate" /\ calls'[c].what = <<gen.profile, gen.setting>>
      /\ \A r \in Roles : cur[r] # c /\ StillAwaited(r)
  BY <1>a, <1>x
<1>t. cur' \in [Roles -> Calls \cup {0}]
  BY DEF Inv, Shapes, submitGenerate
<1>1. Shapes'
  BY <1>0, <1>t DEF Inv, submitGenerate, GenLocked, Shapes, GenOK
<1>2. Awaited'
  BY <1>0, WebClientAssumption DEF Inv, submitGenerate, GenLocked, Shapes, Awaited,
     Roles, Copies, StillAwaited
<1>3. Discovery'
  BY <1>0, WebClientAssumption DEF Inv, submitGenerate, GenLocked, Shapes, SnapOK,
     AuthOK, Discovery, OneDiscovery, Ready, Roles, Copies
<1>4. Operating'
  BY <1>0, WebClientAssumption DEF Inv, submitGenerate, GenLocked, Shapes, FormOK,
     ShownOK, SnapOK, Awaited, Discovery, OneDiscovery, Operating, Ready, Locked,
     Request, NoFeedback, Blank, Roles, Copies, StillAwaited
<1>5. Generating'
  BY <1>0, WebClientAssumption DEF Inv, submitGenerate, GenLocked, Shapes, SnapOK,
     GenOK, Awaited, Discovery, OneDiscovery, Operating, Generating, Ready, Locked,
     NoGenerate, Roles, Copies, StillAwaited
<1>6. Showing'
  BY <1>0, WebClientAssumption DEF Inv, submitGenerate, GenLocked, Shapes, FormOK,
     ShownOK, SnapOK, Awaited, Discovery, OneDiscovery, Operating, Generating,
     Showing, SigningOut, Ready, Locked, Text, Request, NoFeedback, Blank, Roles,
     Copies, StillAwaited
<1>7. SigningOut'
  BY <1>0, WebClientAssumption DEF Inv, submitGenerate, GenLocked, Shapes, FormOK,
     ShownOK, AuthOK, GenOK, Operating, Generating, SigningOut, SignedOutIsBlank,
     Locked, NoGenerate, NoFeedback, Blank, Roles, Copies
<1> QED
  BY <1>1, <1>2, <1>3, <1>4, <1>5, <1>6, <1>7 DEF Inv

LEMMA copyKeeps ==
    ASSUME Inv, NEW k \in Copies, NEW c \in Calls, copy(k, c), UNCHANGED user
    PROVE  Inv'
<1> DEFINE x == [role |-> k, aborted |-> FALSE, what |-> Text(k)]
<1>r. CallOK(x)
  BY DEF CallOK, Roles
<1>e. calls' = [calls EXCEPT ![c] = x]
  BY DEF copy, Begin, Text
<1>x. x.role = k /\ x.what = Text(k)
  OBVIOUS
<1> HIDE DEF x
<1>f. Free(c)
  BY DEF copy
<1>a. CallsOK(calls') /\ calls'[c] = x /\ \A r \in Roles : cur[r] # c /\ StillAwaited(r)
  BY <1>r, <1>e, <1>f, ReplacedAwaited
<1>0. /\ CallsOK(calls') /\ calls'[c].role = k /\ calls'[c].what = Text(k)
      /\ \A r \in Roles : cur[r] # c /\ StillAwaited(r)
  BY <1>a, <1>x
<1>t. cur' \in [Roles -> Calls \cup {0}]
  BY DEF Inv, Shapes, copy
<1>1. Shapes'
  BY <1>0, <1>t DEF Inv, copy, Shapes
<1>2. Awaited'
  BY <1>0, WebClientAssumption DEF Inv, copy, Shapes, Awaited, Roles, Copies,
     StillAwaited
<1>3. Discovery'
  BY <1>0, WebClientAssumption DEF Inv, copy, Shapes, SnapOK, AuthOK, Discovery,
     OneDiscovery, Ready, Roles, Copies
<1>4. Operating'
  BY <1>0, WebClientAssumption DEF Inv, copy, Shapes, FormOK, ShownOK, SnapOK,
     Awaited, Discovery, OneDiscovery, Operating, Ready, Locked, Request,
     NoFeedback, Blank, Roles, Copies, StillAwaited
<1>5. Generating'
  BY <1>0, WebClientAssumption DEF Inv, copy, Shapes, SnapOK, GenOK, Awaited,
     Discovery, OneDiscovery, Operating, Generating, Ready, Locked, NoGenerate,
     Roles, Copies, StillAwaited
<1>6. Showing'
  BY <1>0, WebClientAssumption DEF Inv, copy, Shapes, FormOK, ShownOK, SnapOK,
     Awaited, Discovery, OneDiscovery, Operating, Generating, Showing, SigningOut,
     Ready, Locked, Text, Request, NoFeedback, Blank, Roles, Copies, StillAwaited
<1>7. SigningOut'
  BY <1>0, WebClientAssumption DEF Inv, copy, Shapes, FormOK, ShownOK, AuthOK,
     GenOK, Operating, Generating, SigningOut, SignedOutIsBlank, Locked, NoGenerate,
     NoFeedback, Blank, Roles, Copies
<1> QED
  BY <1>1, <1>2, <1>3, <1>4, <1>5, <1>6, <1>7 DEF Inv

LEMMA handleLogoutKeeps ==
    ASSUME Inv, NEW c \in Calls, handleLogout(c), UNCHANGED user
    PROVE  Inv'
<1> DEFINE x == [role |-> "logout", aborted |-> FALSE, what |-> None]
<1>r. CallOK(x)
  BY DEF CallOK, Roles
<1>e. calls' = [Aborted(calls, {cur[r] : r \in Roles}) EXCEPT ![c] = x]
  BY DEF handleLogout, clearSensitiveStateForSignOut
<1>x. x.role = "logout" /\ x.what = None
  OBVIOUS
<1> HIDE DEF x
<1>f. Free(c)
  BY DEF handleLogout
<1>a. CallsOK(calls') /\ calls'[c] = x /\ \A r \in Roles : cur[r] # c /\ StillAwaited(r)
  BY <1>r, <1>e, <1>f, AbortedReplacedAwaited
<1>0. /\ CallsOK(calls') /\ calls'[c].role = "logout" /\ calls'[c].what = None
      /\ \A r \in Roles : cur[r] # c /\ StillAwaited(r)
  BY <1>a, <1>x
<1>t. cur' \in [Roles -> Calls \cup {0}]
  BY DEF Inv, Shapes, handleLogout, clearSensitiveStateForSignOut
<1>1. Shapes'
  BY <1>0, <1>t DEF Inv, handleLogout, Shapes, FormOK, ShownOK, SnapOK, AuthOK,
     GenOK, Blank, NoGenerate, NoFeedback
<1>2. Awaited'
  BY <1>0, WebClientAssumption DEF Inv, handleLogout, clearSensitiveStateForSignOut,
     NoGenerate, NoFeedback, Shapes, Awaited, Roles, Copies, StillAwaited
<1>3. Discovery'
  BY <1>0, WebClientAssumption DEF Inv, handleLogout, clearSensitiveStateForSignOut,
     NoGenerate, NoFeedback, Shapes, SnapOK, AuthOK, Discovery, OneDiscovery, Ready,
     Roles, Copies
<1>4. Operating'
  BY <1>0, WebClientAssumption DEF Inv, handleLogout, clearSensitiveStateForSignOut,
     NoGenerate, NoFeedback, Shapes, FormOK, ShownOK, SnapOK, Awaited, Discovery,
     OneDiscovery, Operating, Ready, Locked, Request, NoFeedback, Blank, Roles,
     Copies, StillAwaited
<1>5. Generating'
  BY <1>0, WebClientAssumption DEF Inv, handleLogout, clearSensitiveStateForSignOut,
     NoGenerate, NoFeedback, Shapes, SnapOK, GenOK, Awaited, Discovery,
     OneDiscovery, Operating, Generating, Ready, Locked, NoGenerate, Roles, Copies,
     StillAwaited
<1>6. Showing'
  BY <1>0, WebClientAssumption DEF Inv, handleLogout, clearSensitiveStateForSignOut,
     NoGenerate, NoFeedback, Shapes, FormOK, ShownOK, SnapOK, Awaited, Discovery,
     OneDiscovery, Operating, Generating, Showing, SigningOut, Ready, Locked, Text,
     Request, NoFeedback, Blank, Roles, Copies, StillAwaited
<1>7. SigningOut'
  BY <1>0, WebClientAssumption DEF Inv, handleLogout, clearSensitiveStateForSignOut,
     NoGenerate, NoFeedback, Shapes, FormOK, ShownOK, AuthOK, GenOK, Operating,
     Generating, SigningOut, SignedOutIsBlank, Locked, NoGenerate, NoFeedback,
     Blank, Roles, Copies
<1> QED
  BY <1>1, <1>2, <1>3, <1>4, <1>5, <1>6, <1>7 DEF Inv

\* Submitting in the verification view, and in the others.
LEMMA submitKeeps ==
    ASSUME Inv, NEW c \in Calls, submit(c), UNCHANGED user
    PROVE  Inv'
<1>u. /\ UNCHANGED <<view, form, ver, snap, auth, gen, user>> /\ busy' = TRUE /\ Free(c) /\ ~Locked
  BY DEF submit
<1>z. cur["operation"] = 0 /\ cur["verify"] = 0
  BY <1>u DEF Inv, Operating, Locked
<1>1. CASE view = "verify"
  <2>e. /\ calls' = [calls EXCEPT ![c] = [role |-> "verify", aborted |-> FALSE, what |-> ver]]
        /\ cur' = [Dropped(cur, Copies) EXCEPT !["verify"] = c]
        /\ shown' = [shown EXCEPT !.verdict = None]
        /\ copied' = copied
    BY <1>1 DEF submit, Begin
  <2> DEFINE x == [role |-> "verify", aborted |-> FALSE, what |-> ver]
  <2>r. CallOK(x) /\ x.role = "verify" /\ x.what = ver
    BY DEF CallOK, Roles
  <2>x. calls' = [calls EXCEPT ![c] = x]
    BY <2>e
  <2> HIDE DEF x
  <2>0. /\ CallsOK(calls') /\ calls'[c].role = "verify" /\ calls'[c].what = ver
        /\ \A r \in Roles : cur[r] # c /\ StillAwaited(r)
    BY <2>r, <2>x, <1>u, ReplacedAwaited
  <2>t. cur' \in [Roles -> Calls \cup {0}]
    BY <2>e DEF Inv, Shapes, Dropped
  <2>k. /\ cur'["verify"] = c /\ \A k \in Copies : cur'[k] = 0
        /\ \A r \in Roles \ (Copies \cup {"verify"}) : cur'[r] = cur[r]
    BY <2>e DEF Dropped, Roles, Copies
  <2>c. c # 0
    BY WebClientAssumption
  <2>1. Shapes'
    BY <1>u, <2>0, <2>t, <2>e DEF Inv, Shapes, ShownOK
  <2>2. Awaited'
    BY <2>0, <2>k DEF Inv, Awaited, StillAwaited, Roles, Copies
  <2>3. Discovery'
    BY <1>u, <2>k DEF Inv, Discovery, OneDiscovery, Ready, Roles, Copies
  <2>4. Operating'
    BY <1>u, <1>z, <1>1, <2>0, <2>k, <2>c DEF Inv, Operating, Roles, Copies
  <2>5. Generating'
    BY <1>u, <2>0, <2>k DEF Inv, Generating, Ready, StillAwaited, Roles, Copies
  <2>6. Showing'
    BY <1>u, <1>1, <2>0, <2>k, <2>e DEF Inv, Shapes, ShownOK, Showing, Text, Ready,
       Copies
  <2>7. SigningOut'
    BY <1>u, <2>k DEF Inv, SigningOut, SignedOutIsBlank, Locked, Roles, Copies
  <2> QED
    BY <2>1, <2>2, <2>3, <2>4, <2>5, <2>6, <2>7 DEF Inv
<1>2. CASE view # "verify"
  <2>w. view = "operation" /\ Ready
    BY <1>2 DEF submit
  <2> DEFINE what == <<Request, form.mode = "rotate" /\ form.issue>>
  <2>e. /\ calls' = [calls EXCEPT ![c] = [role |-> "operation", aborted |-> FALSE, what |-> what]]
        /\ cur' = [Dropped(cur, Copies) EXCEPT !["operation"] = c]
        /\ shown' = Blank
        /\ copied' = NoFeedback
    BY <1>2 DEF submit, Begin, dispatched
  <2>i. what[1] = Request
    OBVIOUS
  <2> HIDE DEF what
  <2> DEFINE x == [role |-> "operation", aborted |-> FALSE, what |-> what]
  <2>r. CallOK(x) /\ x.role = "operation" /\ x.what = what
    BY DEF CallOK, Roles
  <2>x. calls' = [calls EXCEPT ![c] = x]
    BY <2>e
  <2> HIDE DEF x
  <2>0. /\ CallsOK(calls') /\ calls'[c].role = "operation" /\ calls'[c].what = what
        /\ \A r \in Roles : cur[r] # c /\ StillAwaited(r)
    BY <2>r, <2>x, <1>u, ReplacedAwaited
  <2>t. cur' \in [Roles -> Calls \cup {0}]
    BY <2>e DEF Inv, Shapes, Dropped
  <2>k. /\ cur'["operation"] = c /\ \A k \in Copies : cur'[k] = 0
        /\ \A r \in Roles \ (Copies \cup {"operation"}) : cur'[r] = cur[r]
    BY <2>e DEF Dropped, Roles, Copies
  <2>c. c # 0
    BY WebClientAssumption
  <2>1. Shapes'
    BY <1>u, <2>0, <2>t, <2>e DEF Inv, Shapes, ShownOK, Blank, NoFeedback
  <2>2. Awaited'
    BY <2>0, <2>k DEF Inv, Awaited, StillAwaited, Roles, Copies
  <2>3. Discovery'
    BY <1>u, <2>k DEF Inv, Discovery, OneDiscovery, Ready, Roles, Copies
  <2>4. Operating'
    BY <1>u, <1>z, <2>w, <2>0, <2>i, <2>k, <2>c, <2>e DEF Inv, Operating, Ready,
       Request, Roles, Copies
  <2>5. Generating'
    BY <1>u, <2>0, <2>k DEF Inv, Generating, Ready, StillAwaited, Roles, Copies
  <2>6. Showing'
    BY <2>k, <2>e DEF Showing, Text, Blank, NoFeedback, Copies
  <2>7. SigningOut'
    BY <1>u, <2>k DEF Inv, SigningOut, SignedOutIsBlank, Locked, Roles, Copies
  <2> QED
    BY <2>1, <2>2, <2>3, <2>4, <2>5, <2>6, <2>7 DEF Inv
<1> QED
  BY <1>1, <1>2

-----------------------------------------------------------------------------
(* What comes back.                                                        *)

LEMMA timeoutKeeps ==
    ASSUME Inv, NEW c \in Calls, timeout(c), UNCHANGED user
    PROVE  Inv'
<1>0. CallsOK(calls') /\ \A r \in Roles : StillAwaited(r)
  BY AbortedAwaited DEF timeout
<1>1. Shapes'
  BY <1>0 DEF Inv, timeout, Shapes
<1>2. Awaited'
  BY <1>0, WebClientAssumption DEF Inv, timeout, Shapes, Awaited, Roles, Copies,
     StillAwaited
<1>3. Discovery'
  BY <1>0, WebClientAssumption DEF Inv, timeout, Shapes, SnapOK, AuthOK, Discovery,
     OneDiscovery, Ready, Roles, Copies
<1>4. Operating'
  BY <1>0, WebClientAssumption DEF Inv, timeout, Shapes, FormOK, ShownOK, SnapOK,
     Awaited, Discovery, OneDiscovery, Operating, Ready, Locked, Request,
     NoFeedback, Blank, Roles, Copies, StillAwaited
<1>5. Generating'
  BY <1>0, WebClientAssumption DEF Inv, timeout, Shapes, SnapOK, GenOK, Awaited,
     Discovery, OneDiscovery, Operating, Generating, Ready, Locked, NoGenerate,
     Roles, Copies, StillAwaited
<1>6. Showing'
  BY <1>0, WebClientAssumption DEF Inv, timeout, Shapes, FormOK, ShownOK, SnapOK,
     Awaited, Discovery, OneDiscovery, Operating, Generating, Showing, SigningOut,
     Ready, Locked, Text, Request, NoFeedback, Blank, Roles, Copies, StillAwaited
<1>7. SigningOut'
  BY <1>0, WebClientAssumption DEF Inv, timeout, Shapes, FormOK, ShownOK, AuthOK,
     GenOK, Operating, Generating, SigningOut, SignedOutIsBlank, Locked, NoGenerate,
     NoFeedback, Blank, Roles, Copies
<1> QED
  BY <1>1, <1>2, <1>3, <1>4, <1>5, <1>6, <1>7 DEF Inv

LEMMA lateKeeps ==
    ASSUME Inv, NEW c \in Calls, late(c), UNCHANGED user
    PROVE  Inv'
<1>0. CallsOK(calls') /\ \A r \in Roles : cur[r] # c => StillAwaited(r)
  BY NoCallOK, ReplacedAwaited DEF late
<1>1. Shapes'
  BY <1>0 DEF Inv, late, Current, Shapes
<1>2. Awaited'
  BY <1>0, WebClientAssumption DEF Inv, late, Current, Shapes, Awaited, Roles,
     Copies, StillAwaited
<1>3. Discovery'
  BY <1>0, WebClientAssumption DEF Inv, late, Current, Shapes, SnapOK, AuthOK,
     Discovery, OneDiscovery, Ready, Roles, Copies
<1>4. Operating'
  BY <1>0, WebClientAssumption DEF Inv, late, Current, Shapes, FormOK, ShownOK,
     SnapOK, Awaited, Discovery, OneDiscovery, Operating, Ready, Locked, Request,
     NoFeedback, Blank, Roles, Copies, StillAwaited
<1>5. Generating'
  BY <1>0, WebClientAssumption DEF Inv, late, Current, Shapes, SnapOK, GenOK,
     Awaited, Discovery, OneDiscovery, Operating, Generating, Ready, Locked,
     NoGenerate, Roles, Copies, StillAwaited
<1>6. Showing'
  BY <1>0, WebClientAssumption DEF Inv, late, Current, Shapes, FormOK, ShownOK,
     SnapOK, Awaited, Discovery, OneDiscovery, Operating, Generating, Showing,
     SigningOut, Ready, Locked, Text, Request, NoFeedback, Blank, Roles, Copies,
     StillAwaited
<1>7. SigningOut'
  BY <1>0, WebClientAssumption DEF Inv, late, Current, Shapes, FormOK, ShownOK,
     AuthOK, GenOK, Operating, Generating, SigningOut, SignedOutIsBlank, Locked,
     NoGenerate, NoFeedback, Blank, Roles, Copies
<1> QED
  BY <1>1, <1>2, <1>3, <1>4, <1>5, <1>6, <1>7 DEF Inv

LEMMA operationSettlesKeeps ==
    ASSUME Inv, NEW c \in Calls, NEW outcome, operationSettles(c, outcome), UNCHANGED user
    PROVE  Inv'
<1>0. CallsOK(calls') /\ \A r \in Roles : cur[r] # c => StillAwaited(r)
  BY NoCallOK, ReplacedAwaited DEF operationSettles
<1>t. cur' \in [Roles -> Calls \cup {0}]
  BY DEF Inv, Shapes, operationSettles
<1>1. Shapes'
  BY <1>0, <1>t DEF Inv, operationSettles, Shapes, ShownOK, AuthOK
<1>2. Awaited'
  BY <1>0, WebClientAssumption DEF Inv, operationSettles, Current, Shapes, Awaited,
     Roles, Copies, StillAwaited
<1>3. Discovery'
  BY <1>0, WebClientAssumption DEF Inv, operationSettles, Current, Shapes, SnapOK,
     AuthOK, Discovery, OneDiscovery, Ready, Roles, Copies
<1>4. Operating'
  BY <1>0, WebClientAssumption DEF Inv, operationSettles, Current, Shapes, FormOK,
     ShownOK, SnapOK, Awaited, Discovery, OneDiscovery, Operating, Ready, Locked,
     Request, NoFeedback, Blank, Roles, Copies, StillAwaited
<1>5. Generating'
  BY <1>0, WebClientAssumption DEF Inv, operationSettles, Current, Shapes, SnapOK,
     GenOK, Awaited, Discovery, OneDiscovery, Operating, Generating, Ready, Locked,
     NoGenerate, Roles, Copies, StillAwaited
<1>6. Showing'
  BY <1>0, WebClientAssumption DEF Inv, operationSettles, Current, Shapes, FormOK,
     ShownOK, SnapOK, Awaited, Discovery, OneDiscovery, Operating, Generating,
     Showing, SigningOut, Ready, Locked, Text, Request, NoFeedback, Blank, Roles,
     Copies, StillAwaited
<1>7. SigningOut'
  BY <1>0, WebClientAssumption DEF Inv, operationSettles, Current, Shapes, FormOK,
     ShownOK, AuthOK, GenOK, Operating, Generating, SigningOut, SignedOutIsBlank,
     Locked, NoGenerate, NoFeedback, Blank, Roles, Copies
<1> QED
  BY <1>1, <1>2, <1>3, <1>4, <1>5, <1>6, <1>7 DEF Inv

LEMMA generateSettlesKeeps ==
    ASSUME Inv, NEW c \in Calls, NEW outcome, generateSettles(c, outcome), UNCHANGED user
    PROVE  Inv'
<1>0. CallsOK(calls') /\ \A r \in Roles : cur[r] # c => StillAwaited(r)
  BY NoCallOK, ReplacedAwaited DEF generateSettles
<1>t. cur' \in [Roles -> Calls \cup {0}]
  BY DEF Inv, Shapes, generateSettles
<1>1. Shapes'
  BY <1>0, <1>t DEF Inv, generateSettles, Shapes, GenOK, AuthOK
<1>2. Awaited'
  BY <1>0, WebClientAssumption DEF Inv, generateSettles, Current, Shapes, Awaited,
     Roles, Copies, StillAwaited
<1>3. Discovery'
  BY <1>0, WebClientAssumption DEF Inv, generateSettles, Current, Shapes, SnapOK,
     AuthOK, Discovery, OneDiscovery, Ready, Roles, Copies
<1>4. Operating'
  BY <1>0, WebClientAssumption DEF Inv, generateSettles, Current, Shapes, FormOK,
     ShownOK, SnapOK, Awaited, Discovery, OneDiscovery, Operating, Ready, Locked,
     Request, NoFeedback, Blank, Roles, Copies, StillAwaited
<1>5. Generating'
  BY <1>0, WebClientAssumption DEF Inv, generateSettles, Current, Shapes, SnapOK,
     GenOK, Awaited, Discovery, OneDiscovery, Operating, Generating, Ready, Locked,
     NoGenerate, Roles, Copies, StillAwaited
<1>6. Showing'
  BY <1>0, WebClientAssumption DEF Inv, generateSettles, Current, Shapes, FormOK,
     ShownOK, SnapOK, Awaited, Discovery, OneDiscovery, Operating, Generating,
     Showing, SigningOut, Ready, Locked, Text, Request, NoFeedback, Blank, Roles,
     Copies, StillAwaited
<1>7. SigningOut'
  BY <1>0, WebClientAssumption DEF Inv, generateSettles, Current, Shapes, FormOK,
     ShownOK, AuthOK, GenOK, Operating, Generating, SigningOut, SignedOutIsBlank,
     Locked, NoGenerate, NoFeedback, Blank, Roles, Copies
<1> QED
  BY <1>1, <1>2, <1>3, <1>4, <1>5, <1>6, <1>7 DEF Inv

LEMMA logoutSettlesKeeps ==
    ASSUME Inv, NEW c \in Calls, NEW b \in BOOLEAN, logoutSettles(c, b), UNCHANGED user
    PROVE  Inv'
<1>0. CallsOK(calls') /\ \A r \in Roles : cur[r] # c => StillAwaited(r)
  BY NoCallOK, ReplacedAwaited DEF logoutSettles
<1>t. cur' \in [Roles -> Calls \cup {0}]
  BY DEF Inv, Shapes, logoutSettles
<1>w. auth.signingOut /\ cur["logout"] = c /\ view = "operation" /\ ~busy
      /\ (\A r \in Roles \ {"logout"} : cur[r] = 0) /\ c # 0
  BY WebClientAssumption DEF Inv, Shapes, SigningOut, Operating, Roles,
     logoutSettles, Current
<1>k. \A r \in Roles : cur'[r] = 0
  BY <1>w DEF Inv, Shapes, logoutSettles
<1>u. UNCHANGED <<view, form, shown, ver, copied, busy, gen>>
  BY DEF logoutSettles
<1>s. SnapOK(snap') /\ snap'.loading = snap.loading /\ (snap' = snap \/ b)
  BY DEF Inv, Shapes, SnapOK, logoutSettles
<1>v. /\ AuthOK(auth') /\ auth'.signingOut = FALSE
      /\ auth'.signedOut => auth'.session = "none"
      /\ b => auth'.signedOut
      /\ ~b => auth'.logoutFailed
  BY DEF Inv, Shapes, AuthOK, SigningOut, logoutSettles
<1>1. Shapes'
  BY <1>0, <1>t, <1>u, <1>s, <1>v DEF Inv, Shapes
<1>2. Awaited'
  BY <1>w, <1>k, <1>u DEF Inv, Awaited
<1>3. Discovery'
  <2>1. snap'.loading = FALSE
    BY <1>w, <1>s DEF Inv, Shapes, SnapOK, Discovery, Roles
  <2> QED
    BY <1>k, <1>v, <2>1 DEF Discovery, OneDiscovery, Roles
<1>4. Operating'
  BY <1>w, <1>k, <1>u DEF Inv, Operating, Roles
<1>5. Generating'
  BY <1>w, <1>k, <1>u DEF Inv, Generating, Roles
<1>6. Showing'
  BY <1>w, <1>k, <1>u DEF Inv, Showing, SigningOut, SignedOutIsBlank, Blank,
     NoFeedback, Text, Roles, Copies
<1>7. SigningOut'
  BY <1>w, <1>k, <1>u, <1>v DEF Inv, SigningOut, SignedOutIsBlank, Roles
<1> QED
  BY <1>1, <1>2, <1>3, <1>4, <1>5, <1>6, <1>7 DEF Inv

LEMMA copySettlesKeeps ==
    ASSUME Inv, NEW c \in Calls, NEW b \in BOOLEAN, copySettles(c, b), UNCHANGED user
    PROVE  Inv'
<1>0. CallsOK(calls') /\ \A r \in Roles : cur[r] # c => StillAwaited(r)
  BY NoCallOK, ReplacedAwaited DEF copySettles
<1>t. cur' \in [Roles -> Calls \cup {0}]
  BY DEF Inv, Shapes, copySettles
<1>1. Shapes'
  BY <1>0, <1>t DEF Inv, copySettles, Shapes
<1>2. Awaited'
  BY <1>0, WebClientAssumption DEF Inv, copySettles, Current, Shapes, Awaited,
     Roles, Copies, StillAwaited
<1>3. Discovery'
  BY <1>0, WebClientAssumption DEF Inv, copySettles, Current, Shapes, SnapOK,
     AuthOK, Discovery, OneDiscovery, Ready, Roles, Copies
<1>4. Operating'
  BY <1>0, WebClientAssumption DEF Inv, copySettles, Current, Shapes, FormOK,
     ShownOK, SnapOK, Awaited, Discovery, OneDiscovery, Operating, Ready, Locked,
     Request, NoFeedback, Blank, Roles, Copies, StillAwaited
<1>5. Generating'
  BY <1>0, WebClientAssumption DEF Inv, copySettles, Current, Shapes, SnapOK, GenOK,
     Awaited, Discovery, OneDiscovery, Operating, Generating, Ready, Locked,
     NoGenerate, Roles, Copies, StillAwaited
<1>6. Showing'
  BY <1>0, WebClientAssumption DEF Inv, copySettles, Current, Shapes, FormOK,
     ShownOK, SnapOK, Awaited, Discovery, OneDiscovery, Operating, Generating,
     Showing, SigningOut, Ready, Locked, Text, Request, NoFeedback, Blank, Roles,
     Copies, StillAwaited
<1>7. SigningOut'
  BY <1>0, WebClientAssumption DEF Inv, copySettles, Current, Shapes, FormOK,
     ShownOK, AuthOK, GenOK, Operating, Generating, SigningOut, SignedOutIsBlank,
     Locked, NoGenerate, NoFeedback, Blank, Roles, Copies
<1> QED
  BY <1>1, <1>2, <1>3, <1>4, <1>5, <1>6, <1>7 DEF Inv

LEMMA operationForbiddenKeeps ==
    ASSUME Inv, NEW c \in Calls, operationForbidden(c), UNCHANGED user
    PROVE  Inv'
<1> DEFINE x == [role |-> "refresh", aborted |-> FALSE, what |-> None]
<1>r. CallOK(x)
  BY DEF CallOK, Roles
<1>e. calls' = [Aborted(calls, {cur["refresh"]}) EXCEPT ![c] = x]
  BY DEF operationForbidden, refreshCapabilitiesAfterForbidden
<1>x. x.role = "refresh" /\ x.what = None
  OBVIOUS
<1> HIDE DEF x
<1>a. CallsOK(calls') /\ calls'[c] = x /\ \A r \in Roles : cur[r] # c => StillAwaited(r)
  BY <1>r, <1>e, AbortedReplacedAwaited
<1>0. /\ CallsOK(calls') /\ calls'[c].role = "refresh" /\ calls'[c].what = None
      /\ \A r \in Roles : cur[r] # c => StillAwaited(r)
  BY <1>a, <1>x
<1>t. cur' \in [Roles -> Calls \cup {0}]
  BY DEF Inv, Shapes, operationForbidden
<1>w. /\ cur["operation"] = c /\ view = "operation" /\ Ready /\ shown = Blank
      /\ cur["load"] = 0 /\ cur["refresh"] = 0 /\ cur["generate"] = 0 /\ cur["verify"] = 0
      /\ c # 0
  BY WebClientAssumption DEF Inv, Operating, Discovery, Generating, Ready,
     NoGenerate,
     operationForbidden, Current
<1>k. /\ cur'["operation"] = 0 /\ cur'["refresh"] = c
      /\ \A r \in Roles \ {"operation", "refresh"} : cur'[r] = cur[r]
  BY DEF Inv, Shapes, operationForbidden, Roles
<1>o. \A r \in Roles \ {"operation"} : cur[r] # c
  BY <1>w DEF Inv, Awaited, operationForbidden
<1>1. Shapes'
  BY <1>0, <1>t DEF Inv, operationForbidden, refreshCapabilitiesAfterForbidden,
     Shapes, SnapOK
<1>2. Awaited'
  BY <1>0, <1>w, <1>k, <1>o DEF Inv, Awaited, StillAwaited
<1>3. Discovery'
  BY <1>0, <1>w, <1>k, <1>o DEF Inv, operationForbidden,
     refreshCapabilitiesAfterForbidden, Shapes, SnapOK, Discovery, OneDiscovery,
     Ready, Roles
<1>4. Operating'
  BY <1>0, WebClientAssumption DEF Inv, operationForbidden,
     refreshCapabilitiesAfterForbidden, Current, Shapes, FormOK, ShownOK, SnapOK,
     Awaited, Discovery, OneDiscovery, Operating, Ready, Locked, Request,
     NoFeedback, Blank, Roles, Copies, StillAwaited
<1>5. Generating'
  BY <1>0, WebClientAssumption DEF Inv, operationForbidden,
     refreshCapabilitiesAfterForbidden, Current, Shapes, SnapOK, GenOK, Awaited,
     Discovery, OneDiscovery, Operating, Generating, Ready, Locked, NoGenerate,
     Roles, Copies, StillAwaited
<1>6. Showing'
  BY <1>0, WebClientAssumption DEF Inv, operationForbidden,
     refreshCapabilitiesAfterForbidden, Current, Shapes, FormOK, ShownOK, SnapOK,
     Awaited, Discovery, OneDiscovery, Operating, Generating, Showing, SigningOut,
     Ready, Locked, Text, Request, NoFeedback, Blank, Roles, Copies, StillAwaited
<1>7. SigningOut'
  BY <1>0, WebClientAssumption DEF Inv, operationForbidden,
     refreshCapabilitiesAfterForbidden, Current, Shapes, FormOK, ShownOK, AuthOK,
     GenOK, Operating, Generating, SigningOut, SignedOutIsBlank, Locked, NoGenerate,
     NoFeedback, Blank, Roles, Copies
<1> QED
  BY <1>1, <1>2, <1>3, <1>4, <1>5, <1>6, <1>7 DEF Inv

LEMMA generateForbiddenKeeps ==
    ASSUME Inv, NEW c \in Calls, generateForbidden(c), UNCHANGED user
    PROVE  Inv'
<1> DEFINE x == [role |-> "refresh", aborted |-> FALSE, what |-> None]
<1>r. CallOK(x)
  BY DEF CallOK, Roles
<1>e. calls' = [Aborted(calls, {cur["refresh"]}) EXCEPT ![c] = x]
  BY DEF generateForbidden, refreshCapabilitiesAfterForbidden
<1>x. x.role = "refresh" /\ x.what = None
  OBVIOUS
<1> HIDE DEF x
<1>a. CallsOK(calls') /\ calls'[c] = x /\ \A r \in Roles : cur[r] # c => StillAwaited(r)
  BY <1>r, <1>e, AbortedReplacedAwaited
<1>0. /\ CallsOK(calls') /\ calls'[c].role = "refresh" /\ calls'[c].what = None
      /\ \A r \in Roles : cur[r] # c => StillAwaited(r)
  BY <1>a, <1>x
<1>t. cur' \in [Roles -> Calls \cup {0}]
  BY DEF Inv, Shapes, generateForbidden
<1>w. /\ cur["generate"] = c /\ view = "generate" /\ Ready
      /\ cur["load"] = 0 /\ cur["refresh"] = 0 /\ cur["operation"] = 0 /\ cur["verify"] = 0
      /\ c # 0
  BY WebClientAssumption DEF Inv, Operating, Discovery, Generating, Ready,
     NoGenerate,
     generateForbidden, Current
<1>k. /\ cur'["refresh"] = c /\ \A r \in Roles \ {"refresh"} : cur'[r] = cur[r]
  BY DEF Inv, Shapes, generateForbidden, Roles
<1>u. UNCHANGED <<view, form, shown, ver, copied, auth, busy, gen>>
  BY DEF generateForbidden
<1>o. \A r \in Roles \ {"generate"} : cur[r] # c
  BY <1>w DEF Inv, Awaited, generateForbidden
<1>1. Shapes'
  BY <1>0, <1>t DEF Inv, generateForbidden, refreshCapabilitiesAfterForbidden,
     Shapes, SnapOK
<1>2. Awaited'
  BY <1>0, <1>w, <1>k, <1>u, <1>o DEF Inv, Awaited, StillAwaited
<1>3. Discovery'
  BY <1>0, <1>w, <1>k, <1>u, <1>o DEF Inv, Shapes, SnapOK, Discovery, OneDiscovery,
     Ready, Roles, generateForbidden, refreshCapabilitiesAfterForbidden
<1>4. Operating'
  BY <1>0, <1>w, <1>k, <1>u, <1>o DEF Inv, Operating, Roles
<1>5. Generating'
  BY <1>0, <1>w, <1>k, <1>u, <1>o DEF Inv, Generating, Roles
<1>6. Showing'
  BY <1>0, <1>w, <1>k, <1>u, <1>o DEF Inv, Showing, StillAwaited, Text, Request,
     Roles, Copies
<1>7. SigningOut'
  BY <1>0, WebClientAssumption DEF Inv, generateForbidden,
     refreshCapabilitiesAfterForbidden, Current, Shapes, FormOK, ShownOK, AuthOK,
     GenOK, Operating, Generating, SigningOut, SignedOutIsBlank, Locked, NoGenerate,
     NoFeedback, Blank, Roles, Copies
<1> QED
  BY <1>1, <1>2, <1>3, <1>4, <1>5, <1>6, <1>7 DEF Inv

\* A discovery that is awaited ends alone: no operation is, and a generation
\* only if it waits for this discovery.
LEMMA DiscoveryAlone ==
    ASSUME Inv, NEW c \in Calls, Authority(c), calls[c].role \in {"load", "refresh"}
    PROVE  /\ c # 0 /\ snap.loading /\ ~snap.failed /\ ~auth.signingOut /\ ~auth.signedOut
           /\ \A r \in {"load", "refresh"} : cur[r] \in {0, c}
           /\ cur[calls[c].role] = c
           /\ cur["operation"] = 0
           /\ cur["generate"] \in {0, c}
           /\ \A r \in Roles \ {"load", "refresh", "generate"} : cur[r] # c
           /\ view # "generate" => shown.out = None
<1>1. cur[calls[c].role] = c /\ c # 0 /\ ~auth.signingOut
  BY WebClientAssumption DEF Authority, Current
<1>2. snap.loading /\ ~snap.failed /\ \A r \in {"load", "refresh"} : cur[r] \in {0, c}
  BY <1>1 DEF Inv, Discovery, OneDiscovery
<1>3. ~auth.signedOut
  BY <1>1 DEF Inv, SigningOut, Roles
<1>4. ~Ready
  BY <1>2 DEF Ready
<1>5. cur["operation"] = 0
  BY <1>4 DEF Inv, Operating
<1>6. view # "generate" => shown.out = None
  BY <1>4 DEF Inv, Showing
<1>7. \A r \in Roles \ {"load", "refresh", "generate"} : cur[r] # c
  BY <1>1 DEF Inv, Awaited
<1>8. cur["generate"] \in {0, c}
  <2>1. CASE cur["generate"] = 0
    BY <2>1
  <2>2. CASE cur["generate"] # 0
    <3>1. calls[cur["generate"]].role = "refresh" /\ cur["refresh"] = cur["generate"]
      BY <1>4, <2>2 DEF Inv, Awaited, Generating, Roles
    <3> QED
      BY <1>2, <2>2, <3>1
  <2> QED
    BY <2>1, <2>2
<1> QED
  BY <1>1, <1>2, <1>3, <1>5, <1>6, <1>7, <1>8

LEMMA discoveredKeeps ==
    ASSUME Inv, NEW c \in Calls, Authority(c), calls[c].role \in {"load", "refresh"},
           NEW caps, NEW outcome, discovered(c, calls[c].role, caps, outcome), UNCHANGED user
    PROVE  Inv'
<1>w. /\ c # 0 /\ snap.loading /\ ~snap.failed /\ ~auth.signingOut /\ ~auth.signedOut
      /\ \A r \in {"load", "refresh"} : cur[r] \in {0, c}
      /\ cur["operation"] = 0
      /\ cur["generate"] \in {0, c}
      /\ \A r \in Roles \ {"load", "refresh", "generate"} : cur[r] # c
      /\ view # "generate" => shown.out = None
  BY DiscoveryAlone
<1>e. /\ calls' = [calls EXCEPT ![c] = NoCall]
      /\ cur' = [r \in Roles |-> IF cur[r] = c THEN 0 ELSE cur[r]]
      /\ UNCHANGED <<view, shown, ver, copied, busy, user>>
  BY DEF discovered
<1>0. /\ CallsOK(calls') /\ \A r \in Roles : cur[r] # c => StillAwaited(r)
  BY <1>e, NoCallOK, ReplacedAwaited
<1>t. cur' \in [Roles -> Calls \cup {0}]
  BY <1>e DEF Inv, Shapes
<1>k. /\ cur'["load"] = 0 /\ cur'["refresh"] = 0 /\ cur'["generate"] = 0
      /\ cur'["operation"] = 0
      /\ \A r \in Roles \ {"load", "refresh", "generate"} : cur'[r] = cur[r]
  BY <1>w, <1>e DEF Roles
<1>g. /\ GenOK(gen') /\ gen'.busy = FALSE
      /\ gen = NoGenerate => gen' = NoGenerate
      /\ gen'.result # None => /\ gen'.result = gen.result
                              /\ gen'.profile = gen.profile /\ gen'.setting = gen.setting
  <2>1. gen = [profile |-> gen.profile, setting |-> gen.setting, result |-> gen.result,
               busy |-> gen.busy]
    BY DEF Inv, Shapes, GenOK
  <2>2. (cur["generate"] \notin {0, c}) = FALSE
    BY <1>w
  <2>3. CASE outcome = "ok"
    <3> DEFINE gone == gen.profile # 0 /\ gen.profile \notin Eligible(caps, "encrypt")
    <3>1. gen' = [gen EXCEPT !.profile = IF gone THEN 0 ELSE @,
                             !.result = IF gone THEN None ELSE @,
                             !.busy = FALSE]
      BY <2>2, <2>3 DEF discovered
    <3>2. gen' = [profile |-> IF gone THEN 0 ELSE gen.profile, setting |-> gen.setting,
                  result |-> IF gone THEN None ELSE gen.result, busy |-> FALSE]
      BY <2>1, <3>1
    <3>3. gen = NoGenerate => ~gone
      BY DEF NoGenerate
    <3> HIDE DEF gone
    <3>4. gen = NoGenerate => gen' = NoGenerate
      BY <3>2, <3>3 DEF NoGenerate
    <3>5. gen'.profile = (IF gone THEN 0 ELSE gen.profile) /\ gen'.setting = gen.setting
          /\ gen'.result = (IF gone THEN None ELSE gen.result) /\ gen'.busy = FALSE
      BY <3>2
    <3> QED
      BY <3>2, <3>4, <3>5 DEF GenOK
  <2>4. CASE outcome # "ok"
    <3>1. gen' = [gen EXCEPT !.busy = FALSE]
      BY <2>2, <2>4 DEF discovered
    <3>2. gen' = [profile |-> gen.profile, setting |-> gen.setting, result |-> gen.result,
                  busy |-> FALSE]
      BY <2>1, <3>1
    <3>3. gen = NoGenerate => gen' = NoGenerate
      BY <3>2 DEF NoGenerate
    <3>4. /\ gen'.profile = gen.profile /\ gen'.setting = gen.setting
          /\ gen'.result = gen.result /\ gen'.busy = FALSE
      BY <3>2
    <3> QED
      BY <3>2, <3>3, <3>4 DEF GenOK
  <2> QED
    BY <2>3, <2>4
<1>f. /\ FormOK(form') /\ form'.value = form.value
  BY DEF Inv, Shapes, FormOK, discovered, selectionFor
<1>s. /\ SnapOK(snap')
      /\ snap'.loading = FALSE
      /\ Ready' \/ snap'.failed \/ auth'.leaving
  <2>1. CASE outcome = "ok"
    <3>1. snap' = [caps |-> caps, valid |-> TRUE, loading |-> FALSE, failed |-> snap.failed,
                   recovering |-> FALSE, first |-> FALSE]
      BY <2>1 DEF discovered
    <3>2. snap.failed = FALSE
      BY <1>w DEF Inv, Shapes, SnapOK
    <3> QED
      BY <3>1, <3>2 DEF SnapOK, Ready
  <2>2. CASE outcome \in {"failed", "unauthorized"}
    <3>1. /\ snap' = [snap EXCEPT !.loading = FALSE, !.failed = @ \/ outcome = "failed",
                       !.recovering = @ /\ ~(calls[c].role = "refresh" /\ outcome = "unauthorized")]
          /\ auth' = [auth EXCEPT !.leaving = @ \/ outcome = "unauthorized"]
      BY <2>2 DEF discovered
    <3>2. SnapOK(snap') /\ snap'.loading = FALSE /\ (outcome = "failed" => snap'.failed)
      BY <3>1 DEF Inv, Shapes, SnapOK
    <3>3. outcome = "unauthorized" => auth'.leaving
      BY <3>1 DEF Inv, Shapes, AuthOK
    <3> QED
      BY <2>2, <3>2, <3>3
  <2> QED
    BY <2>1, <2>2 DEF discovered
<1>a. /\ AuthOK(auth')
      /\ auth'.session = auth.session /\ auth'.signingOut = auth.signingOut
      /\ auth'.signedOut = auth.signedOut /\ auth'.logoutFailed = auth.logoutFailed
  BY DEF Inv, Shapes, AuthOK, discovered
<1>1. Shapes'
  BY <1>e, <1>0, <1>t, <1>g, <1>f, <1>s, <1>a DEF Inv, Shapes
<1>2. Awaited'
  BY <1>0, <1>k, <1>w DEF Inv, Awaited, StillAwaited, Roles
<1>3. Discovery'
  BY <1>k, <1>s DEF Discovery, OneDiscovery
<1>4. Operating'
  BY <1>0, <1>k, <1>w, <1>e DEF Inv, Operating, StillAwaited, Roles
<1>5. Generating'
  BY <1>k, <1>g, <1>e DEF Inv, Generating
<1>6. Showing'
  BY <1>0, <1>k, <1>w, <1>e DEF Inv, Showing, StillAwaited, Text, Roles, Copies
<1>7. SigningOut'
  BY <1>k, <1>w, <1>a, <1>e DEF Inv, SigningOut, SignedOutIsBlank, Roles
<1> QED
  BY <1>1, <1>2, <1>3, <1>4, <1>5, <1>6, <1>7 DEF Inv

LEMMA sessionArrivesKeeps ==
    ASSUME Inv, NEW c \in Calls, NEW session, sessionArrives(c, session), UNCHANGED user
    PROVE  Inv'
<1>w. /\ c # 0 /\ snap.loading /\ ~snap.failed /\ ~auth.signingOut /\ ~auth.signedOut
      /\ cur["load"] = c /\ cur["refresh"] = 0
      /\ cur["operation"] = 0
      /\ \A r \in Roles \ {"load"} : cur[r] # c
  <2>1. calls[c].role = "load" /\ Authority(c)
    BY DEF sessionArrives
  <2>2. \A r \in Roles \ {"load"} : cur[r] # c
    BY <2>1, DiscoveryAlone DEF Inv, Awaited
  <2> QED
    BY <2>1, <2>2, DiscoveryAlone DEF Roles
<1>u. /\ UNCHANGED <<view, form, shown, ver, copied, busy, gen, user>>
      /\ auth' = [auth EXCEPT !.session = session, !.leaving = @ \/ session = "none"]
  BY DEF sessionArrives
<1>a. /\ AuthOK(auth')
      /\ auth'.leaving = (auth.leaving \/ session = "none")
      /\ auth'.signingOut = auth.signingOut
      /\ auth'.signedOut = auth.signedOut /\ auth'.logoutFailed = auth.logoutFailed
  BY <1>u DEF Inv, Shapes, AuthOK
<1>k. /\ cur' \in [Roles -> Calls \cup {0}]
      /\ \A r \in Roles \ {"load"} : cur'[r] = cur[r]
      /\ cur'["load"] = IF session = "none" THEN 0 ELSE c
  BY <1>w DEF Inv, Shapes, sessionArrives, Roles
<1>0. /\ CallsOK(calls') /\ \A r \in Roles : cur[r] # c => StillAwaited(r)
      /\ session # "none" => calls'[c].role = "load"
  <2>1. CASE session = "none"
    <3>1. calls' = [calls EXCEPT ![c] = NoCall]
      BY <2>1 DEF sessionArrives
    <3> QED
      BY <2>1, <3>1, NoCallOK, ReplacedAwaited
  <2>2. CASE session # "none"
    <3> DEFINE x == [calls[c] EXCEPT !.what = "profiles"]
    <3>1. CallOK(calls[c]) /\ calls[c].role = "load"
      BY DEF Inv, Shapes, CallsOK, sessionArrives
    <3>2. CallOK(x) /\ x.role = "load"
      BY <3>1 DEF CallOK
    <3>3. calls' = [calls EXCEPT ![c] = x]
      BY <2>2 DEF sessionArrives
    <3> HIDE DEF x
    <3> QED
      BY <3>2, <3>3, ReplacedAwaited
  <2> QED
    BY <2>1, <2>2
<1>s. /\ SnapOK(snap')
      /\ snap'.loading = (session # "none")
      /\ ~snap'.failed
      /\ session # "none" => snap' = snap
  <2>1. CASE session = "none"
    BY <1>w, <2>1 DEF Inv, Shapes, SnapOK, sessionArrives
  <2>2. CASE session # "none"
    BY <1>w, <2>2 DEF Inv, Shapes, SnapOK, sessionArrives
  <2> QED
    BY <2>1, <2>2
<1>1. Shapes'
  BY <1>u, <1>0, <1>a, <1>k, <1>s DEF Inv, Shapes
<1>2. Awaited'
  <2>1. \A r \in Roles \ {"load"} : cur'[r] # 0 =>
           \/ calls'[cur'[r]].role = r
           \/ r = "generate" /\ calls'[cur'[r]].role = "refresh" /\ cur'["refresh"] = cur'[r]
    BY <1>0, <1>k, <1>w DEF Inv, Awaited, StillAwaited, Roles
  <2>2. cur'["load"] # 0 => calls'[cur'["load"]].role = "load"
    BY <1>0, <1>k
  <2> QED
    BY <2>1, <2>2 DEF Awaited
<1>3. Discovery'
  BY <1>k, <1>s, <1>w, <1>a DEF Discovery, OneDiscovery, Roles
<1>4. Operating'
  BY <1>0, <1>k, <1>w, <1>u DEF Inv, Operating, StillAwaited, Roles
<1>5. Generating'
  <2>1. cur["generate"] # 0 => calls[cur["generate"]].role # "generate"
    BY <1>w DEF Inv, Generating, Ready
  <2> QED
    BY <1>0, <1>k, <1>w, <1>u, <2>1 DEF Inv, Generating, StillAwaited, Roles
<1>6. Showing'
  <2>1. view # "generate" => shown.out = None
    BY <1>w DEF Inv, Showing, Ready
  <2> QED
    BY <1>0, <1>k, <1>w, <1>u, <2>1 DEF Inv, Showing, StillAwaited, Text, Roles,
       Copies
<1>7. SigningOut'
  BY <1>k, <1>w, <1>a, <1>u DEF Inv, SigningOut, SignedOutIsBlank, Roles
<1> QED
  BY <1>1, <1>2, <1>3, <1>4, <1>5, <1>6, <1>7 DEF Inv

-----------------------------------------------------------------------------
(* The invariant.                                                          *)

LEMMA InitKeeps == Init => Inv
<1> SUFFICES ASSUME Init PROVE Inv
  OBVIOUS
<1>1. PICK c \in Calls :
         /\ calls = [d \in Calls |-> IF d = c THEN [role |-> "load", aborted |-> FALSE,
                                                    what |-> "session"] ELSE NoCall]
         /\ cur = [r \in Roles |-> IF r = "load" THEN c ELSE 0]
  BY DEF Init
<1>2. c # 0
  BY WebClientAssumption
<1>3. CallsOK(calls)
  BY <1>1 DEF CallsOK, CallOK, NoCall, Roles
<1>4. /\ cur \in [Roles -> Calls \cup {0}] /\ cur["load"] = c
      /\ \A r \in Roles \ {"load"} : cur[r] = 0
  BY <1>1 DEF Roles
<1>5. calls[c].role = "load"
  BY <1>1
<1>6. Shapes
  BY <1>3, <1>4 DEF Init, Shapes, FormOK, ShownOK, SnapOK, AuthOK, GenOK, Blank,
     NoGenerate, NoFeedback
<1>7. Awaited
  BY <1>4, <1>5 DEF Awaited
<1>8. Discovery
  BY <1>2, <1>4 DEF Init, Discovery, OneDiscovery, Roles
<1>9. Operating /\ Generating
  BY <1>4 DEF Init, Operating, Generating, NoGenerate, Roles
<1>10. Showing
  BY <1>4 DEF Init, Showing, Blank, NoFeedback, Text, Roles, Copies
<1>11. SigningOut
  BY <1>4 DEF Init, SigningOut, SignedOutIsBlank, Roles
<1> QED
  BY <1>6, <1>7, <1>8, <1>9, <1>10, <1>11 DEF Inv

LEMMA UserKeeps ==
    ASSUME Inv, User, UNCHANGED user
    PROVE  Inv'
<1>1. \A k \in user.copies : k \in Copies
  BY WebClientAssumption DEF Inv, Shapes, FormOK, ShownOK, SnapOK
<1>2. ASSUME NEW c \in Calls, submit(c) \/ retryProfiles(c) \/ handleLogout(c) \/ submitGenerate(c)
      PROVE  Inv'
  BY <1>2, submitKeeps, retryProfilesKeeps, handleLogoutKeeps, submitGenerateKeeps
<1>3. ASSUME NEW c \in Calls, NEW k \in user.copies, copy(k, c)
      PROVE  Inv'
  BY <1>1, <1>3, copyKeeps
<1> QED
  BY <1>2, <1>3, changeModeKeeps, changeVerifyModeKeeps, changeGenerateModeKeeps,
     changeValueKeeps, editVerificationKeeps, changeProfileKeeps,
     changeDestinationProfileKeeps, changeIssueAttestationKeeps, toggleRevealedKeeps,
     useResultAsInputKeeps, verifyAttestedResultKeeps, cancelOperationKeeps, clearAllKeeps,
     changeGenerateFormKeeps, cancelGenerationKeeps
  DEF User

LEMMA SettlesKeeps ==
    ASSUME Inv, NEW c \in Calls, Settles(c), UNCHANGED user
    PROVE  Inv'
<1>1. ASSUME NEW caps, profilesArrive(c, caps)
      PROVE  Inv'
  BY <1>1, discoveredKeeps DEF profilesArrive
<1>2. ASSUME NEW outcome, discoveryFails(c, outcome)
      PROVE  Inv'
  BY <1>2, discoveredKeeps DEF discoveryFails
<1>3. ASSUME NEW b \in BOOLEAN, logoutSettles(c, b) \/ copySettles(c, b)
      PROVE  Inv'
  BY <1>3, logoutSettlesKeeps, copySettlesKeeps, Zenon
<1> QED
  BY <1>1, <1>2, <1>3, timeoutKeeps, lateKeeps, sessionArrivesKeeps,
     operationSettlesKeeps,
     generateSettlesKeeps, operationForbiddenKeeps, generateForbiddenKeeps
  DEF Settles

LEMMA NextKeeps == Inv /\ [Next]_vars => Inv'
<1> SUFFICES ASSUME Inv, [Next]_vars PROVE Inv'
  OBVIOUS
<1>1. CASE Next
  BY <1>1, UserKeeps, SettlesKeeps DEF Next
<1>2. CASE UNCHANGED vars
  BY <1>2 DEF vars, Inv, Shapes, Awaited, Discovery, OneDiscovery, Operating,
     Generating,
     Showing, SigningOut, SignedOutIsBlank, Ready, Request, Text
<1> QED
  BY <1>1, <1>2

\* Whatever the user does and whatever comes back, in any order: every call
\* that is awaited meets the client as it left it (the refs and controllers
\* of App.tsx and GenerateWorkbench.tsx).
THEOREM WebClientInvariance == Spec => []Inv
  BY InitKeeps, NextKeeps, PTL DEF Spec

-----------------------------------------------------------------------------
(* What follows from it.                                                   *)

\* A result, an attestation, a verdict, generated material and "Copied" stand
\* only beside what they are about (the current-call checks before each
\* setState, and invalidateOutput).
THEOREM ShownStaysTogether == Spec => []ShownBelongsTogether
<1>1. Inv => ShownBelongsTogether
  BY DEF Inv, Showing, Generating, ShownBelongsTogether, Text
<1> QED
  BY <1>1, WebClientInvariance, PTL

\* From the start of a sign-out nothing typed or received is left, and nothing
\* under way brings any of it back (clearSensitiveStateForSignOut).
THEOREM SignOutStaysBlank == Spec => []SignedOutIsBlank
<1>1. Inv => SignedOutIsBlank
  BY DEF Inv, SigningOut
<1> QED
  BY <1>1, WebClientInvariance, PTL

\* One discovery at a time, a way on without capabilities, and a call under
\* way for all progress that is shown (App.tsx's loading, busy and signingOut).
THEOREM ClientIsNeverStuck == Spec => []NeverStuck
<1>1. ASSUME Inv PROVE ProgressHasCall
  <2>1. "none" \notin Roles /\ {"load", "refresh", "operation", "verify", "generate", "logout"} \subseteq Roles
    BY DEF Roles, Copies
  <2>2. \A r \in Roles : cur[r] # 0 => ~Free(cur[r])
    BY <1>1, <2>1 DEF Inv, Awaited, Free, NoCall
  <2> QED
    BY <1>1, <2>1, <2>2 DEF Inv, Discovery, Operating, Generating, SigningOut,
       ProgressHasCall
<1>2. ASSUME Inv PROVE NoDeadEnd
  <2>1. gen.busy => Ready \/ snap.loading
    BY <1>2 DEF Inv, Shapes, FormOK, ShownOK, SnapOK, Generating, Awaited,
       Discovery, Roles
  <2> QED
    BY <1>2, <2>1 DEF Inv, Discovery, NoDeadEnd, CanRetry, Locked
<1>3. Inv => OneDiscovery
  BY DEF Inv, Discovery
<1> QED
  BY <1>1, <1>2, <1>3, WebClientInvariance, PTL DEF NeverStuck

\* An answer that changes the capabilities does not aim the text elsewhere.
AimIsKept ==
    snap' # snap /\ form.value # 0 /\ form'.value = form.value =>
        form'.profile \in {form.profile, 0} /\ form'.dest \in {form.dest, 0}

\* A new result comes hidden.
ComesHidden ==
    shown'.out # None /\ shown'.out # shown.out => ~shown'.revealed

LEMMA UserIsQuiet ==
    ASSUME Inv, User
    PROVE  AimIsKept /\ ComesHidden
<1>s. \A f : shown' = [shown EXCEPT !.verdict = f] => shown'.out = shown.out
  BY DEF Inv, Shapes, FormOK, ShownOK, SnapOK
<1>1. ASSUME \/ \E m \in Modes : changeMode(m)
             \/ \E v \in Texts \cup {0} : changeValue(v)
             \/ \E e \in Environments : changeProfile(e) \/ changeDestinationProfile(e)
             \/ useResultAsInput
             \/ clearAll
      PROVE  snap' = snap /\ shown' = Blank
  BY <1>1, Zenon DEF changeMode, changeValue, changeProfile,
     changeDestinationProfile,
     useResultAsInput, clearAll, invalidateOutput
<1>2. ASSUME \/ changeVerifyMode
             \/ changeGenerateMode
             \/ \E v \in Texts \cup {0} : editVerification(v)
             \/ verifyAttestedResult
      PROVE  snap' = snap /\ shown'.out = shown.out
  BY <1>2, <1>s DEF changeVerifyMode, changeGenerateMode, editVerification,
     verifyAttestedResult
<1>3. ASSUME changeIssueAttestation \/ toggleRevealed
      PROVE  snap' = snap /\ shown'.out = shown.out
  BY <1>3 DEF Inv, Shapes, FormOK, ShownOK, SnapOK, changeIssueAttestation,
     toggleRevealed
<1>4. ASSUME \/ cancelOperation
             \/ \E e \in Environments, g \in 0..1 : changeGenerateForm(e, g)
             \/ cancelGeneration
             \/ \E c \in Calls : \/ submitGenerate(c)
                                 \/ \E k \in user.copies : copy(k, c)
      PROVE  snap' = snap /\ shown' = shown
  BY <1>4, Zenon DEF cancelOperation, changeGenerateForm, cancelGeneration,
     submitGenerate, copy
<1>5. ASSUME NEW c \in Calls, submit(c)
      PROVE  snap' = snap /\ (shown' = Blank \/ shown'.out = shown.out)
  BY <1>5, <1>s DEF submit, dispatched
<1>6. ASSUME NEW c \in Calls, retryProfiles(c)
      PROVE  form' = form /\ shown' = shown
  BY <1>6 DEF retryProfiles
<1>7. ASSUME NEW c \in Calls, handleLogout(c)
      PROVE  form'.value = 0 /\ shown' = Blank
  BY <1>7 DEF Inv, Shapes, FormOK, ShownOK, SnapOK, handleLogout
<1>8. Blank.out = None
  BY DEF Blank
<1> QED
  BY <1>1, <1>2, <1>3, <1>4, <1>5, <1>6, <1>7, <1>8 DEF User, AimIsKept, ComesHidden

LEMMA SettlesQuietly ==
    ASSUME Inv, NEW c \in Calls, Settles(c)
    PROVE  AimIsKept /\ ComesHidden
<1>1. ASSUME \/ timeout(c) \/ late(c)
             \/ \E outcome \in {"ok", "failed", "unauthorized"} : generateSettles(c, outcome)
             \/ operationForbidden(c) \/ generateForbidden(c)
             \/ \E session \in {"none", "plain", "proof"} : sessionArrives(c, session)
             \/ \E b \in BOOLEAN : logoutSettles(c, b) \/ copySettles(c, b)
      PROVE  form' = form /\ shown' = shown
  BY <1>1 DEF timeout, late, generateSettles, operationForbidden, generateForbidden,
     sessionArrives, logoutSettles, copySettles
<1>2. ASSUME NEW caps, NEW outcome, NEW role, discovered(c, role, caps, outcome)
      PROVE  AimIsKept /\ shown' = shown
  <2>1. form.value # 0 => form' = form \/ form' = selectionFor(caps)
    BY <1>2 DEF discovered
  <2>2. form.value # 0 /\ form' = selectionFor(caps) =>
           form'.profile \in {form.profile, 0} /\ form'.dest \in {form.dest, 0}
    BY DEF Inv, Shapes, FormOK, ShownOK, SnapOK, selectionFor
  <2> QED
    BY <1>2, <2>1, <2>2 DEF AimIsKept, discovered
<1>3. ASSUME NEW outcome, operationSettles(c, outcome)
      PROVE  snap' = snap /\ ComesHidden
  <2>1. CASE cur["operation"] = c
    <3>1. shown = Blank
      BY <2>1, WebClientAssumption DEF Inv, Operating
    <3>2. shown'.revealed = shown.revealed
      BY <1>3 DEF Inv, Shapes, FormOK, ShownOK, SnapOK, operationSettles
    <3> QED
      BY <1>3, <3>1, <3>2 DEF operationSettles, ComesHidden, Blank
  <2>2. CASE cur["operation"] # c
    <3>1. calls[c].role # "operation"
      BY <1>3, <2>2 DEF operationSettles, Current
    <3>2. shown'.out = shown.out
      BY <1>3, <3>1 DEF Inv, Shapes, FormOK, ShownOK, SnapOK, operationSettles
    <3> QED
      BY <1>3, <3>2 DEF operationSettles, ComesHidden
  <2> QED
    BY <2>1, <2>2
<1> QED
  BY <1>1, <1>2, <1>3
  DEF Settles, profilesArrive, discoveryFails, AimIsKept, ComesHidden

\* What comes in never acts on its own: a refresh of the capabilities does not
\* aim the text at another environment (applyLoadedProfiles), a result comes
\* hidden and a decrypted one is beside the mode that hides it.
THEOREM NothingChangesSilently == Spec => NoSilentChange
<1>1. ASSUME Inv, Inv', [Next]_vars
      PROVE  [/\ AimIsKept /\ ComesHidden
              /\ view' = "operation" /\ shown'.out # None /\ shown'.out.mode = "decrypt"
                   => form'.mode = "decrypt"]_vars
  <2>1. CASE Next
    <3>1. AimIsKept /\ ComesHidden
      BY <1>1, <2>1, UserIsQuiet, SettlesQuietly DEF Next
    <3>2. view' = "operation" /\ shown'.out # None => shown'.out.mode = form'.mode
      BY <1>1 DEF Inv, Showing, Request
    <3> QED
      BY <3>1, <3>2
  <2>2. CASE UNCHANGED vars
    BY <2>2
  <2> QED
    BY <1>1, <2>1, <2>2
<1> QED
  BY <1>1, WebClientInvariance, PTL DEF Spec, NoSilentChange, AimIsKept, ComesHidden
=============================================================================
