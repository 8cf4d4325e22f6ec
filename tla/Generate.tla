------------------------------- MODULE Generate -------------------------------
(***************************************************************************)
(* One Generate call from its JSON to its answer: the decoders of REST and  *)
(* MCP (backend/internal/httpapi), Service.Generate of                      *)
(* backend/internal/vaultservice and the generators it calls                *)
(* (backend/internal/generate).  Each step ends where the code looks at the *)
(* contexts again; the request's context may end, and another goroutine may *)
(* release the lease, between any two steps.  The policy, the crypto        *)
(* libraries and the profile's executor are external and may be faulty.     *)
(***************************************************************************)
EXTENDS Integers, FiniteSets

CONSTANTS GenerateCalls,   \* calls that may be made
          None     \* no value yet

Kinds == {"password", "token", "ssh_keypair", "age_identity", "x509_csr"}

\* what the policy says of a caller; None is no answer
ASSUME GenerateAssumption ==
    /\ None # "result"
    /\ \A c \in GenerateCalls : /\ c.policy \in {"allow", "deny", "broken"}
                                /\ {c.scope, c.good, c.overflow} \subseteq BOOLEAN

VARIABLES
    at,       \* the step that comes next, or "answered"
    call,     \* the call as made
    command,  \* GenerateCommand
    ended,    \* the request's context is cancelled or past its deadline
    live,   \* leaseState.active
    hold,     \* the lease's mutex is held
    drew,     \* history: random bytes were read for private material
    private,  \* material.private: "none", "held" or "cleared"
    material, \* what was generated: the key the private bytes hold, the public one
    text,     \* the Vault text
    answer    \* the answer as the caller sees it

generateVars == <<at, call, command, ended, live, hold, drew, private, material, text, answer>>

-----------------------------------------------------------------------------
(* Decoding.                                                               *)

\* members a kind's parameter object may and must have
Allowed(kind) == [password |-> {"length", "digits"}, token |-> {"encoding", "bytes"},
                  ssh_keypair |-> {"algorithm"}, age_identity |-> {},
                  x509_csr |-> {"algorithm", "subject", "sans"}][kind]
Required(kind) == IF kind \in {"ssh_keypair", "x509_csr"} THEN {"algorithm"} ELSE {}

\* parseGenerateCommand: the parameters select the one variant of the command
parseGenerateCommand(kind, c) ==
    [ok |-> /\ kind \in Kinds
            /\ c.members \subseteq Allowed(kind)
            /\ Required(kind) \subseteq c.members
            /\ c.typed,
     command |-> [profile |-> c.profile, kind |-> kind, variants |-> {kind},
                  overflow |-> c.overflow /\ kind = "x509_csr", good |-> c.good]]

\* decodeMCPGenerateCommand: the tool's name is the kind, profileId is an argument
decodeMCPGenerateCommand(c) ==
    IF ~(c.kind \in Kinds /\ c.members \subseteq Allowed(c.kind))
    THEN [ok |-> FALSE, command |-> None]
    ELSE parseGenerateCommand(c.kind, c)

\* what the caller sees of an error of the service
Reported(c, code) ==
    IF c.surface # "mcp" THEN IF code = "denied" THEN "forbidden" ELSE code
    ELSE CASE code \in {"unavailable", "not_ready"} -> code
           [] code = "denied" /\ c.actor # "anonymous" -> "forbidden"
           [] OTHER -> "tool_failed"

\* every return: the deferred releaseHold, and the answer
Leave(code) ==
    /\ at' = "answered"
    /\ answer' = Reported(call, code)
    /\ hold' = FALSE

GenerateInit ==
    /\ at = "decode"
    /\ call = None
    /\ command = None
    /\ ended = FALSE
    /\ live = TRUE
    /\ hold = FALSE
    /\ drew = FALSE
    /\ private = "none"
    /\ material = [private |-> None, public |-> None]
    /\ text = None
    /\ answer = None

Decode(c) ==
    LET read == IF c.surface = "mcp" THEN decodeMCPGenerateCommand(c)
                ELSE IF c.surface = "rest" THEN parseGenerateCommand(c.kind, c)
                ELSE [ok |-> TRUE,
                      command |-> [profile |-> c.profile, kind |-> c.kind,
                                   variants |-> c.variants, overflow |-> c.overflow,
                                   good |-> c.good]]
    IN  /\ at = "decode"
        /\ call' = c
        /\ IF read.ok
           THEN command' = read.command /\ at' = "preflight" /\ UNCHANGED answer
           ELSE /\ at' = "answered"
                /\ answer' = IF c.surface = "mcp" THEN "tool_invalid" ELSE "invalid_request"
                /\ UNCHANGED command
        /\ UNCHANGED <<ended, live, hold, drew, private, material, text>>

ContextEnds ==
    /\ at # "answered"
    /\ ~ended
    /\ ended' = TRUE
    /\ UNCHANGED <<at, call, command, live, hold, drew, private, material, text, answer>>

\* Release takes the lease's mutex: it waits for a call that holds it
ReleaseElsewhere ==
    /\ live
    /\ ~hold
    /\ live' = FALSE
    /\ UNCHANGED <<at, call, command, ended, hold, drew, private, material, text, answer>>

-----------------------------------------------------------------------------
(* Service.Generate, up to the generator.                                  *)

\* PreflightGenerate
Preflight ==
    /\ at = "preflight"
    /\ IF ended THEN Leave("unavailable")
       ELSE IF call.actor = "bearer" /\ ~call.scope THEN Leave("forbidden")
       ELSE at' = "hold" /\ UNCHANGED <<answer, hold>>
    /\ UNCHANGED <<call, command, ended, live, drew, private, material, text>>

\* Mutant of Hold: parameters are validated with the identity.
HoldAndValidate ==
    /\ at = "hold"
    /\ IF ended THEN Leave("unavailable")
       ELSE IF ~live THEN Leave("not_ready")
       ELSE IF \/ command.profile = "malformed" \/ command.kind \notin Kinds
               \/ command.variants # {command.kind} \/ command.overflow
            THEN Leave("invalid_request")
       ELSE at' = "authorize" /\ hold' = TRUE /\ UNCHANGED answer
    /\ UNCHANGED <<call, command, ended, live, drew, private, material, text>>

\* the lease is the context's, live and held; then the command's identity
Hold ==
    /\ at = "hold"
    /\ IF ended THEN Leave("unavailable")
       ELSE IF ~live THEN Leave("not_ready")
       ELSE IF command.profile = "malformed" \/ command.kind \notin Kinds
            THEN Leave("invalid_request")
       ELSE at' = "authorize" /\ hold' = TRUE /\ UNCHANGED answer
    /\ UNCHANGED <<call, command, ended, live, drew, private, material, text>>

\* an ended context is reported before what the policy says
Authorize ==
    /\ at = "authorize"
    /\ IF ended THEN Leave("unavailable")
       ELSE IF call.actor # "anonymous" /\ call.policy = "broken" THEN Leave("not_ready")
       ELSE IF call.actor # "anonymous" /\ call.policy = "deny" THEN Leave("denied")
       ELSE at' = "resolve" /\ UNCHANGED <<answer, hold>>
    /\ UNCHANGED <<call, command, ended, live, drew, private, material, text>>

\* validateGenerateVariant: exactly one variant, the kind's, and all of it
validVariant(c) == c.variants = {c.kind} /\ ~c.overflow

\* profileAccessError
AccessError == IF call.actor = "anonymous" THEN "not_found" ELSE "forbidden"

Resolve ==
    /\ at = "resolve"
    /\ IF command.profile # "known" THEN Leave(AccessError)
       ELSE IF ~validVariant(command) THEN Leave("invalid_request")
       ELSE IF ended THEN Leave("unavailable")
       ELSE at' = "generate" /\ UNCHANGED <<answer, hold>>
    /\ UNCHANGED <<call, command, ended, live, drew, private, material, text>>

-----------------------------------------------------------------------------
(* The generators.                                                         *)

PairKinds == {"ssh_keypair", "age_identity", "x509_csr"}

\* the public companion of a pair is derived from the serialization as read
\* back, and must be the one of the key that was generated
derivePublic(generated, serialized) ==
    [ok |-> generated = serialized,
     material |-> [private |-> serialized, public |-> serialized]]

\* Outcomes of a generator: parameters first, then randomness, then the
\* libraries; a library may hand back an error or the serialization of
\* another key.
GenerateMaterial ==
    /\ at = "generate"
    /\ \/ /\ ~command.good
          /\ at' = "invalid"
          /\ UNCHANGED <<drew, private, material>>
       \/ /\ command.good
          /\ drew' = TRUE
          /\ at' = "failed"
          /\ UNCHANGED <<private, material>>
       \/ \E serialized \in {"key", "other"} :
            LET d == IF command.kind \in PairKinds THEN derivePublic("key", serialized)
                     ELSE [ok |-> TRUE, material |-> [private |-> "key", public |-> None]]
            IN  /\ command.good
                /\ drew' = TRUE
                /\ IF d.ok THEN at' = "generated" /\ private' = "held" /\ material' = d.material
                   ELSE at' = "failed" /\ UNCHANGED <<private, material>>
    /\ UNCHANGED <<call, command, ended, live, hold, text, answer>>

\* clear(material.private), explicit or deferred
Clear == private' = IF private = "held" THEN "cleared" ELSE private

\* Mutant of AfterGenerate: cancellation returns without clearing.
AfterGenerateNoClear ==
    /\ at \in {"generated", "invalid", "failed"}
    /\ IF ended THEN Leave("unavailable") /\ UNCHANGED private
       ELSE IF at = "invalid" THEN Leave("invalid_request") /\ Clear
       ELSE IF at = "failed" THEN Leave("operation_failed") /\ Clear
       ELSE \/ Leave("operation_failed") /\ Clear
            \/ at' = "seal" /\ UNCHANGED <<answer, hold, private>>
    /\ UNCHANGED <<call, command, ended, live, drew, material, text>>

\* the context, then mapGenerationError; material that is empty, too long or not
\* UTF-8 is an operation that failed
AfterGenerate ==
    /\ at \in {"generated", "invalid", "failed"}
    /\ IF ended THEN Leave("unavailable") /\ Clear
       ELSE IF at = "invalid" THEN Leave("invalid_request") /\ Clear
       ELSE IF at = "failed" THEN Leave("operation_failed") /\ Clear
       ELSE \/ Leave("operation_failed") /\ Clear
            \/ at' = "seal" /\ UNCHANGED <<answer, hold, private>>
    /\ UNCHANGED <<call, command, ended, live, drew, material, text>>

-----------------------------------------------------------------------------
(* Sealing and the answer.                                                 *)

\* what an executor may return: an error, the profile's canonical Vault text,
\* a text with another label or one that is not canonical
Seal ==
    /\ at = "seal"
    /\ text' \in {None} \cup
         [label : {"known", "unknown"}, canonical : BOOLEAN, holds : {material.private}]
    /\ IF ended THEN Leave("unavailable") /\ Clear
       ELSE IF text' = None THEN Leave("operation_failed") /\ Clear
       ELSE at' = "sealed" /\ UNCHANGED <<answer, hold, private>>
    /\ UNCHANGED <<call, command, ended, live, drew, material>>

\* the label is the profile's, and reading and writing the text gives it back
validGeneratedVaultText(t, profile) == t.label = profile /\ t.canonical

CheckText ==
    /\ at = "sealed"
    /\ IF ended THEN Leave("unavailable") /\ Clear
       ELSE IF ~validGeneratedVaultText(text, command.profile)
            THEN Leave("operation_failed") /\ Clear
       ELSE at' = "checked" /\ UNCHANGED <<answer, hold, private>>
    /\ UNCHANGED <<call, command, ended, live, drew, material, text>>

\* mapGenerateResponse accepts what the service returns of each kind
Return ==
    /\ at = "checked"
    /\ IF ended THEN Leave("unavailable")
       ELSE at' = "answered" /\ answer' = "result" /\ hold' = FALSE
    /\ Clear
    /\ UNCHANGED <<call, command, ended, live, drew, material, text>>

GenerateNext ==
    \/ at = "decode" /\ \E c \in GenerateCalls : Decode(c)
    \/ ContextEnds
    \/ ReleaseElsewhere
    \/ Preflight
    \/ Hold
    \/ Authorize
    \/ Resolve
    \/ GenerateMaterial
    \/ AfterGenerate
    \/ Seal
    \/ CheckText
    \/ Return

GenerateSpec == GenerateInit /\ [][GenerateNext]_generateVars

\* the handler runs on; a library call returns
GenerateFairness ==
    WF_generateVars(Preflight \/ Hold \/ Authorize \/ Resolve \/ GenerateMaterial
            \/ AfterGenerate \/ Seal \/ CheckText \/ Return)

-----------------------------------------------------------------------------
(* Properties.                                                             *)

\* What the caller may have: scope and policy, or authentication off.
Entitled(c) ==
    \/ c.actor = "anonymous"
    \/ c.policy = "allow" /\ (c.actor = "bearer" => c.scope)

(* Randomness is drawn for private material only for a caller who is       *)
(* entitled, a profile that exists and parameters that are complete and    *)
(* valid, whatever surface the command came by.                            *)
DrawnIsAllowed ==
    drew => /\ Entitled(call)
            /\ call.profile = "known"
            /\ call.good /\ ~(call.kind = "x509_csr" /\ call.overflow)
            /\ call.surface = "direct" => call.variants = {call.kind}

(* A caller the policy denies learns neither whether the profile exists    *)
(* nor whether the parameters were acceptable: once a well-formed command  *)
(* reaches the service under a live context and lease, the answer is       *)
(* "forbidden".                                                            *)
DeniedLearnsNothing ==
    at = "answered" /\ command # None /\ ~ended /\ live
      /\ call.actor # "anonymous" /\ call.policy = "deny" /\ call.scope
      /\ command.profile # "malformed" /\ command.kind \in Kinds
      => answer = "forbidden"

(* Neither material nor knowledge reaches a caller without the right to    *)
(* it: nothing is drawn for one, and the refusal tells nothing.            *)
OnlyForEntitled == DrawnIsAllowed /\ DeniedLearnsNothing

(* A result is the Vault text of the command's profile, in canonical form, *)
(* of exactly the private value whose public companion is returned with    *)
(* it, although libraries and executor may be faulty.                      *)
ResultIsSealed ==
    answer = "result" => /\ text.label = command.profile
                         /\ text.canonical
                         /\ text.holds = material.private
                         /\ command.kind \in PairKinds => material.public = text.holds

(* On every way out the service has cleared its copy of the private bytes  *)
(* and let go of the lease's mutex.                                        *)
LeavesClean == at = "answered" => private # "held" /\ ~hold

(* The slot outlives the work: while a call draws, seals or holds private  *)
(* bytes, nobody else has released the lease it runs under.                *)
SlotCoversWork == at \in {"generate", "generated", "seal", "sealed", "checked"} => hold /\ live

(* Private material stays within the call and its slot: it leaves only     *)
(* sealed, the slot outlives the work, every way out clears it.  And a     *)
(* decoded call is answered without keeping the mutex, so that another     *)
(* goroutine's release of the lease gets through.                          *)
PrivateIsContained ==
    /\ [](ResultIsSealed /\ LeavesClean /\ SlotCoversWork)
    /\ (at = "preflight") ~> (at = "answered" /\ ~hold)
=============================================================================
