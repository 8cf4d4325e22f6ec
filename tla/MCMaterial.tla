------------------------------ MODULE MCMaterial ------------------------------
(***************************************************************************)
(* Generated material for TLC: the call that generates and seals it         *)
(* (Generate), and the algorithms it rests on: drawing a password, building *)
(* a certificate request, the scan of JSON strings, the Vault envelope.     *)
(* They share no state, so a behaviour is one of any one of them: turn says *)
(* which, and the others stay as they begin.                                *)
(***************************************************************************)
EXTENDS Generate, X509Request, SurrogateScan, VaultEnvelope, TLC

-----------------------------------------------------------------------------
(* Calls: every kind on every surface, with members, types, profiles,      *)
(* policies and parameters that are right and wrong.                       *)

CallOn(surface, variants) ==
    [surface : {surface}, variants : variants, actor : {"anonymous", "session", "bearer"},
     scope : BOOLEAN, policy : {"allow", "deny", "broken"},
     profile : {"known", "unknown", "malformed"}, kind : Kinds \cup {"other"},
     members : {{}, {"algorithm"}, {"encoding"}, {"algorithm", "sans"}, {"other"}},
     typed : BOOLEAN, overflow : BOOLEAN, good : BOOLEAN]

\* without members to decode, and with the variants that a transport never sets
Direct ==
    {c \in CallOn("direct", {{}, {"password"}, {"token"}, {"token", "password"}}) :
       c.members = {} /\ c.typed /\ c.kind \in {"password", "token", "other"} /\ ~c.overflow}

MCGenerateCalls == {c \in CallOn("rest", {{}}) \cup CallOn("mcp", {{}}) : c.actor # "bearer" => c.scope}
           \cup Direct

-----------------------------------------------------------------------------
(* Passwords of up to four positions over alphabets of one to three        *)
(* characters; excluding the ambiguous ones leaves the digits empty.       *)

CONSTANT Nil

SmallAlphabets == <<{"a", "b", "l"}, {"A", "O"}, {"0"}, {"+"}>>
SmallAmbiguous == {"l", "O", "0"}

Off == [length |-> Nil, on |-> <<Nil, Nil, Nil, Nil>>, min |-> <<Nil, Nil, Nil, Nil>>,
        exclude |-> Nil]

\* lengths around both bounds, with every selection of classes
Lengths ==
    {[Off EXCEPT !.length = length, !.on = <<a, b, c, d>>] :
       length \in {Nil, 0, 1, 2, 4, 5}, a \in BOOLEAN, b \in BOOLEAN,
       c \in BOOLEAN, d \in {Nil, TRUE}}

\* minima around both bounds, of enabled and disabled classes
Minima ==
    {[Off EXCEPT !.on[2] = b, !.min = <<x, y, z, w>>, !.exclude = exclude] :
       b \in {Nil, FALSE}, x \in {Nil, -1, 0, 1, 2, 4}, y \in {Nil, 0, 2}, z \in {Nil, 0, 1},
       w \in {Nil, 1}, exclude \in {Nil, TRUE}}

NoDigits ==
    {[Off EXCEPT !.on = <<TRUE, TRUE, FALSE, d>>, !.min = <<x, y, Nil, Nil>>, !.exclude = exclude] :
       d \in BOOLEAN, x \in {Nil, 0, 2}, y \in {Nil, 0, 1}, exclude \in {Nil, TRUE}}

PasswordRequests == Lengths \cup Minima \cup NoDigits

VARIABLES step, effective, counts, left, drawn, odds, fault

sampler == <<step, effective, counts, left, drawn, odds, fault>>

Sampler ==
    INSTANCE PasswordSampler
    WITH pc <- step, password <- drawn, Requests <- PasswordRequests,
         Alphabets <- SmallAlphabets, Ambiguous <- SmallAmbiguous,
         MinLength <- 1, MaxLength <- 4, DefaultLength <- 3,
         MaxClassMinimum <- 3, MinCardinality <- 6

-----------------------------------------------------------------------------
(* Certificate requests: two strings per subject array and three SAN       *)
(* strings, so that an overflow happens in one array, only in all together, *)
(* and before an array is visited.                                          *)

MCDNFields == {"country", "organization"}

NoSANs == [f \in {"dns", "ip", "email", "uri"} |-> Absent]
NoDN == [f \in DNFields |-> Absent]
Arrays == {Absent, NotArray, <<>>, <<"x">>, <<"x", "y">>, <<"x", "x">>, <<"x", "y", "z">>,
           <<"x", "y", "z", "w">>, <<"x", "bad">>, <<"x", "y", "z", "number">>}
URIs == {Absent, <<"x">>, <<"upper">>, <<"dotted">>, <<"future", "upper">>,
         <<"future", "dotted">>, <<"future", "unparsed">>, <<"x", "surrogate">>}

Subjects ==
    {Absent} \cup
    {[cn |-> cn, dn |-> dn] : cn \in {Absent, "host", "bad", "number"},
       dn \in {[NoDN EXCEPT !["organization"] = a, !["country"] = b] :
                 a \in {Absent, <<>>, <<"x", "y">>, <<"x", "y", "z">>}, b \in {Absent, <<"x">>, NotArray}}}

SubjectBodies ==
    {[alg |-> alg, subject |-> s, sans |-> sans] : s \in Subjects,
       alg \in {"ed25519", "ecdsa_p256", "rsa4096", "dsa"},
       sans \in {Absent, NoSANs, [NoSANs EXCEPT !["dns"] = <<"x">>]}}

SanBodies ==
    {[alg |-> "ed25519", subject |-> s,
      sans |-> [NoSANs EXCEPT !["dns"] = a, !["ip"] = b, !["email"] = c, !["uri"] = d]] :
       s \in {Absent, [cn |-> "host", dn |-> NoDN],
              [cn |-> Absent, dn |-> [NoDN EXCEPT !["organization"] = <<"x">>]]},
       a \in Arrays, b \in {Absent, <<>>, <<"x">>, <<"mapped">>}, c \in {Absent, <<"x", "y">>},
       d \in URIs}

MCBodies == SubjectBodies \cup SanBodies

-----------------------------------------------------------------------------
(* Envelopes with blocks of two bytes and lines of three symbols: values   *)
(* that end within a block and at its end, bytes that look like padding,   *)
(* and bodies that fill their last line and do not.                        *)

MCPlaintexts == BoundedSeq({0, 1, 2}, 3)

-----------------------------------------------------------------------------
VARIABLE turn

MaterialInit ==
    /\ turn \in {"generate", "password", "certificate", "scan", "envelope"}
    /\ GenerateInit /\ Sampler!Init /\ RequestInit /\ ScanInit /\ EnvelopeInit

MaterialNext ==
    /\ UNCHANGED turn
    /\ \/ turn = "generate" /\ GenerateNext
          /\ UNCHANGED <<sampler, requestVars, scanVars, envelopeVars>>
       \/ turn = "password" /\ Sampler!Next
          /\ UNCHANGED <<generateVars, requestVars, scanVars, envelopeVars>>
       \/ turn = "certificate" /\ RequestNext
          /\ UNCHANGED <<generateVars, sampler, scanVars, envelopeVars>>
       \/ turn = "scan" /\ ScanNext
          /\ UNCHANGED <<generateVars, sampler, requestVars, envelopeVars>>
       \/ turn = "envelope" /\ EnvelopeNext
          /\ UNCHANGED <<generateVars, sampler, requestVars, scanVars>>

MaterialSpec ==
    /\ MaterialInit
    /\ [][MaterialNext]_<<turn, generateVars, sampler, requestVars, scanVars, envelopeVars>>
    /\ GenerateFairness

-----------------------------------------------------------------------------
(* What is promised of a password; the other properties are in the modules *)
(* they speak of.                                                          *)

(* Parameters are refused exactly when they are weak or contradict         *)
(* themselves, sampling then fails only when the random source does, and   *)
(* every password that meets them is as likely as any other                *)
(* (resolvePasswordParameters, GeneratePassword).                          *)
PasswordIsUniform ==
    Sampler!RefusedIsWeak /\ Sampler!OnlySourceFails /\ Sampler!Uniform
=============================================================================
