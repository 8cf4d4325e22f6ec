----------------------------- MODULE X509Request -----------------------------
(***************************************************************************)
(* A certificate request from its JSON parameters to its PEM text: the      *)
(* bounded decoding of backend/internal/httpapi/generate_http.go, which     *)
(* visits the SAN arrays in the order a Go map gives them and keeps what    *)
(* fits, the validation of backend/internal/generate/x509.go, and the key,  *)
(* the request and the reading back of it.  crypto/x509 is external: it     *)
(* sorts repeated subject values, respells some URIs when it parses them,   *)
(* cannot parse an IPvFuture host nor one that is not a domain name, and    *)
(* may be faulty.                                                          *)
(***************************************************************************)
EXTENDS Integers, FiniteSets, Sequences, SequencesExt, FiniteSetsExt

CONSTANTS Absent,       \* a JSON member left out, a nil pointer or slice
          NotArray,     \* a JSON value of another type
          Bodies,       \* parameters a caller may send
          DNFields,     \* country, organization, ... postalCode
          MaxSubjectValues,   \* maximumX509SubjectValues
          MaxSANs             \* maximumX509SANs

SanFields == {"dns", "ip", "email", "uri"}

\* Strings as far as validation and URI parsing tell them apart.
NotString == {"number", "surrogate"}           \* null, a number, an unpaired surrogate
Invalid == {"bad", "mapped", "unparsed"}       \* fails the syntax of its field
IPvFuture == {"future"}                        \* url.Parse refuses it
OddHost == {"dotted"}                          \* to url.Parse a host, to crypto/x509 no
                                               \* domain name: a trailing dot, an empty label
Respelled == {"upper"}                         \* url.Parse returns another spelling

Algorithms == {"ed25519", "ecdsa_p256", "ecdsa_p384", "rsa3072", "rsa4096"}

\* What a caller may send: JSON of the documented shape, with anything for an array.
JsonArrays == Seq(STRING) \cup {NotArray, Absent}
SubjectObjects == [cn : STRING \cup {Absent}, dn : [DNFields -> JsonArrays]]
SanObjects == [SanFields -> JsonArrays]

ASSUME RequestAssumption ==
    /\ MaxSubjectValues \in Nat /\ MaxSANs \in Nat
    /\ NotArray \notin Seq(STRING)
    /\ Absent \notin STRING \cup NotString \cup Invalid \cup Seq(STRING) \cup {NotArray}
                    \cup SubjectObjects \cup SanObjects
    /\ Bodies \subseteq [alg : STRING, subject : SubjectObjects \cup {Absent},
                        sans : SanObjects \cup {Absent}]

VARIABLES
    phase,     \* "idle", "sans", "decoded", "valid", "built", "refused", "failed"
    body,      \* the parameters as sent
    parameters,\* the parameters as decoded
    pending,   \* SAN members the decoder has still to visit
    remaining, \* SAN strings it may still keep
    overflow,  \* X509CollectionOverflow
    keyed,     \* history: a key was drawn
    healthy,   \* history: crypto/x509 has not misbehaved
    csr        \* what the request says once read back

requestVars == <<phase, body, parameters, pending, remaining, overflow, keyed, healthy, csr>>

-----------------------------------------------------------------------------
(* Decoding: parseX509CSRParameters and what it calls.                     *)

\* every item is checked, the first `maximum` are kept
decodeJSONStringArray(array, maximum) ==
    IF array = NotArray \/ ToSet(array) \cap NotString # {}
    THEN [err |-> TRUE, values |-> <<>>, exceeded |-> FALSE]
    ELSE [err |-> FALSE, values |-> SubSeq(array, 1, Min({maximum, Len(array)})),
          exceeded |-> Len(array) > maximum]

Supplied(arrays) == {f \in DOMAIN arrays : arrays[f] # Absent}

\* the arrays of a subject do not share a bound: no order matters
parseX509Subject(s) ==
    LET read == [f \in Supplied(s.dn) |-> decodeJSONStringArray(s.dn[f], MaxSubjectValues)]
    IN  [err |-> \/ s.cn = Absent /\ Supplied(s.dn) = {}
                 \/ s.cn # Absent /\ s.cn \in NotString
                 \/ \E f \in Supplied(s.dn) : read[f].err,
         exceeded |-> \E f \in Supplied(s.dn) : read[f].exceeded,
         subject |-> [cn |-> s.cn, dn |-> [f \in DNFields |->
                        IF f \in Supplied(s.dn) THEN read[f].values ELSE Absent]]]

NoSans == [f \in SanFields |-> Absent]

RequestInit ==
    /\ phase = "idle"
    /\ body = Absent
    /\ parameters = Absent
    /\ pending = {}
    /\ remaining = MaxSANs
    /\ overflow = FALSE
    /\ keyed = FALSE
    /\ healthy = TRUE
    /\ csr = Absent

\* the subject, then on to the SAN object if there is one
DecodeParameters(b) ==
    LET s == IF b.subject = Absent
             THEN [err |-> FALSE, exceeded |-> FALSE, subject |-> Absent]
             ELSE parseX509Subject(b.subject)
    IN  /\ phase = "idle"
        /\ body' = b
        /\ overflow' = s.exceeded
        /\ parameters' = [alg |-> b.alg, subject |-> s.subject,
                       sans |-> IF b.sans = Absent THEN Absent ELSE NoSans]
        /\ pending' = IF b.sans = Absent THEN {} ELSE Supplied(b.sans)
        /\ phase' = IF s.err THEN "refused"
                 ELSE IF b.sans = Absent THEN "decoded"
                 ELSE IF Supplied(b.sans) = {} THEN "refused" ELSE "sans"
        /\ UNCHANGED <<remaining, keyed, healthy, csr>>

\* parseX509SANs, the member the map's iteration gives next
DecodeSan(f) ==
    LET read == decodeJSONStringArray(body.sans[f], remaining)
    IN  /\ phase = "sans"
        /\ f \in pending
        /\ pending' = pending \ {f}
        /\ IF read.err
           THEN phase' = "refused" /\ UNCHANGED <<parameters, remaining, overflow>>
           ELSE /\ parameters' = [parameters EXCEPT !.sans[f] = read.values]
                /\ remaining' = remaining - Len(read.values)
                /\ overflow' = (overflow \/ read.exceeded)
                /\ phase' = IF pending' = {} THEN "decoded" ELSE "sans"
        /\ UNCHANGED <<body, keyed, healthy, csr>>

\* a caller within the process hands the generator its own slices
CallDirectly(b) ==
    /\ phase = "idle"
    /\ body' = b
    /\ parameters' = b
    /\ phase' = "decoded"
    /\ UNCHANGED <<pending, remaining, overflow, keyed, healthy, csr>>

-----------------------------------------------------------------------------
(* Validation: validateX509CSRParameters and what it calls.                *)

Distinct(values) == IsInjective(values)

\* validDNValues, validCountryValues
validDNValues(values) ==
    values # Absent => /\ Len(values) \in 1..MaxSubjectValues
                       /\ Distinct(values)
                       /\ ToSet(values) \cap Invalid = {}

validateX509Subject(s) ==
    /\ s.cn # Absent \/ Supplied(s.dn) # {}
    /\ s.cn = Absent \/ s.cn \notin Invalid
    /\ \A f \in DNFields : validDNValues(s.dn[f])

\* len of a slice, nil or not
Size(array) == IF array = Absent THEN 0 ELSE Len(array)

Count(sans) == Size(sans["dns"]) + Size(sans["ip"]) + Size(sans["email"]) + Size(sans["uri"])

validateX509SANs(sans) ==
    /\ Supplied(sans) # {}
    /\ Count(sans) \in 1..MaxSANs
    /\ \A f \in Supplied(sans) : Len(sans[f]) > 0
    /\ \A f \in Supplied(sans) : Distinct(sans[f]) /\ ToSet(sans[f]) \cap Invalid = {}

validateX509CSRParameters(c) ==
    /\ c.alg \in Algorithms
    /\ c.subject # Absent => validateX509Subject(c.subject)
    /\ c.sans # Absent => validateX509SANs(c.sans)
    /\ \/ c.subject # Absent /\ c.subject.cn # Absent
       \/ c.sans # Absent /\ Count(c.sans) > 0

\* validateGenerateVariant refuses an overflow before the generator sees it
Validate ==
    /\ phase = "decoded"
    /\ phase' = IF overflow \/ ~validateX509CSRParameters(parameters) THEN "refused" ELSE "valid"
    /\ UNCHANGED <<body, parameters, pending, remaining, overflow, keyed, healthy, csr>>

-----------------------------------------------------------------------------
(* GenerateX509CSR: the key, the request and the reading back of it.       *)

\* signatureAlgorithm of validatedX509CSR
signatureAlgorithm(alg) ==
    CASE alg = "ed25519" -> "PureEd25519"
      [] alg = "ecdsa_p256" -> "ECDSAWithSHA256"
      [] alg = "ecdsa_p384" -> "ECDSAWithSHA384"
      [] OTHER -> "SHA256WithRSA"

Values(arrays, f) == IF arrays = Absent \/ arrays[f] = Absent THEN <<>> ELSE arrays[f]
Subject(c) == IF c.subject = Absent THEN [cn |-> Absent, dn |-> [f \in DNFields |-> Absent]]
              ELSE c.subject

\* x509.CreateCertificateRequest as it should be: repeated subject values are a
\* DER SET, whose order is not the caller's; the SAN extension is there if needed
Encoded(c, dn) ==
    [signature |-> signatureAlgorithm(c.alg), signed |-> TRUE, spki |-> "generated",
     cn |-> Subject(c).cn, dn |-> dn,
     sans |-> [f \in SanFields |-> Values(c.sans, f)],
     extensions |-> IF c.sans = Absent THEN {} ELSE {"subjectAltName"}]

SetOrders(c) ==
    {dn \in [DNFields -> UNION {SetToSeqs(ToSet(Values(Subject(c).dn, f))) : f \in DNFields}] :
       \A f \in DNFields : /\ Len(dn[f]) = Len(Values(Subject(c).dn, f))
                           /\ ToSet(dn[f]) = ToSet(Values(Subject(c).dn, f))}

\* what a faulty library could hand back
Damaged(r) ==
    {[r EXCEPT !.signed = FALSE], [r EXCEPT !.spki = "other"],
     [r EXCEPT !.signature = "other"], [r EXCEPT !.extensions = @ \cup {"other"}],
     [r EXCEPT !.cn = "other"]}
    \cup {[r EXCEPT !.sans[f] = Reverse(@)] : f \in SanFields}
    \cup {[r EXCEPT !.sans[f] = Front(@)] : f \in {g \in SanFields : r.sans[g] # <<>>}}
    \cup {[r EXCEPT !.dn[f] = Front(@)] : f \in {g \in DNFields : r.dn[g] # <<>>}}

\* x509.ParseCertificateRequest understands the request: it parses every URI,
\* and a host that is there is a domain name
Parses(r) == ToSet(r.sans["uri"]) \cap (IPvFuture \cup OddHost) = {}

\* the URIs as the library's parser spells them
ParsedURIs(r) == [i \in DOMAIN r.sans["uri"] |->
                    IF r.sans["uri"][i] \in Respelled THEN "lower" ELSE r.sans["uri"][i]]

sameStringSet(left, right) ==
    /\ Len(left) = Len(right)
    /\ \A v \in ToSet(left) \cup ToSet(right) :
         Cardinality({i \in DOMAIN left : left[i] = v})
           = Cardinality({i \in DOMAIN right : right[i] = v})

\* Mutant of rawURIs: the library's spelling is compared.
parsedSpelling(r) == IF Parses(r) THEN ParsedURIs(r) ELSE r.sans["uri"]

\* parseCSRSubjectAltNames: the URIs as the extension spells them
rawURIs(r) == r.sans["uri"]

\* with a SAN, that extension only; without one, none
x509CSRMatches(r, c) ==
    /\ r.cn = Subject(c).cn
    /\ \A f \in DNFields : sameStringSet(r.dn[f], Values(Subject(c).dn, f))
    /\ \A f \in SanFields \ {"uri"} : r.sans[f] = Values(c.sans, f)
    /\ rawURIs(r) = Values(c.sans, "uri")
    /\ r.extensions = IF \A f \in SanFields : Values(c.sans, f) = <<>> THEN {}
                      ELSE {"subjectAltName"}

\* the bounded DER parser: a signature algorithm it knows, each extension once
parseCSRWithIPvFuture(r) == r.signature \in {signatureAlgorithm(a) : a \in Algorithms}

\* containsIPvFutureURI
ExpectsIPvFuture(c) == ToSet(Values(c.sans, "uri")) \cap IPvFuture # {}

\* what the library cannot read is read again, if such a URI is why it cannot
parseAndCheckCSR(r, c) ==
    /\ Parses(r) \/ (ExpectsIPvFuture(c) /\ parseCSRWithIPvFuture(r))
    /\ r.signature = signatureAlgorithm(c.alg)
    /\ r.signed
    /\ r.spki = "generated"
    /\ x509CSRMatches(r, c)

GenerateX509CSR ==
    /\ phase = "valid"
    /\ keyed' = TRUE
    /\ \E dn \in SetOrders(parameters) :
         LET r == Encoded(parameters, dn)
         IN  IF parseAndCheckCSR(r, parameters) THEN phase' = "built" /\ csr' = r
             ELSE phase' = "failed" /\ csr' = csr
    /\ UNCHANGED <<body, parameters, pending, remaining, overflow, healthy>>

\* the key, its PKCS#8 form or the request comes back an error or damaged
GenerateFaulty ==
    /\ phase = "valid"
    /\ keyed' = TRUE
    /\ healthy' = FALSE
    /\ \/ phase' = "failed" /\ csr' = csr
       \/ \E dn \in SetOrders(parameters) : \E r \in Damaged(Encoded(parameters, dn)) :
            IF parseAndCheckCSR(r, parameters) THEN phase' = "built" /\ csr' = r
            ELSE phase' = "failed" /\ csr' = csr
    /\ UNCHANGED <<body, parameters, pending, remaining, overflow>>

\* the slices a direct caller can hold are slices of strings
Plain(b) ==
    /\ b.subject # Absent => /\ b.subject.cn \notin NotString
                             /\ \A f \in Supplied(b.subject.dn) :
                                  ~decodeJSONStringArray(b.subject.dn[f], MaxSANs).err
    /\ b.sans # Absent => \A f \in Supplied(b.sans) :
                            ~decodeJSONStringArray(b.sans[f], MaxSANs).err

RequestNext ==
    \/ phase = "idle" /\ \E b \in Bodies : DecodeParameters(b) \/ (Plain(b) /\ CallDirectly(b))
    \/ \E f \in SanFields : DecodeSan(f)
    \/ Validate
    \/ GenerateX509CSR
    \/ GenerateFaulty

RequestSpec == RequestInit /\ [][RequestNext]_requestVars

-----------------------------------------------------------------------------
(* Properties.                                                             *)

\* What docs/adr/0002-generate.md accepts, said of the parameters as sent.
Acceptable(b) ==
    LET strings(array, maximum) ==
            /\ array # NotArray
            /\ Len(array) \in 1..maximum
            /\ \A i \in DOMAIN array : array[i] \notin NotString \cup Invalid
            /\ \A i, j \in DOMAIN array : array[i] = array[j] => i = j
        named == b.subject # Absent /\ b.subject.cn # Absent
    IN  /\ b.alg \in Algorithms
        /\ b.subject # Absent =>
             /\ named \/ Supplied(b.subject.dn) # {}
             /\ named => b.subject.cn \notin NotString \cup Invalid
             /\ \A f \in Supplied(b.subject.dn) : strings(b.subject.dn[f], MaxSubjectValues)
        /\ b.sans # Absent =>
             /\ Supplied(b.sans) # {}
             /\ \A f \in Supplied(b.sans) : strings(b.sans[f], MaxSANs)
             /\ Count(b.sans) <= MaxSANs
        /\ named \/ b.sans # Absent

(* A key is drawn only for parameters that are acceptable as they were     *)
(* sent: the part of an overflowing request that the decoder kept, which   *)
(* depends on the order of a map, never gets that far.                     *)
KeyOnlyForAcceptable == keyed => Acceptable(body)

\* Acceptable parameters with a URI that the library puts into a request and
\* then does not read, and none that sends the request to the bounded parser.
Misread(b) ==
    /\ b.sans # Absent /\ b.sans["uri"] # Absent
    /\ ToSet(b.sans["uri"]) \cap OddHost # {}
    /\ ToSet(b.sans["uri"]) \cap IPvFuture = {}

(* The order the decoder visits the arrays in decides nothing, nor does    *)
(* the path into the generator: while the library works, the parameters as *)
(* sent decide.  Those that are not acceptable are refused; of the others  *)
(* those the library cannot read back fail, their key already drawn, and   *)
(* all the rest end in a request: an IPvFuture URI, alone or beside a host *)
(* that is no domain name, a URI the library respells and sorted subject   *)
(* values included.                                                        *)
ParametersDecide ==
    healthy /\ phase \in {"refused", "failed", "built"} =>
      phase = IF ~Acceptable(body) THEN "refused"
              ELSE IF Misread(body) THEN "failed" ELSE "built"

(* Whatever the library does, a request that is returned is signed by the  *)
(* key that goes into the Vault text and names what was asked for: the     *)
(* SANs in their order and spelling, the subject values, nothing more.     *)
BuiltIsRequested ==
    phase = "built" =>
      /\ csr.signed /\ csr.spki = "generated"
      /\ csr.cn = Subject(body).cn
      /\ \A f \in SanFields : csr.sans[f] = Values(body.sans, f)
      /\ \A f \in DNFields : /\ ToSet(csr.dn[f]) = ToSet(Values(Subject(body).dn, f))
                             /\ Len(csr.dn[f]) = Len(Values(Subject(body).dn, f))
      /\ csr.extensions \subseteq {"subjectAltName"}

(* A key is drawn only for certificate parameters acceptable as sent,      *)
(* whatever order the decoder visits the SAN arrays in; while crypto/x509  *)
(* works these end in a request unless it cannot read it back, and others  *)
(* are refused; and a request that is returned names what was asked for,   *)
(* whatever the library does (parseX509CSRParameters, GenerateX509CSR).    *)
CertificateIsAsked == KeyOnlyForAcceptable /\ ParametersDecide /\ BuiltIsRequested
=============================================================================
