---------------------------- MODULE VaultEnvelope ----------------------------
(***************************************************************************)
(* The Ansible Vault envelope of backend/internal/ansiblevault: a value is  *)
(* sealed, its text is handed around and edited, and it is opened or put in *)
(* canonical form.  A text is a header and lines of hexadecimal symbols     *)
(* (one symbol is one byte of the payload and the case it is written in),   *)
(* the line ends and the newlines after the last line.  Cryptography is     *)
(* symbolic: a ciphertext byte carries its key and value, a MAC its key and *)
(* the ciphertext.                                                          *)
(***************************************************************************)
EXTENDS Integers, FiniteSets, Sequences, SequencesExt

CONSTANTS Plaintexts,  \* byte sequences that are sealed
          Passwords, Salts,
          BlockSize,   \* aes.BlockSize
          LineWidth,   \* lineWidth, in symbols
          MaxText,     \* MaxVaultTextBytes, in symbols and line ends
          MaxEdits     \* edits of a text

ASSUME EnvelopeAssumption ==
    /\ BlockSize \in Nat \ {0} /\ LineWidth \in Nat \ {0}
    /\ MaxText \in Nat /\ MaxEdits \in Nat
    /\ Plaintexts \subseteq Seq(Nat)

VARIABLES
    vaultText, \* the text as it is now
    sealed,    \* the text as Encrypt returned it
    plain,     \* what was sealed
    password,  \* and with which password
    harmless,  \* history: only line ends, case, width and label were edited
    relabelled,\* history: the label was edited
    edits      \* how many edits were made

envelopeVars == <<vaultText, sealed, plain, password, harmless, relabelled, edits>>

Unopened == [ok |-> FALSE]
NoText == [header |-> "none", lines |-> <<>>, eol |-> "lf", final |-> 0]

Sym(kind, data) == [kind |-> kind, data |-> data, upper |-> FALSE]
Separator == Sym("separator", <<>>)

-----------------------------------------------------------------------------
(* Encryption.                                                             *)

\* a full last block is followed by a block of padding
pkcs7Pad(value) ==
    LET padding == BlockSize - (Len(value) % BlockSize)
    IN  value \o [i \in 1..padding |-> padding]

pkcs7Unpad(value) ==
    LET padding == Last(value)
    IN  IF \/ Len(value) = 0 \/ Len(value) % BlockSize # 0
           \/ padding \notin 1..BlockSize
           \/ \E i \in Len(value) - padding + 1..Len(value) : value[i] # padding
        THEN Unopened
        ELSE [ok |-> TRUE, value |-> SubSeq(value, 1, Len(value) - padding)]

\* derive: the keys of a password and a salt; the MAC of a ciphertext
Mac(key, ciphertext) == Sym("mac", key \o FlattenSeq([i \in DOMAIN ciphertext |->
                                                        ciphertext[i].data]))

\* Mutant of serializeVaultEnvelope: the last line is filled and one is left empty.
serializeFullLines(header, body) ==
    LET n == Len(body) \div LineWidth + 1
    IN  [header |-> header, eol |-> "lf", final |-> 1,
         lines |-> [i \in 1..n |-> SubSeq(body, (i - 1) * LineWidth + 1,
                      IF i = n THEN Len(body) ELSE i * LineWidth)]]

\* full lines while more than one line is left, then the rest
serializeVaultEnvelope(header, body) ==
    LET n == (Len(body) + LineWidth - 1) \div LineWidth
    IN  [header |-> header, eol |-> "lf", final |-> 1,
         lines |-> [i \in 1..n |-> SubSeq(body, (i - 1) * LineWidth + 1,
                      IF i = n THEN Len(body) ELSE i * LineWidth)]]

EncryptWithVaultID(value, pw, salt, header) ==
    LET key == <<pw, salt>>
        padded == pkcs7Pad(value)
        ciphertext == [i \in DOMAIN padded |-> Sym("cipher", Append(key, padded[i]))]
    IN  serializeVaultEnvelope(header,
          <<Sym("salt", <<salt>>), Separator, Mac(key, ciphertext), Separator>> \o ciphertext)

-----------------------------------------------------------------------------
(* Parsing, decryption and the canonical form.                             *)

\* isSupportedHeader: 1.1, 1.2 without a label, 1.2 with a label that is one
Supported == {"1.1", "1.2", "1.2;label", "1.2;other"}

\* both separators are there, and the parts have their sizes
payloadParts(body) ==
    LET seps == {i \in DOMAIN body : body[i].kind = "separator"}
    IN  IF seps # {2, 4} \/ Len(body) < 5 \/ (Len(body) - 4) % BlockSize # 0
        THEN Unopened
        ELSE [ok |-> TRUE, salt |-> body[1], mac |-> body[3],
              cipher |-> SubSeq(body, 5, Len(body))]

\* CRLF counts as LF, a lone CR does not; one final newline is dropped, a second
\* one is an empty line; the lines are joined before they are decoded
parseEnvelope(t) ==
    LET body == FlattenSeq(t.lines)
        parts == payloadParts(body)
    IN  IF \/ t.eol = "cr"
           \/ t.final > 1
           \/ t.lines = <<>>
           \/ t.header \notin Supported
           \/ \E i \in DOMAIN t.lines : Len(t.lines[i]) \notin 1..LineWidth
           \/ \E i \in DOMAIN body : body[i].kind = "not hex"
           \/ ~parts.ok
        THEN Unopened
        ELSE [ok |-> TRUE, header |-> t.header, body |-> body, parts |-> parts]

Lower(body) == [i \in DOMAIN body |-> [body[i] EXCEPT !.upper = FALSE]]

\* the MAC over the ciphertext is checked before anything is decrypted
Decrypt(t, pw) ==
    LET e == parseEnvelope(t)
        key == Append(<<pw>>, e.parts.salt.data[1])
        cipher == Lower(e.parts.cipher)
    IN  IF \/ ~e.ok
           \/ e.parts.salt.kind # "salt"
           \/ [e.parts.mac EXCEPT !.upper = FALSE] # Mac(key, cipher)
        THEN Unopened
        ELSE pkcs7Unpad([i \in DOMAIN cipher |-> Last(cipher[i].data)])

\* characters: the symbols, the line ends and the final newlines
TextSize(t) == Len(FlattenSeq(t.lines)) + (IF t.eol = "crlf" THEN 2 ELSE 1) * Len(t.lines) + t.final

CanonicalEnvelope(t) ==
    LET e == parseEnvelope(t)
    IN  IF TextSize(t) > MaxText \/ ~e.ok THEN NoText
        ELSE serializeVaultEnvelope(e.header, Lower(e.body))

-----------------------------------------------------------------------------
(* A text is sealed, edited on its way, and written out again.             *)

EnvelopeInit ==
    /\ vaultText = NoText
    /\ sealed = NoText
    /\ plain = <<>>
    /\ password = CHOOSE pw \in Passwords : TRUE
    /\ harmless = TRUE
    /\ relabelled = FALSE
    /\ edits = 0

SealText(value, pw, salt) ==
    /\ sealed = NoText
    /\ vaultText' = EncryptWithVaultID(value, pw, salt, "1.2;label")
    /\ sealed' = vaultText'
    /\ plain' = value
    /\ password' = pw
    /\ UNCHANGED <<harmless, relabelled, edits>>

Body == FlattenSeq(vaultText.lines)

\* what editors and transports do to a text without touching its bytes
Reformatted ==
    {[vaultText EXCEPT !.eol = e] : e \in {"lf", "crlf"}}
    \cup {[vaultText EXCEPT !.final = n] : n \in {0, 1}}
    \cup {[vaultText EXCEPT !.lines[i][j].upper = ~@] :
            i \in DOMAIN vaultText.lines, j \in {1}}
    \cup {[vaultText EXCEPT !.lines = [i \in DOMAIN Body |-> <<Body[i]>>]]}

Reformat(t) ==
    /\ edits < MaxEdits
    /\ vaultText' = t
    /\ edits' = edits + 1
    /\ UNCHANGED <<sealed, plain, password, harmless, relabelled>>

Relabel(header) ==
    /\ edits < MaxEdits
    /\ vaultText' = [vaultText EXCEPT !.header = header]
    /\ relabelled' = TRUE
    /\ edits' = edits + 1
    /\ UNCHANGED <<sealed, plain, password, harmless>>

\* symbols that are not hexadecimal, of another place, or under another key
ForeignKey == Append(<<1>>, 1)
ForeignSymbols == {Sym("not hex", <<>>), Sym("salt", <<2>>), Separator,
                   Sym("cipher", Append(ForeignKey, 1)), Mac(ForeignKey, <<>>)}

\* and what damages it: bytes changed, dropped, doubled or cut off
DamagedBodies(b) ==
    (UNION {{[b EXCEPT ![i] = s] : s \in ForeignSymbols} : i \in DOMAIN b})
    \cup {RemoveAt(b, i) : i \in DOMAIN b}
    \cup {b \o SubSeq(b, Len(b) - BlockSize + 1, Len(b)),
          SubSeq(b, 1, Len(b) - BlockSize)}

\* blank lines, line ends and headers that are refused, everything on one line
DamagedTexts ==
    {serializeVaultEnvelope(vaultText.header, b) : b \in DamagedBodies(Body)}
    \cup {[vaultText EXCEPT !.final = 2], [vaultText EXCEPT !.eol = "cr"],
          [vaultText EXCEPT !.header = "unsupported"], [vaultText EXCEPT !.lines = <<Body>>]}

Damage(t) ==
    /\ edits < MaxEdits
    /\ vaultText' = t
    /\ harmless' = FALSE
    /\ edits' = edits + 1
    /\ UNCHANGED <<sealed, plain, password, relabelled>>

EnvelopeNext ==
    \/ \E value \in Plaintexts, pw \in Passwords, salt \in Salts : SealText(value, pw, salt)
    \/ sealed # NoText /\ edits < MaxEdits /\ \E t \in Reformatted : Reformat(t)
    \/ sealed # NoText /\ edits < MaxEdits /\ \E h \in Supported : Relabel(h)
    \/ sealed # NoText /\ edits < MaxEdits /\ harmless /\ \E t \in DamagedTexts : Damage(t)

EnvelopeSpec == EnvelopeInit /\ [][EnvelopeNext]_envelopeVars

-----------------------------------------------------------------------------
(* Properties.                                                             *)

(* What was sealed is opened again with its password, however long the     *)
(* value and whatever was done to line ends, case, width, final newline    *)
(* and label on the way.                                                   *)
Opens ==
    sealed # NoText /\ harmless =>
      Decrypt(vaultText, password) = [ok |-> TRUE, value |-> plain]

(* Whatever was done to the text, opening it gives what was sealed or      *)
(* nothing, and gives nothing under any other password.                    *)
OpensOnlyWhole ==
    \A pw \in Passwords :
      Decrypt(vaultText, pw) \in {Unopened} \cup
        (IF pw = password THEN {[ok |-> TRUE, value |-> plain]} ELSE {})

(* What Encrypt returns is its own canonical form (the check generated     *)
(* texts must pass), and reformatting a text does not change it: a proof   *)
(* over the canonical form holds for the text as it arrives.               *)
CanonicalForgetsFormat ==
    sealed # NoText /\ TextSize(sealed) <= MaxText =>
      /\ CanonicalEnvelope(sealed) = sealed
      /\ harmless /\ ~relabelled /\ TextSize(vaultText) <= MaxText => CanonicalEnvelope(vaultText) = sealed

(* Putting a text in canonical form changes neither what it opens to nor   *)
(* its header, and doing it again changes nothing.                         *)
CanonicalKeepsContent ==
    LET c == CanonicalEnvelope(vaultText)
    IN  c # NoText => /\ c.header = vaultText.header
                      /\ \A pw \in Passwords : Decrypt(c, pw) = Decrypt(vaultText, pw)
                      /\ TextSize(c) <= MaxText => CanonicalEnvelope(c) = c

(* What Encrypt sealed is opened again however the text was reformatted,   *)
(* anything else opens to nothing, and the canonical form keeps the        *)
(* content and forgets the format (Encrypt, Decrypt, CanonicalEnvelope).   *)
EnvelopeIsFaithful ==
    /\ Opens /\ OpensOnlyWhole
    /\ CanonicalForgetsFormat /\ CanonicalKeepsContent
=============================================================================
