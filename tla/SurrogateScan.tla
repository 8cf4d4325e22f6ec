---------------------------- MODULE SurrogateScan ----------------------------
(***************************************************************************)
(* hasValidJSONSurrogatePairs of backend/internal/httpapi/generate_http.go: *)
(* the scan over a JSON string that refuses an unpaired surrogate escape,   *)
(* which encoding/json would silently replace.  A string is what stands     *)
(* between its quotes, in characters: the backslash, the letter u, any      *)
(* other character "c", and four hexadecimal digits taken together that     *)
(* name a high surrogate "H", a low one "L" or any other unit "B" (which    *)
(* are plain text where no escape precedes them).                           *)
(***************************************************************************)
EXTENDS Naturals, Sequences, SequencesExt

CONSTANT MaxSymbols   \* longest string tried

ASSUME ScanAssumption == MaxSymbols \in Nat

Backslash == "bs"
Quads == {"H", "L", "B"}
Characters == {Backslash, "u", "c"} \cup Quads

VARIABLES
    raw,     \* the string
    index,   \* where the scan is
    verdict  \* "idle", "scanning", "valid" or "unpaired"

scanVars == <<raw, index, verdict>>

-----------------------------------------------------------------------------
(* JSON strings, as a decoder reads them.                                  *)

\* Each pair of backslashes is one escaped backslash, so one at i begins an
\* escape when an even number of them stands right before it.
EvenBefore(s, i) ==
    \E n \in 0..i - 1 :
      /\ n % 2 = 0
      /\ \A j \in i - n..i - 1 : s[j] = Backslash
      /\ n < i - 1 => s[i - n - 1] # Backslash

Escapes(s, i) == s[i] = Backslash /\ EvenBefore(s, i)

\* the escape of a code unit, which is named two places further on
Names(s, i) == i \in 1..Len(s) - 2 /\ Escapes(s, i) /\ s[i + 1] = "u"

\* a backslash is followed by an escapable character, or by u and four digits
WellFormed(s) ==
    \A i \in 1..Len(s) : Escapes(s, i) =>
      /\ i < Len(s)
      /\ \/ s[i + 1] \in {Backslash, "c"}
         \/ s[i + 1] = "u" /\ i + 1 < Len(s) /\ s[i + 2] \in Quads

-----------------------------------------------------------------------------
(* The scan.                                                               *)

ScanInit == raw = <<>> /\ index = 1 /\ verdict = "idle"

Begin ==
    /\ verdict = "idle"
    /\ raw' \in {s \in BoundedSeq(Characters, MaxSymbols) : WellFormed(s)}
    /\ verdict' = "scanning"
    /\ UNCHANGED index

\* the symbol at i; beyond the last one is the closing quote
At(i) == IF i <= Len(raw) THEN raw[i] ELSE "quote"

Scanning == verdict = "scanning" /\ index <= Len(raw)

\* a character that is not part of an escape
Text ==
    /\ Scanning
    /\ raw[index] # Backslash
    /\ index' = index + 1
    /\ UNCHANGED <<raw, verdict>>

\* Mutant of Escape: the escaped character is looked at again.
EscapeAgain ==
    /\ Scanning
    /\ raw[index] = Backslash
    /\ At(index + 1) # "u"
    /\ index' = index + 1
    /\ UNCHANGED <<raw, verdict>>

\* the escaped character is skipped: an escaped backslash before a u is text
Escape ==
    /\ Scanning
    /\ raw[index] = Backslash
    /\ At(index + 1) # "u"
    /\ index' = index + 2
    /\ UNCHANGED <<raw, verdict>>

\* an escaped unit: a high surrogate takes the escape of a low one with it
Unit ==
    LET unit == At(index + 2)
        paired == <<At(index + 3), At(index + 4), At(index + 5)>> = <<Backslash, "u", "L">>
    IN  /\ Scanning
        /\ raw[index] = Backslash
        /\ At(index + 1) = "u"
        /\ verdict' = IF unit = "L" \/ (unit = "H" /\ ~paired) THEN "unpaired" ELSE verdict
        /\ index' = IF unit = "H" THEN index + 6 ELSE index + 3
        /\ UNCHANGED raw

Finish ==
    /\ verdict = "scanning"
    /\ index > Len(raw)
    /\ verdict' = "valid"
    /\ UNCHANGED <<raw, index>>

ScanNext == Begin \/ Text \/ Escape \/ Unit \/ Finish

ScanSpec == ScanInit /\ [][ScanNext]_scanVars

-----------------------------------------------------------------------------
(* Properties.                                                             *)

\* Every escaped high surrogate is followed by an escaped low one of its own,
\* and every low one follows a high one: the string decodes without replacement.
Lossless(s) ==
    \A i \in 1..Len(s) : Names(s, i) =>
      /\ s[i + 2] = "H" => Names(s, i + 3) /\ s[i + 5] = "L"
      /\ s[i + 2] = "L" => i > 3 /\ Names(s, i - 3) /\ s[i - 1] = "H"

(* A string is let through exactly when it decodes to what was written:    *)
(* identity values are never rewritten, and text that only looks like an   *)
(* escape is not refused (hasValidJSONSurrogatePairs).                     *)
RefusesExactlyTheLossy ==
    /\ verdict = "valid" => Lossless(raw)
    /\ verdict = "unpaired" => ~Lossless(raw)
=============================================================================
