--------------------------- MODULE PasswordSampler ---------------------------
(***************************************************************************)
(* GeneratePassword of backend/internal/generate.  Parameters are resolved  *)
(* to classes of characters with minima; a recurrence counts the passwords  *)
(* that meet them; a number of positions is drawn for every class but the   *)
(* last, each by a rank below the count, and then class and character of    *)
(* every position.  One draw from the random source is one step.  A step    *)
(* keeps the probability of the choices so far as the fraction odds: of the *)
(* equally likely values of the draw, how many lead to this choice.         *)
(***************************************************************************)
EXTENDS Integers, FiniteSets, Sequences, SequencesExt, FiniteSetsExt, Combinatorics

CONSTANTS Nil,              \* a parameter left out
          Requests,         \* parameters a caller may send
          Alphabets,        \* <<lowercase, uppercase, digits, symbols>>
          Ambiguous,        \* ambiguousAlphabet
          MinLength, MaxLength, DefaultLength,
          MaxClassMinimum,  \* maximumClassMinimum
          MinCardinality    \* minimumPasswordCardinality, 2^128 in the code

VARIABLES
    pc,        \* "idle", "counts", "characters", "done", "refused" or "failed"
    effective, \* the parameters in force
    counts,    \* positions given to the classes so far
    left,      \* per class, positions still to be filled
    password,  \* the characters drawn so far
    odds,      \* history: probability of the draws so far, [num, den]
    fault      \* history: the random source failed

vars == <<pc, effective, counts, left, password, odds, fault>>

RECURSIVE Gcd(_, _)
Gcd(a, b) == IF b = 0 THEN a ELSE Gcd(b, a % b)

\* `ways` of `limit` equally likely draws make this choice
Draw(ways, limit) ==
    LET num == odds.num * ways
        den == odds.den * limit
        g == Gcd(num, den)
    IN  odds' = [num |-> num \div g, den |-> den \div g]

-----------------------------------------------------------------------------
(* resolvePasswordParameters.                                              *)

orDefault(value, fallback) == IF value = Nil THEN fallback ELSE value

minimumOrDefault(value, enabled) ==
    IF value # Nil THEN value ELSE IF enabled THEN 1 ELSE 0

Defaults == <<TRUE, TRUE, TRUE, FALSE>>

Effective(p) ==
    LET on == [k \in 1..4 |-> orDefault(p.on[k], Defaults[k])]
    IN  [length |-> orDefault(p.length, DefaultLength),
         on |-> on,
         min |-> [k \in 1..4 |-> minimumOrDefault(p.min[k], on[k])],
         exclude |-> orDefault(p.exclude, FALSE)]

\* the characters class k may contribute
alphabet(e, k) == IF e.exclude THEN Alphabets[k] \ Ambiguous ELSE Alphabets[k]

\* the enabled classes in the order of their definition
classes(e) == SelectSeq(<<1, 2, 3, 4>>, LAMBDA k : e.on[k])

Valid(e) ==
    /\ e.length \in MinLength..MaxLength
    /\ \A k \in 1..4 : /\ e.min[k] \in 0..MaxClassMinimum
                       /\ e.on[k] => alphabet(e, k) # {}
                       /\ ~e.on[k] => e.min[k] = 0
    /\ Len(classes(e)) > 0
    /\ MapThenSumSet(LAMBDA k : e.min[k], {k \in 1..4 : e.on[k]}) <= e.length

-----------------------------------------------------------------------------
(* passwordCounter.  Classes are numbered by their place in classes(e).     *)

size(e, i) == Cardinality(alphabet(e, classes(e)[i]))
minimum(e, i) == e.min[classes(e)[i]]

\* what the classes from i on need at least
suffixMinimum(e, i) == MapThenSumSet(LAMBDA j : minimum(e, j), i..Len(classes(e)))

\* the most positions of `slots` that class i may take
maximum(e, i, slots) == slots - suffixMinimum(e, i + 1)

\* count and countWeight: passwords of `slots` positions over the classes from i on
count(e) ==
    LET n == Len(classes(e))
        f[i \in 1..n + 1, slots \in 0..e.length] ==
            IF i = n + 1
            THEN IF slots = 0 THEN 1 ELSE 0
            ELSE MapThenSumSet(
                   LAMBDA c : choose(slots, c) * size(e, i)^c * f[i + 1, slots - c],
                   minimum(e, i)..maximum(e, i, slots))
    IN  f

countWeight(e, i, slots, c) ==
    choose(slots, c) * size(e, i)^c * count(e)[i + 1, slots - c]

total(e) == count(e)[1, e.length]

\* the class count whose interval of ranks holds `rank`, or -1
classCountForRank(e, i, slots, rank) ==
    LET below(c) == MapThenSumSet(LAMBDA d : countWeight(e, i, slots, d),
                                  minimum(e, i)..c)
        held == {c \in minimum(e, i)..maximum(e, i, slots) : rank < below(c)}
    IN  IF rank \notin 0..count(e)[i, slots] - 1 \/ held = {} THEN -1 ELSE Min(held)

-----------------------------------------------------------------------------
(* GeneratePassword.                                                       *)

Init ==
    /\ pc = "idle"
    /\ effective = Nil
    /\ counts = <<>>
    /\ left = <<>>
    /\ password = <<>>
    /\ odds = [num |-> 1, den |-> 1]
    /\ fault = FALSE

\* everything is validated, the cardinality included, before the first draw
Resolve(p) ==
    /\ pc = "idle"
    /\ effective' = Effective(p)
    /\ pc' = IF ~Valid(effective') THEN "refused"
             ELSE IF total(effective') < MinCardinality THEN "refused" ELSE "counts"
    /\ UNCHANGED <<counts, left, password, odds, fault>>

n == Len(classes(effective))
remaining == effective.length - FoldLeft(LAMBDA a, b : a + b, 0, counts)

\* sampleClassCounts, the class whose count is settled next
sampleForced ==
    LET i == Len(counts) + 1
    IN  /\ pc = "counts"
        /\ i < n
        /\ minimum(effective, i) = maximum(effective, i, remaining)
        /\ counts' = Append(counts, minimum(effective, i))
        /\ UNCHANGED <<pc, effective, left, password, odds, fault>>

sampleRank ==
    LET i == Len(counts) + 1
        limit == count(effective)[i, remaining]
    IN  /\ pc = "counts"
        /\ i < n
        /\ minimum(effective, i) # maximum(effective, i, remaining)
        /\ \E c \in {classCountForRank(effective, i, remaining, r) : r \in 0..limit - 1} :
             LET ways == Cardinality({r \in 0..limit - 1 :
                           classCountForRank(effective, i, remaining, r) = c})
             IN  IF c < 0
                 THEN pc' = "failed" /\ UNCHANGED <<counts, odds>>
                 ELSE counts' = Append(counts, c) /\ Draw(ways, limit) /\ pc' = pc
        /\ UNCHANGED <<effective, left, password, fault>>

\* the last class takes what is left
sampleLast ==
    /\ pc = "counts"
    /\ Len(counts) = n - 1
    /\ counts' = Append(counts, remaining)
    /\ left' = counts'
    /\ pc' = "characters"
    /\ UNCHANGED <<effective, password, odds, fault>>

\* Mutant of classForChoice: the choice falls on a class, not on a position.
classForChoiceUniform(choice) ==
    LET open == {i \in 1..n : left[i] > 0}
    IN  Max({i \in open : Cardinality({j \in open : j < i}) <= choice})

\* selectRemainingClass: the class of the choice-th open position
classForChoice(choice) ==
    Min({i \in 1..n : choice < MapThenSumSet(LAMBDA j : left[j], 1..i)})

\* one position: its class, without a draw when only one is open, and its character
samplePasswordCharacters ==
    LET rest == effective.length - Len(password)
        open == {i \in 1..n : left[i] > 0}
    IN  /\ pc = "characters"
        /\ rest > 0
        /\ \E i \in 1..n :
             LET ways == IF Cardinality(open) = 1 THEN IF i \in open THEN 1 ELSE 0
                         ELSE Cardinality({c \in 0..rest - 1 : classForChoice(c) = i})
                 limit == IF Cardinality(open) = 1 THEN 1 ELSE rest
             IN  /\ ways > 0
                 /\ \E x \in alphabet(effective, classes(effective)[i]) :
                      password' = Append(password, x)
                 /\ Draw(ways, limit * size(effective, i))
                 /\ left' = [left EXCEPT ![i] = @ - 1]
        /\ UNCHANGED <<pc, effective, counts, fault>>

Return ==
    /\ pc = "characters"
    /\ Len(password) = effective.length
    /\ pc' = "done"
    /\ UNCHANGED <<effective, counts, left, password, odds, fault>>

\* a draw is due: cryptorand.Int is only asked where there is a choice
DrawDue ==
    \/ LET i == Len(counts) + 1
       IN  pc = "counts" /\ i < n /\ minimum(effective, i) # maximum(effective, i, remaining)
    \/ LET open == {i \in 1..n : left[i] > 0}
       IN  pc = "characters" /\ (Cardinality(open) > 1 \/ \E i \in open : size(effective, i) > 1)

\* the random source reports an error at a draw; what was drawn is cleared
RandomFails ==
    /\ DrawDue
    /\ pc' = "failed"
    /\ fault' = TRUE
    /\ password' = <<>>
    /\ UNCHANGED <<effective, counts, left, odds>>

Next ==
    \/ pc = "idle" /\ \E p \in Requests : Resolve(p)
    \/ sampleForced
    \/ sampleRank
    \/ sampleLast
    \/ samplePasswordCharacters
    \/ Return
    \/ RandomFails

Spec == Init /\ [][Next]_vars

-----------------------------------------------------------------------------
(* Properties.                                                             *)

\* The passwords that meet the parameters, by enumeration: what
\* docs/adr/0002-generate.md calls the accepted set.
Accepted(e) ==
    LET chars == UNION {alphabet(e, k) : k \in {k \in 1..4 : e.on[k]}}
    IN  {w \in [1..e.length -> chars] :
           \A k \in 1..4 : e.on[k] =>
             Cardinality({x \in 1..e.length : w[x] \in alphabet(e, k)}) >= e.min[k]}

(* Every password that meets the parameters is as likely as any other: the *)
(* draws that lead to it have probability one over the size of the         *)
(* accepted set, and it is in that set (GeneratePassword's contract).      *)
Uniform ==
    pc = "done" => /\ password \in Accepted(effective)
                   /\ odds.num * Cardinality(Accepted(effective)) = odds.den

(* Parameters are refused exactly when they ask for something out of       *)
(* bounds, contradict themselves, or leave fewer passwords than the        *)
(* minimum, counted by enumeration; a refusal has drawn nothing.           *)
RefusedIsWeak ==
    /\ pc = "counts" => Cardinality(Accepted(effective)) >= MinCardinality
    /\ pc = "refused" =>
         /\ odds = [num |-> 1, den |-> 1]
         /\ \/ effective.length \notin MinLength..MaxLength
            \/ \E k \in 1..4 : effective.min[k] \notin 0..MaxClassMinimum
            \/ \E k \in 1..4 : ~effective.on[k] /\ effective.min[k] # 0
            \/ \E k \in 1..4 : effective.on[k] /\ alphabet(effective, k) = {}
            \/ Cardinality(Accepted(effective)) < MinCardinality
    /\ pc \in {"counts", "characters", "done"} =>
         \A k \in 1..4 : effective.min[k] > 0 => effective.on[k]

(* Sampling gets through: it fails only when the random source does (no    *)
(* rank misses every class count, no choice misses every class).           *)
OnlySourceFails == pc = "failed" => fault
=============================================================================
