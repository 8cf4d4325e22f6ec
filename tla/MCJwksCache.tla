---------------------------- MODULE MCJwksCache ----------------------------
EXTENDS JwksCache, TLC

Plain == [noStore |-> FALSE, noCache |-> FALSE, revalidate |-> FALSE,
          sMaxage |-> Absent, maxAge |-> Absent, expires |-> Absent, age |-> 0,
          staleIfError |-> Absent]

\* more than the local ceilings allow
Generous == [Plain EXCEPT !.maxAge = 5, !.staleIfError = 5]
NotToStore == [Plain EXCEPT !.noStore = TRUE]
\* freshness used up, grace permitted
UsedUp == [Plain EXCEPT !.maxAge = 1, !.age = 1, !.staleIfError = 1]
Strict == [Plain EXCEPT !.sMaxage = 1, !.noCache = TRUE, !.staleIfError = 1]
\* an Expires header counts when no max-age does
Dated == [Plain EXCEPT !.expires = 1, !.revalidate = TRUE]

TwoHeaders == {Generous, NotToStore}
AllHeaders == TwoHeaders \cup {UsedUp, Strict, Dated, Plain}

Symmetry == Permutations(Kids) \cup Permutations(Callers)
=============================================================================
