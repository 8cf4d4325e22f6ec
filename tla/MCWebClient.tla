---------------------------- MODULE MCWebClient ----------------------------
(* Two environments and answers of the server between which every          *)
(* capability comes or goes.                                               *)
EXTENDS WebClient, TLC

Caps(enc, dec, to) == [encrypt |-> enc, decrypt |-> dec, to |-> to]

\* everything; one environment may only decrypt; only the other, and re-keying
MCSnapshots ==
    { 1 :> Caps(TRUE, TRUE, {2}) @@ 2 :> Caps(TRUE, TRUE, {1, 2}),
      1 :> Caps(FALSE, TRUE, {}) @@ 2 :> Caps(FALSE, FALSE, {}),
      1 :> Caps(FALSE, FALSE, {}) @@ 2 :> Caps(TRUE, FALSE, {1}) }

\* one goes everywhere, one stays and copies
MCUsers == { [views |-> {"verify", "generate"}, copies |-> {}],
             [views |-> {}, copies |-> {"result", "attestation"}] }

MCSymmetry == Permutations(Calls)
=============================================================================
