--------------------------- MODULE MCMemoryRules ---------------------------
(* Two texts that compete for one key, one of them also said without a key. *)
EXTENDS MemoryRules, TLC

CONSTANTS short, long, loose, everywhere, mail, anywhere, key

MCRules == {short, long, loose}
\* The first two have the key, the third has none.
MCSlots == {everywhere, mail, anywhere}
MCKeyOf == (everywhere :> key) @@ (mail :> key) @@ (anywhere :> None)
MCScopeOf == (everywhere :> 1) @@ (mail :> 2) @@ (anywhere :> 1)
MCSlotOf == (short :> everywhere) @@ (long :> everywhere) @@ (loose :> anywhere)
MCTextOf == (short :> 1) @@ (long :> 2) @@ (loose :> 1)
MCPatterns == {short}
Symmetry == Permutations(Rows) \cup Permutations(Requests)
=============================================================================
