------------------------- MODULE MCCallbackRegistry -------------------------
(* Small instances of CallbackRegistry for TLC.                            *)
EXTENDS CallbackRegistry, TLC

CONSTANTS v1, v2, v3, k1, k2, k3, r1

ThreeVars == {v1, v2, v3}
ThreeIds == {k1, k2, k3}
OneRequest == {r1}

\* Objects, registrations and requests are interchangeable.
Sym == Permutations(ThreeVars) \cup Permutations(ThreeIds)
=============================================================================
