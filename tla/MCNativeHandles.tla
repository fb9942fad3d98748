--------------------------- MODULE MCNativeHandles ---------------------------
(* Two key_value objects and two wrappers for the moves; three contexts, so   *)
(* that delete_bucket runs while both objects have one.                       *)
EXTENDS NativeHandles, TLC

CONSTANTS o1, o2, w1, w2, c1, c2, c3, s1, s2, h1, h2, h3, d1

Objects == {o1, o2}
Wrappers == {w1, w2}
Contexts == {c1, c2, c3}
Stores == {s1, s2}
Handles == {h1, h2, h3}
OneTask == {d1}

Sym == UNION {Permutations(S) : S \in {Objects, Wrappers, Contexts, Stores, Handles}}
=============================================================================
