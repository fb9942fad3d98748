------------------------ MODULE MCCompletionCallback ------------------------
(* Small instances of CompletionCallback for TLC.                          *)
EXTENDS CompletionCallback, TLC

CONSTANTS v1, v2, k1, k2, f1, f2, f3, t1, t2

TwoVars == {v1, v2}
TwoIds == {k1, k2}
ThreeTokens == {f1, f2, f3}
TwoThreads == {t1, t2}

\* Objects, subscriptions, tokens and threads are interchangeable.
Sym == Permutations(TwoVars) \cup Permutations(TwoIds)
         \cup Permutations(ThreeTokens) \cup Permutations(TwoThreads)
=============================================================================
