------------------------- MODULE MCMessageOwnership -------------------------
(* Two threads, so that a handler or a second fetch runs while a message is  *)
(* released from its wrapper; four messages, so that a batch of three leaves *)
(* one to arrive meanwhile.                                                  *)
EXTENDS MessageOwnership, TLC

CONSTANTS m1, m2, m3, m4, v1, v2, t1, t2

Messages == {m1, m2, m3, m4}
Variables == {v1, v2}
Threads == {t1, t2}

Sym == Permutations(Messages) \cup Permutations(Variables) \cup Permutations(Threads)
=============================================================================
