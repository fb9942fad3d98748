---------------------------- MODULE AwaitContract ----------------------------
(***************************************************************************)
(* What co_await on a future_awaitable promises the coroutine and its      *)
(* owner: every suspension ends at most once, either because the coroutine *)
(* is resumed or because it was destroyed while suspended, never both.     *)
(***************************************************************************)
CONSTANT Await       \* the co_await expressions of one coroutine

VARIABLE outcome     \* [Await -> what became of the suspension]

Init == outcome = [i \in Await |-> "none"]

\* From the first outcome to the second, for one suspension.
Becomes(i, a, b) == outcome[i] = a /\ outcome' = [outcome EXCEPT ![i] = b]

Next == \E i \in Await : \/ Becomes(i, "none", "suspended")
                         \/ Becomes(i, "suspended", "resumed")
                         \/ Becomes(i, "suspended", "cancelled")

Spec == Init /\ [][Next]_outcome
=============================================================================
