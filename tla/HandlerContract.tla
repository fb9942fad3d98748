--------------------------- MODULE HandlerContract ---------------------------
(***************************************************************************)
(* What the library promises about a handler that nats.c may call (of a    *)
(* subscription, of its completion, of the life of a connection): the heap *)
(* cell that holds it is occupied before nats.c can enter it, is entered   *)
(* only while it is occupied, and is vacated only while no invocation is   *)
(* inside it.  A cell can be reused for a later handler.                   *)
(***************************************************************************)
CONSTANT Id          \* heap cells for handlers

VARIABLES held,      \* cells that hold a live handler
          inside     \* cells whose handler is being executed

vars == <<held, inside>>

Init == held = {} /\ inside = {}

Hold(k)   == k \notin held /\ held' = held \cup {k} /\ UNCHANGED inside
Enter(k)  == k \in held \ inside /\ inside' = inside \cup {k} /\ UNCHANGED held
Return(k) == k \in inside /\ inside' = inside \ {k} /\ UNCHANGED held
Free(k)   == k \in held \ inside /\ held' = held \ {k} /\ UNCHANGED inside

Next == \E k \in Id : Hold(k) \/ Enter(k) \/ Return(k) \/ Free(k)

Spec == Init /\ [][Next]_vars
=============================================================================
