----------------------------- MODULE MCKeyValue -----------------------------
(* Two clients that compete for a key.  A watcher sees nothing of them but   *)
(* the writes applied, so while one is open a single client, whose revisions *)
(* get lost, writes what there is to see.  An update with revision 0, which  *)
(* is a put if it is not refused, runs against the other client's calls but  *)
(* not against late requests, and is neither late nor watched.               *)
EXTENDS KeyValue, TLC

CONSTANTS c1, c2, k1

Clients == {c1, c2}
Keys == {k1}
SomeOptions ==
  {[ignore_deletes |-> d, include_history |-> h, updates_only |-> u] :
     <<d, h, u>> \in {<<FALSE, FALSE, FALSE>>, <<FALSE, TRUE, FALSE>>,
                     <<FALSE, FALSE, TRUE>>, <<TRUE, FALSE, TRUE>>}}

Unconditional == {c \in Client : call[c] # None /\ Unspecified(call[c])}
Focus ==
  /\ \A q \in late : ~Unspecified(q)
  /\ Unconditional # {} => late = {} /\ watch = None
  /\ watch # None =>
       /\ late = {}
       /\ Cardinality({c \in Client : call[c] # None}) <= 1
       /\ \A c \in Client, k \in Key : known[c][k] = 0

Sym == Permutations(Clients)
=============================================================================
