---------------------------- MODULE AtomicBucket ----------------------------
(***************************************************************************)
(* What the operations of a bucket promise, whatever the bucket forgets    *)
(* and however long requests take: a key has a value or none, and each     *)
(* call takes effect at one moment between its beginning and its return.   *)
(* A call that throws takes effect at one such moment, or later, or never. *)
(***************************************************************************)
EXTENDS Naturals, Sequences

CONSTANTS Client,
          Request,   \* what is called: [client, op, key, rev, ...]
          None

VARIABLES log,       \* all that was written
          call,      \* [Client -> the call under way, or None]
          reply,     \* [Client -> what it will return, or None]
          late       \* calls that threw and may still take effect

vars == <<log, call, reply, late>>

Erased == {"Delete", "Purge"}

\* The value of the key is the one written at revision r.
Holds(k, r) ==
  /\ r \in 1..Len(log)
  /\ log[r].key = k /\ log[r].op \notin Erased
  /\ \A s \in 1..Len(log) : log[s].key = k => s <= r

Missing(k) == \A r \in 1..Len(log) : ~Holds(k, r)

\* Nothing is promised of update() with revision 0.
Open(q) == q.op = "update" /\ q.rev = 0

\* create() needs a key without a value, update() the value it was given.
Admits(q) ==
  /\ q.op = "create" => Missing(q.key)
  /\ q.op = "update" => Open(q) \/ Holds(q.key, q.rev)

\* What a call writes.
Entry(q) == [op |-> CASE q.op = "erase" -> "Delete"
                      [] q.op = "purge" -> "Purge"
                      [] OTHER -> "Put",
             key |-> q.key, value |-> q.client]

Init ==
  /\ log = <<>>
  /\ call = [c \in Client |-> None]
  /\ reply = [c \in Client |-> None]
  /\ late = {}

Begin(c) ==
  /\ call[c] = None
  /\ call'[c] \in Request /\ call'[c].client = c
  /\ call' = [call EXCEPT ![c] = call'[c]]
  /\ UNCHANGED <<log, reply, late>>

Pending(c) == call[c] # None /\ reply[c] = None
Answer(c, ok, r) ==
  /\ reply' = [reply EXCEPT ![c] = [ok |-> ok, rev |-> r]]
  /\ UNCHANGED <<call, late>>

Read(c) ==
  /\ Pending(c) /\ call[c].op = "get"
  /\ IF Missing(call[c].key)
     THEN Answer(c, FALSE, 0)
     ELSE \E r \in 1..Len(log) : Holds(call[c].key, r) /\ Answer(c, TRUE, r)
  /\ UNCHANGED log

Write(c) ==
  /\ Pending(c) /\ call[c].op # "get" /\ Admits(call[c])
  /\ log' = Append(log, Entry(call[c]))
  /\ Answer(c, TRUE, Len(log) + 1)

Refuse(c) ==
  /\ Pending(c) /\ (~Admits(call[c]) \/ Open(call[c]))
  /\ Answer(c, FALSE, 0)
  /\ UNCHANGED log

Ends(c) ==
  /\ call[c] # None
  /\ call' = [call EXCEPT ![c] = None]
  /\ reply' = [reply EXCEPT ![c] = None]
  /\ UNCHANGED log

\* The call returns, or throws what it was answered.
Return(c) == reply[c] # None /\ Ends(c) /\ UNCHANGED late

\* It throws without an answer, or without having seen it.
Expire(c) ==
  /\ Ends(c)
  /\ late' = late \/ (reply[c] = None /\ late' = late \cup {call[c]})

LateWrite(q) ==
  /\ q.op # "get" /\ Admits(q)
  /\ log' = Append(log, Entry(q))
  /\ late' = late \ {q}
  /\ UNCHANGED <<call, reply>>

Lose(q) == late' = late \ {q} /\ UNCHANGED <<log, call, reply>>

Next ==
  \/ \E c \in Client : \/ Begin(c) \/ Read(c) \/ Write(c) \/ Refuse(c)
                       \/ Return(c) \/ Expire(c)
  \/ \E q \in late : LateWrite(q) \/ Lose(q)

Spec == Init /\ [][Next]_vars
=============================================================================
