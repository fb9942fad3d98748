------------------------------ MODULE WorkQueue ------------------------------
(***************************************************************************)
(* What publishing to a stream and working off its durable consumer        *)
(* promise together, whichever requests, replies, deliveries and           *)
(* acknowledgements are lost, late or repeated.  A message that is to be   *)
(* stored once is; somebody acts on a sequence once; it leaves the queue   *)
(* only when somebody has acted on it or given it up, or it is deleted;    *)
(* and once a worker was told that it has left, it does not come back.     *)
(***************************************************************************)
EXTENDS Naturals, Sequences

CONSTANTS Msg,
          Entry,     \* what is stored: [msg, once, ...]
          Sequence,  \* the sequences of the stream
          Limit,     \* deliveries of one sequence; 0 for any number
          None

VARIABLES log,      \* all that was stored
          receipt,  \* [Msg -> the sequence its publisher is told, or None]
          open,     \* sequences to be delivered
          settled,  \* sequences that need not be, and are stored
          count,    \* [Sequence -> times delivered]
          acted,    \* sequences that somebody acted on
          effects,  \* [Msg -> times somebody acted on it]
          given,    \* sequences that somebody gave up
          final     \* sequences whose worker was told that they are settled

vars == <<log, receipt, open, settled, count, acted, effects, given, final>>

Init ==
  /\ log = <<>>
  /\ receipt = [m \in Msg |-> None]
  /\ open = {} /\ settled = {}
  /\ count = [s \in Sequence |-> 0]
  /\ acted = {} /\ given = {} /\ final = {}
  /\ effects = [m \in Msg |-> 0]

\* The publisher may be told where its message was stored, or never learn it.
Store(e) ==
  /\ \A s \in 1..Len(log) : log[s].msg = e.msg => ~log[s].once /\ ~e.once
  /\ log' = Append(log, e)
  /\ open' = open \cup {Len(log) + 1}
  /\ receipt' \in {receipt, [receipt EXCEPT ![e.msg] = Len(log) + 1]}
  /\ UNCHANGED <<settled, count, acted, effects, given, final>>

\* It is told where an earlier attempt was stored, ...
Recall(s) ==
  /\ receipt' = [receipt EXCEPT ![log[s].msg] = s]
  /\ UNCHANGED <<log, open, settled, count, acted, effects, given, final>>

\* ... and that is returned, or lost.
Forget(m) ==
  /\ receipt' = [receipt EXCEPT ![m] = None]
  /\ UNCHANGED <<log, open, settled, count, acted, effects, given, final>>

Deliver(s) ==
  /\ s \in open /\ (Limit = 0 \/ count[s] < Limit)
  /\ count' = [count EXCEPT ![s] = @ + 1]
  /\ UNCHANGED <<log, receipt, open, settled, acted, effects, given, final>>

Act(s) ==
  /\ count[s] > 0 /\ s \notin acted
  /\ acted' = acted \cup {s}
  /\ effects' = [effects EXCEPT ![log[s].msg] = @ + 1]
  /\ UNCHANGED <<log, receipt, open, settled, count, given, final>>

GiveUp(s) ==
  /\ count[s] > 0
  /\ given' = given \cup {s}
  /\ UNCHANGED <<log, receipt, open, settled, count, acted, effects, final>>

Settle(s) ==
  /\ s \in open /\ s \in acted \cup given
  /\ open' = open \ {s} /\ settled' = settled \cup {s}
  /\ UNCHANGED <<log, receipt, count, acted, effects, given, final>>

Confirm(s) ==
  /\ s \in acted \ open
  /\ final' = final \cup {s}
  /\ UNCHANGED <<log, receipt, open, settled, count, acted, effects, given>>

Remove(S) ==
  /\ open' = open \ S /\ settled' = settled \ S
  /\ UNCHANGED <<log, receipt, count, acted, effects, given, final>>

Next ==
  \/ \E e \in Entry : Store(e)
  \/ \E m \in Msg : Forget(m)
  \/ \E s \in 1..Len(log) : \/ Recall(s) \/ Deliver(s) \/ Act(s) \/ GiveUp(s)
                            \/ Settle(s) \/ Confirm(s)
  \/ \E S \in SUBSET (1..Len(log)) : Remove(S)

Spec == Init /\ [][Next]_vars
=============================================================================
