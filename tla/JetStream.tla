----------------------------- MODULE JetStream ------------------------------
(***************************************************************************)
(* Publishing to a stream and consuming from it with natscpp::jetstream,   *)
(* its consumers and the acknowledgements of natscpp::message.             *)
(*                                                                         *)
(* The stream and its durable consumer are external: log holds what was    *)
(* stored, a sequence is an index of it.  A publisher retries a publish    *)
(* that threw; the attempts of one message have the same options.          *)
(* Workers share the consumer, whose ack policy is explicit: with none or  *)
(* all a message is settled without an acknowledgement of its own.  They   *)
(* remember, by the sequence_stream of message::metadata, what they have   *)
(* handled, and skip it when it is delivered again.                        *)
(***************************************************************************)
EXTENDS Integers, FiniteSets, Sequences

CONSTANTS Msg, Worker,
          None,        \* nothing
          Options,     \* [Msg -> the js_publish_options it may be published with]
          max_deliver, \* js_consumer_config::max_deliver
          Overlap,     \* may messages be delivered while a publish is under way?
          MaxSeq,      \* bound: messages stored
          MaxAcks      \* bound: acknowledgements under way

\* Without a msg_id, expected_last_seq 0 and FALSE, an option is not set.
js_publish_options ==
  [msg_id : BOOLEAN, expected_last_seq : Nat, expect_no_message : BOOLEAN]

ASSUME ConstantsAssumption ==
  /\ Options \in [Msg -> SUBSET js_publish_options]
  /\ max_deliver \in Int /\ Overlap \in BOOLEAN
  /\ MaxSeq \in Nat /\ MaxAcks \in Nat \ {0}
  /\ None \notin Worker /\ None \notin js_publish_options

VARIABLES log,      \* stored: [msg, id, once]: did a msg_id come along, and had
            \* the program asked for that or for an expected_last_seq?
          pub,      \* [Msg -> [stage, opts, ack] of its publisher]
          late,     \* requests under way whose call has thrown: [msg, opts]
          st,       \* [1..MaxSeq -> state of the sequence in the consumer]
          count,    \* [1..MaxSeq -> times delivered]
          job,      \* [Worker -> the delivery it works on, or None]
          acks,     \* acknowledgements under way: [kind, seq, by]
          seen,     \* sequences the workers remember as handled
          effects,  \* [Msg -> times the workers acted on it]
          ended     \* [kind, seq]: ack_sync() has returned, term() was called

vars == <<log, pub, late, st, count, job, acks, seen, effects, ended>>
pubVars     == <<log, pub, late>>
consumeVars == <<st, count, job, acks, seen, effects, ended>>

-----------------------------------------------------------------------------
(* Publishing                                                              *)

NoOptions == [MsgId |-> FALSE, ExpectLastSeq |-> 0, ExpectNoMessage |-> FALSE]

\* Mutant: msg_id does not set has_opts.
pub_opts_without_id(o) ==
  IF o.expected_last_seq > 0 \/ o.expect_no_message
  THEN [MsgId |-> o.msg_id, ExpectLastSeq |-> o.expected_last_seq,
        ExpectNoMessage |-> o.expect_no_message]
  ELSE NoOptions

\* Mutant: the expectations do not set it.
pub_opts_with_id_only(o) ==
  IF o.msg_id
  THEN [MsgId |-> o.msg_id, ExpectLastSeq |-> o.expected_last_seq,
        ExpectNoMessage |-> o.expect_no_message]
  ELSE NoOptions

\* The jsPubOptions passed; without has_opts it is a null pointer.  An
\* ExpectLastSeq of 0 is no expectation.
pub_opts(o) ==
  LET has_opts == o.msg_id \/ o.expected_last_seq > 0 \/ o.expect_no_message IN
  IF has_opts
  THEN [MsgId |-> o.msg_id, ExpectLastSeq |-> o.expected_last_seq,
        ExpectNoMessage |-> o.expect_no_message]
  ELSE NoOptions

\* Where the server finds the msg_id of the request.
Identified(q) ==
  {s \in 1..Len(log) : log[s].msg = q.msg /\ log[s].id /\ pub_opts(q.opts).MsgId}

\* Do the expectations hold?
Expected(q) ==
  LET native == pub_opts(q.opts) IN
  /\ native.ExpectLastSeq > 0 => native.ExpectLastSeq = Len(log)
  /\ native.ExpectNoMessage => \A s \in 1..Len(log) : st[s] = "gone"

\* The server stores the message of request q, or finds it a duplicate; a is
\* the jsPubAck.
Store(q, a) ==
  IF Identified(q) # {}
  THEN /\ a.sequence \in Identified(q) /\ a.duplicate
       /\ UNCHANGED <<log, st>>
  ELSE /\ Expected(q) /\ Len(log) < MaxSeq
       /\ a = [sequence |-> Len(log) + 1, duplicate |-> FALSE]
       /\ log' = Append(log, [msg |-> q.msg, id |-> pub_opts(q.opts).MsgId,
                              once |-> q.opts.msg_id \/ q.opts.expected_last_seq > 0])
       /\ st' = [st EXCEPT ![a.sequence] = "avail"]

Refuses(q) == Identified(q) = {} /\ ~Expected(q)

Acks == [sequence : 1..MaxSeq, duplicate : BOOLEAN]
At(stage, o, a) == [stage |-> stage, opts |-> o, ack |-> a]
Request(m) == [msg |-> m, opts |-> pub[m].opts]

Init ==
  /\ log = <<>>
  /\ pub = [m \in Msg |-> At("idle", None, None)]
  /\ late = {}
  /\ st = [s \in 1..MaxSeq |-> "none"]
  /\ count = [s \in 1..MaxSeq |-> 0]
  /\ job = [w \in Worker |-> None]
  /\ acks = {}
  /\ seen = {}
  /\ effects = [m \in Msg |-> 0]
  /\ ended = {}

\* publish() or publish_msg().
Publish(m, o) ==
  /\ pub[m].stage = "idle"
  /\ pub' = [pub EXCEPT ![m] = At("sent", o, None)]
  /\ UNCHANGED <<log, late, consumeVars>>

\* A call that has thrown is repeated with the same options, or given up.  A
\* message may never be published at all.
Retry(m) ==
  /\ pub[m].stage = "thrown"
  /\ pub' = [pub EXCEPT ![m].stage = "sent"]
  /\ UNCHANGED <<log, late, consumeVars>>

GiveUp(m) ==
  /\ pub[m].stage \in {"idle", "thrown"}
  /\ pub' = [pub EXCEPT ![m] = At("over", None, None)]
  /\ UNCHANGED <<log, late, consumeVars>>

ServePublish(m) ==
  /\ pub[m].stage = "sent"
  /\ \E a \in Acks : /\ Store(Request(m), a)
                     /\ pub' = [pub EXCEPT ![m] = At("replied", @.opts, a)]
  /\ UNCHANGED <<late, count, job, acks, seen, effects, ended>>

\* An expectation does not hold: the call throws.
RefusePublish(m) ==
  /\ pub[m].stage = "sent" /\ Refuses(Request(m))
  /\ pub' = [pub EXCEPT ![m] = At("over", None, None)]
  /\ UNCHANGED <<log, late, consumeVars>>

\* Mutant: the acknowledgement is kept when the call throws.
PublishThrowsKeepingAck(m) ==
  /\ pub[m].stage \in {"sent", "replied"}
  /\ pub' = [pub EXCEPT ![m].stage = "thrown"]
  /\ \/ pub[m].stage = "sent" /\ late' = late \cup {Request(m)}
     \/ UNCHANGED late
  /\ UNCHANGED <<log, consumeVars>>

\* NATS_TIMEOUT: the reply is lost, or the request is, or it is under way.
PublishThrows(m) ==
  /\ pub[m].stage \in {"sent", "replied"}
  /\ pub' = [pub EXCEPT ![m] = At("thrown", @.opts, None)]
  /\ \/ pub[m].stage = "sent" /\ late' = late \cup {Request(m)}
     \/ UNCHANGED late
  /\ UNCHANGED <<log, consumeVars>>

\* extract_pub_ack copies the acknowledgement and the call returns it.
PublishReturns(m) ==
  /\ pub[m].stage = "replied"
  /\ pub' = [pub EXCEPT ![m] = At("over", None, None)]
  /\ UNCHANGED <<log, late, consumeVars>>

\* A late request is stored, refused or lost.
ServeLate(q) ==
  /\ late' = late \ {q}
  /\ \/ \E a \in Acks : Store(q, a)
     \/ UNCHANGED <<log, st>>
  /\ UNCHANGED <<pub, count, job, acks, seen, effects, ended>>

-----------------------------------------------------------------------------
(* Consuming                                                               *)

Quiet == late = {} /\ \A m \in Msg : pub[m].stage = "over"

\* A max_deliver below 0 is not set; the server takes 0 for unlimited.
MaxDeliver == IF max_deliver >= 0 THEN max_deliver ELSE 0
Exhausted(s) == MaxDeliver > 0 /\ count[s] >= MaxDeliver

\* next() of a consumer returns a message.
Deliver(w, s) ==
  /\ job[w] = None /\ st[s] = "avail" /\ ~Exhausted(s)
  /\ Overlap \/ Quiet
  /\ job' = [job EXCEPT ![w] = [seq |-> s, stage |-> "got"]]
  /\ st' = [st EXCEPT ![s] = "out"]
  /\ count' = [count EXCEPT ![s] = @ + 1]
  /\ UNCHANGED <<pubVars, acks, seen, effects, ended>>

\* What get_metadata() says of the place in the stream.
sequence_stream(j) == j.seq

\* The worker acts on the message, unless it remembers its sequence.
Handle(w) ==
  /\ job[w] # None /\ job[w].stage = "got"
  /\ LET s == sequence_stream(job[w]) IN
     /\ seen' = seen \cup {s}
     /\ effects' = IF s \in seen THEN effects ELSE [effects EXCEPT ![log[s].msg] = @ + 1]
  /\ job' = [job EXCEPT ![w].stage = "handled"]
  /\ UNCHANGED <<pubVars, st, count, acks, ended>>

\* An acknowledgement is published; the worker goes on at once and destroys the
\* message.
Tell(w, stage, kind) ==
  /\ job[w] # None /\ job[w].stage = stage
  /\ Cardinality(acks) < MaxAcks
  /\ acks' = acks \cup {[kind |-> kind, seq |-> job[w].seq, by |-> None]}
  /\ job' = [job EXCEPT ![w] = None]
  /\ UNCHANGED <<pubVars, st, count, seen, effects>>

Ack(w) == Tell(w, "handled", "ack") /\ UNCHANGED ended

\* Mutant: natsMsg_Ack is called for natsMsg_Nak.
NakByAck(w) == Tell(w, "got", "ack") /\ UNCHANGED ended

\* The worker could not handle the message: it is to be delivered again.
Nak(w) == Tell(w, "got", "nak") /\ UNCHANGED ended

\* The same, but not before the delay is over.
NakWithDelay(w) == Tell(w, "got", "delay") /\ UNCHANGED ended

\* The message is not to be delivered again.
Term(w) ==
  /\ Tell(w, "got", "term")
  /\ ended' = ended \cup {[kind |-> "term", seq |-> job[w].seq]}

\* The message is destroyed without an acknowledgement, or its worker is gone.
Abandon(w) ==
  /\ job[w] # None /\ job[w].stage \in {"got", "handled"}
  /\ job' = [job EXCEPT ![w] = None]
  /\ UNCHANGED <<pubVars, st, count, acks, seen, effects, ended>>

\* Mutant: natsMsg_Ack is called for natsMsg_AckSync.
AckSyncByAck(w) ==
  /\ Tell(w, "handled", "ack")
  /\ ended' = ended \cup {[kind |-> "sync", seq |-> job[w].seq]}

\* ack_sync() waits for the server.
AckSync(w) ==
  /\ job[w] # None /\ job[w].stage = "handled"
  /\ Cardinality(acks) < MaxAcks
  /\ acks' = acks \cup {[kind |-> "ack", seq |-> job[w].seq, by |-> w]}
  /\ job' = [job EXCEPT ![w].stage = "syncing"]
  /\ UNCHANGED <<pubVars, st, count, seen, effects, ended>>

AckSyncReturns(w) ==
  /\ job[w] # None /\ job[w].stage = "synced"
  /\ ended' = ended \cup {[kind |-> "sync", seq |-> job[w].seq]}
  /\ job' = [job EXCEPT ![w] = None]
  /\ UNCHANGED <<pubVars, st, count, acks, seen, effects>>

\* Mutant: ack_sync() waits without a timeout.
AckSyncThrowsNever(w) == FALSE /\ AckSyncReturns(w)

\* NATS_TIMEOUT, whether the server has taken the acknowledgement or not.
AckSyncThrows(w) ==
  /\ job[w] # None /\ job[w].stage \in {"syncing", "synced"}
  /\ job' = [job EXCEPT ![w] = None]
  /\ UNCHANGED <<pubVars, st, count, acks, seen, effects, ended>>

\* The server takes an acknowledgement, of whichever delivery.  What it says of a
\* message that is settled is ignored.
ServeAck(a) ==
  /\ acks' = acks \ {a}
  /\ st' = [st EXCEPT ![a.seq] =
              CASE @ \in {"avail", "out"} /\ a.kind \in {"ack", "term"} -> "done"
                [] @ = "out" /\ a.kind = "nak" -> "avail"
                [] OTHER -> @]
  /\ job' = [w \in Worker |->
               IF a.by = w /\ job[w] # None /\ job[w].stage = "syncing" /\ job[w].seq = a.seq
               THEN [job[w] EXCEPT !.stage = "synced"] ELSE job[w]]
  /\ UNCHANGED <<pubVars, count, seen, effects, ended>>

LoseAck(a) ==
  /\ acks' = acks \ {a}
  /\ UNCHANGED <<pubVars, st, count, job, seen, effects, ended>>

\* ack_wait is over, or the delay of a nak.
AckWaitExpires(s) ==
  /\ st[s] = "out"
  /\ st' = [st EXCEPT ![s] = "avail"]
  /\ UNCHANGED <<pubVars, count, job, acks, seen, effects, ended>>

\* delete_msg() and erase_msg() remove one message, purge_stream() all.
Remove(S) ==
  /\ st' = [s \in 1..MaxSeq |-> IF s \in S THEN "gone" ELSE st[s]]
  /\ UNCHANGED <<pubVars, count, job, acks, seen, effects, ended>>

delete_msg(s) == Remove({s})
purge_stream  == Remove(1..Len(log))

-----------------------------------------------------------------------------
Next ==
  \/ \E m \in Msg : \/ \E o \in Options[m] : Publish(m, o)
                    \/ Retry(m) \/ GiveUp(m) \/ ServePublish(m) \/ RefusePublish(m)
                    \/ PublishThrows(m) \/ PublishReturns(m)
  \/ \E q \in late : ServeLate(q)
  \/ \E w \in Worker, s \in 1..MaxSeq : Deliver(w, s)
  \/ \E w \in Worker : \/ Handle(w) \/ Ack(w)
                       \/ AckSync(w) \/ AckSyncReturns(w) \/ AckSyncThrows(w)
                       \/ Nak(w) \/ NakWithDelay(w) \/ Term(w) \/ Abandon(w)
  \/ \E a \in acks : ServeAck(a) \/ LoseAck(a)
  \/ \E s \in 1..MaxSeq : AckWaitExpires(s)
  \/ \E s \in 1..Len(log) : delete_msg(s)
  \/ purge_stream

Spec == Init /\ [][Next]_vars

\* Workers call next() again and again, and what a worker does ends: it
\* acknowledges, or destroys the message.  The server's timers run.
Works(w) ==
  \/ Handle(w) \/ Ack(w) \/ AckSync(w) \/ AckSyncReturns(w) \/ AckSyncThrows(w)
  \/ Nak(w) \/ NakWithDelay(w) \/ Term(w) \/ Abandon(w)
FairSpec ==
  /\ Spec
  /\ \A w \in Worker : WF_vars(Works(w))
  /\ \A s \in 1..MaxSeq : /\ WF_vars(\E w \in Worker : Deliver(w, s))
                          /\ WF_vars(AckWaitExpires(s))

-----------------------------------------------------------------------------
\* Types; the consumer knows what is stored, and works on nothing else.
TypeOK ==
  /\ log \in Seq([msg : Msg, id : BOOLEAN, once : BOOLEAN]) /\ Len(log) <= MaxSeq
  /\ pub \in [Msg -> [stage : {"idle", "sent", "replied", "thrown", "over"},
                      opts : js_publish_options \cup {None}, ack : Acks \cup {None}]]
  /\ \A m \in Msg :
       /\ pub[m].opts = None <=> pub[m].stage \in {"idle", "over"}
       /\ IF pub[m].stage = "replied" THEN pub[m].ack \in Acks ELSE pub[m].ack = None
  /\ late \subseteq [msg : Msg, opts : js_publish_options]
  /\ st \in [1..MaxSeq -> {"none", "avail", "out", "done", "gone"}]
  /\ \A s \in 1..MaxSeq : st[s] = "none" <=> s > Len(log)
  /\ count \in [1..MaxSeq -> Nat]
  /\ job \in [Worker -> [seq : 1..Len(log), stage : {"got", "handled", "syncing", "synced"}]
                        \cup {None}]
  /\ acks \subseteq [kind : {"ack", "nak", "delay", "term"}, seq : 1..Len(log),
                     by : Worker \cup {None}]
  /\ seen \subseteq 1..Len(log)
  /\ effects \in [Msg -> Nat]
  /\ ended \subseteq [kind : {"sync", "term"}, seq : 1..Len(log)]

\* A message published with a msg_id or an expected_last_seq is stored once,
\* however often publish() threw and was repeated, and whichever of the requests arrive.
RetriedOnce ==
  \A s, t \in 1..Len(log) : log[s].once /\ log[s].msg = log[t].msg => s = t

\* A js_pub_ack says where the message is; with an expectation, that it was
\* stored right behind what was expected, or first, also if an earlier attempt did it.
PubAckHolds ==
  \A m \in Msg : pub[m].stage = "replied" =>
    LET o == pub[m].opts
        s == pub[m].ack.sequence
    IN /\ s \in 1..Len(log) /\ log[s].msg = m
       /\ pub[m].ack.duplicate => o.msg_id
       /\ o.expected_last_seq > 0 => s = o.expected_last_seq + 1
       /\ o.expect_no_message => \A t \in 1..(s - 1) : st[t] = "gone"

\* What the consumer will not deliver again although it is not exhausted was
\* handled, or given up by term(): no late, lost or repeated acknowledgement,
\* nak or expiry of another delivery settles it.
NoLoss ==
  \A s \in 1..MaxSeq : st[s] = "done" =>
    s \in seen \/ [kind |-> "term", seq |-> s] \in ended

\* From publisher to worker: a message published with a msg_id or an
\* expected_last_seq is acted on once, although it may be published and delivered several times.
EffectOnce ==
  \A s \in 1..Len(log) : log[s].once => effects[log[s].msg] <= 1

\* Publishers, the stream and its workers together implement a queue: messages are
\* stored and acted on once though publishes are repeated and deliveries expire,
\* nothing leaves it unhandled, and what ack_sync() has confirmed is not delivered again.
Queue == INSTANCE WorkQueue
           WITH Entry    <- [msg : Msg, id : BOOLEAN, once : BOOLEAN],
                Sequence <- 1..MaxSeq,
                Limit    <- MaxDeliver,
                receipt  <- [m \in Msg |-> IF pub[m].stage = "replied"
                                          THEN pub[m].ack.sequence ELSE None],
                open     <- {s \in 1..MaxSeq : st[s] \in {"avail", "out"}},
                settled  <- {s \in 1..MaxSeq : st[s] = "done"},
                acted    <- seen,
                given    <- {s \in 1..MaxSeq : [kind |-> "term", seq |-> s] \in ended},
                final    <- {s \in 1..MaxSeq : [kind |-> "sync", seq |-> s] \in ended}
IsQueue == Queue!Spec

\* With a max_deliver above 0, a stored message is delivered until it is settled,
\* deleted, or has been delivered that often; a worker that loses the reply of an ack_sync()
\* does not keep the others' messages waiting.
Settles ==
  \A s \in 1..MaxSeq :
    st[s] = "avail" /\ Quiet ~> st[s] \in {"done", "gone"} \/ Exhausted(s)
=============================================================================
