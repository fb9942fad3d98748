-------------------------- MODULE JetStreamProofs --------------------------
(***************************************************************************)
(* Publishing and consuming: proofs for any number of messages and workers *)
(* and any options, whether or not messages are delivered while a publish  *)
(* is under way.                                                           *)
(***************************************************************************)
EXTENDS JetStream, SequenceTheorems, TLAPS

Waiting == {"sent", "replied", "thrown"}

\* A request with the message and these options may still reach the server: its
\* publisher waits or will repeat it, or its call has thrown.
Attempt(m, o) ==
  \/ [msg |-> m, opts |-> o] \in late
  \/ pub[m].stage \in Waiting /\ pub[m].opts = o

\* All attempts of a message have the same options.
Attempts ==
  \A m \in Msg, o, p \in js_publish_options : Attempt(m, o) /\ Attempt(m, p) => o = p

\* Before it is published nothing of a message is under way or stored.
Fresh ==
  \A m \in Msg : pub[m].stage = "idle" =>
    /\ \A o \in js_publish_options : ~Attempt(m, o)
    /\ \A s \in 1..Len(log) : log[s].msg # m

\* What was stored of a message fulfils the options of its attempts.
Fulfils(s, o) ==
  /\ log[s].id <=> o.msg_id
  /\ log[s].once <=> o.msg_id \/ o.expected_last_seq > 0
  /\ o.expected_last_seq > 0 => s = o.expected_last_seq + 1
  /\ o.expect_no_message => \A t \in 1..(s - 1) : st[t] = "gone"
Stored ==
  \A s \in 1..Len(log), m \in Msg, o \in js_publish_options :
    log[s].msg = m /\ Attempt(m, o) => Fulfils(s, o)

\* An acknowledgement is about the message it answers.
Acked ==
  \A m \in Msg : pub[m].stage = "replied" =>
    /\ pub[m].ack.sequence \in 1..Len(log)
    /\ log[pub[m].ack.sequence].msg = m
    /\ pub[m].ack.duplicate => pub[m].opts.msg_id

PublishInv == Attempts /\ Fresh /\ Stored /\ RetriedOnce /\ Acked

\* The workers act on a message when they remember its sequence.
Acted ==
  /\ \A s \in 1..Len(log) :
       log[s].once => effects[log[s].msg] = IF s \in seen THEN 1 ELSE 0
  /\ \A m \in Msg : (\A s \in 1..Len(log) : log[s].msg # m) => effects[m] = 0

\* An acknowledgement under way is one of a message that was handled or given
\* up, whichever delivery it is of.
Told ==
  /\ \A w \in Worker : job[w] # None /\ job[w].stage # "got" => job[w].seq \in seen
  /\ \A a \in acks : /\ a.kind = "ack" => a.seq \in seen
                     /\ a.kind = "term" => [kind |-> "term", seq |-> a.seq] \in ended
                     /\ a.by # None => a.kind = "ack"

\* What the server has confirmed is settled.
Confirmed ==
  /\ \A w \in Worker :
       job[w] # None /\ job[w].stage = "synced" => st[job[w].seq] \in {"done", "gone"}
  /\ \A s \in 1..MaxSeq :
       [kind |-> "sync", seq |-> s] \in ended => st[s] \in {"done", "gone"}

ConsumeInv == Acted /\ Told /\ NoLoss /\ Confirmed

\* The inductive invariant.
IInv == TypeOK /\ PublishInv /\ ConsumeInv

-----------------------------------------------------------------------------
\* jsPubOptions says what js_publish_options says, null pointer or not.
LEMMA PubOptions ==
  ASSUME NEW o \in js_publish_options
  PROVE  /\ pub_opts(o).MsgId = o.msg_id
         /\ pub_opts(o).ExpectLastSeq = o.expected_last_seq
         /\ pub_opts(o).ExpectNoMessage = o.expect_no_message
<1>1. o.msg_id \in BOOLEAN /\ o.expected_last_seq \in Nat /\ o.expect_no_message \in BOOLEAN
  BY DEF js_publish_options
<1>2. CASE o.msg_id \/ o.expected_last_seq > 0 \/ o.expect_no_message
  BY <1>2 DEF pub_opts
<1>3. CASE ~(o.msg_id \/ o.expected_last_seq > 0 \/ o.expect_no_message)
  <2>1. pub_opts(o) = [MsgId |-> FALSE, ExpectLastSeq |-> 0, ExpectNoMessage |-> FALSE]
    BY <1>3 DEF pub_opts, NoOptions
  <2>2. o.msg_id = FALSE /\ o.expect_no_message = FALSE
    BY <1>1, <1>3
  <2>3. o.expected_last_seq = 0
    BY <1>1, <1>3
  <2>4. /\ pub_opts(o).MsgId = FALSE
        /\ pub_opts(o).ExpectLastSeq = 0
        /\ pub_opts(o).ExpectNoMessage = FALSE
    BY <2>1
  <2> HIDE DEF pub_opts
  <2> QED
    BY <2>2, <2>3, <2>4, Zenon
<1> QED
  BY <1>2, <1>3

\* What a request does that adds nothing, ...
Duplicate(q, a) ==
  /\ a.duplicate /\ q.opts.msg_id
  /\ a.sequence \in 1..Len(log) /\ log[a.sequence].msg = q.msg
  /\ UNCHANGED <<log, st>>

\* ... and what one does that is stored.
Appended(q, a) ==
  /\ ~a.duplicate /\ Len(log) < MaxSeq /\ a.sequence = Len(log) + 1
  /\ Len(log') = Len(log) + 1
  /\ \A s \in 1..Len(log) : log'[s] = log[s]
  /\ log'[Len(log) + 1].msg = q.msg
  /\ log'[Len(log) + 1].id <=> q.opts.msg_id
  /\ log'[Len(log) + 1].once <=> q.opts.msg_id \/ q.opts.expected_last_seq > 0
  /\ st' = [st EXCEPT ![Len(log) + 1] = "avail"]
  /\ q.opts.msg_id => \A s \in 1..Len(log) : ~(log[s].msg = q.msg /\ log[s].id)
  /\ q.opts.expected_last_seq > 0 => q.opts.expected_last_seq = Len(log)
  /\ q.opts.expect_no_message => \A s \in 1..Len(log) : st[s] = "gone"

\* The server does one or the other.
LEMMA Stores ==
  ASSUME TypeOK, NEW q \in [msg : Msg, opts : js_publish_options], NEW a \in Acks,
         Store(q, a)
  PROVE  /\ Duplicate(q, a) \/ Appended(q, a)
         /\ log' \in Seq([msg : Msg, id : BOOLEAN, once : BOOLEAN])
<1>1. q.msg \in Msg /\ q.opts \in js_publish_options
  OBVIOUS
<1>2. /\ Len(log) \in Nat
      /\ \A s \in 1..Len(log) : log[s] \in [msg : Msg, id : BOOLEAN, once : BOOLEAN]
  BY ElementOfSeq, LenProperties DEF TypeOK
<1>3. CASE Identified(q) # {}
  <2>1. a.sequence \in Identified(q) /\ a.duplicate /\ UNCHANGED <<log, st>>
    BY <1>3 DEF Store
  <2>2. Duplicate(q, a)
    BY <1>1, <2>1, PubOptions DEF Identified, Duplicate
  <2> QED
    BY <2>1, <2>2 DEF TypeOK
<1>4. CASE Identified(q) = {}
  <2> DEFINE entry == [msg |-> q.msg, id |-> pub_opts(q.opts).MsgId,
                       once |-> q.opts.msg_id \/ q.opts.expected_last_seq > 0]
  <2>1. /\ Expected(q) /\ Len(log) < MaxSeq
        /\ a = [sequence |-> Len(log) + 1, duplicate |-> FALSE]
        /\ log' = Append(log, entry)
        /\ st' = [st EXCEPT ![a.sequence] = "avail"]
    BY <1>4 DEF Store
  <2>2. entry \in [msg : Msg, id : BOOLEAN, once : BOOLEAN]
    BY <1>1, PubOptions DEF js_publish_options
  <2>3. /\ entry.msg = q.msg
        /\ entry.id <=> q.opts.msg_id
        /\ entry.once <=> q.opts.msg_id \/ q.opts.expected_last_seq > 0
    BY <1>1, PubOptions
  <2> HIDE DEF entry
  <2>4. /\ log' \in Seq([msg : Msg, id : BOOLEAN, once : BOOLEAN])
        /\ Len(log') = Len(log) + 1
        /\ \A s \in 1..Len(log) : log'[s] = log[s]
        /\ log'[Len(log) + 1] = entry
    BY <2>1, <2>2, AppendProperties DEF TypeOK
  <2>5. q.opts.msg_id => \A s \in 1..Len(log) : ~(log[s].msg = q.msg /\ log[s].id)
    BY <1>1, <1>4, PubOptions DEF Identified
  <2>6. /\ q.opts.expected_last_seq > 0 => q.opts.expected_last_seq = Len(log)
        /\ q.opts.expect_no_message => \A s \in 1..Len(log) : st[s] = "gone"
    BY <1>1, <2>1, PubOptions DEF Expected
  <2> QED
    BY <2>1, <2>3, <2>4, <2>5, <2>6 DEF Appended
<1> QED
  BY <1>3, <1>4

\* A request of a publisher is one.
LEMMA Requests ==
  ASSUME TypeOK, NEW m \in Msg, pub[m].stage \in Waiting
  PROVE  /\ Request(m) \in [msg : Msg, opts : js_publish_options]
         /\ Request(m).msg = m /\ Request(m).opts = pub[m].opts
BY DEF TypeOK, Request, Waiting

\* The log only grows, by one entry at a time, which is available at once.
Grown ==
  /\ Len(log') \in {Len(log), Len(log) + 1} /\ Len(log') <= MaxSeq
  /\ \A s \in 1..Len(log) : log'[s] = log[s]
  /\ st' \in [1..MaxSeq -> {"none", "avail", "out", "done", "gone"}]
  /\ \A s \in 1..MaxSeq : /\ st'[s] = "none" <=> s > Len(log')
                          /\ s <= Len(log) => st'[s] = st[s]
                          /\ s > Len(log) => st'[s] \in {"none", "avail"}

\* Both are that.
LEMMA Grows ==
  ASSUME TypeOK, NEW q, NEW a, Duplicate(q, a) \/ Appended(q, a)
  PROVE  Grown
<1>1. Len(log) \in Nat /\ MaxSeq \in Nat
  BY ConstantsAssumption, LenProperties DEF TypeOK
<1>2. CASE Duplicate(q, a)
  BY <1>1, <1>2 DEF Duplicate, Grown, TypeOK
<1>3. CASE Appended(q, a)
  <2>1. /\ Len(log') = Len(log) + 1 /\ Len(log) < MaxSeq
        /\ \A s \in 1..Len(log) : log'[s] = log[s]
        /\ st' = [st EXCEPT ![Len(log) + 1] = "avail"]
    BY <1>3 DEF Appended
  <2> QED
    BY <1>1, <2>1 DEF Grown, TypeOK
<1> QED
  BY <1>2, <1>3

\* Then what refers to sequences remains typed.
LEMMA GrownTypes ==
  ASSUME TypeOK, Grown,
         log' \in Seq([msg : Msg, id : BOOLEAN, once : BOOLEAN]),
         pub' \in [Msg -> [stage : {"idle", "sent", "replied", "thrown", "over"},
                           opts : js_publish_options \cup {None}, ack : Acks \cup {None}]],
         \A n \in Msg :
           /\ pub'[n].opts = None <=> pub'[n].stage \in {"idle", "over"}
           /\ IF pub'[n].stage = "replied" THEN pub'[n].ack \in Acks ELSE pub'[n].ack = None,
         late' \subseteq [msg : Msg, opts : js_publish_options],
         UNCHANGED <<count, job, acks, seen, effects, ended>>
  PROVE  TypeOK'
<1>1. Len(log) \in Nat /\ MaxSeq \in Nat /\ 1..Len(log) \subseteq 1..Len(log')
  BY ConstantsAssumption, LenProperties DEF TypeOK, Grown
<1>2. job' \in [Worker -> [seq : 1..Len(log'), stage : {"got", "handled", "syncing", "synced"}]
                          \cup {None}]
  BY <1>1 DEF TypeOK
<1>3. acks' \subseteq [kind : {"ack", "nak", "delay", "term"}, seq : 1..Len(log'),
                       by : Worker \cup {None}]
  BY <1>1 DEF TypeOK
<1>4. /\ seen' \subseteq 1..Len(log')
      /\ ended' \subseteq [kind : {"sync", "term"}, seq : 1..Len(log')]
  BY <1>1 DEF TypeOK
<1> QED
  BY <1>2, <1>3, <1>4 DEF TypeOK, Grown

-----------------------------------------------------------------------------
\* An acknowledgement is of the delivery the worker has.
LEMMA TellTypes ==
  ASSUME TypeOK, NEW w \in Worker, NEW stage, NEW kind \in {"ack", "nak", "delay", "term"},
         Tell(w, stage, kind), ended' \subseteq [kind : {"sync", "term"}, seq : 1..Len(log)]
  PROVE  TypeOK'
<1>1. job[w].seq \in 1..Len(log)
  BY DEF Tell, TypeOK
<1>2. acks' \subseteq [kind : {"ack", "nak", "delay", "term"}, seq : 1..Len(log),
                       by : Worker \cup {None}]
  BY <1>1 DEF Tell, TypeOK
<1>3. job' \in [Worker -> [seq : 1..Len(log), stage : {"got", "handled", "syncing", "synced"}]
                          \cup {None}]
  BY DEF Tell, TypeOK
<1> QED
  BY <1>2, <1>3 DEF Tell, TypeOK, pubVars

\* Every step keeps the types.
LEMMA TypeStep == TypeOK /\ [Next]_vars => TypeOK'
<1> SUFFICES ASSUME TypeOK, [Next]_vars PROVE TypeOK'
  OBVIOUS
<1>0. /\ ConstantsAssumption
      /\ \A m \in Msg : Options[m] \subseteq js_publish_options
      /\ Len(log) \in Nat
  BY ConstantsAssumption, LenProperties DEF TypeOK
<1> USE <1>0
<1>1. ASSUME NEW m \in Msg, NEW o \in Options[m], Publish(m, o)
      PROVE  TypeOK'
  BY <1>1 DEF Publish, At, TypeOK, pubVars, consumeVars
<1>2. ASSUME NEW m \in Msg, Retry(m)
      PROVE  TypeOK'
  BY <1>2 DEF Retry, At, TypeOK, pubVars, consumeVars
<1>3. ASSUME NEW m \in Msg, GiveUp(m)
      PROVE  TypeOK'
  BY <1>3 DEF GiveUp, At, TypeOK, pubVars, consumeVars
<1>4. ASSUME NEW m \in Msg, ServePublish(m)
      PROVE  TypeOK'
  <2>1. PICK a \in Acks : /\ Store(Request(m), a)
                          /\ pub' = [pub EXCEPT ![m] = At("replied", @.opts, a)]
    BY <1>4 DEF ServePublish
  <2>2. pub[m].stage = "sent" /\ Request(m) \in [msg : Msg, opts : js_publish_options]
    BY <1>4, Requests DEF ServePublish, Waiting
  <2>3. Duplicate(Request(m), a) \/ Appended(Request(m), a)
    BY <2>1, <2>2, Stores
  <2>4. /\ log' \in Seq([msg : Msg, id : BOOLEAN, once : BOOLEAN])
        /\ UNCHANGED <<late, count, job, acks, seen, effects, ended>>
    BY <1>4, <2>1, <2>2, Stores DEF ServePublish
  <2>5. /\ pub' \in [Msg -> [stage : {"idle", "sent", "replied", "thrown", "over"},
                           opts : js_publish_options \cup {None}, ack : Acks \cup {None}]]
        /\ \A n \in Msg :
             /\ pub'[n].opts = None <=> pub'[n].stage \in {"idle", "over"}
             /\ IF pub'[n].stage = "replied" THEN pub'[n].ack \in Acks ELSE pub'[n].ack = None
    BY <2>1, <2>2 DEF TypeOK, At
  <2>6. Grown
    BY <2>3, Grows
  <2> QED
    BY <2>4, <2>5, <2>6, GrownTypes DEF TypeOK
<1>5. ASSUME NEW m \in Msg, RefusePublish(m)
      PROVE  TypeOK'
  BY <1>5 DEF RefusePublish, At, TypeOK, pubVars, consumeVars
<1>6. ASSUME NEW m \in Msg, PublishThrows(m)
      PROVE  TypeOK'
  BY <1>6 DEF PublishThrows, At, Request, TypeOK, pubVars, consumeVars
<1>7. ASSUME NEW m \in Msg, PublishReturns(m)
      PROVE  TypeOK'
  BY <1>7 DEF PublishReturns, At, TypeOK, pubVars, consumeVars
<1>8. ASSUME NEW q \in late, ServeLate(q)
      PROVE  TypeOK'
  <2>1. /\ q \in [msg : Msg, opts : js_publish_options] /\ late' = late \ {q}
        /\ UNCHANGED <<pub, count, job, acks, seen, effects, ended>>
    BY <1>8 DEF ServeLate, TypeOK
  <2>2. CASE UNCHANGED <<log, st>>
    BY <2>1, <2>2 DEF TypeOK
  <2>3. ASSUME NEW a \in Acks, Store(q, a)
        PROVE  TypeOK'
    <3>1. Grown /\ log' \in Seq([msg : Msg, id : BOOLEAN, once : BOOLEAN])
      BY <2>1, <2>3, Stores, Grows
    <3>2. /\ pub' \in [Msg -> [stage : {"idle", "sent", "replied", "thrown", "over"},
                             opts : js_publish_options \cup {None}, ack : Acks \cup {None}]]
          /\ \A n \in Msg :
               /\ pub'[n].opts = None <=> pub'[n].stage \in {"idle", "over"}
               /\ IF pub'[n].stage = "replied" THEN pub'[n].ack \in Acks ELSE pub'[n].ack = None
      BY <2>1 DEF TypeOK
    <3>3. /\ late' \subseteq [msg : Msg, opts : js_publish_options]
          /\ UNCHANGED <<count, job, acks, seen, effects, ended>>
      BY <2>1 DEF TypeOK
    <3> QED
      BY <3>1, <3>2, <3>3, GrownTypes
  <2> QED
    BY <1>8, <2>2, <2>3 DEF ServeLate
<1>9. ASSUME NEW w \in Worker, NEW s \in 1..MaxSeq, Deliver(w, s)
      PROVE  TypeOK'
  BY <1>9 DEF Deliver, TypeOK, pubVars, consumeVars
<1>10. ASSUME NEW w \in Worker, Handle(w)
      PROVE  TypeOK'
  <2>1. job[w].seq \in 1..Len(log) /\ log[job[w].seq].msg \in Msg
    <3>1. job[w].seq \in 1..Len(log)
      BY <1>10 DEF Handle, TypeOK
    <3>2. log[job[w].seq] \in [msg : Msg, id : BOOLEAN, once : BOOLEAN]
      BY <3>1, ElementOfSeq DEF TypeOK
    <3> QED
      BY <3>1, <3>2
  <2>2. seen' = seen \cup {job[w].seq} /\ effects' \in [Msg -> Nat]
    BY <1>10, <2>1 DEF Handle, sequence_stream, TypeOK
  <2>3. job' \in [Worker -> [seq : 1..Len(log), stage : {"got", "handled", "syncing", "synced"}]
                            \cup {None}]
    BY <1>10 DEF Handle, TypeOK
  <2> QED
    BY <1>10, <2>1, <2>2, <2>3 DEF Handle, TypeOK, pubVars
<1>11. ASSUME NEW w \in Worker, Ack(w)
      PROVE  TypeOK'
  <2>1. ended' \subseteq [kind : {"sync", "term"}, seq : 1..Len(log)]
    BY <1>11 DEF Ack, TypeOK
  <2> QED
    BY <1>11, <2>1, TellTypes DEF Ack
<1>12. ASSUME NEW w \in Worker, Nak(w)
      PROVE  TypeOK'
  <2>1. ended' \subseteq [kind : {"sync", "term"}, seq : 1..Len(log)]
    BY <1>12 DEF Nak, TypeOK
  <2> QED
    BY <1>12, <2>1, TellTypes DEF Nak
<1>13. ASSUME NEW w \in Worker, NakWithDelay(w)
      PROVE  TypeOK'
  <2>1. ended' \subseteq [kind : {"sync", "term"}, seq : 1..Len(log)]
    BY <1>13 DEF NakWithDelay, TypeOK
  <2> QED
    BY <1>13, <2>1, TellTypes DEF NakWithDelay
<1>14. ASSUME NEW w \in Worker, Term(w)
      PROVE  TypeOK'
  <2>1. ended' \subseteq [kind : {"sync", "term"}, seq : 1..Len(log)]
    BY <1>14 DEF Term, Tell, TypeOK
  <2> QED
    BY <1>14, <2>1, TellTypes DEF Term
<1>15. ASSUME NEW w \in Worker, Abandon(w)
      PROVE  TypeOK'
  BY <1>15 DEF Abandon, TypeOK, pubVars, consumeVars
<1>16. ASSUME NEW w \in Worker, AckSync(w)
      PROVE  TypeOK'
  BY <1>16 DEF AckSync, TypeOK, pubVars, consumeVars
<1>17. ASSUME NEW w \in Worker, AckSyncReturns(w)
      PROVE  TypeOK'
  <2>1. job[w].seq \in 1..Len(log) /\ UNCHANGED <<pubVars, st, count, acks, seen, effects>>
    BY <1>17 DEF AckSyncReturns, TypeOK
  <2>2. ended' \subseteq [kind : {"sync", "term"}, seq : 1..Len(log)]
    BY <1>17, <2>1 DEF AckSyncReturns, TypeOK
  <2>3. job' \in [Worker -> [seq : 1..Len(log), stage : {"got", "handled", "syncing", "synced"}]
                            \cup {None}]
    BY <1>17 DEF AckSyncReturns, TypeOK
  <2> QED
    BY <2>1, <2>2, <2>3 DEF TypeOK, pubVars
<1>18. ASSUME NEW w \in Worker, AckSyncThrows(w)
      PROVE  TypeOK'
  BY <1>18 DEF AckSyncThrows, TypeOK, pubVars, consumeVars
<1>19. ASSUME NEW a \in acks, ServeAck(a)
      PROVE  TypeOK'
  BY <1>19 DEF ServeAck, TypeOK, pubVars, consumeVars
<1>20. ASSUME NEW a \in acks, LoseAck(a)
      PROVE  TypeOK'
  BY <1>20 DEF LoseAck, TypeOK, pubVars, consumeVars
<1>21. ASSUME NEW s \in 1..MaxSeq, AckWaitExpires(s)
      PROVE  TypeOK'
  BY <1>21 DEF AckWaitExpires, TypeOK, pubVars, consumeVars
<1>22. ASSUME NEW s \in 1..Len(log), delete_msg(s)
      PROVE  TypeOK'
  <2>1. UNCHANGED <<pubVars, count, job, acks, seen, effects, ended>>
    BY <1>22 DEF delete_msg, Remove
  <2>2. /\ st' \in [1..MaxSeq -> {"none", "avail", "out", "done", "gone"}]
        /\ \A i \in 1..MaxSeq : st'[i] = "none" <=> i > Len(log)
    BY <1>22 DEF delete_msg, Remove, TypeOK
  <2> QED
    BY <2>1, <2>2 DEF TypeOK, pubVars
<1>23. ASSUME purge_stream
      PROVE  TypeOK'
  <2>1. UNCHANGED <<pubVars, count, job, acks, seen, effects, ended>>
    BY <1>23 DEF purge_stream, Remove
  <2>2. /\ st' \in [1..MaxSeq -> {"none", "avail", "out", "done", "gone"}]
        /\ \A i \in 1..MaxSeq : st'[i] = "none" <=> i > Len(log)
    BY <1>23 DEF purge_stream, Remove, TypeOK
  <2> QED
    BY <2>1, <2>2 DEF TypeOK, pubVars
<1>24. CASE UNCHANGED vars
  BY <1>24 DEF vars, TypeOK
<1> QED
  BY <1>1, <1>2, <1>3, <1>4, <1>5, <1>6, <1>7, <1>8, <1>9, <1>10, <1>11, <1>12,
     <1>13, <1>14, <1>15, <1>16, <1>17, <1>18, <1>19, <1>20, <1>21, <1>22, <1>23,
     <1>24 DEF Next

-----------------------------------------------------------------------------
\* What was deleted or purged stays so.
GoneStays == \A s \in 1..MaxSeq : st[s] = "gone" => st'[s] = "gone"

\* No step but Publish adds an attempt.
LEMMA AttemptsCome ==
  ASSUME TypeOK, [Next]_vars, NEW n \in Msg, NEW p \in js_publish_options,
         Attempt(n, p)'
  PROVE  Attempt(n, p) \/ (p \in Options[n] /\ Publish(n, p))
<1> USE DEF Attempt, Waiting
<1>1. ASSUME NEW m \in Msg, NEW o \in Options[m], Publish(m, o)
      PROVE  Attempt(n, p) \/ (p \in Options[n] /\ Publish(n, p))
  BY <1>1 DEF Publish, At, TypeOK
<1>2. ASSUME NEW m \in Msg, Retry(m)
      PROVE  Attempt(n, p) \/ (p \in Options[n] /\ Publish(n, p))
  BY <1>2 DEF Retry, At, TypeOK
<1>3. ASSUME NEW m \in Msg, GiveUp(m)
      PROVE  Attempt(n, p) \/ (p \in Options[n] /\ Publish(n, p))
  BY <1>3 DEF GiveUp, At, TypeOK
<1>4. ASSUME NEW m \in Msg, ServePublish(m)
      PROVE  Attempt(n, p) \/ (p \in Options[n] /\ Publish(n, p))
  BY <1>4 DEF ServePublish, At, TypeOK
<1>5. ASSUME NEW m \in Msg, RefusePublish(m)
      PROVE  Attempt(n, p) \/ (p \in Options[n] /\ Publish(n, p))
  BY <1>5 DEF RefusePublish, At, TypeOK
<1>6. ASSUME NEW m \in Msg, PublishThrows(m)
      PROVE  Attempt(n, p) \/ (p \in Options[n] /\ Publish(n, p))
  <2>1. /\ pub[m].stage \in Waiting /\ late' \subseteq late \cup {Request(m)}
        /\ pub' = [pub EXCEPT ![m] = At("thrown", @.opts, None)]
    BY <1>6 DEF PublishThrows
  <2>2. pub'[n].stage \in Waiting => pub[n].stage \in Waiting /\ pub'[n].opts = pub[n].opts
    BY <2>1 DEF At, TypeOK
  <2>3. CASE [msg |-> n, opts |-> p] = Request(m)
    BY <2>1, <2>3 DEF Request
  <2>4. CASE [msg |-> n, opts |-> p] \in late
    BY <2>4
  <2> QED
    BY <2>1, <2>2, <2>3, <2>4
<1>7. ASSUME NEW m \in Msg, PublishReturns(m)
      PROVE  Attempt(n, p) \/ (p \in Options[n] /\ Publish(n, p))
  BY <1>7 DEF PublishReturns, At, TypeOK
<1>8. ASSUME NEW q \in late, ServeLate(q)
      PROVE  Attempt(n, p) \/ (p \in Options[n] /\ Publish(n, p))
  BY <1>8 DEF ServeLate, At, TypeOK
<1>9. CASE UNCHANGED <<late, pub>>
  BY <1>9 DEF TypeOK
<1> QED
  BY <1>1, <1>2, <1>3, <1>4, <1>5, <1>6, <1>7, <1>8, <1>9
  DEF Next, vars, pubVars, Deliver, Handle, Ack, Nak, NakWithDelay, Term, Tell, Abandon,
      AckSync, AckSyncReturns, AckSyncThrows, ServeAck, LoseAck, AckWaitExpires,
      delete_msg, purge_stream, Remove

\* What is stored is an attempt.
LEMMA Appends ==
  ASSUME TypeOK, [Next]_vars
  PROVE  \/ UNCHANGED log /\ GoneStays
         \/ \E q \in [msg : Msg, opts : js_publish_options], a \in Acks :
              Attempt(q.msg, q.opts) /\ Appended(q, a)
<1> DEFINE Goal == \/ UNCHANGED log /\ GoneStays
                   \/ \E q \in [msg : Msg, opts : js_publish_options], a \in Acks :
                        Attempt(q.msg, q.opts) /\ Appended(q, a)
<1>1. ASSUME NEW m \in Msg, NEW o \in Options[m], Publish(m, o)
      PROVE  Goal
  BY <1>1 DEF Publish, GoneStays, pubVars, consumeVars, TypeOK
<1>2. ASSUME NEW m \in Msg, Retry(m)
      PROVE  Goal
  BY <1>2 DEF Retry, GoneStays, pubVars, consumeVars, TypeOK
<1>3. ASSUME NEW m \in Msg, GiveUp(m)
      PROVE  Goal
  BY <1>3 DEF GiveUp, GoneStays, pubVars, consumeVars, TypeOK
<1>4. ASSUME NEW m \in Msg, ServePublish(m)
      PROVE  Goal
  <2>1. PICK a \in Acks : Store(Request(m), a)
    BY <1>4 DEF ServePublish
  <2>2. /\ Request(m) \in [msg : Msg, opts : js_publish_options]
        /\ Attempt(Request(m).msg, Request(m).opts)
    BY <1>4, Requests DEF ServePublish, Waiting, Attempt
  <2>3. Duplicate(Request(m), a) \/ Appended(Request(m), a)
    BY <2>1, <2>2, Stores
  <2> QED
    BY <2>2, <2>3 DEF Duplicate, GoneStays
<1>5. ASSUME NEW m \in Msg, RefusePublish(m)
      PROVE  Goal
  BY <1>5 DEF RefusePublish, GoneStays, pubVars, consumeVars, TypeOK
<1>6. ASSUME NEW m \in Msg, PublishThrows(m)
      PROVE  Goal
  BY <1>6 DEF PublishThrows, GoneStays, pubVars, consumeVars, TypeOK
<1>7. ASSUME NEW m \in Msg, PublishReturns(m)
      PROVE  Goal
  BY <1>7 DEF PublishReturns, GoneStays, pubVars, consumeVars, TypeOK
<1>8. ASSUME NEW q \in late, ServeLate(q)
      PROVE  Goal
  <2>1. q \in [msg : Msg, opts : js_publish_options] /\ q = [msg |-> q.msg, opts |-> q.opts]
    BY <1>8 DEF TypeOK
  <2>2. Attempt(q.msg, q.opts)
    BY <1>8, <2>1 DEF Attempt
  <2>3. CASE UNCHANGED <<log, st>>
    BY <2>3 DEF GoneStays
  <2>4. ASSUME NEW a \in Acks, Store(q, a)
        PROVE  Goal
    <3>1. Duplicate(q, a) \/ Appended(q, a)
      BY <2>1, <2>4, Stores
    <3> QED
      BY <2>1, <2>2, <3>1 DEF Duplicate, GoneStays
  <2> QED
    BY <1>8, <2>3, <2>4 DEF ServeLate
<1>9. ASSUME NEW w \in Worker, NEW s \in 1..MaxSeq, Deliver(w, s)
      PROVE  Goal
  BY <1>9 DEF Deliver, GoneStays, pubVars, consumeVars, TypeOK
<1>10. ASSUME NEW w \in Worker, Handle(w)
      PROVE  Goal
  BY <1>10 DEF Handle, sequence_stream, GoneStays, pubVars, consumeVars, TypeOK
<1>11. ASSUME NEW w \in Worker, Ack(w)
      PROVE  Goal
  BY <1>11 DEF Ack, Tell, GoneStays, pubVars, consumeVars, TypeOK
<1>12. ASSUME NEW w \in Worker, Nak(w)
      PROVE  Goal
  BY <1>12 DEF Nak, Tell, GoneStays, pubVars, consumeVars, TypeOK
<1>13. ASSUME NEW w \in Worker, NakWithDelay(w)
      PROVE  Goal
  BY <1>13 DEF NakWithDelay, Tell, GoneStays, pubVars, consumeVars, TypeOK
<1>14. ASSUME NEW w \in Worker, Term(w)
      PROVE  Goal
  BY <1>14 DEF Term, Tell, GoneStays, pubVars, consumeVars, TypeOK
<1>15. ASSUME NEW w \in Worker, Abandon(w)
      PROVE  Goal
  BY <1>15 DEF Abandon, GoneStays, pubVars, consumeVars, TypeOK
<1>16. ASSUME NEW w \in Worker, AckSync(w)
      PROVE  Goal
  BY <1>16 DEF AckSync, GoneStays, pubVars, consumeVars, TypeOK
<1>17. ASSUME NEW w \in Worker, AckSyncReturns(w)
      PROVE  Goal
  BY <1>17 DEF AckSyncReturns, GoneStays, pubVars, consumeVars, TypeOK
<1>18. ASSUME NEW w \in Worker, AckSyncThrows(w)
      PROVE  Goal
  BY <1>18 DEF AckSyncThrows, GoneStays, pubVars, consumeVars, TypeOK
<1>19. ASSUME NEW a \in acks, ServeAck(a)
      PROVE  Goal
  BY <1>19 DEF ServeAck, GoneStays, pubVars, consumeVars, TypeOK
<1>20. ASSUME NEW a \in acks, LoseAck(a)
      PROVE  Goal
  BY <1>20 DEF LoseAck, GoneStays, pubVars, consumeVars, TypeOK
<1>21. ASSUME NEW s \in 1..MaxSeq, AckWaitExpires(s)
      PROVE  Goal
  BY <1>21 DEF AckWaitExpires, GoneStays, pubVars, consumeVars, TypeOK
<1>22. ASSUME NEW s \in 1..Len(log), delete_msg(s)
      PROVE  Goal
  BY <1>22 DEF delete_msg, Remove, GoneStays, pubVars, consumeVars, TypeOK
<1>23. ASSUME purge_stream
      PROVE  Goal
  BY <1>23 DEF purge_stream, Remove, GoneStays, pubVars, consumeVars, TypeOK
<1>24. CASE UNCHANGED vars
  BY <1>24 DEF vars, GoneStays
<1> QED
  BY <1>1, <1>2, <1>3, <1>4, <1>5, <1>6, <1>7, <1>8, <1>9, <1>10, <1>11, <1>12,
     <1>13, <1>14, <1>15, <1>16, <1>17, <1>18, <1>19, <1>20, <1>21, <1>22, <1>23,
     <1>24 DEF Next

\* The attempts of a message keep the same options.
LEMMA AttemptsStep ==
  ASSUME TypeOK, Attempts, Fresh, [Next]_vars
  PROVE  Attempts'
<1> SUFFICES ASSUME NEW m \in Msg, NEW o \in js_publish_options, NEW p \in js_publish_options,
                    Attempt(m, o)', Attempt(m, p)'
             PROVE  o = p
  BY DEF Attempts
<1>1. CASE Attempt(m, o) /\ Attempt(m, p)
  BY <1>1 DEF Attempts
<1>2. ASSUME NEW x \in js_publish_options, NEW y \in js_publish_options,
             Publish(m, x), Attempt(m, y)'
      PROVE  x = y
  <2>1. \A z \in js_publish_options : ~Attempt(m, z)
    BY <1>2 DEF Publish, Fresh
  <2>2. [msg |-> m, opts |-> y] \notin late /\ late' = late
    BY <1>2, <2>1 DEF Attempt, Publish
  <2>3. pub'[m].opts = y /\ pub'[m].opts = x
    BY <1>2, <2>2 DEF Attempt, Publish, At, TypeOK
  <2> QED
    BY <2>3
<1> QED
  BY <1>1, <1>2, AttemptsCome

\* A message with no attempt but an idle publisher is not stored either.
LEMMA FreshStep ==
  ASSUME TypeOK, Fresh, [Next]_vars
  PROVE  Fresh'
<1> SUFFICES ASSUME NEW m \in Msg, pub'[m].stage = "idle"
             PROVE  /\ \A o \in js_publish_options : ~Attempt(m, o)'
                    /\ \A s \in 1..Len(log') : log'[s].msg # m
  BY DEF Fresh
<1>1. pub[m].stage = "idle"
  <2>1. ASSUME NEW n \in Msg, NEW o \in Options[n], Publish(n, o)
        PROVE  pub[m].stage = "idle"
    BY <2>1 DEF Publish, At, TypeOK
  <2>2. ASSUME NEW n \in Msg, Retry(n)
        PROVE  pub[m].stage = "idle"
    BY <2>2 DEF Retry, At, TypeOK
  <2>3. ASSUME NEW n \in Msg, GiveUp(n)
        PROVE  pub[m].stage = "idle"
    BY <2>3 DEF GiveUp, At, TypeOK
  <2>4. ASSUME NEW n \in Msg, ServePublish(n)
        PROVE  pub[m].stage = "idle"
    BY <2>4 DEF ServePublish, At, TypeOK
  <2>5. ASSUME NEW n \in Msg, RefusePublish(n)
        PROVE  pub[m].stage = "idle"
    BY <2>5 DEF RefusePublish, At, TypeOK
  <2>6. ASSUME NEW n \in Msg, PublishThrows(n)
        PROVE  pub[m].stage = "idle"
    BY <2>6 DEF PublishThrows, At, TypeOK
  <2>7. ASSUME NEW n \in Msg, PublishReturns(n)
        PROVE  pub[m].stage = "idle"
    BY <2>7 DEF PublishReturns, At, TypeOK
  <2>8. ASSUME NEW q \in late, ServeLate(q)
        PROVE  pub[m].stage = "idle"
    BY <2>8 DEF ServeLate, At, TypeOK
  <2>9. CASE UNCHANGED pub
    BY <2>9 DEF TypeOK
  <2> QED
    BY <2>1, <2>2, <2>3, <2>4, <2>5, <2>6, <2>7, <2>8, <2>9
    DEF Next, vars, pubVars, Deliver, Handle, Ack, Nak, NakWithDelay, Term, Tell, Abandon,
        AckSync, AckSyncReturns, AckSyncThrows, ServeAck, LoseAck, AckWaitExpires,
        delete_msg, purge_stream, Remove
<1>2. /\ \A o \in js_publish_options : ~Attempt(m, o)
      /\ \A s \in 1..Len(log) : log[s].msg # m
  BY <1>1 DEF Fresh
<1>3. ASSUME NEW o \in js_publish_options, Publish(m, o)
      PROVE  FALSE
  BY <1>3 DEF Publish, At, TypeOK
<1>4. \A o \in js_publish_options : ~Attempt(m, o)'
  BY <1>2, <1>3, AttemptsCome
<1>5. ASSUME NEW s \in 1..Len(log')
      PROVE  log'[s].msg # m
  <2>1. CASE UNCHANGED log
    BY <1>2, <1>5, <2>1
  <2>2. ASSUME NEW q \in [msg : Msg, opts : js_publish_options], NEW a \in Acks,
               Attempt(q.msg, q.opts), Appended(q, a)
        PROVE  log'[s].msg # m
    <3>1. q.msg # m
      BY <1>2, <2>2
    <3>2. Len(log) \in Nat
      BY LenProperties DEF TypeOK
    <3>3. CASE s \in 1..Len(log)
      BY <1>2, <2>2, <3>3 DEF Appended
    <3>4. CASE s = Len(log) + 1
      BY <2>2, <3>1, <3>4 DEF Appended
    <3> QED
      BY <1>5, <2>2, <3>2, <3>3, <3>4 DEF Appended
  <2> QED
    BY <2>1, <2>2, Appends
<1> QED
  BY <1>4, <1>5

\* What an entry fulfils it goes on to fulfil.
LEMMA Fulfilled ==
  ASSUME TypeOK, NEW s \in 1..Len(log), NEW o, Fulfils(s, o),
         log'[s] = log[s], GoneStays
  PROVE  Fulfils(s, o)'
<1>1. 1..(s - 1) \subseteq 1..MaxSeq
  BY ConstantsAssumption, LenProperties DEF TypeOK
<1> QED
  BY <1>1 DEF Fulfils, GoneStays

\* Nothing is removed by appending.
LEMMA AppendedKeeps ==
  ASSUME TypeOK, NEW q, NEW a, Appended(q, a)
  PROVE  /\ GoneStays /\ Len(log) \in Nat
         /\ \A s \in 1..Len(log') : s \in 1..Len(log) \/ s = Len(log) + 1
         /\ \A s \in 1..Len(log) : log'[s] = log[s]
<1>1. Len(log) \in Nat /\ Len(log) + 1 \in 1..MaxSeq /\ st[Len(log) + 1] = "none"
  BY ConstantsAssumption, LenProperties DEF TypeOK, Appended
<1>2. GoneStays
  BY <1>1 DEF Appended, GoneStays, TypeOK
<1> QED
  BY <1>1, <1>2 DEF Appended

\* Every entry fulfils the options of the attempts of its message.
LEMMA StoredStep ==
  ASSUME TypeOK, Attempts, Fresh, Stored, [Next]_vars
  PROVE  Stored'
<1> SUFFICES ASSUME NEW s \in 1..Len(log'), NEW m \in Msg, NEW o \in js_publish_options,
                    log'[s].msg = m, Attempt(m, o)'
             PROVE  Fulfils(s, o)'
  BY DEF Stored
<1>1. ASSUME s \in 1..Len(log), log'[s] = log[s], GoneStays
      PROVE  Fulfils(s, o)'
  <2>1. ~Publish(m, o)
    BY <1>1 DEF Publish, Fresh
  <2>2. Fulfils(s, o)
    BY <1>1, <2>1, AttemptsCome DEF Stored
  <2> QED
    BY <1>1, <2>2, Fulfilled
<1>2. ASSUME NEW q \in [msg : Msg, opts : js_publish_options], NEW a \in Acks,
             Attempt(q.msg, q.opts), Appended(q, a)
      PROVE  Fulfils(s, o)'
  <2>1. CASE s \in 1..Len(log)
    BY <1>1, <1>2, <2>1, AppendedKeeps
  <2>2. CASE s = Len(log) + 1
    <3>1. q.msg = m
      BY <1>2, <2>2 DEF Appended
    <3>2. Attempt(m, o)
      <4>1. ~Publish(m, o)
        <5>1. Len(log') # Len(log)
          BY <1>2, AppendedKeeps DEF Appended
        <5> QED
          BY <5>1 DEF Publish
      <4> QED
        BY <4>1, AttemptsCome
    <3>3. q.opts = o
      BY <1>2, <3>1, <3>2 DEF Attempts
    <3>4. /\ log'[s].id <=> o.msg_id
          /\ log'[s].once <=> o.msg_id \/ o.expected_last_seq > 0
          /\ o.expected_last_seq > 0 => o.expected_last_seq = Len(log)
          /\ o.expect_no_message => \A t \in 1..Len(log) : st[t] = "gone"
      BY <1>2, <2>2, <3>1, <3>3 DEF Appended
    <3>5. o.expect_no_message => \A t \in 1..(s - 1) : st'[t] = "gone"
      <4>1. 1..(s - 1) = 1..Len(log) /\ 1..Len(log) \subseteq 1..MaxSeq
        BY <1>2, <2>2, AppendedKeeps, ConstantsAssumption DEF TypeOK
      <4> QED
        BY <1>2, <3>4, <4>1, AppendedKeeps DEF GoneStays
    <3>6. o.expected_last_seq > 0 => s = o.expected_last_seq + 1
      BY <2>2, <3>4
    <3> QED
      BY <3>4, <3>5, <3>6 DEF Fulfils
  <2> QED
    BY <1>2, <2>1, <2>2, AppendedKeeps
<1>3. CASE UNCHANGED log /\ GoneStays
  BY <1>1, <1>3
<1> QED
  BY <1>2, <1>3, Appends

\* A message that is to be stored once is not appended again.
LEMMA RetriedOnceStep ==
  ASSUME TypeOK, Stored, RetriedOnce, [Next]_vars
  PROVE  RetriedOnce'
<1>1. ASSUME NEW q \in [msg : Msg, opts : js_publish_options], NEW a \in Acks,
             Attempt(q.msg, q.opts), Appended(q, a)
      PROVE  RetriedOnce'
  <2>1. q.msg \in Msg /\ q.opts \in js_publish_options
    BY <1>1
  <2>2. ASSUME NEW t \in 1..Len(log), log[t].msg = q.msg
        PROVE  ~log[t].once /\ ~log'[Len(log) + 1].once
    <3>1. Fulfils(t, q.opts)
      BY <1>1, <2>1, <2>2 DEF Stored
    <3>2. ~q.opts.msg_id
      BY <1>1, <2>2, <3>1 DEF Appended, Fulfils
    <3>3. ~(q.opts.expected_last_seq > 0)
      BY <1>1, <2>2, <3>1, AppendedKeeps DEF Appended, Fulfils
    <3>4. ~log[t].once
      BY <3>1, <3>2, <3>3 DEF Fulfils
    <3>5. log'[Len(log) + 1].once <=> q.opts.msg_id \/ q.opts.expected_last_seq > 0
      BY <1>1 DEF Appended
    <3> QED
      BY <3>2, <3>3, <3>4, <3>5
  <2>3. log'[Len(log) + 1].msg = q.msg
    BY <1>1 DEF Appended
  <2> SUFFICES ASSUME NEW s \in 1..Len(log'), NEW t \in 1..Len(log'),
                      log'[s].once, log'[s].msg = log'[t].msg
               PROVE  s = t
    BY DEF RetriedOnce
  <2>4. CASE s \in 1..Len(log) /\ t \in 1..Len(log)
    BY <1>1, <2>4, AppendedKeeps DEF RetriedOnce
  <2>5. CASE s \in 1..Len(log) /\ t = Len(log) + 1
    BY <1>1, <2>2, <2>3, <2>5, AppendedKeeps
  <2>6. CASE s = Len(log) + 1 /\ t \in 1..Len(log)
    BY <1>1, <2>2, <2>3, <2>6, AppendedKeeps
  <2> QED
    BY <1>1, <2>4, <2>5, <2>6, AppendedKeeps
<1>2. CASE UNCHANGED log
  BY <1>2 DEF RetriedOnce
<1> QED
  BY <1>1, <1>2, Appends

\* An acknowledgement goes on to be about its message.
LEMMA AckedStep ==
  ASSUME TypeOK, Acked, [Next]_vars
  PROVE  Acked'
<1>0. ASSUME NEW m \in Msg, pub[m].stage = "replied"
      PROVE  /\ pub[m].ack.sequence \in 1..Len(log')
             /\ log'[pub[m].ack.sequence].msg = m
  <2>1. pub[m].ack.sequence \in 1..Len(log) /\ log[pub[m].ack.sequence].msg = m
    BY <1>0 DEF Acked
  <2>2. ASSUME NEW q, NEW a, Appended(q, a)
        PROVE  /\ pub[m].ack.sequence \in 1..Len(log')
               /\ log'[pub[m].ack.sequence].msg = m
    BY <2>1, <2>2, AppendedKeeps DEF Appended
  <2> QED
    BY <2>1, <2>2, Appends
<1>1. ASSUME NEW m \in Msg, NEW o \in Options[m], Publish(m, o)
      PROVE  Acked'
  BY <1>1 DEF Publish, At, Acked, TypeOK
<1>2. ASSUME NEW m \in Msg, Retry(m)
      PROVE  Acked'
  BY <1>2 DEF Retry, At, Acked, TypeOK
<1>3. ASSUME NEW m \in Msg, GiveUp(m)
      PROVE  Acked'
  BY <1>3 DEF GiveUp, At, Acked, TypeOK
<1>4. ASSUME NEW m \in Msg, ServePublish(m)
      PROVE  Acked'
  <2>1. PICK a \in Acks : /\ Store(Request(m), a)
                          /\ pub' = [pub EXCEPT ![m] = At("replied", @.opts, a)]
    BY <1>4 DEF ServePublish
  <2>2. /\ Request(m) \in [msg : Msg, opts : js_publish_options]
        /\ Request(m).msg = m /\ Request(m).opts = pub[m].opts
    BY <1>4, Requests DEF ServePublish, Waiting
  <2>3. Duplicate(Request(m), a) \/ Appended(Request(m), a)
    BY <2>1, <2>2, Stores
  <2>4. /\ a.sequence \in 1..Len(log') /\ log'[a.sequence].msg = m
        /\ a.duplicate => pub[m].opts.msg_id
    <3>1. CASE Duplicate(Request(m), a)
      BY <2>2, <3>1 DEF Duplicate
    <3>2. CASE Appended(Request(m), a)
      BY <2>2, <3>2, AppendedKeeps DEF Appended
    <3> QED
      BY <2>3, <3>1, <3>2
  <2>5. \A n \in Msg : IF n = m THEN pub'[n].opts = pub[m].opts /\ pub'[n].ack = a
                       ELSE pub'[n] = pub[n]
    BY <2>1 DEF At, TypeOK
  <2> SUFFICES ASSUME NEW n \in Msg, pub'[n].stage = "replied"
               PROVE  /\ pub'[n].ack.sequence \in 1..Len(log')
                      /\ log'[pub'[n].ack.sequence].msg = n
                      /\ pub'[n].ack.duplicate => pub'[n].opts.msg_id
    BY DEF Acked
  <2>6. CASE n = m
    BY <2>4, <2>5, <2>6
  <2>7. CASE n # m
    BY <1>0, <2>5, <2>7 DEF Acked
  <2> QED
    BY <2>6, <2>7
<1>5. ASSUME NEW m \in Msg, RefusePublish(m)
      PROVE  Acked'
  BY <1>5 DEF RefusePublish, At, Acked, TypeOK
<1>6. ASSUME NEW m \in Msg, PublishThrows(m)
      PROVE  Acked'
  BY <1>6 DEF PublishThrows, At, Acked, TypeOK
<1>7. ASSUME NEW m \in Msg, PublishReturns(m)
      PROVE  Acked'
  BY <1>7 DEF PublishReturns, At, Acked, TypeOK
<1>8. ASSUME NEW q \in late, ServeLate(q)
      PROVE  Acked'
  BY <1>0, <1>8 DEF ServeLate, Acked
<1>9. CASE UNCHANGED pub
  BY <1>0, <1>9 DEF Acked
<1> QED
  BY <1>1, <1>2, <1>3, <1>4, <1>5, <1>6, <1>7, <1>8, <1>9
  DEF Next, vars, pubVars, Deliver, Handle, Ack, Nak, NakWithDelay, Term, Tell, Abandon,
      AckSync, AckSyncReturns, AckSyncThrows, ServeAck, LoseAck, AckWaitExpires,
      delete_msg, purge_stream, Remove

-----------------------------------------------------------------------------
\* The steps of the workers and of the consumer; ...
Consumes ==
  \/ \E w \in Worker, s \in 1..MaxSeq : Deliver(w, s)
  \/ \E w \in Worker : \/ Handle(w) \/ Ack(w)
                       \/ AckSync(w) \/ AckSyncReturns(w) \/ AckSyncThrows(w)
                       \/ Nak(w) \/ NakWithDelay(w) \/ Term(w) \/ Abandon(w)
  \/ \E a \in acks : ServeAck(a) \/ LoseAck(a)
  \/ \E s \in 1..MaxSeq : AckWaitExpires(s)
  \/ \E s \in 1..Len(log) : delete_msg(s)
  \/ purge_stream

\* ... all others at most append.
Publishes == Grown /\ UNCHANGED <<count, job, acks, seen, effects, ended>>

\* A step is one or the other.
LEMMA Either ==
  ASSUME TypeOK, [Next]_vars
  PROVE  Publishes \/ (Consumes /\ UNCHANGED log)
<1>0. ASSUME UNCHANGED <<log, st>>
      PROVE  Grown
  BY <1>0, ConstantsAssumption, LenProperties DEF Grown, TypeOK
<1>1. ASSUME NEW m \in Msg, NEW o \in Options[m], Publish(m, o)
      PROVE  Publishes
  BY <1>0, <1>1 DEF Publish, Publishes, consumeVars
<1>2. ASSUME NEW m \in Msg, Retry(m)
      PROVE  Publishes
  BY <1>0, <1>2 DEF Retry, Publishes, consumeVars
<1>3. ASSUME NEW m \in Msg, GiveUp(m)
      PROVE  Publishes
  BY <1>0, <1>3 DEF GiveUp, Publishes, consumeVars
<1>4. ASSUME NEW m \in Msg, ServePublish(m)
      PROVE  Publishes
  <2>1. PICK a \in Acks : Store(Request(m), a)
    BY <1>4 DEF ServePublish
  <2>2. Request(m) \in [msg : Msg, opts : js_publish_options]
    BY <1>4, Requests DEF ServePublish, Waiting
  <2> QED
    BY <1>4, <2>1, <2>2, Stores, Grows DEF ServePublish, Publishes
<1>5. ASSUME NEW m \in Msg, RefusePublish(m)
      PROVE  Publishes
  BY <1>0, <1>5 DEF RefusePublish, Publishes, consumeVars
<1>6. ASSUME NEW m \in Msg, PublishThrows(m)
      PROVE  Publishes
  BY <1>0, <1>6 DEF PublishThrows, Publishes, consumeVars
<1>7. ASSUME NEW m \in Msg, PublishReturns(m)
      PROVE  Publishes
  BY <1>0, <1>7 DEF PublishReturns, Publishes, consumeVars
<1>8. ASSUME NEW q \in late, ServeLate(q)
      PROVE  Publishes
  <2>1. q \in [msg : Msg, opts : js_publish_options]
    BY <1>8 DEF TypeOK
  <2>2. ASSUME NEW a \in Acks, Store(q, a)
        PROVE  Grown
    BY <2>1, <2>2, Stores, Grows
  <2> QED
    BY <1>0, <1>8, <2>2 DEF ServeLate, Publishes
<1>9. CASE UNCHANGED vars
  BY <1>0, <1>9 DEF vars, Publishes
<1>10. ASSUME Consumes
       PROVE  UNCHANGED log
  BY <1>10 DEF Consumes, pubVars, Deliver, Handle, Ack, Nak, NakWithDelay, Term,
     Tell, Abandon,
     AckSync, AckSyncReturns, AckSyncThrows, ServeAck, LoseAck, AckWaitExpires,
     delete_msg, purge_stream, Remove
<1> QED
  BY <1>1, <1>2, <1>3, <1>4, <1>5, <1>6, <1>7, <1>8, <1>9, <1>10 DEF Next, Consumes

\* The workers act on what is stored once as they remember it, once.
LEMMA ActedStep ==
  ASSUME TypeOK, Acted, RetriedOnce, RetriedOnce', [Next]_vars
  PROVE  Acted'
<1>1. CASE UNCHANGED <<log, seen, effects>>
  BY <1>1 DEF Acted
<1>2. ASSUME NEW q, NEW a, Appended(q, a), UNCHANGED <<seen, effects>>
      PROVE  Acted'
  <2>1. /\ Len(log) \in Nat /\ seen \subseteq 1..Len(log)
        /\ Len(log') = Len(log) + 1
        /\ \A s \in 1..Len(log) : log'[s] = log[s]
    BY <1>2, AppendedKeeps DEF Appended, TypeOK
  <2>2. ASSUME NEW s \in 1..Len(log'), log'[s].once
        PROVE  effects'[log'[s].msg] = IF s \in seen' THEN 1 ELSE 0
    <3>1. CASE s \in 1..Len(log)
      BY <1>2, <2>1, <2>2, <3>1 DEF Acted
    <3>2. CASE s = Len(log) + 1
      <4>1. \A t \in 1..Len(log) : log[t].msg # log'[s].msg
        BY <2>1, <2>2, <3>2 DEF RetriedOnce
      <4>2. log'[s].msg \in Msg
        <5>1. log' \in Seq([msg : Msg, id : BOOLEAN, once : BOOLEAN])
          BY TypeStep DEF TypeOK
        <5>2. log'[s] \in [msg : Msg, id : BOOLEAN, once : BOOLEAN]
          BY <2>2, <5>1, ElementOfSeq
        <5> QED
          BY <5>2
      <4>3. effects[log'[s].msg] = 0
        BY <4>1, <4>2 DEF Acted
      <4> QED
        BY <1>2, <2>1, <3>2, <4>3
    <3> QED
      BY <2>1, <2>2, <3>1, <3>2
  <2>3. ASSUME NEW m \in Msg, \A s \in 1..Len(log') : log'[s].msg # m
        PROVE  effects'[m] = 0
    <3>1. \A s \in 1..Len(log) : log[s].msg # m
      BY <2>1, <2>3
    <3> QED
      BY <1>2, <3>1 DEF Acted
  <2> QED
    BY <2>2, <2>3 DEF Acted
<1>3. ASSUME NEW w \in Worker, Handle(w), UNCHANGED log
      PROVE  Acted'
  <2> DEFINE s == job[w].seq
  <2>1. s \in 1..Len(log) /\ seen' = seen \cup {s}
        /\ effects' = IF s \in seen THEN effects ELSE [effects EXCEPT ![log[s].msg] = @ + 1]
    BY <1>3 DEF Handle, sequence_stream, TypeOK
  <2> HIDE DEF s
  <2>2. CASE s \in seen
    BY <1>3, <2>1, <2>2 DEF Acted
  <2>3. CASE s \notin seen
    <3>1. \A m \in Msg : effects'[m] = IF m = log[s].msg THEN effects[m] + 1 ELSE effects[m]
      BY <2>1, <2>3 DEF TypeOK
    <3>2. \A t \in 1..Len(log) : log[t].msg \in Msg
      <4>1. \A t \in 1..Len(log) : log[t] \in [msg : Msg, id : BOOLEAN, once : BOOLEAN]
        BY ElementOfSeq DEF TypeOK
      <4> QED
        BY <4>1
    <3>3. ASSUME NEW t \in 1..Len(log), log[t].once
          PROVE  effects'[log[t].msg] = IF t \in seen' THEN 1 ELSE 0
      <4>1. effects[log[t].msg] = IF t \in seen THEN 1 ELSE 0
        BY <3>3 DEF Acted
      <4>2. CASE t = s
        BY <2>1, <2>3, <3>1, <3>2, <4>1, <4>2
      <4>3. CASE t # s
        <5>1. log[t].msg # log[s].msg
          BY <2>1, <3>3, <4>3 DEF RetriedOnce
        <5> QED
          BY <2>1, <3>1, <3>2, <4>1, <4>3, <5>1
      <4> QED
        BY <4>2, <4>3
    <3>4. ASSUME NEW m \in Msg, \A t \in 1..Len(log) : log[t].msg # m
          PROVE  effects'[m] = 0
      BY <2>1, <3>1, <3>4 DEF Acted
    <3> QED
      BY <1>3, <3>3, <3>4 DEF Acted
  <2> QED
    BY <2>2, <2>3
<1>4. ASSUME Consumes, UNCHANGED log, \A w \in Worker : ~Handle(w)
      PROVE  UNCHANGED <<seen, effects>>
  BY <1>4 DEF Consumes, Deliver, Ack, Nak, NakWithDelay, Term, Tell, Abandon, AckSync,
     AckSyncReturns, AckSyncThrows, ServeAck, LoseAck, AckWaitExpires, delete_msg,
     purge_stream, Remove
<1> QED
  BY <1>1, <1>2, <1>3, <1>4, Either, Appends DEF Publishes

\* What is under way says what was done, by whichever delivery.
LEMMA ToldStep ==
  ASSUME TypeOK, Told, [Next]_vars
  PROVE  Told'
<1>1. CASE Publishes
  BY <1>1 DEF Publishes, Told
<1>2. ASSUME NEW w \in Worker, NEW s \in 1..MaxSeq, Deliver(w, s)
      PROVE  Told'
  BY <1>2 DEF Deliver, Told, TypeOK, consumeVars
<1>3. ASSUME NEW w \in Worker, Handle(w)
      PROVE  Told'
  BY <1>3 DEF Handle, sequence_stream, Told, TypeOK, consumeVars
<1>4. ASSUME NEW w \in Worker, Ack(w)
      PROVE  Told'
  BY <1>4 DEF Ack, Tell, Told, TypeOK, consumeVars
<1>5. ASSUME NEW w \in Worker, Nak(w)
      PROVE  Told'
  BY <1>5 DEF Nak, Tell, Told, TypeOK, consumeVars
<1>6. ASSUME NEW w \in Worker, NakWithDelay(w)
      PROVE  Told'
  BY <1>6 DEF NakWithDelay, Tell, Told, TypeOK, consumeVars
<1>7. ASSUME NEW w \in Worker, Term(w)
      PROVE  Told'
  BY <1>7 DEF Term, Tell, Told, TypeOK, consumeVars
<1>8. ASSUME NEW w \in Worker, Abandon(w)
      PROVE  Told'
  BY <1>8 DEF Abandon, Told, TypeOK, consumeVars
<1>9. ASSUME NEW w \in Worker, AckSync(w)
      PROVE  Told'
  BY <1>9 DEF AckSync, Told, TypeOK, consumeVars
<1>10. ASSUME NEW w \in Worker, AckSyncReturns(w)
      PROVE  Told'
  BY <1>10 DEF AckSyncReturns, Told, TypeOK, consumeVars
<1>11. ASSUME NEW w \in Worker, AckSyncThrows(w)
      PROVE  Told'
  BY <1>11 DEF AckSyncThrows, Told, TypeOK, consumeVars
<1>12. ASSUME NEW a \in acks, ServeAck(a)
      PROVE  Told'
  BY <1>12 DEF ServeAck, Told, TypeOK, consumeVars
<1>13. ASSUME NEW a \in acks, LoseAck(a)
      PROVE  Told'
  BY <1>13 DEF LoseAck, Told, TypeOK, consumeVars
<1>14. ASSUME NEW s \in 1..MaxSeq, AckWaitExpires(s)
      PROVE  Told'
  BY <1>14 DEF AckWaitExpires, Told, TypeOK, consumeVars
<1>15. ASSUME NEW s \in 1..Len(log), delete_msg(s)
      PROVE  Told'
  BY <1>15 DEF delete_msg, Remove, Told, TypeOK, consumeVars
<1>16. ASSUME purge_stream
      PROVE  Told'
  BY <1>16 DEF purge_stream, Remove, Told, TypeOK, consumeVars
<1> QED
  BY Either, <1>1, <1>2, <1>3, <1>4, <1>5, <1>6, <1>7, <1>8, <1>9, <1>10, <1>11,
     <1>12, <1>13, <1>14, <1>15, <1>16 DEF Consumes

\* Only such an acknowledgement settles a message.
LEMMA NoLossStep ==
  ASSUME TypeOK, Told, NoLoss, [Next]_vars
  PROVE  NoLoss'
<1>1. CASE Publishes
  <2>1. ASSUME NEW s \in 1..MaxSeq, st'[s] = "done"
        PROVE  st[s] = "done"
    BY <1>1, <2>1 DEF Publishes, Grown
  <2> QED
    BY <1>1, <2>1 DEF Publishes, NoLoss
<1>2. ASSUME NEW w \in Worker, NEW s \in 1..MaxSeq, Deliver(w, s)
      PROVE  NoLoss'
  BY <1>2 DEF Deliver, NoLoss, Told, TypeOK
<1>3. ASSUME NEW w \in Worker, Handle(w)
      PROVE  NoLoss'
  BY <1>3 DEF Handle, sequence_stream, NoLoss, Told, TypeOK
<1>4. ASSUME NEW w \in Worker, Ack(w)
      PROVE  NoLoss'
  BY <1>4 DEF Ack, Tell, NoLoss, Told, TypeOK
<1>5. ASSUME NEW w \in Worker, Nak(w)
      PROVE  NoLoss'
  BY <1>5 DEF Nak, Tell, NoLoss, Told, TypeOK
<1>6. ASSUME NEW w \in Worker, NakWithDelay(w)
      PROVE  NoLoss'
  BY <1>6 DEF NakWithDelay, Tell, NoLoss, Told, TypeOK
<1>7. ASSUME NEW w \in Worker, Term(w)
      PROVE  NoLoss'
  BY <1>7 DEF Term, Tell, NoLoss, Told, TypeOK
<1>8. ASSUME NEW w \in Worker, Abandon(w)
      PROVE  NoLoss'
  BY <1>8 DEF Abandon, NoLoss, Told, TypeOK
<1>9. ASSUME NEW w \in Worker, AckSync(w)
      PROVE  NoLoss'
  BY <1>9 DEF AckSync, NoLoss, Told, TypeOK
<1>10. ASSUME NEW w \in Worker, AckSyncReturns(w)
      PROVE  NoLoss'
  BY <1>10 DEF AckSyncReturns, NoLoss, Told, TypeOK
<1>11. ASSUME NEW w \in Worker, AckSyncThrows(w)
      PROVE  NoLoss'
  BY <1>11 DEF AckSyncThrows, NoLoss, Told, TypeOK
<1>12. ASSUME NEW a \in acks, ServeAck(a)
      PROVE  NoLoss'
  BY <1>12 DEF ServeAck, NoLoss, Told, TypeOK
<1>13. ASSUME NEW a \in acks, LoseAck(a)
      PROVE  NoLoss'
  BY <1>13 DEF LoseAck, NoLoss, Told, TypeOK
<1>14. ASSUME NEW s \in 1..MaxSeq, AckWaitExpires(s)
      PROVE  NoLoss'
  BY <1>14 DEF AckWaitExpires, NoLoss, Told, TypeOK
<1>15. ASSUME NEW s \in 1..Len(log), delete_msg(s)
      PROVE  NoLoss'
  BY <1>15 DEF delete_msg, Remove, NoLoss, Told, TypeOK
<1>16. ASSUME purge_stream
      PROVE  NoLoss'
  BY <1>16 DEF purge_stream, Remove, NoLoss, Told, TypeOK
<1> QED
  BY Either, <1>1, <1>2, <1>3, <1>4, <1>5, <1>6, <1>7, <1>8, <1>9, <1>10, <1>11,
     <1>12, <1>13, <1>14, <1>15, <1>16 DEF Consumes

\* It does wherever what is settled is not made available again.
LEMMA SettledStays ==
  ASSUME TypeOK, Confirmed, UNCHANGED <<job, ended>>,
         \A s \in 1..Len(log) : st[s] \in {"done", "gone"} => st'[s] \in {"done", "gone"}
  PROVE  Confirmed'
<1>1. ASSUME NEW w \in Worker, job[w] # None, job[w].stage = "synced"
      PROVE  st'[job[w].seq] \in {"done", "gone"}
  <2>1. job[w].seq \in 1..Len(log)
    BY <1>1 DEF TypeOK
  <2> QED
    BY <1>1, <2>1 DEF Confirmed
<1>2. ASSUME NEW s \in 1..MaxSeq, [kind |-> "sync", seq |-> s] \in ended
      PROVE  st'[s] \in {"done", "gone"}
  <2>1. s \in 1..Len(log)
    BY <1>2 DEF TypeOK
  <2> QED
    BY <1>2, <2>1 DEF Confirmed
<1> QED
  BY <1>1, <1>2 DEF Confirmed

\* What was confirmed stays settled.
LEMMA ConfirmedStep ==
  ASSUME TypeOK, Told, Confirmed, [Next]_vars
  PROVE  Confirmed'
<1>0. Len(log) \in Nat /\ MaxSeq \in Nat /\ 1..Len(log) \subseteq 1..MaxSeq
  BY ConstantsAssumption, LenProperties DEF TypeOK
<1>1. CASE Publishes
  <2>1. UNCHANGED <<job, ended>> /\ \A s \in 1..Len(log) : st'[s] = st[s]
    BY <1>0, <1>1 DEF Publishes, Grown
  <2> QED
    BY <2>1, SettledStays
<1>2. ASSUME NEW w \in Worker, NEW s \in 1..MaxSeq, Deliver(w, s)
      PROVE  Confirmed'
  BY <1>2 DEF Deliver, Confirmed, Told, TypeOK
<1>3. ASSUME NEW w \in Worker, Handle(w)
      PROVE  Confirmed'
  BY <1>3 DEF Handle, sequence_stream, Confirmed, Told, TypeOK
<1>4. ASSUME NEW w \in Worker, Ack(w)
      PROVE  Confirmed'
  BY <1>4 DEF Ack, Tell, Confirmed, Told, TypeOK
<1>5. ASSUME NEW w \in Worker, Nak(w)
      PROVE  Confirmed'
  BY <1>5 DEF Nak, Tell, Confirmed, Told, TypeOK
<1>6. ASSUME NEW w \in Worker, NakWithDelay(w)
      PROVE  Confirmed'
  BY <1>6 DEF NakWithDelay, Tell, Confirmed, Told, TypeOK
<1>7. ASSUME NEW w \in Worker, Term(w)
      PROVE  Confirmed'
  BY <1>7 DEF Term, Tell, Confirmed, Told, TypeOK
<1>8. ASSUME NEW w \in Worker, Abandon(w)
      PROVE  Confirmed'
  BY <1>8 DEF Abandon, Confirmed, Told, TypeOK
<1>9. ASSUME NEW w \in Worker, AckSync(w)
      PROVE  Confirmed'
  BY <1>9 DEF AckSync, Confirmed, Told, TypeOK
<1>10. ASSUME NEW w \in Worker, AckSyncReturns(w)
      PROVE  Confirmed'
  BY <1>10 DEF AckSyncReturns, Confirmed, Told, TypeOK
<1>11. ASSUME NEW w \in Worker, AckSyncThrows(w)
      PROVE  Confirmed'
  BY <1>11 DEF AckSyncThrows, Confirmed, Told, TypeOK
<1>12. ASSUME NEW a \in acks, ServeAck(a)
      PROVE  Confirmed'
  <2>1. \A s \in 1..MaxSeq : st[s] \in {"done", "gone"} => st'[s] \in {"done", "gone"}
    BY <1>12 DEF ServeAck, TypeOK
  <2>2. ASSUME NEW w \in Worker, job'[w] # None, job'[w].stage = "synced"
        PROVE  st'[job'[w].seq] \in {"done", "gone"}
    <3>1. CASE job[w] # None /\ job[w].stage = "synced" /\ job'[w] = job[w]
      <4>1. job[w].seq \in 1..MaxSeq
        BY <1>0, <3>1 DEF TypeOK
      <4> QED
        BY <2>1, <3>1, <4>1 DEF Confirmed
    <3>2. CASE a.by = w /\ job[w] # None /\ job[w].stage = "syncing" /\ job[w].seq = a.seq
      <4>1. a.kind = "ack" /\ a.seq \in 1..Len(log) /\ a.seq \in 1..MaxSeq
        BY <1>0, <3>2, <1>12, ConstantsAssumption DEF Told, TypeOK
      <4>2. st[a.seq] \in {"avail", "out", "done", "gone"}
        BY <1>0, <4>1 DEF TypeOK
      <4>3. st'[a.seq] \in {"done", "gone"}
        BY <1>12, <4>1, <4>2 DEF ServeAck, TypeOK
      <4>4. job'[w].seq = a.seq
        BY <1>12, <3>2 DEF ServeAck, TypeOK
      <4> QED
        BY <4>3, <4>4
    <3> QED
      BY <1>12, <2>2, <3>1, <3>2 DEF ServeAck
  <2>3. ASSUME NEW s \in 1..MaxSeq, [kind |-> "sync", seq |-> s] \in ended'
        PROVE  st'[s] \in {"done", "gone"}
    BY <1>12, <2>1, <2>3 DEF ServeAck, Confirmed
  <2> QED
    BY <2>2, <2>3 DEF Confirmed
<1>13. ASSUME NEW a \in acks, LoseAck(a)
      PROVE  Confirmed'
  BY <1>13 DEF LoseAck, Confirmed, Told, TypeOK
<1>14. ASSUME NEW s \in 1..MaxSeq, AckWaitExpires(s)
      PROVE  Confirmed'
  <2>1. /\ UNCHANGED <<job, ended>>
        /\ \A t \in 1..MaxSeq : st[t] \in {"done", "gone"} => st'[t] \in {"done", "gone"}
    BY <1>14 DEF AckWaitExpires, TypeOK
  <2> QED
    BY <1>0, <2>1, SettledStays
<1>15. ASSUME NEW s \in 1..Len(log), delete_msg(s)
      PROVE  Confirmed'
  <2>1. /\ UNCHANGED <<job, ended>>
        /\ \A t \in 1..MaxSeq : st[t] \in {"done", "gone"} => st'[t] \in {"done", "gone"}
    BY <1>15 DEF delete_msg, Remove, TypeOK
  <2> QED
    BY <1>0, <2>1, SettledStays
<1>16. ASSUME purge_stream
      PROVE  Confirmed'
  <2>1. /\ UNCHANGED <<job, ended>>
        /\ \A s \in 1..MaxSeq : st[s] \in {"done", "gone"} => st'[s] \in {"done", "gone"}
    BY <1>16 DEF purge_stream, Remove, TypeOK
  <2> QED
    BY <1>0, <2>1, SettledStays
<1> QED
  BY Either, <1>1, <1>2, <1>3, <1>4, <1>5, <1>6, <1>7, <1>8, <1>9, <1>10, <1>11,
     <1>12, <1>13, <1>14, <1>15, <1>16 DEF Consumes

-----------------------------------------------------------------------------
\* It holds in every behaviour.
LEMMA Invariance == Spec => []IInv
<1>1. Init => IInv
  <2> SUFFICES ASSUME Init PROVE IInv
    OBVIOUS
  <2>1. /\ log \in Seq([msg : Msg, id : BOOLEAN, once : BOOLEAN]) /\ Len(log) = 0
        /\ MaxSeq \in Nat
    BY ConstantsAssumption, EmptySeq DEF Init
  <2>2. pub \in [Msg -> [stage : {"idle", "sent", "replied", "thrown", "over"},
                         opts : js_publish_options \cup {None}, ack : Acks \cup {None}]]
    BY DEF Init, At
  <2>3. \A m \in Msg : pub[m].stage = "idle" /\ pub[m].opts = None /\ pub[m].ack = None
    BY DEF Init, At
  <2>4. TypeOK
    BY <2>1, <2>2, <2>3 DEF Init, TypeOK
  <2>5. \A m \in Msg, o \in js_publish_options : ~Attempt(m, o)
    BY <2>3 DEF Init, Attempt, Waiting
  <2>6. PublishInv
    BY <2>1, <2>3, <2>5 DEF PublishInv, Attempts, Fresh, Stored, RetriedOnce, Acked
  <2>7. ConsumeInv
    BY <2>1 DEF Init, ConsumeInv, Acted, Told, NoLoss, Confirmed
  <2> QED
    BY <2>4, <2>6, <2>7 DEF IInv
<1>2. IInv /\ [Next]_vars => IInv'
  <2> SUFFICES ASSUME IInv, [Next]_vars PROVE IInv'
    OBVIOUS
  <2>1. TypeOK'
    BY TypeStep DEF IInv
  <2>2. PublishInv'
    BY AttemptsStep, FreshStep, StoredStep, RetriedOnceStep, AckedStep DEF IInv,
       PublishInv
  <2>3. ConsumeInv'
    BY <2>2, ActedStep, ToldStep, NoLossStep, ConfirmedStep DEF IInv, PublishInv,
       ConsumeInv
  <2> QED
    BY <2>1, <2>2, <2>3 DEF IInv
<1> QED
  BY <1>1, <1>2, PTL DEF Spec

\* Types, whatever the options and bounds.
THEOREM TypeCorrect == Spec => []TypeOK
<1>1. IInv => TypeOK
  BY DEF IInv
<1> QED
  BY <1>1, Invariance, PTL

\* A message published with a msg_id or an expected_last_seq is stored once,
\* however often publish() throws and is repeated.
THEOREM PublishedOnce == Spec => []RetriedOnce
<1>1. IInv => RetriedOnce
  BY DEF IInv, PublishInv
<1> QED
  BY <1>1, Invariance, PTL

\* What publish() returns is where the message is, and the expectations held.
THEOREM Acknowledged == Spec => []PubAckHolds
<1>1. IInv => PubAckHolds
  <2> SUFFICES ASSUME IInv, NEW m \in Msg, pub[m].stage = "replied"
               PROVE  LET o == pub[m].opts
                          s == pub[m].ack.sequence
                      IN /\ s \in 1..Len(log) /\ log[s].msg = m
                         /\ pub[m].ack.duplicate => o.msg_id
                         /\ o.expected_last_seq > 0 => s = o.expected_last_seq + 1
                         /\ o.expect_no_message => \A t \in 1..(s - 1) : st[t] = "gone"
    BY DEF PubAckHolds
  <2>1. /\ pub[m].ack.sequence \in 1..Len(log)
        /\ log[pub[m].ack.sequence].msg = m
        /\ pub[m].ack.duplicate => pub[m].opts.msg_id
    BY DEF IInv, PublishInv, Acked
  <2>2. pub[m].opts \in js_publish_options /\ Attempt(m, pub[m].opts)
    BY DEF IInv, TypeOK, Attempt, Waiting
  <2>3. Fulfils(pub[m].ack.sequence, pub[m].opts)
    BY <2>1, <2>2 DEF IInv, PublishInv, Stored
  <2> QED
    BY <2>1, <2>3 DEF Fulfils
<1> QED
  BY <1>1, Invariance, PTL

\* No message is settled that was neither handled nor given up.
THEOREM Handled == Spec => []NoLoss
<1>1. IInv => NoLoss
  BY DEF IInv, ConsumeInv
<1> QED
  BY <1>1, Invariance, PTL

\* From publisher to worker, once.
THEOREM ActedOnce == Spec => []EffectOnce
<1>1. IInv => EffectOnce
  BY DEF IInv, ConsumeInv, Acted, EffectOnce
<1> QED
  BY <1>1, Invariance, PTL

\* When ack_sync() has returned, the message is not delivered again.
SyncFinal ==
  [][\A s \in 1..MaxSeq : [kind |-> "sync", seq |-> s] \in ended
                          => count'[s] = count[s]]_vars

\* A message is not delivered again once ack_sync() has returned.
THEOREM SyncSettles == Spec => SyncFinal
<1>1. IInv /\ [Next]_vars => [\A s \in 1..MaxSeq : [kind |-> "sync", seq |-> s] \in ended
                                                    => count'[s] = count[s]]_vars
  <2> SUFFICES ASSUME IInv, [Next]_vars, NEW s \in 1..MaxSeq,
                      [kind |-> "sync", seq |-> s] \in ended
               PROVE  count'[s] = count[s]
    OBVIOUS
  <2>1. TypeOK /\ st[s] # "avail"
    BY DEF IInv, ConsumeInv, Confirmed
  <2>2. ASSUME NEW w \in Worker, NEW t \in 1..MaxSeq, Deliver(w, t)
        PROVE  count'[s] = count[s]
    BY <2>1, <2>2 DEF Deliver, TypeOK
  <2>3. ASSUME Consumes, \A w \in Worker, t \in 1..MaxSeq : ~Deliver(w, t)
        PROVE  UNCHANGED count
    BY <2>3 DEF Consumes, Handle, Ack, Nak, NakWithDelay, Term, Tell, Abandon, AckSync,
       AckSyncReturns, AckSyncThrows, ServeAck, LoseAck, AckWaitExpires, delete_msg,
       purge_stream, Remove
  <2> QED
    BY <2>1, <2>2, <2>3, Either DEF Publishes
<1> QED
  BY <1>1, Invariance, PTL DEF Spec, SyncFinal
-----------------------------------------------------------------------------
(* Publishers, stream and workers as one queue                             *)

\* What a publisher is told, and the sequences that are open, settled, given up
\* and confirmed.
Receipt == [m \in Msg |-> IF pub[m].stage = "replied" THEN pub[m].ack.sequence ELSE None]
Open == {s \in 1..MaxSeq : st[s] \in {"avail", "out"}}
Settled == {s \in 1..MaxSeq : st[s] = "done"}
Given == {s \in 1..MaxSeq : [kind |-> "term", seq |-> s] \in ended}
Final == {s \in 1..MaxSeq : [kind |-> "sync", seq |-> s] \in ended}

\* Nobody works on what was not delivered.
Delivered == \A w \in Worker : job[w] # None => count[job[w].seq] > 0

\* Only a delivery gives a worker something to do.
LEMMA DeliveredStep ==
  ASSUME TypeOK, Delivered, [Next]_vars
  PROVE  Delivered'
<1>1. CASE UNCHANGED <<job, count>>
  BY <1>1 DEF Delivered
<1>2. ASSUME UNCHANGED count,
             \A w \in Worker : job'[w] # None => job[w] # None /\ job'[w].seq = job[w].seq
      PROVE  Delivered'
  BY <1>2 DEF Delivered
<1>3. ASSUME NEW v \in Worker, NEW s \in 1..MaxSeq, Deliver(v, s)
      PROVE  Delivered'
  <2>1. /\ job'[v] = [seq |-> s, stage |-> "got"]
        /\ \A w \in Worker \ {v} : job'[w] = job[w]
        /\ count[s] \in Nat /\ count'[s] = count[s] + 1
        /\ \A r \in 1..MaxSeq : r # s => count'[r] = count[r]
    BY <1>3 DEF Deliver, TypeOK
  <2>2. \A w \in Worker : job[w] # None => job[w].seq \in 1..MaxSeq
    BY ConstantsAssumption, LenProperties DEF TypeOK
  <2>3. ASSUME NEW w \in Worker, job'[w] # None
        PROVE  count'[job'[w].seq] > 0
    <3>1. CASE w = v
      BY <2>1, <3>1
    <3>2. CASE w # v
      <4>1. job'[w] = job[w] /\ job[w].seq \in 1..MaxSeq /\ count[job[w].seq] > 0
        BY <2>1, <2>2, <2>3, <3>2 DEF Delivered
      <4> QED
        BY <2>1, <4>1
    <3> QED
      BY <3>1, <3>2
  <2> QED
    BY <2>3 DEF Delivered
<1>4. ASSUME NEW w \in Worker, Handle(w) \/ AckSync(w)
      PROVE  Delivered'
  <2>1. PICK stage \in {"handled", "syncing"} :
          job[w] # None /\ UNCHANGED count /\ job' = [job EXCEPT ![w].stage = stage]
    BY <1>4 DEF Handle, AckSync
  <2>2. job[w] \in [seq : 1..Len(log), stage : {"got", "handled", "syncing", "synced"}]
    BY <2>1 DEF TypeOK
  <2>3. job'[w].seq = job[w].seq /\ \A v \in Worker \ {w} : job'[v] = job[v]
    BY <2>1, <2>2 DEF TypeOK
  <2> QED
    BY <1>2, <2>1, <2>3
<1>5. ASSUME NEW w \in Worker, \/ Ack(w) \/ Nak(w) \/ NakWithDelay(w) \/ Term(w)
                               \/ Abandon(w) \/ AckSyncReturns(w) \/ AckSyncThrows(w)
      PROVE  Delivered'
  BY <1>2, <1>5 DEF Ack, Nak, NakWithDelay, Term, Tell, Abandon, AckSyncReturns,
     AckSyncThrows, TypeOK
<1>6. ASSUME NEW a \in acks, ServeAck(a)
      PROVE  Delivered'
  <2>1. \A w \in Worker : job'[w] # None => job[w] # None /\ job'[w].seq = job[w].seq
    BY <1>6 DEF ServeAck, TypeOK
  <2> QED
    BY <1>2, <1>6, <2>1 DEF ServeAck
<1>7. ASSUME \/ \E a \in acks : LoseAck(a)
             \/ \E s \in 1..MaxSeq : AckWaitExpires(s)
             \/ \E s \in 1..Len(log) : delete_msg(s)
             \/ purge_stream
      PROVE  UNCHANGED <<job, count>>
  BY <1>7 DEF LoseAck, AckWaitExpires, delete_msg, purge_stream, Remove
<1>8. Publishes => UNCHANGED <<job, count>>
  BY DEF Publishes
<1> QED
  BY Either, <1>1, <1>3, <1>4, <1>5, <1>6, <1>7, <1>8 DEF Consumes

\* A change of one publisher is one of what it is told.
LEMMA ReceiptOf ==
  ASSUME TypeOK, NEW m \in Msg, NEW x, pub' = [pub EXCEPT ![m] = x]
  PROVE  Receipt' = [Receipt EXCEPT ![m] = IF x.stage = "replied" THEN x.ack.sequence
                                           ELSE None]
BY DEF TypeOK, Receipt

\* A log that has grown by one is the old one and its last entry.
LEMMA OneMore ==
  ASSUME TypeOK, TypeOK', Grown, Len(log') = Len(log) + 1
  PROVE  /\ log'[Len(log) + 1] \in [msg : Msg, id : BOOLEAN, once : BOOLEAN]
         /\ log' = Append(log, log'[Len(log) + 1])
<1> DEFINE E == [msg : Msg, id : BOOLEAN, once : BOOLEAN]
           e == log'[Len(log) + 1]
<1>1. log \in Seq(E) /\ log' \in Seq(E) /\ Len(log) \in Nat
  BY LenProperties DEF TypeOK
<1>2. e \in E
  <2>1. Len(log) + 1 \in 1..Len(log')
    BY <1>1
  <2> HIDE DEF E
  <2> QED
    BY <1>1, <2>1, ElementOfSeq
<1>3. /\ Append(log, e) \in Seq(E) /\ Len(Append(log, e)) = Len(log) + 1
      /\ \A s \in 1..Len(log) : Append(log, e)[s] = log[s]
      /\ Append(log, e)[Len(log) + 1] = e
  BY <1>1, <1>2, AppendProperties
<1>4. \A s \in 1..Len(log') : log'[s] = Append(log, e)[s]
  BY <1>1, <1>3 DEF Grown
<1> HIDE DEF e, E
<1>5. log' = Append(log, e)
  BY <1>1, <1>3, <1>4, SeqEqual
<1> QED
  BY <1>2, <1>5 DEF e, E

\* What a request does that is stored is the queue's Store.
LEMMA StoreStep ==
  ASSUME TypeOK, TypeOK', RetriedOnce',
         NEW q \in [msg : Msg, opts : js_publish_options], NEW a \in Acks, Appended(q, a),
         Receipt' \in {Receipt, [Receipt EXCEPT ![q.msg] = Len(log) + 1]},
         UNCHANGED <<count, job, acks, seen, effects, ended>>
  PROVE  Queue!Next
<1>0. Len(log) \in Nat /\ MaxSeq \in Nat
  BY ConstantsAssumption, LenProperties DEF TypeOK
<1>1. /\ Grown /\ Len(log') = Len(log) + 1 /\ Len(log) + 1 \in 1..MaxSeq
      /\ log'[Len(log) + 1].msg = q.msg /\ st' = [st EXCEPT ![Len(log) + 1] = "avail"]
  <2>1. Grown
    BY Grows
  <2> QED
    BY <1>0, <2>1 DEF Appended
<1>2. PICK e \in [msg : Msg, id : BOOLEAN, once : BOOLEAN] :
        e = log'[Len(log) + 1] /\ log' = Append(log, e)
  BY <1>1, OneMore
<1>3. ASSUME NEW s \in 1..Len(log), log[s].msg = e.msg
      PROVE  ~log[s].once /\ ~e.once
  <2>1. log'[s] = log[s] /\ s \in 1..Len(log') /\ Len(log) + 1 \in 1..Len(log')
        /\ s # Len(log) + 1
    BY <1>0, <1>1 DEF Grown
  <2> QED
    BY <1>2, <1>3, <2>1 DEF RetriedOnce
<1>4. Open' = Open \cup {Len(log) + 1}
  BY <1>0, <1>1 DEF Open, TypeOK
<1>5. Settled' = Settled
  BY <1>0, <1>1 DEF Settled, TypeOK
<1>6. Given' = Given /\ Final' = Final
  BY DEF Given, Final
<1>7. Queue!Store(e)
  BY <1>1, <1>2, <1>3, <1>4, <1>5, <1>6
  DEF Queue!Store, Receipt, Open, Settled, Given, Final
<1> QED
  BY <1>7 DEF Queue!Next

\* A request that is a duplicate recalls a receipt; a call that is repeated,
\* given up, refused, thrown or returned forgets it.
LEMMA PublishStep ==
  ASSUME TypeOK, TypeOK', RetriedOnce', NEW m \in Msg,
         \/ \E o \in Options[m] : Publish(m, o)
         \/ Retry(m) \/ GiveUp(m) \/ ServePublish(m) \/ RefusePublish(m)
         \/ PublishThrows(m) \/ PublishReturns(m)
  PROVE  Queue!Next
<1>1. ASSUME NEW x, pub' = [pub EXCEPT ![m] = x], x.stage # "replied",
             UNCHANGED <<log, consumeVars>>
      PROVE  Queue!Next
  <2>1. Receipt' = [Receipt EXCEPT ![m] = None]
    BY <1>1, ReceiptOf
  <2>2. Queue!Forget(m)
    BY <1>1, <2>1 DEF Queue!Forget, Receipt, consumeVars
  <2> QED
    BY <2>2 DEF Queue!Next
<1>2. ASSUME NEW o \in Options[m], Publish(m, o)
      PROVE  Queue!Next
  <2>1. At("sent", o, None).stage # "replied"
    BY DEF At
  <2> QED
    BY <1>1, <1>2, <2>1 DEF Publish
<1>3. CASE Retry(m)
  <2>1. pub' = [pub EXCEPT ![m] = [pub[m] EXCEPT !.stage = "sent"]]
    BY <1>3 DEF Retry
  <2>2. [pub[m] EXCEPT !.stage = "sent"].stage = "sent"
    BY DEF TypeOK
  <2> QED
    BY <1>1, <1>3, <2>1, <2>2 DEF Retry
<1>4. CASE GiveUp(m) \/ RefusePublish(m) \/ PublishReturns(m)
  <2>1. At("over", None, None).stage # "replied"
    BY DEF At
  <2> QED
    BY <1>1, <1>4, <2>1 DEF GiveUp, RefusePublish, PublishReturns
<1>5. CASE PublishThrows(m)
  <2>1. /\ pub' = [pub EXCEPT ![m] = At("thrown", pub[m].opts, None)]
        /\ UNCHANGED <<log, consumeVars>>
    BY <1>5 DEF PublishThrows
  <2>2. At("thrown", pub[m].opts, None).stage # "replied"
    BY DEF At
  <2> QED
    BY <1>1, <2>1, <2>2
<1>6. CASE ServePublish(m)
  <2>1. PICK a \in Acks : /\ Store(Request(m), a)
                          /\ pub' = [pub EXCEPT ![m] = At("replied", pub[m].opts, a)]
    BY <1>6 DEF ServePublish
  <2>2. /\ Request(m) \in [msg : Msg, opts : js_publish_options] /\ Request(m).msg = m
        /\ Duplicate(Request(m), a) \/ Appended(Request(m), a)
    BY <1>6, <2>1, Requests, Stores DEF ServePublish, Waiting
  <2>3. Receipt' = [Receipt EXCEPT ![m] = a.sequence]
    BY <2>1, ReceiptOf DEF At
  <2>4. UNCHANGED <<count, job, acks, seen, effects, ended>>
    BY <1>6 DEF ServePublish
  <2>5. CASE Duplicate(Request(m), a)
    <3>1. a.sequence \in 1..Len(log) /\ log[a.sequence].msg = m /\ UNCHANGED <<log, st>>
      BY <2>2, <2>5 DEF Duplicate
    <3>2. Queue!Recall(a.sequence)
      BY <2>3, <2>4, <3>1 DEF Queue!Recall, Receipt
    <3> QED
      BY <3>1, <3>2 DEF Queue!Next
  <2>6. CASE Appended(Request(m), a)
    <3>1. a.sequence = Len(log) + 1
      BY <2>6 DEF Appended
    <3> QED
      BY <2>2, <2>3, <2>4, <2>6, <3>1, StoreStep
  <2> QED
    BY <2>2, <2>5, <2>6
<1> QED
  BY <1>2, <1>3, <1>4, <1>5, <1>6

\* A late request is stored, or nobody hears of it.
LEMMA LateStep ==
  ASSUME TypeOK, TypeOK', RetriedOnce', NEW q \in late, ServeLate(q)
  PROVE  Queue!Next \/ UNCHANGED Queue!vars
<1>1. UNCHANGED <<pub, count, job, acks, seen, effects, ended>> /\ Receipt' = Receipt
  BY DEF ServeLate, Receipt
<1>2. CASE UNCHANGED <<log, st>>
  BY <1>1, <1>2 DEF Queue!vars, Receipt
<1>3. ASSUME NEW a \in Acks, Store(q, a)
      PROVE  Queue!Next \/ UNCHANGED Queue!vars
  <2>1. q \in [msg : Msg, opts : js_publish_options]
    BY DEF TypeOK
  <2>2. Duplicate(q, a) \/ Appended(q, a)
    BY <1>3, <2>1, Stores
  <2>3. CASE Appended(q, a)
    BY <1>1, <2>1, <2>3, StoreStep
  <2> QED
    BY <1>2, <2>2, <2>3 DEF Duplicate
<1> QED
  BY <1>2, <1>3 DEF ServeLate

\* Acknowledgements that are published, expire or are lost change nothing of the
\* queue; the others settle, give up or confirm one sequence, or remove some.
LEMMA ConsumeStep ==
  ASSUME IInv, Delivered, Consumes
  PROVE  Queue!Next \/ UNCHANGED Queue!vars
<1>0. /\ TypeOK /\ Len(log) \in Nat /\ 1..Len(log) \subseteq 1..MaxSeq
      /\ UNCHANGED <<log, pub, late>>
  <2>1. TypeOK
    BY DEF IInv
  <2>2. Len(log) \in Nat /\ 1..Len(log) \subseteq 1..MaxSeq
    BY <2>1, ConstantsAssumption, LenProperties DEF TypeOK
  <2>3. UNCHANGED <<log, pub, late>>
    BY DEF Consumes, pubVars, Deliver, Handle, Ack, Nak, NakWithDelay, Term, Tell, Abandon,
       AckSync, AckSyncReturns, AckSyncThrows, ServeAck, LoseAck, AckWaitExpires,
       delete_msg, purge_stream, Remove
  <2> QED
    BY <2>1, <2>2, <2>3
<1>1. Receipt' = Receipt
  BY <1>0 DEF Receipt
<1>2. ASSUME Open' = Open, Settled' = Settled, UNCHANGED <<count, seen, effects, ended>>
      PROVE  UNCHANGED Queue!vars
  <2>1. Given' = Given /\ Final' = Final
    BY <1>2 DEF Given, Final
  <2> QED
    BY <1>0, <1>1, <1>2, <2>1 DEF Queue!vars, Receipt, Open, Settled, Given, Final
<1>3. CASE UNCHANGED <<st, count, seen, effects, ended>>
  BY <1>2, <1>3 DEF Open, Settled
<1>4. ASSUME NEW w \in Worker, NEW s \in 1..MaxSeq, Deliver(w, s)
      PROVE  Queue!Next
  <2>1. /\ st[s] = "avail" /\ st' = [st EXCEPT ![s] = "out"] /\ s \in 1..Len(log)
        /\ count' = [count EXCEPT ![s] = count[s] + 1]
        /\ ~Exhausted(s) /\ UNCHANGED <<seen, effects, ended>>
    BY <1>0, <1>4 DEF Deliver, TypeOK
  <2>2. s \in Open /\ Open' = Open /\ Settled' = Settled
    BY <1>0, <2>1 DEF Open, Settled, TypeOK
  <2>3. MaxDeliver = 0 \/ count[s] < MaxDeliver
    BY <1>0, <2>1, ConstantsAssumption DEF Exhausted, MaxDeliver, TypeOK
  <2>4. Queue!Deliver(s)
    BY <1>0, <1>1, <2>1, <2>2, <2>3 DEF Queue!Deliver, Receipt, Open, Settled
  <2> QED
    BY <2>1, <2>4 DEF Queue!Next
<1>5. ASSUME NEW w \in Worker, Handle(w)
      PROVE  Queue!Next \/ UNCHANGED Queue!vars
  <2> DEFINE s == job[w].seq
  <2>1. /\ job[w] # None /\ seen' = seen \cup {s} /\ UNCHANGED <<st, count, ended>>
        /\ effects' = IF s \in seen THEN effects
                      ELSE [effects EXCEPT ![log[s].msg] = effects[log[s].msg] + 1]
    BY <1>5 DEF Handle, sequence_stream
  <2>2. s \in 1..Len(log) /\ count[s] > 0 /\ Open' = Open /\ Settled' = Settled
    BY <1>0, <2>1 DEF TypeOK, Delivered, Open, Settled
  <2> HIDE DEF s
  <2>3. CASE s \in seen
    BY <1>3, <2>1, <2>3
  <2>4. CASE s \notin seen
    <3>1. Queue!Act(s)
      BY <1>0, <1>1, <2>1, <2>2, <2>4 DEF Queue!Act, Receipt, Open, Settled
    <3> QED
      BY <2>2, <3>1 DEF Queue!Next
  <2> QED
    BY <2>3, <2>4
<1>6. ASSUME NEW w \in Worker, Term(w)
      PROVE  Queue!Next
  <2>1. PICK s : s = job[w].seq
    OBVIOUS
  <2>2. /\ job[w] # None /\ UNCHANGED <<st, count, seen, effects>>
        /\ ended' = ended \cup {[kind |-> "term", seq |-> s]}
    BY <1>6, <2>1 DEF Term, Tell
  <2>3. s \in 1..Len(log) /\ count[s] > 0
    BY <1>0, <2>1, <2>2 DEF TypeOK, Delivered
  <2>4. Given' = Given \cup {s} /\ Final' = Final
    BY <1>0, <2>2, <2>3 DEF Given, Final
  <2>5. Queue!GiveUp(s)
    BY <1>0, <1>1, <2>2, <2>3, <2>4 DEF Queue!GiveUp, Receipt, Given, Final
  <2> QED
    BY <2>3, <2>5 DEF Queue!Next
<1>7. ASSUME NEW w \in Worker, AckSyncReturns(w)
      PROVE  Queue!Next
  <2>1. PICK s : s = job[w].seq
    OBVIOUS
  <2>2. /\ job[w] # None /\ job[w].stage = "synced" /\ UNCHANGED <<st, count, seen, effects>>
        /\ ended' = ended \cup {[kind |-> "sync", seq |-> s]}
    BY <1>7, <2>1 DEF AckSyncReturns
  <2>3. s \in 1..Len(log) /\ s \in seen /\ st[s] \in {"done", "gone"}
    BY <1>0, <2>1, <2>2 DEF IInv, ConsumeInv, TypeOK, Told, Confirmed
  <2>4. Final' = Final \cup {s} /\ Given' = Given /\ s \notin Open
    BY <1>0, <2>2, <2>3 DEF Given, Final, Open
  <2>5. Queue!Confirm(s)
    BY <1>0, <1>1, <2>2, <2>3, <2>4 DEF Queue!Confirm, Receipt, Given, Final, Open
  <2> QED
    BY <2>3, <2>5 DEF Queue!Next
<1>8. ASSUME NEW a \in acks, ServeAck(a)
      PROVE  Queue!Next \/ UNCHANGED Queue!vars
  <2>1. PICK s \in 1..Len(log) : s = a.seq
    BY <1>0, <1>8 DEF TypeOK
  <2>2. /\ UNCHANGED <<count, seen, effects, ended>>
        /\ \A r \in 1..MaxSeq : r # s => st'[r] = st[r]
        /\ st[s] \in {"avail", "out"} /\ a.kind \in {"ack", "term"} => st'[s] = "done"
        /\ st[s] = "out" /\ a.kind \notin {"ack", "term"} => st'[s] \in {"avail", "out"}
        /\ st[s] # "out" /\ ~(st[s] = "avail" /\ a.kind \in {"ack", "term"})
             => st'[s] = st[s]
    BY <1>0, <1>8, <2>1 DEF ServeAck, TypeOK
  <2>3. CASE s \in Open /\ a.kind \in {"ack", "term"}
    <3>1. st'[s] = "done" /\ Open' = Open \ {s} /\ Settled' = Settled \cup {s}
      BY <1>0, <2>1, <2>2, <2>3 DEF Open, Settled
    <3>2. s \in seen \cup Given
      BY <1>0, <2>1, <2>3 DEF IInv, ConsumeInv, Told, Given
    <3>3. Queue!Settle(s)
      BY <1>0, <1>1, <2>2, <2>3, <3>1, <3>2 DEF Queue!Settle, Receipt, Open, Settled, Given
    <3> QED
      BY <3>3 DEF Queue!Next
  <2>4. CASE ~(s \in Open /\ a.kind \in {"ack", "term"})
    <3>1. Open' = Open /\ Settled' = Settled
      BY <1>0, <2>2, <2>4 DEF Open, Settled
    <3> QED
      BY <1>2, <2>2, <3>1
  <2> QED
    BY <2>3, <2>4
<1>9. ASSUME NEW s \in 1..MaxSeq, AckWaitExpires(s)
      PROVE  UNCHANGED Queue!vars
  <2>1. /\ st[s] = "out" /\ st' = [st EXCEPT ![s] = "avail"]
        /\ UNCHANGED <<count, seen, effects, ended>>
    BY <1>9 DEF AckWaitExpires
  <2>2. Open' = Open /\ Settled' = Settled
    BY <1>0, <2>1 DEF Open, Settled, TypeOK
  <2> QED
    BY <1>2, <2>1, <2>2
<1>10. ASSUME NEW S \in SUBSET (1..Len(log)), Remove(S)
       PROVE  Queue!Next
  <2>1. Open' = Open \ S /\ Settled' = Settled \ S
    BY <1>10 DEF Remove, Open, Settled
  <2>2. Queue!Remove(S)
    BY <1>0, <1>1, <1>10, <2>1 DEF Remove, Queue!Remove, Receipt, Open, Settled
  <2> QED
    BY <2>2 DEF Queue!Next
<1>11. ASSUME NEW w \in Worker, \/ Ack(w) \/ Nak(w) \/ NakWithDelay(w) \/ Abandon(w)
                                \/ AckSync(w) \/ AckSyncThrows(w)
       PROVE  UNCHANGED <<st, count, seen, effects, ended>>
  BY <1>11 DEF Ack, Nak, NakWithDelay, Abandon, AckSync, AckSyncThrows, Tell
<1>12. ASSUME NEW a \in acks, LoseAck(a)
       PROVE  UNCHANGED <<st, count, seen, effects, ended>>
  BY <1>12 DEF LoseAck
<1>13. ASSUME NEW s \in 1..Len(log), delete_msg(s)
       PROVE  Queue!Next
  BY <1>10, <1>13 DEF delete_msg
<1>14. purge_stream => Queue!Next
  BY <1>10 DEF purge_stream
<1> QED
  BY <1>3, <1>4, <1>5, <1>6, <1>7, <1>8, <1>9, <1>11, <1>12, <1>13, <1>14 DEF Consumes

\* Publishers, the stream and its workers implement the queue, for any messages,
\* options, workers and bounds, and whether or not publishing is over.
THEOREM Refinement == Spec => IsQueue
<1>1. Init => Queue!Init
  <2> SUFFICES ASSUME Init PROVE Queue!Init
    OBVIOUS
  <2>1. \A m \in Msg : pub[m].stage # "replied"
    BY DEF Init, At
  <2> QED
    BY <2>1 DEF Init, Queue!Init
<1>2. Init => Delivered
  BY DEF Init, Delivered
<1>3. IInv /\ Delivered /\ [Next]_vars => Delivered'
  BY DeliveredStep DEF IInv
<1>4. IInv /\ IInv' /\ Delivered /\ [Next]_vars => [Queue!Next]_(Queue!vars)
  <2> SUFFICES ASSUME IInv, IInv', Delivered, [Next]_vars
               PROVE  Queue!Next \/ UNCHANGED Queue!vars
    OBVIOUS
  <2>1. TypeOK /\ TypeOK' /\ RetriedOnce'
    BY DEF IInv, PublishInv
  <2>2. CASE UNCHANGED vars
    BY <2>2 DEF vars, Queue!vars
  <2>3. CASE Consumes
    BY <2>3, ConsumeStep
  <2>4. CASE \E q \in late : ServeLate(q)
    BY <2>1, <2>4, LateStep
  <2>5. ASSUME NEW m \in Msg,
               \/ \E o \in Options[m] : Publish(m, o)
               \/ Retry(m) \/ GiveUp(m) \/ ServePublish(m) \/ RefusePublish(m)
               \/ PublishThrows(m) \/ PublishReturns(m)
        PROVE  Queue!Next
    BY <2>1, <2>5, PublishStep
  <2> QED
    BY <2>2, <2>3, <2>4, <2>5 DEF Next, Consumes
<1> QED
  BY <1>1, <1>2, <1>3, <1>4, Invariance, PTL DEF Spec, IsQueue, Queue!Spec
=============================================================================
