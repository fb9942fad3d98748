--------------------------- MODULE KeyValueProofs ---------------------------
(***************************************************************************)
(* Why the bucket is an atomic map to its callers, although it discards    *)
(* revisions and serves requests late; why an update over a stale revision *)
(* or a create over a live key never succeeds, and a revision returned to  *)
(* a client never goes back; and why what a watcher delivers adds up to a  *)
(* copy.  For any number of clients, keys, writes and calls that timed out *)
(***************************************************************************)
EXTENDS KeyValue, WellFoundedInduction, TLAPS

Writes == [op : {"Put"} \cup Markers, key : Key, value : Client]

\* Each operation calls its own kvStore function.
Mapped(q) ==
  q.native = CASE q.op = "get"    -> "Get"    [] q.op = "put"    -> "Put"
               [] q.op = "create" -> "Create" [] q.op = "update" -> "Update"
               [] q.op = "erase"  -> "Delete" [] q.op = "purge"  -> "Purge"
Requests ==
  /\ \A c \in Client : call[c] # None => call[c] \in Request /\ Mapped(call[c])
  /\ \A q \in late : Mapped(q)

\* What is discarded of a key is older than what is kept of it, ...
Covered ==
  \A r \in kept, t \in 1..Len(log) :
    log[t].key = log[r].key /\ r < t
    => \E u \in kept : log[u].key = log[r].key /\ t <= u

\* ... and its last write is kept unless it was a marker.
LastKept ==
  \A t \in 1..Len(log) :
    /\ log[t].op \notin Markers
    /\ \A s \in 1..Len(log) : log[s].key = log[t].key => s <= t
    => t \in kept

BucketInv == TypeOK /\ Requests /\ Covered /\ LastKept

-----------------------------------------------------------------------------
\* A write adds one revision and changes none.
LEMMA ApplyLog ==
  ASSUME TypeOK, NEW q \in Request, Apply(q)
  PROVE  /\ log' \in Seq(Writes)
         /\ Len(log') = Len(log) + 1
         /\ \A s \in 1..Len(log) : log'[s] = log[s]
         /\ log'[Len(log) + 1] = Recorded(q)
         /\ Recorded(q) \in Writes
         /\ Recorded(q).key = q.key
         /\ Accepts(q)
         /\ kept' = Survivors(q) \cup {Len(log) + 1}
         /\ Survivors(q) \subseteq kept
         /\ \A r \in kept : log[r].key # q.key => r \in Survivors(q)
<1>1. Recorded(q) \in Writes /\ Recorded(q).key = q.key
  BY DEF Recorded, Request, Writes, Markers
<1>2. log \in Seq(Writes)
  BY DEF TypeOK, Writes
<1>3. log' = Append(log, Recorded(q))
  BY DEF Apply
<1>4. /\ log' \in Seq(Writes) /\ Len(log') = Len(log) + 1
      /\ \A s \in 1..Len(log) : log'[s] = log[s]
      /\ log'[Len(log) + 1] = Recorded(q)
  BY <1>1, <1>2, <1>3
<1>5. /\ Survivors(q) \subseteq kept
      /\ \A r \in kept : log[r].key # q.key => r \in Survivors(q)
  BY DEF Survivors
<1>6. Accepts(q) /\ kept' = Survivors(q) \cup {Len(log) + 1}
  BY DEF Apply
<1> QED
  BY <1>1, <1>4, <1>5, <1>6

Watchers(n) ==
  [keys : SUBSET Key, options : Options, native : NativeOptions,
   pending : SUBSET (1..n), start : 0..n]

\* Types after a write.
LEMMA ApplyTypes ==
  ASSUME TypeOK, NEW q \in Request, Apply(q)
  PROVE  /\ log' \in Seq([op : {"Put"} \cup Markers, key : Key, value : Client])
         /\ kept' \subseteq 1..Len(log')
         /\ watch' \in Watchers(Len(log')) \cup {None}
         /\ Len(log) \in Nat /\ Len(log') = Len(log) + 1
<1> DEFINE n == Len(log)
<1>1. n \in Nat
  BY DEF TypeOK
<1>2. Len(log') = n + 1 /\ log' \in Seq(Writes)
  BY ApplyLog
<1>3. kept' \subseteq 1..(n + 1)
  <2>1. kept \subseteq 1..n
    BY DEF TypeOK
  <2>2. kept' \subseteq kept \cup {n + 1}
    BY ApplyLog
  <2> QED
    BY <1>1, <2>1, <2>2
<1>4. watch' \in Watchers(n + 1) \cup {None}
  <2>0. watch \in Watchers(n) \cup {None}
    BY DEF TypeOK, Watchers
  <2>1. CASE watch' = watch
    BY <1>1, <2>0, <2>1 DEF Watchers
  <2>2. CASE watch # None /\ watch' = [watch EXCEPT !.pending = @ \cup {n + 1}]
    BY <1>1, <2>0, <2>2 DEF Watchers
  <2> QED
    BY <2>1, <2>2 DEF Apply
<1> QED
  BY <1>1, <1>2, <1>3, <1>4 DEF Writes

Replies(n) == [ok : BOOLEAN, rev : 0..n]

\* A revision that was one stays one.
LEMMA Widened ==
  ASSUME NEW n \in Nat
  PROVE  /\ [Client -> [Key -> 0..n]] \subseteq [Client -> [Key -> 0..(n + 1)]]
         /\ [Key -> 0..n] \subseteq [Key -> 0..(n + 1)]
<1>1. 0..n \subseteq 0..(n + 1)
  OBVIOUS
<1>2. [Key -> 0..n] \subseteq [Key -> 0..(n + 1)]
  BY <1>1
<1> QED
  BY <1>2

\* With the bucket unchanged only the other variables can break their types.
LEMMA TypeStep == TypeOK /\ Requests /\ [Next]_vars => TypeOK'
<1> SUFFICES ASSUME TypeOK, Requests, [Next]_vars PROVE TypeOK'
  OBVIOUS
<1>0. Len(log) \in Nat
  BY DEF TypeOK
<1>1. ASSUME NEW c \in Client, NEW k \in Key,
             \/ Get(c, k) \/ Put(c, k) \/ Create(c, k)
             \/ Update(c, k) \/ Erase(c, k) \/ Purge(c, k)
      PROVE  TypeOK'
  <2>1. PICK o \in {"get", "put", "create", "update", "erase", "purge"},
             nat \in {"Get", "Put", "Create", "Update"} \cup Markers, rev \in Nat :
          Send(c, o, nat, k, rev)
    <3>1. known[c][k] \in Nat
      BY <1>0 DEF TypeOK
    <3>2. CASE Update(c, k)
      BY <3>1, <3>2 DEF Update
    <3>3. CASE ~Update(c, k)
      BY <1>1, <3>3 DEF Get, Put, Create, Erase, Purge, Markers
    <3> QED
      BY <3>2, <3>3
  <2>2. call' \in [Client -> Request \cup {None}]
    BY <2>1 DEF Send, TypeOK, Request
  <2>3. \A d \in Client : reply[d] # None => call'[d] # None
    BY <2>1 DEF Send, TypeOK
  <2> QED
    BY <2>1, <2>2, <2>3 DEF Send, TypeOK, bucketVars, learnt, watcherVars
<1>2. ASSUME NEW c \in Client, Return(c)
      PROVE  TypeOK'
  <2>1. call[c] \in Request /\ reply[c].rev \in 0..Len(log)
    BY <1>2 DEF Return, TypeOK, Requests
  <2>2. known' \in [Client -> [Key -> 0..Len(log)]]
    BY <1>0, <1>2, <2>1 DEF Return, TypeOK, Request
  <2>3. floor' \in [Client -> [Key -> 0..Len(log)]]
    BY <1>2, <2>1 DEF Return, TypeOK, Request
  <2> QED
    BY <1>2, <2>2, <2>3 DEF Return, Done, TypeOK, bucketVars, watcherVars
<1>3. ASSUME NEW c \in Client, Refused(c)
      PROVE  TypeOK'
  BY <1>3 DEF Refused, Done, TypeOK, bucketVars, learnt, watcherVars
<1>4. ASSUME NEW c \in Client, Timeout(c)
      PROVE  TypeOK'
  <2>1. late' \subseteq Request
    BY <1>4 DEF Timeout, TypeOK
  <2> QED
    BY <1>4, <2>1 DEF Timeout, Done, TypeOK, bucketVars, learnt, watcherVars
<1>5. ASSUME NEW c \in Client, ServeGet(c)
      PROVE  TypeOK'
  <2>1. PICK r \in kept \cup {0} :
          reply' = [reply EXCEPT ![c] = [ok |-> r # 0, rev |-> r]]
    BY <1>5 DEF ServeGet
  <2>2. (r # 0) \in BOOLEAN /\ r \in 0..Len(log)
    BY <1>0 DEF TypeOK
  <2>3. reply' \in [Client -> Replies(Len(log)) \cup {None}]
    BY <2>1, <2>2 DEF TypeOK, Replies
  <2> QED
    BY <1>5, <2>1, <2>3 DEF ServeGet, Pending, TypeOK, bucketVars, learnt,
       watcherVars, Replies
<1>6. ASSUME NEW c \in Client, ServeWrite(c)
      PROVE  TypeOK'
  <2>1. call[c] \in Request /\ call[c] # None /\ Apply(call[c])
    BY <1>6 DEF ServeWrite, Pending, TypeOK
  <2>4. /\ Len(log') = Len(log) + 1
        /\ Replies(Len(log)) \subseteq Replies(Len(log'))
        /\ [ok |-> TRUE, rev |-> Len(log')] \in Replies(Len(log'))
    BY <1>0, <2>1, ApplyTypes DEF Replies
  <2>5. reply \in [Client -> Replies(Len(log)) \cup {None}]
    BY DEF TypeOK, Replies
  <2>2. reply' \in [Client -> Replies(Len(log')) \cup {None}]
    BY <1>6, <2>4, <2>5 DEF ServeWrite
  <2>3. \A d \in Client : reply'[d] # None => call'[d] # None
    BY <1>6, <2>1 DEF ServeWrite, TypeOK
  <2>6. /\ known \in [Client -> [Key -> 0..Len(log')]]
        /\ floor \in [Client -> [Key -> 0..Len(log')]]
        /\ copy \in [Key -> 0..Len(log')]
    BY <1>0, <2>4, Widened DEF TypeOK
  <2> QED
    BY <1>6, <2>1, <2>2, <2>3, <2>6, ApplyTypes
    DEF ServeWrite, TypeOK, learnt, Watchers, Replies
<1>7. ASSUME NEW c \in Client, RefuseWrite(c)
      PROVE  TypeOK'
  <2>1. [ok |-> FALSE, rev |-> 0] \in Replies(Len(log))
    BY <1>0 DEF Replies
  <2>2. reply' \in [Client -> Replies(Len(log)) \cup {None}]
    BY <1>7, <2>1 DEF RefuseWrite, TypeOK, Replies
  <2>3. UNCHANGED <<log, kept, call, late, known, floor, watch, ends, copy, synced>>
    BY <1>7 DEF RefuseWrite, bucketVars, learnt, watcherVars
  <2>4. \A d \in Client : reply'[d] # None => call'[d] # None
    BY <1>7 DEF RefuseWrite, Pending, TypeOK
  <2> QED
    BY <2>2, <2>3, <2>4 DEF TypeOK, Replies
<1>8. ASSUME NEW q \in late, ApplyLate(q)
      PROVE  TypeOK'
  <2>1. q \in Request /\ Apply(q)
    BY <1>8 DEF ApplyLate, TypeOK
  <2>2. Len(log') = Len(log) + 1 /\ Replies(Len(log)) \subseteq Replies(Len(log'))
    BY <1>0, <2>1, ApplyTypes DEF Replies
  <2>3. reply \in [Client -> Replies(Len(log)) \cup {None}]
    BY DEF TypeOK, Replies
  <2>4. reply' \in [Client -> Replies(Len(log')) \cup {None}]
    BY <1>8, <2>2, <2>3 DEF ApplyLate
  <2>5. /\ known \in [Client -> [Key -> 0..Len(log')]]
        /\ floor \in [Client -> [Key -> 0..Len(log')]]
        /\ copy \in [Key -> 0..Len(log')]
    BY <1>0, <2>2, Widened DEF TypeOK
  <2> QED
    BY <1>8, <2>1, <2>4, <2>5, ApplyTypes
    DEF ApplyLate, TypeOK, learnt, Watchers, Replies
<1>9. ASSUME NEW q \in late, DropLate(q)
      PROVE  TypeOK'
  BY <1>9 DEF DropLate, TypeOK, bucketVars, learnt, watcherVars
<1>10. CASE PurgeDeletes
  BY <1>10 DEF PurgeDeletes, TypeOK, learnt, watcherVars
<1>11. ASSUME NEW K \in (SUBSET Key) \ {{}}, NEW o \in Options, Watch(K, o)
       PROVE  TypeOK'
  <2> DEFINE w == [keys |-> K, options |-> o, native |-> to_native_watch_options(o),
                   pending |-> {}, start |-> Len(log)]
  <2>1. o \in [ignore_deletes : BOOLEAN, include_history : BOOLEAN, updates_only : BOOLEAN]
    BY ConstantsAssumption
  <2>2. to_native_watch_options(o) \in NativeOptions
    BY <2>1 DEF to_native_watch_options, NativeOptions
  <2>3. Snapshot(w) \subseteq kept
    BY DEF Snapshot
  <2> DEFINE S == Snapshot(w)
  <2>4. watch' = [keys |-> K, options |-> o, native |-> to_native_watch_options(o),
                  pending |-> S, start |-> Len(log)]
    BY <1>11 DEF Watch
  <2>5. watch' \in Watchers(Len(log))
    <3>1. S \subseteq kept
      BY <2>3
    <3>2. kept \subseteq 1..Len(log)
      BY DEF TypeOK
    <3> HIDE DEF S
    <3>3. S \in SUBSET (1..Len(log))
      BY <3>1, <3>2
    <3>4. K \in SUBSET Key /\ Len(log) \in 0..Len(log)
      BY <1>0
    <3> QED
      BY <2>2, <2>4, <3>3, <3>4 DEF Watchers
  <2>6. ends' \in BOOLEAN /\ synced' \in BOOLEAN
    BY <1>11, <2>1, <2>2 DEF Watch, NativeOptions
  <2>7. copy' \in [Key -> 0..Len(log)]
    BY <1>0, <1>11 DEF Watch
  <2>8. UNCHANGED <<log, kept, call, reply, late, known, floor>>
    BY <1>11 DEF Watch, bucketVars, learnt
  <2> QED
    BY <2>5, <2>6, <2>7, <2>8 DEF TypeOK, Watchers
<1>12. CASE EndOfSnapshot
  <2>1. UNCHANGED <<log, kept, call, reply, late, known, floor, watch, copy>>
    BY <1>12 DEF EndOfSnapshot, bucketVars, learnt
  <2>2. ends' \in BOOLEAN /\ synced' \in BOOLEAN
    BY <1>12 DEF EndOfSnapshot
  <2> QED
    BY <2>1, <2>2 DEF TypeOK
<1>13. CASE NextEntry
  <2> DEFINE W == Watchers(Len(log))
  <2>0. watch \in W \cup {None} /\ watch # None
    BY <1>13 DEF NextEntry, TypeOK, Watchers
  <2>1. PICK r \in watch.pending :
          /\ copy' = [copy EXCEPT ![log[r].key] = r]
          /\ watch' = [watch EXCEPT !.pending = @ \ {r}]
    BY <1>13 DEF NextEntry
  <2>2. r \in 0..Len(log)
    BY <1>0, <2>0 DEF Watchers
  <2>3. copy' \in [Key -> 0..Len(log)]
    BY <2>1, <2>2 DEF TypeOK
  <2>4. watch' \in W
    BY <2>0, <2>1 DEF Watchers
  <2>5. UNCHANGED <<log, kept, call, reply, late, known, floor, ends, synced>>
    BY <1>13 DEF NextEntry, bucketVars, learnt
  <2> QED
    BY <2>3, <2>4, <2>5 DEF TypeOK, Watchers
<1>14. CASE Stop
  <2>1. copy' \in [Key -> 0..Len(log)]
    BY <1>0, <1>14 DEF Stop
  <2>2. UNCHANGED <<log, kept, call, reply, late, known, floor>>
    BY <1>14 DEF Stop, bucketVars, learnt
  <2>3. watch' = None /\ ends' \in BOOLEAN /\ synced' \in BOOLEAN
    BY <1>14 DEF Stop
  <2> QED
    BY <2>1, <2>2, <2>3 DEF TypeOK
<1>15. CASE UNCHANGED vars
  BY <1>15 DEF vars, TypeOK
<1> QED
  BY <1>1, <1>2, <1>3, <1>4, <1>5, <1>6, <1>7, <1>8, <1>9, <1>10, <1>11, <1>12,
     <1>13, <1>14, <1>15 DEF Next

\* Every call under way, late or not, is one the class makes.
LEMMA RequestsStep == TypeOK /\ Requests /\ [Next]_vars => Requests'
<1> SUFFICES ASSUME TypeOK, Requests, [Next]_vars PROVE Requests'
  OBVIOUS
<1>1. ASSUME NEW c \in Client, NEW k \in Key,
             \/ Get(c, k) \/ Put(c, k) \/ Create(c, k)
             \/ Update(c, k) \/ Erase(c, k) \/ Purge(c, k)
      PROVE  Requests'
  <2> DEFINE req(o, nat, rev) ==
        [client |-> c, op |-> o, native |-> nat, key |-> k, rev |-> rev]
  <2>1. ASSUME NEW o, NEW nat, NEW rev, Send(c, o, nat, k, rev),
               req(o, nat, rev) \in Request, Mapped(req(o, nat, rev))
        PROVE  Requests'
    <3>1. call' = [call EXCEPT ![c] = req(o, nat, rev)] /\ late' = late
      BY <2>1 DEF Send
    <3>2. \A d \in Client : call'[d] = IF d = c THEN req(o, nat, rev) ELSE call[d]
      BY <3>1 DEF TypeOK
    <3> HIDE DEF req
    <3> QED
      BY <2>1, <3>1, <3>2 DEF Requests
  <2>2. CASE Get(c, k)
    BY <2>1, <2>2 DEF Get, Mapped, Request
  <2>3. CASE Put(c, k)
    BY <2>1, <2>3 DEF Put, Mapped, Request
  <2>4. CASE Create(c, k)
    BY <2>1, <2>4 DEF Create, Mapped, Request
  <2>5. CASE Update(c, k)
    <3>1. known[c][k] \in Nat
      BY DEF TypeOK
    <3> QED
      BY <2>1, <2>5, <3>1 DEF Update, Mapped, Request
  <2>6. CASE Erase(c, k)
    BY <2>1, <2>6 DEF Erase, Mapped, Request, Markers
  <2>7. CASE Purge(c, k)
    BY <2>1, <2>7 DEF Purge, Mapped, Request, Markers
  <2> QED
    BY <1>1, <2>2, <2>3, <2>4, <2>5, <2>6, <2>7
<1>2. ASSUME NEW c \in Client, Return(c) \/ Refused(c) \/ Timeout(c)
      PROVE  Requests'
  <2>1. call' = [call EXCEPT ![c] = None]
    BY <1>2 DEF Return, Refused, Timeout, Done
  <2>2. late' = late \/ (call[c] # None /\ late' = late \cup {call[c]})
    BY <1>2 DEF Return, Refused, Timeout
  <2> QED
    BY <2>1, <2>2 DEF Requests, TypeOK
<1>3. CASE call' = call /\ late' \subseteq late
  BY <1>3 DEF Requests
<1>4. ASSUME NEW c \in Client, ServeGet(c) \/ ServeWrite(c) \/ RefuseWrite(c)
      PROVE  call' = call /\ late' \subseteq late
  BY <1>4 DEF ServeGet, ServeWrite, RefuseWrite
<1>5. ASSUME NEW q \in late, ApplyLate(q) \/ DropLate(q)
      PROVE  call' = call /\ late' \subseteq late
  BY <1>5 DEF ApplyLate, DropLate
<1>6. ASSUME NEW K \in (SUBSET Key) \ {{}}, NEW o \in Options, Watch(K, o)
      PROVE  call' = call /\ late' \subseteq late
  BY <1>6 DEF Watch
<1>7. ASSUME PurgeDeletes \/ EndOfSnapshot \/ NextEntry \/ Stop \/ UNCHANGED vars
      PROVE  call' = call /\ late' \subseteq late
  BY <1>7 DEF PurgeDeletes, EndOfSnapshot, NextEntry, Stop, vars
<1> QED
  BY <1>1, <1>2, <1>3, <1>4, <1>5, <1>6, <1>7 DEF Next

\* The bucket changes by a write or by purge_deletes() only.
LEMMA BucketSteps ==
  ASSUME TypeOK, Requests, [Next]_vars
  PROVE  \/ UNCHANGED <<log, kept>>
         \/ PurgeDeletes
         \/ \E q \in Request : Apply(q)
<1>1. ASSUME NEW c \in Client, NEW k \in Key,
             \/ Get(c, k) \/ Put(c, k) \/ Create(c, k)
             \/ Update(c, k) \/ Erase(c, k) \/ Purge(c, k)
      PROVE  UNCHANGED <<log, kept>>
  BY <1>1 DEF Get, Put, Create, Update, Erase, Purge, Send, bucketVars
<1>2. ASSUME NEW c \in Client, Return(c) \/ Refused(c) \/ Timeout(c)
      PROVE  UNCHANGED <<log, kept>>
  BY <1>2 DEF Return, Refused, Timeout, Done, bucketVars
<1>3. ASSUME NEW c \in Client, ServeGet(c) \/ RefuseWrite(c)
      PROVE  UNCHANGED <<log, kept>>
  BY <1>3 DEF ServeGet, RefuseWrite, bucketVars
<1>4. ASSUME NEW c \in Client, ServeWrite(c)
      PROVE  \E q \in Request : Apply(q)
  BY <1>4 DEF ServeWrite, Pending, TypeOK
<1>5. ASSUME NEW q \in late, ApplyLate(q)
      PROVE  \E p \in Request : Apply(p)
  BY <1>5 DEF ApplyLate, TypeOK
<1>6. ASSUME NEW q \in late, DropLate(q)
      PROVE  UNCHANGED <<log, kept>>
  BY <1>6 DEF DropLate, bucketVars
<1>7. ASSUME NEW K \in (SUBSET Key) \ {{}}, NEW o \in Options, Watch(K, o)
      PROVE  UNCHANGED <<log, kept>>
  BY <1>7 DEF Watch, bucketVars
<1>8. ASSUME EndOfSnapshot \/ NextEntry \/ Stop \/ UNCHANGED vars
      PROVE  UNCHANGED <<log, kept>>
  BY <1>8 DEF EndOfSnapshot, NextEntry, Stop, vars, bucketVars
<1> QED
  BY <1>1, <1>2, <1>3, <1>4, <1>5, <1>6, <1>7, <1>8 DEF Next

\* A write discards older revisions of its own key only.
LEMMA BucketInvStep == BucketInv /\ [Next]_vars => BucketInv'
<1> SUFFICES ASSUME BucketInv, [Next]_vars PROVE BucketInv'
  OBVIOUS
<1> DEFINE n == Len(log)
<1>0. n \in Nat /\ kept \subseteq 1..n
  BY DEF BucketInv, TypeOK
<1>1. TypeOK' /\ Requests'
  BY TypeStep, RequestsStep DEF BucketInv
<1>2. CASE UNCHANGED <<log, kept>>
  BY <1>1, <1>2 DEF BucketInv, Covered, LastKept
<1>3. CASE PurgeDeletes
  <2>1. PICK K \in SUBSET {k \in Key : Absent(k)} :
          kept' = {r \in kept : log[r].key \notin K} /\ log' = log
    BY <1>3 DEF PurgeDeletes
  <2>2. Covered'
    BY <2>1 DEF BucketInv, Covered
  <2>3. LastKept'
    <3> SUFFICES ASSUME NEW t \in 1..n, log[t].op \notin Markers,
                        \A s \in 1..n : log[s].key = log[t].key => s <= t
                 PROVE  t \in kept'
      BY <2>1 DEF LastKept
    <3>1. t \in kept
      BY DEF BucketInv, LastKept
    <3>2. IsNewest(t, Revisions(log[t].key))
      BY <1>0, <3>1 DEF IsNewest, Revisions
    <3>3. log[t].key \notin K
      BY <2>1, <3>1, <3>2 DEF Absent
    <3> QED
      BY <2>1, <3>1, <3>3
  <2> QED
    BY <1>1, <2>2, <2>3 DEF BucketInv
<1>4. ASSUME NEW q \in Request, Apply(q)
      PROVE  BucketInv'
  <2>1. /\ Len(log') = n + 1 /\ \A s \in 1..n : log'[s] = log[s]
        /\ log'[n + 1].key = q.key
        /\ kept' = Survivors(q) \cup {n + 1} /\ Survivors(q) \subseteq kept
        /\ \A r \in kept : log[r].key # q.key => r \in Survivors(q)
    BY <1>4, ApplyLog DEF BucketInv
  <2>2. Covered'
    <3> SUFFICES ASSUME NEW r \in kept', NEW t \in 1..(n + 1),
                        log'[t].key = log'[r].key, r < t
                 PROVE  \E u \in kept' : log'[u].key = log'[r].key /\ t <= u
      BY <2>1 DEF Covered
    <3>0. r # n + 1
      BY <1>0
    <3>1. r \in kept /\ r \in 1..n
      BY <1>0, <2>1, <3>0
    <3>2. CASE log[r].key = q.key
      BY <1>0, <2>1, <3>1, <3>2
    <3>3. CASE log[r].key # q.key
      <4>1. t \in 1..n /\ log[t].key = log[r].key
        BY <1>0, <2>1, <3>1, <3>3
      <4>2. PICK u \in kept : log[u].key = log[r].key /\ t <= u
        BY <3>1, <4>1 DEF BucketInv, Covered
      <4> QED
        BY <1>0, <2>1, <3>1, <3>3, <4>2
    <3> QED
      BY <3>2, <3>3
  <2>3. LastKept'
    <3> SUFFICES ASSUME NEW t \in 1..(n + 1), log'[t].op \notin Markers,
                        \A s \in 1..(n + 1) : log'[s].key = log'[t].key => s <= t
                 PROVE  t \in kept'
      BY <2>1 DEF LastKept
    <3>1. CASE t = n + 1
      BY <2>1, <3>1
    <3>2. CASE t \in 1..n
      <4>1. log[t].key # q.key
        BY <1>0, <2>1, <3>2
      <4>2. t \in kept
        BY <1>0, <2>1, <3>2 DEF BucketInv, LastKept
      <4> QED
        BY <2>1, <4>1, <4>2
    <3> QED
      BY <1>0, <3>1, <3>2
  <2> QED
    BY <1>1, <2>2, <2>3 DEF BucketInv
<1> QED
  BY <1>2, <1>3, <1>4, BucketSteps DEF BucketInv
-----------------------------------------------------------------------------
\* Replies and what the client was told of writes change only by these.
LEMMA WrittenStays ==
  ASSUME BucketInv, [Next]_vars
  PROVE  /\ Len(log) \in Nat /\ Len(log') \in Nat
         /\ Len(log) <= Len(log')
         /\ \A s \in 1..Len(log) : log'[s] = log[s]
<1>1. CASE UNCHANGED <<log, kept>>
  BY <1>1 DEF BucketInv, TypeOK
<1>2. CASE PurgeDeletes
  BY <1>2 DEF PurgeDeletes, BucketInv, TypeOK
<1>3. ASSUME NEW q \in Request, Apply(q)
      PROVE  /\ Len(log) \in Nat /\ Len(log') \in Nat
             /\ Len(log) <= Len(log')
             /\ \A s \in 1..Len(log) : log'[s] = log[s]
  <2>1. Len(log) \in Nat /\ Len(log') = Len(log) + 1
    BY <1>3, ApplyTypes DEF BucketInv
  <2>2. \A s \in 1..Len(log) : log'[s] = log[s]
    BY <1>3, ApplyLog DEF BucketInv
  <2> QED
    BY <2>1, <2>2
<1> QED
  BY <1>1, <1>2, <1>3, BucketSteps DEF BucketInv

\* How the log has what was asked for.
Asked(q) == Atomic!Entry(q)
AnswersMatch ==
  \A c \in Client : Written(c) => log[reply[c].rev] = Asked(call[c])

\* A returned reply is the write that was asked for, no write of the key came
\* between the condition it was sent with and it, and it is the newest the
\* client was told of: what ServeWrite establishes nothing undoes.
Right(c) ==
  reply[c] # None /\ reply[c].ok =>
    /\ reply[c].rev # 0
    /\ log[reply[c].rev].key = call[c].key
    /\ reply[c].rev >= floor[c][call[c].key]
    /\ call[c].op # "get" =>
         LET B == Before(reply[c].rev, call[c].key) IN
         /\ log[reply[c].rev] = Asked(call[c])
         /\ call[c].op = "update" /\ call[c].rev # 0 => IsNewest(call[c].rev, B)
         /\ call[c].op = "create" => \A s \in B : IsNewest(s, B) => log[s].op \in Markers
RightFloor == \A c \in Client, k \in Key : floor[c][k] # 0 => log[floor[c][k]].key = k

Inv == BucketInv /\ RightFloor /\ \A c \in Client : Right(c)

\* A get that finds an entry finds one that is not behind.
LEMMA ServedGet ==
  ASSUME BucketInv, RightFloor, NEW c \in Client, ServeGet(c)
  PROVE  Right(c)'
<1> DEFINE k == call[c].key
<1>1. /\ call[c] \in Request /\ call[c].op = "get" /\ k \in Key
      /\ call' = call /\ floor' = floor /\ log' = log
  <2>1. call[c] \in Request /\ Mapped(call[c]) /\ call[c].native = "Get"
    BY DEF ServeGet, Pending, BucketInv, Requests
  <2>2. call[c].op = "get"
    BY <2>1 DEF Mapped, Request
  <2> QED
    BY <2>1, <2>2 DEF ServeGet, Request, bucketVars, learnt
<1>2. PICK r \in kept \cup {0} :
        /\ IF Absent(k) THEN r = 0 ELSE IsNewest(r, Revisions(k))
        /\ reply' = [reply EXCEPT ![c] = [ok |-> r # 0, rev |-> r]]
  BY DEF ServeGet
<1>3. reply'[c] = [ok |-> r # 0, rev |-> r]
  BY <1>2 DEF BucketInv, TypeOK
<1>4. SUFFICES ASSUME r # 0
               PROVE  log[r].key = k /\ r >= floor[c][k]
  <2>1. reply'[c].ok = (r # 0) /\ reply'[c].rev = r
    BY <1>3
  <2> QED
    BY <1>1, <2>1 DEF Right
<1>5. IsNewest(r, Revisions(k))
  BY <1>2, <1>4
<1>6. r \in kept /\ log[r].key = k
  BY <1>5 DEF IsNewest, Revisions
<1>7. kept \subseteq 1..Len(log) /\ floor[c][k] \in 0..Len(log) /\ Len(log) \in Nat
  <2>1. floor \in [Client -> [Key -> 0..Len(log)]]
    BY DEF BucketInv, TypeOK
  <2>2. k \in Key
    BY <1>1
  <2> HIDE DEF k
  <2>3. floor[c][k] \in 0..Len(log)
    BY <2>1, <2>2
  <2>4. kept \subseteq 1..Len(log)
    BY DEF BucketInv, TypeOK
  <2>5. Len(log) \in Nat
    BY DEF BucketInv, TypeOK
  <2> QED
    BY <2>3, <2>4, <2>5
<1>8. CASE floor[c][k] = 0
  BY <1>6, <1>7, <1>8
<1>9. CASE floor[c][k] # 0 /\ r < floor[c][k]
  <2>1. log[floor[c][k]].key = k
    BY <1>1, <1>9 DEF RightFloor
  <2>2. PICK u \in kept : log[u].key = k /\ floor[c][k] <= u
    BY <1>6, <1>7, <1>9, <2>1 DEF BucketInv, Covered
  <2>3. u <= r
    BY <1>5, <2>2 DEF IsNewest, Revisions
  <2> QED
    BY <1>7, <1>9, <2>2, <2>3
<1> QED
  BY <1>6, <1>7, <1>8, <1>9

\* What is kept are revisions.
LEMMA Kept ==
  ASSUME BucketInv
  PROVE  kept \subseteq 1..Len(log) /\ Len(log) \in Nat
<1>1. TypeOK
  BY DEF BucketInv
<1>2. kept \subseteq 1..Len(log)
  BY <1>1 DEF TypeOK
<1>3. Len(log) \in Nat
  BY <1>1 DEF TypeOK
<1> QED
  BY <1>2, <1>3

\* Revisions are numbers.
LEMMA Revs ==
  ASSUME NEW n \in Nat, NEW r \in 1..n
  PROVE  r \in Nat
OBVIOUS

\* What the server's condition says of the revisions it keeps holds of all that
\* were written.
LEMMA Condition ==
  ASSUME BucketInv, NEW q \in Request, Mapped(q), Accepts(q)
  PROVE  LET B == {s \in 1..Len(log) : log[s].key = q.key} IN
         /\ q.op = "update" /\ q.rev # 0 => IsNewest(q.rev, B)
         /\ q.op = "create" => \A s \in B : IsNewest(s, B) => log[s].op \in Markers
<1> DEFINE B == {s \in 1..Len(log) : log[s].key = q.key}
<1>0. kept \subseteq 1..Len(log) /\ Len(log) \in Nat
  BY Kept
<1>1. ASSUME q.op = "update", q.rev # 0
      PROVE  IsNewest(q.rev, B)
  <2>1. IsNewest(q.rev, Revisions(q.key))
    BY <1>1 DEF Mapped, Accepts, Unspecified
  <2>2. q.rev \in kept /\ log[q.rev].key = q.key
    BY <2>1 DEF IsNewest, Revisions
  <2>3. ASSUME NEW s \in B, q.rev < s
        PROVE  FALSE
    <3>1. PICK u \in kept : log[u].key = q.key /\ s <= u
      BY <2>2, <2>3 DEF BucketInv, Covered
    <3>2. u <= q.rev
      BY <2>1, <3>1 DEF IsNewest, Revisions
    <3>3. s \in Nat /\ u \in Nat /\ q.rev \in Nat
      BY <1>0, <2>2, Revs
    <3> QED
      BY <2>3, <3>1, <3>2, <3>3
  <2>4. q.rev \in B /\ \A s \in B : s \in Nat /\ q.rev \in Nat
    BY <1>0, <2>2, Revs
  <2> QED
    BY <2>3, <2>4 DEF IsNewest
<1>2. ASSUME q.op = "create", NEW s \in B, IsNewest(s, B)
      PROVE  log[s].op \in Markers
  <2>1. Absent(q.key)
    BY <1>2 DEF Mapped, Accepts
  <2>2. SUFFICES ASSUME log[s].op \notin Markers
                 PROVE  FALSE
    OBVIOUS
  <2>3. s \in kept
    BY <1>2, <2>2 DEF BucketInv, LastKept, IsNewest
  <2>4. IsNewest(s, Revisions(q.key))
    BY <1>0, <1>2, <2>3 DEF IsNewest, Revisions
  <2> QED
    BY <2>1, <2>2, <2>3, <2>4 DEF Absent
<1> QED
  BY <1>1, <1>2

\* The server answers a write with the revision it got.
LEMMA ServedWrite ==
  ASSUME BucketInv, NEW c \in Client, ServeWrite(c)
  PROVE  Right(c)'
<1> DEFINE k == call[c].key
           n == Len(log)
<1>1. /\ call[c] \in Request /\ Mapped(call[c]) /\ k \in Key
      /\ call' = call /\ floor' = floor /\ Apply(call[c])
  BY DEF ServeWrite, Pending, BucketInv, Requests, Request, learnt
<1>2. /\ n \in Nat /\ Len(log') = n + 1 /\ \A s \in 1..n : log'[s] = log[s]
      /\ log'[n + 1] = Recorded(call[c]) /\ Recorded(call[c]).key = k /\ Accepts(call[c])
  BY <1>1, ApplyLog, ApplyTypes DEF BucketInv
<1>3. reply'[c] = [ok |-> TRUE, rev |-> n + 1]
  BY <1>2 DEF ServeWrite, BucketInv, TypeOK
<1>4. floor[c][k] \in 0..n
  BY <1>1 DEF BucketInv, TypeOK
<1>5. call[c].native # "Get" /\ call[c].op # "get"
  BY <1>1 DEF Apply, Mapped
<1>6. Recorded(call[c]) = Asked(call[c])
  BY <1>1, <1>5 DEF Recorded, Asked, Atomic!Entry, Mapped, Request, Markers
<1>7. {s \in 1..((n + 1) - 1) : log'[s].key = k} = {s \in 1..n : log[s].key = k}
  BY <1>2
<1>8. LET B == {s \in 1..n : log[s].key = k} IN
      /\ call[c].op = "update" /\ call[c].rev # 0 => IsNewest(call[c].rev, B)
      /\ call[c].op = "create" => \A s \in B : IsNewest(s, B) => log[s].op \in Markers
  BY <1>1, <1>2, Condition
<1>9. /\ reply'[c].rev = n + 1 /\ n + 1 # 0 /\ n + 1 >= floor[c][k]
      /\ call'[c] = call[c] /\ floor'[c] = floor[c]
  BY <1>1, <1>2, <1>3, <1>4
<1>10. log'[n + 1] = Asked(call[c]) /\ log'[n + 1].key = k
  BY <1>2, <1>6
<1>11. LET B == {s \in 1..(reply'[c].rev - 1) : log'[s].key = call'[c].key} IN
       /\ call'[c].op = "update" /\ call'[c].rev # 0 => IsNewest(call'[c].rev, B)
       /\ call'[c].op = "create" => \A s \in B : IsNewest(s, B) => log'[s].op \in Markers
  BY <1>2, <1>7, <1>8, <1>9
<1> QED
  BY <1>9, <1>10, <1>11 DEF Right, Asked, Atomic!Entry, Before, IsNewest

\* A reply that was right stays right until the call returns or throws.
LEMMA RightKept ==
  ASSUME BucketInv, [Next]_vars, NEW c \in Client, Right(c),
         reply'[c] = reply[c], call'[c] = call[c], floor'[c] = floor[c]
  PROVE  Right(c)'
<1> SUFFICES ASSUME reply[c] # None, reply[c].ok
             PROVE  Right(c)'
  BY DEF Right
<1> DEFINE k == call[c].key
           r == reply[c].rev
<1>1. /\ Len(log) \in Nat /\ Len(log') \in Nat /\ Len(log) <= Len(log')
      /\ \A s \in 1..Len(log) : log'[s] = log[s]
  BY WrittenStays
<1>2. r \in 1..Len(log)
  <2>1. reply[c] \in [ok : BOOLEAN, rev : 0..Len(log)]
    BY DEF BucketInv, TypeOK
  <2> QED
    BY <1>1, <2>1 DEF Right
<1>3. log'[r] = log[r]
  BY <1>1, <1>2
<1>4. {s \in 1..(r - 1) : log'[s].key = k} = {s \in 1..(r - 1) : log[s].key = k}
  BY <1>1, <1>2
<1>5. \A s \in 1..(r - 1) : log'[s] = log[s]
  BY <1>1, <1>2
<1> QED
  BY <1>3, <1>4, <1>5 DEF Right, Before, Asked, Atomic!Entry, IsNewest

\* Any step is a return, a reply from the server or none of the two.
LEMMA RightStep == Inv /\ [Next]_vars => \A c \in Client : Right(c)'
<1> SUFFICES ASSUME Inv, [Next]_vars, NEW c \in Client
             PROVE  Right(c)'
  OBVIOUS
<1>0. TypeOK
  BY DEF Inv, BucketInv
<1> DEFINE Same == reply'[c] = reply[c] /\ call'[c] = call[c] /\ floor'[c] = floor[c]
           Idle == reply'[c] = None
<1>1. CASE Same
  BY <1>1, RightKept DEF Inv
<1>2. CASE Idle
  BY <1>2 DEF Right
<1>3. ASSUME NEW d \in Client, NEW k \in Key,
             \/ Get(d, k) \/ Put(d, k) \/ Create(d, k)
             \/ Update(d, k) \/ Erase(d, k) \/ Purge(d, k)
      PROVE  Same \/ Idle
  <2>1. /\ reply' = reply /\ floor' = floor /\ call[d] = None
        /\ \E q : call' = [call EXCEPT ![d] = q]
    BY <1>3 DEF Get, Put, Create, Update, Erase, Purge, Send, learnt
  <2> QED
    BY <1>0, <2>1 DEF TypeOK
<1>4. ASSUME NEW d \in Client, Return(d) \/ Refused(d) \/ Timeout(d)
      PROVE  Same \/ Idle
  <2>1. CASE d = c
    BY <1>0, <1>4, <2>1 DEF Return, Refused, Timeout, Done, TypeOK
  <2>2. CASE d # c
    <3>1. floor'[c] = floor[c]
      BY <1>0, <1>4, <2>2 DEF Return, Refused, Timeout, learnt, TypeOK
    <3>2. reply'[c] = reply[c] /\ call'[c] = call[c]
      BY <1>0, <1>4, <2>2 DEF Return, Refused, Timeout, Done, TypeOK
    <3> QED
      BY <3>1, <3>2
  <2> QED
    BY <2>1, <2>2
<1>5. ASSUME NEW d \in Client, ServeGet(d) \/ ServeWrite(d) \/ RefuseWrite(d)
      PROVE  Right(c)'
  <2>1. CASE d # c
    <3>1. Same
      BY <1>0, <1>5, <2>1 DEF ServeGet, ServeWrite, RefuseWrite, learnt, TypeOK
    <3> QED
      BY <1>1, <3>1
  <2>2. CASE ServeGet(c)
    BY <2>2, ServedGet DEF Inv
  <2>3. CASE ServeWrite(c)
    BY <2>3, ServedWrite DEF Inv
  <2>4. CASE RefuseWrite(c)
    <3>1. reply'[c] = [ok |-> FALSE, rev |-> 0]
      BY <1>0, <2>4 DEF RefuseWrite, TypeOK
    <3> QED
      BY <3>1 DEF Right
  <2> QED
    BY <1>5, <2>1, <2>2, <2>3, <2>4
<1>6. ASSUME NEW q \in late, ApplyLate(q) \/ DropLate(q)
      PROVE  Same
  BY <1>6 DEF ApplyLate, DropLate, learnt
<1>7. ASSUME NEW K \in (SUBSET Key) \ {{}}, NEW o \in Options, Watch(K, o)
      PROVE  Same
  BY <1>7 DEF Watch, learnt
<1>8. ASSUME PurgeDeletes \/ EndOfSnapshot \/ NextEntry \/ Stop \/ UNCHANGED vars
      PROVE  Same
  BY <1>8 DEF PurgeDeletes, EndOfSnapshot, NextEntry, Stop, vars, learnt
<1> QED
  BY <1>1, <1>2, <1>3, <1>4, <1>5, <1>6, <1>7, <1>8 DEF Next

\* What a client is told of a key is about a write of that key.
LEMMA FloorStep == Inv /\ [Next]_vars => RightFloor'
<1> SUFFICES ASSUME Inv, [Next]_vars, NEW c \in Client, NEW k \in Key,
                    floor'[c][k] # 0
             PROVE  log'[floor'[c][k]].key = k
  BY DEF RightFloor
<1>0. TypeOK
  BY DEF Inv, BucketInv
<1>1. /\ Len(log) \in Nat
      /\ \A s \in 1..Len(log) : log'[s] = log[s]
  BY WrittenStays DEF Inv
<1>2. CASE floor' = floor
  <2>1. floor[c][k] \in 0..Len(log)
    BY <1>0 DEF TypeOK
  <2>2. floor[c][k] \in 1..Len(log) /\ log[floor[c][k]].key = k
    BY <1>1, <1>2, <2>1 DEF Inv, RightFloor
  <2> QED
    BY <1>1, <1>2, <2>2
<1>3. ASSUME NEW d \in Client, Return(d)
      PROVE  log'[floor'[c][k]].key = k
  <2>1. /\ reply[d] # None /\ reply[d].ok /\ log' = log
        /\ floor' = [floor EXCEPT ![d][call[d].key] = reply[d].rev]
    BY <1>3 DEF Return, Done, bucketVars
  <2>2. log[reply[d].rev].key = call[d].key
    BY <2>1 DEF Inv, Right
  <2>3. floor'[c][k] = IF c = d /\ k = call[d].key THEN reply[d].rev ELSE floor[c][k]
    BY <1>0, <2>1 DEF TypeOK
  <2> QED
    BY <2>1, <2>2, <2>3 DEF Inv, RightFloor
<1>4. ASSUME NEW d \in Client, NEW l \in Key,
             \/ Get(d, l) \/ Put(d, l) \/ Create(d, l)
             \/ Update(d, l) \/ Erase(d, l) \/ Purge(d, l)
      PROVE  floor' = floor
  BY <1>4 DEF Get, Put, Create, Update, Erase, Purge, Send, learnt
<1>5. ASSUME NEW d \in Client, \/ Refused(d) \/ Timeout(d)
                               \/ ServeGet(d) \/ ServeWrite(d) \/ RefuseWrite(d)
      PROVE  floor' = floor
  BY <1>5 DEF Refused, Timeout, ServeGet, ServeWrite, RefuseWrite, learnt
<1>6. ASSUME NEW q \in late, ApplyLate(q) \/ DropLate(q)
      PROVE  floor' = floor
  BY <1>6 DEF ApplyLate, DropLate, learnt
<1>7. ASSUME NEW K \in (SUBSET Key) \ {{}}, NEW o \in Options, Watch(K, o)
      PROVE  floor' = floor
  BY <1>7 DEF Watch, learnt
<1>8. ASSUME PurgeDeletes \/ EndOfSnapshot \/ NextEntry \/ Stop \/ UNCHANGED vars
      PROVE  floor' = floor
  BY <1>8 DEF PurgeDeletes, EndOfSnapshot, NextEntry, Stop, vars, learnt
<1> QED
  BY <1>2, <1>3, <1>4, <1>5, <1>6, <1>7, <1>8 DEF Next

\* The inductive invariant.
LEMMA Invariance == Spec => []Inv
<1>1. Init => Inv
  <2> SUFFICES ASSUME Init PROVE Inv
    OBVIOUS
  <2>1. Len(log) = 0 /\ log \in Seq([op : {"Put"} \cup Markers, key : Key, value : Client])
    BY DEF Init
  <2>2. TypeOK
    <3>1. 0 \in 0..Len(log) /\ kept \subseteq 1..Len(log)
      BY <2>1 DEF Init
    <3>2. /\ known \in [Client -> [Key -> 0..Len(log)]]
          /\ floor \in [Client -> [Key -> 0..Len(log)]]
          /\ copy \in [Key -> 0..Len(log)]
      BY <3>1 DEF Init
    <3>3. /\ call \in [Client -> Request \cup {None}] /\ late \subseteq Request
          /\ reply \in [Client -> [ok : BOOLEAN, rev : 0..Len(log)] \cup {None}]
          /\ \A c \in Client : reply[c] = None
          /\ watch = None /\ ends \in BOOLEAN /\ synced \in BOOLEAN
      BY DEF Init
    <3> QED
      BY <2>1, <3>1, <3>2, <3>3 DEF TypeOK
  <2>3. Requests /\ Covered /\ LastKept /\ RightFloor
    BY <2>1 DEF Init, Requests, Covered, LastKept, RightFloor
  <2>4. \A c \in Client : Right(c)
    BY DEF Init, Right
  <2> QED
    BY <2>2, <2>3, <2>4 DEF Inv, BucketInv
<1>2. Inv /\ [Next]_vars => Inv'
  BY BucketInvStep, RightStep, FloorStep DEF Inv
<1> QED
  BY <1>1, <1>2, PTL DEF Spec

\* The types of every variable hold in every behaviour.
THEOREM TypeCorrect == Spec => []TypeOK
<1>1. Inv => TypeOK
  BY DEF Inv, BucketInv
<1> QED
  BY <1>1, Invariance, PTL

\* put, create, update, erase and purge return the revision of that very write.
THEOREM Answers == Spec => []AnswersMatch
<1>1. Inv => AnswersMatch
  BY DEF Inv, Right, AnswersMatch, Written
<1> QED
  BY <1>1, Invariance, PTL

\* update() returns only if nobody wrote the key since the revision it was given,
\* create() only if the key's last write erased or purged it or there is none.
THEOREM Optimistic == Spec => []CompareAndSet
<1>1. Inv => CompareAndSet
  BY DEF Inv, Right, CompareAndSet, Written
<1> QED
  BY <1>1, Invariance, PTL

\* No call returns a client a revision behind one it has been told of.
THEOREM SessionOrder == Spec => Session
<1> DEFINE Forward ==
      \A c \in Client, k \in Key :
        known'[c][k] # known[c][k] /\ call[c].op \notin {"erase", "purge"}
        => known'[c][k] # 0 /\ known'[c][k] >= floor[c][k]
<1>1. Inv /\ [Next]_vars => [Forward]_vars
  <2> SUFFICES ASSUME Inv, Next, NEW c \in Client, NEW k \in Key,
                      known'[c][k] # known[c][k], call[c].op \notin {"erase", "purge"}
               PROVE  known'[c][k] # 0 /\ known'[c][k] >= floor[c][k]
    OBVIOUS
  <2>0. TypeOK
    BY DEF Inv, BucketInv
  <2>1. ASSUME NEW d \in Client, Return(d)
        PROVE  known'[c][k] # 0 /\ known'[c][k] >= floor[c][k]
    <3>1. c = d /\ k = call[c].key
      BY <2>0, <2>1 DEF Return, TypeOK
    <3>2. known'[c][k] = reply[c].rev
      BY <2>0, <2>1, <3>1 DEF Return, TypeOK
    <3> QED
      BY <2>1, <3>1, <3>2 DEF Return, Inv, Right
  <2>2. ASSUME NEW d \in Client, NEW l \in Key,
               \/ Get(d, l) \/ Put(d, l) \/ Create(d, l)
               \/ Update(d, l) \/ Erase(d, l) \/ Purge(d, l)
        PROVE  known' = known
    BY <2>2 DEF Get, Put, Create, Update, Erase, Purge, Send, learnt
  <2>3. ASSUME NEW d \in Client, \/ Refused(d) \/ Timeout(d)
                                 \/ ServeGet(d) \/ ServeWrite(d) \/ RefuseWrite(d)
        PROVE  known' = known
    BY <2>3 DEF Refused, Timeout, ServeGet, ServeWrite, RefuseWrite, learnt
  <2>4. ASSUME NEW q \in late, ApplyLate(q) \/ DropLate(q)
        PROVE  known' = known
    BY <2>4 DEF ApplyLate, DropLate, learnt
  <2>5. ASSUME NEW K \in (SUBSET Key) \ {{}}, NEW o \in Options, Watch(K, o)
        PROVE  known' = known
    BY <2>5 DEF Watch, learnt
  <2>6. ASSUME PurgeDeletes \/ EndOfSnapshot \/ NextEntry \/ Stop
        PROVE  known' = known
    BY <2>6 DEF PurgeDeletes, EndOfSnapshot, NextEntry, Stop, learnt
  <2> QED
    BY <2>1, <2>2, <2>3, <2>4, <2>5, <2>6 DEF Next
<1> QED
  BY <1>1, Invariance, PTL DEF Spec, Session
-----------------------------------------------------------------------------
(* The copy a program builds from a kv_watcher                             *)

\* The client's view of the snapshot: it is over when its end has been seen, and
\* until then nothing newer has been delivered.
Phases ==
  watch # None =>
    /\ watch.native = to_native_watch_options(watch.options)
    /\ synced <=> ~ends
    /\ watch.options.updates_only => synced
    /\ IF synced THEN \A p \in watch.pending : watch.start < p
                 ELSE \A k \in Key : copy[k] <= watch.start

\* What is delivered is a revision of its key, and older than what is to come.
Delivered ==
  watch # None =>
    \A k \in Key :
      /\ copy[k] # 0 => /\ log[copy[k]].key = k
                        /\ watch.options.updates_only => watch.start < copy[k]
      /\ \A p \in watch.pending : copy[k] < p

\* A write since the watcher was opened is still to come, or has come.
Fresh ==
  watch # None /\ ~watch.options.ignore_deletes =>
    \A r \in (watch.start + 1)..Len(log) :
      log[r].key \in watch.keys => r \in watch.pending \/ r <= copy[log[r].key]

\* The last write before is still to come or has come, unless it was a marker
\* that the bucket no longer had, nor anything else of the key.
LastOfKey(r) == \A s \in 1..watch.start : log[s].key = log[r].key => s <= r
Opened ==
  watch # None /\ ~watch.options.ignore_deletes /\ ~watch.options.updates_only =>
    \A r \in 1..watch.start :
      log[r].key \in watch.keys /\ LastOfKey(r) =>
        \/ r \in watch.pending \/ r <= copy[log[r].key]
        \/ /\ log[r].op \in Markers /\ copy[log[r].key] = 0
           /\ \A p \in watch.pending : log[p].key = log[r].key => watch.start < p

\* With ignore_deletes no marker comes.
NoMarkers ==
  watch # None /\ watch.options.ignore_deletes =>
    /\ \A p \in watch.pending : log[p].op \notin Markers
    /\ \A k \in Key : copy[k] # 0 => log[copy[k]].op \notin Markers

CopyInv == Phases /\ Delivered /\ Fresh /\ Opened /\ NoMarkers

\* Types of a watcher that is open, and of the copy.
LEMMA WatchTypes ==
  ASSUME TypeOK
  PROVE  /\ Len(log) \in Nat
         /\ watch # None => /\ watch \in Watchers(Len(log))
                            /\ watch.pending \subseteq 1..Len(log)
                            /\ watch.start \in 0..Len(log)
                            /\ watch.options \in Options
                            /\ watch.keys \subseteq Key
         /\ copy \in [Key -> 0..Len(log)]
         /\ \A r \in 1..Len(log) : log[r].key \in Key
<1>1. Len(log) \in Nat /\ log \in Seq(Writes) /\ watch \in Watchers(Len(log)) \cup {None}
  BY DEF TypeOK, Watchers, Writes
<1>2. \A r \in 1..Len(log) : log[r] \in Writes
  BY <1>1
<1> QED
  BY <1>1, <1>2 DEF TypeOK, Watchers, Writes

\* What a write changes for a watcher.
LEMMA ApplyWatch ==
  ASSUME TypeOK, NEW q \in Request, Apply(q), watch' # None
  PROVE  /\ watch # None
         /\ watch'.keys = watch.keys /\ watch'.options = watch.options
         /\ watch'.native = watch.native /\ watch'.start = watch.start
         /\ watch.pending \subseteq watch'.pending
         /\ \A p \in watch'.pending \ watch.pending :
              p = Len(log) + 1 /\ Delivers(watch, log', p)
         /\ Delivers(watch, log', Len(log) + 1) => Len(log) + 1 \in watch'.pending
<1> DEFINE r == Len(log) + 1
<1>1. watch' = IF watch # None /\ Delivers(watch, log', r)
               THEN [watch EXCEPT !.pending = @ \cup {r}] ELSE watch
  BY DEF Apply
<1>2. watch # None
  BY <1>1
<1>3. watch \in Watchers(Len(log))
  BY <1>2, WatchTypes
<1>4. CASE Delivers(watch, log', r)
  <2>1. watch' = [watch EXCEPT !.pending = watch.pending \cup {r}]
    BY <1>1, <1>2, <1>4
  <2> HIDE DEF r
  <2>2. /\ watch'.keys = watch.keys /\ watch'.options = watch.options
        /\ watch'.native = watch.native /\ watch'.start = watch.start
        /\ watch'.pending = watch.pending \cup {r}
    BY <1>3, <2>1 DEF Watchers
  <2> QED
    BY <1>2, <1>4, <2>2 DEF r
<1>5. CASE ~Delivers(watch, log', r)
  BY <1>1, <1>2, <1>5
<1> QED
  BY <1>4, <1>5

\* A write comes after everything the watcher has or is to deliver.
LEMMA CopyApply ==
  ASSUME TypeOK, CopyInv, NEW q \in Request, Apply(q), UNCHANGED <<ends, copy, synced>>
  PROVE  CopyInv'
<1> SUFFICES ASSUME watch' # None PROVE CopyInv'
  BY DEF CopyInv, Phases, Delivered, Fresh, Opened, NoMarkers
<1> DEFINE n == Len(log)
<1>1. /\ n \in Nat /\ watch # None
      /\ watch.pending \subseteq 1..n /\ watch.start \in 0..n
      /\ copy \in [Key -> 0..n]
  BY WatchTypes, ApplyWatch
<1>2. /\ watch'.keys = watch.keys /\ watch'.options = watch.options
      /\ watch'.native = watch.native /\ watch'.start = watch.start
      /\ watch.pending \subseteq watch'.pending
      /\ \A p \in watch'.pending \ watch.pending : p = n + 1 /\ Delivers(watch, log', p)
      /\ Delivers(watch, log', n + 1) => n + 1 \in watch'.pending
  BY ApplyWatch
<1>3. Len(log') = n + 1 /\ \A s \in 1..n : log'[s] = log[s]
  BY ApplyLog
<1>4. /\ watch.native = to_native_watch_options(watch.options)
      /\ watch.native.IgnoreDeletes = watch.options.ignore_deletes
  BY <1>1 DEF CopyInv, Phases, to_native_watch_options
<1>5. UNCHANGED <<ends, copy, synced>>
  OBVIOUS
<1> HIDE DEF n
<1>6. Phases'
  BY <1>1, <1>2, <1>5 DEF CopyInv, Phases
<1>7. Delivered'
  BY <1>1, <1>2, <1>3, <1>5 DEF CopyInv, Delivered
<1>8. Fresh'
  <2> SUFFICES ASSUME ~watch.options.ignore_deletes,
                      NEW r \in (watch.start + 1)..(n + 1), log'[r].key \in watch.keys
               PROVE  r \in watch'.pending \/ r <= copy[log'[r].key]
    BY <1>2, <1>3, <1>5 DEF Fresh
  <2>1. CASE r = n + 1
    BY <1>2, <1>4, <2>1 DEF Delivers
  <2>2. CASE r \in (watch.start + 1)..n
    BY <1>1, <1>2, <1>3, <2>2 DEF CopyInv, Fresh, n
  <2> QED
    BY <1>1, <2>1, <2>2
<1>9. Opened'
  <2> SUFFICES ASSUME ~watch.options.ignore_deletes, ~watch.options.updates_only,
                      NEW r \in 1..watch.start, log'[r].key \in watch.keys, LastOfKey(r)'
               PROVE  \/ r \in watch'.pending \/ r <= copy[log'[r].key]
                      \/ /\ log'[r].op \in Markers /\ copy[log'[r].key] = 0
                         /\ \A p \in watch'.pending :
                              log'[p].key = log'[r].key => watch.start < p
    BY <1>2, <1>5 DEF Opened
  <2>1. \A s \in 1..watch.start : log'[s] = log[s]
    BY <1>1, <1>3
  <2>2. LastOfKey(r)
    BY <1>2, <2>1 DEF LastOfKey
  <2>3. \/ r \in watch.pending \/ r <= copy[log[r].key]
        \/ /\ log[r].op \in Markers /\ copy[log[r].key] = 0
           /\ \A p \in watch.pending : log[p].key = log[r].key => watch.start < p
    BY <1>1, <2>1, <2>2 DEF CopyInv, Opened
  <2>4. \A p \in watch'.pending : (p \in watch.pending /\ log'[p] = log[p]) \/ watch.start < p
    BY <1>1, <1>2, <1>3
  <2> QED
    BY <1>2, <2>1, <2>3, <2>4
<1>10. NoMarkers'
  <2> SUFFICES ASSUME watch.options.ignore_deletes
               PROVE  /\ \A p \in watch'.pending : log'[p].op \notin Markers
                      /\ \A k \in Key : copy[k] # 0 => log'[copy[k]].op \notin Markers
    BY <1>2, <1>5 DEF NoMarkers
  <2>1. ASSUME NEW p \in watch'.pending
        PROVE  log'[p].op \notin Markers
    <3>1. CASE p \in watch.pending
      BY <1>1, <1>3, <3>1 DEF CopyInv, NoMarkers
    <3>2. CASE p \notin watch.pending
      BY <1>2, <1>4, <3>2 DEF Delivers
    <3> QED
      BY <3>1, <3>2
  <2>2. ASSUME NEW k \in Key, copy[k] # 0
        PROVE  log'[copy[k]].op \notin Markers
    BY <1>1, <1>3, <2>2 DEF CopyInv, NoMarkers
  <2> QED
    BY <2>1, <2>2
<1> QED
  BY <1>6, <1>7, <1>8, <1>9, <1>10 DEF CopyInv

\* A watcher begins with the last write of each key, or with more, or the key's
\* last write was a marker and the bucket has nothing of the key.
LEMMA CopyWatch ==
  ASSUME BucketInv, NEW K \in SUBSET Key, NEW o \in Options, Watch(K, o)
  PROVE  CopyInv'
<1> DEFINE w == [keys |-> K, options |-> o, native |-> to_native_watch_options(o),
                 pending |-> {}, start |-> Len(log)]
           n == Len(log)
<1>1. /\ watch' = [w EXCEPT !.pending = Snapshot(w)]
      /\ ends' = ~w.native.UpdatesOnly /\ synced' = o.updates_only
      /\ copy' = [k \in Key |-> 0]
      /\ log' = log
  BY DEF Watch, bucketVars
<1>2. w.keys = K /\ w.native = to_native_watch_options(o) /\ w.pending = {}
  OBVIOUS
<1>3. /\ watch'.keys = K /\ watch'.options = o /\ watch'.native = to_native_watch_options(o)
      /\ watch'.start = n /\ watch'.pending = Snapshot(w)
  BY <1>1
<1>4. /\ n \in Nat /\ kept \subseteq 1..n
      /\ \A r \in 1..n : log[r].key \in Key
  BY WatchTypes DEF BucketInv, TypeOK
<1>5. /\ o.ignore_deletes \in BOOLEAN /\ o.updates_only \in BOOLEAN
      /\ w.native.IgnoreDeletes = o.ignore_deletes
      /\ w.native.UpdatesOnly = o.updates_only
  BY <1>2, ConstantsAssumption DEF to_native_watch_options
<1> DEFINE S == Snapshot(w)
<1>6. S \subseteq kept
  BY DEF Snapshot
<1>7. o.updates_only => S = {}
  BY <1>5 DEF Snapshot
<1>8. \A p \in S : o.ignore_deletes => log[p].op \notin Markers
  BY <1>5 DEF Snapshot, Delivers
<1>9. ASSUME ~o.ignore_deletes, ~o.updates_only, NEW r \in kept, log[r].key \in K,
             \A s \in 1..n : log[s].key = log[r].key => s <= r
      PROVE  r \in S
  <2>1. IsNewest(r, Revisions(log[r].key))
    BY <1>4, <1>9 DEF IsNewest, Revisions
  <2> QED
    BY <1>2, <1>5, <1>9, <2>1 DEF Snapshot, Delivers
<1> HIDE DEF w, S
<1>10. watch'.pending = S
  BY <1>3 DEF S
<1>11. Phases'
  <2>1. synced' <=> ~ends'
    BY <1>1, <1>5, Zenon
  <2>2. synced' => \A p \in watch'.pending : watch'.start < p
    BY <1>1, <1>7, <1>10
  <2>3. \A k \in Key : copy'[k] <= watch'.start
    BY <1>1, <1>3, <1>4
  <2> QED
    BY <1>1, <1>3, <2>1, <2>2, <2>3 DEF Phases
<1>12. Delivered'
  BY <1>1, <1>3, <1>4, <1>6, <1>10 DEF Delivered
<1>13. Fresh'
  BY <1>1, <1>3, <1>4 DEF Fresh
<1>14. Opened'
  <2> SUFFICES ASSUME ~o.ignore_deletes, ~o.updates_only,
                      NEW r \in 1..n, log[r].key \in K,
                      \A s \in 1..n : log[s].key = log[r].key => s <= r,
                      r \notin S
               PROVE  log[r].op \in Markers /\ \A p \in S : log[p].key # log[r].key
    BY <1>1, <1>3, <1>4, <1>10 DEF Opened, LastOfKey
  <2>1. r \notin kept
    BY <1>9
  <2>2. log[r].op \in Markers
    BY <2>1 DEF BucketInv, LastKept
  <2>3. ASSUME NEW p \in kept, log[p].key = log[r].key
        PROVE  FALSE
    <3>1. p < r
      BY <1>4, <2>1, <2>3
    <3>2. PICK u \in kept : log[u].key = log[p].key /\ r <= u
      BY <2>3, <3>1 DEF BucketInv, Covered
    <3> QED
      BY <1>4, <2>1, <2>3, <3>2
  <2> QED
    BY <1>6, <2>2, <2>3
<1>15. NoMarkers'
  BY <1>1, <1>3, <1>8, <1>10 DEF NoMarkers
<1> QED
  BY <1>11, <1>12, <1>13, <1>14, <1>15 DEF CopyInv

\* next() takes the oldest entry.
LEMMA CopyNext ==
  ASSUME TypeOK, CopyInv, NextEntry
  PROVE  CopyInv'
<1> DEFINE n == Len(log)
<1>1. PICK r \in watch.pending :
        /\ \A s \in watch.pending : r <= s
        /\ ends => r <= watch.start
        /\ copy' = [copy EXCEPT ![log[r].key] = r]
        /\ watch' = [watch EXCEPT !.pending = @ \ {r}]
  BY DEF NextEntry
<1>2. /\ n \in Nat /\ watch # None /\ watch \in Watchers(n)
      /\ watch.pending \subseteq 1..n /\ watch.start \in 0..n
      /\ copy \in [Key -> 0..n]
      /\ \A s \in 1..n : log[s].key \in Key
  BY WatchTypes DEF NextEntry
<1>3. UNCHANGED <<log, ends, synced>>
  BY DEF NextEntry, bucketVars
<1>4. /\ watch'.keys = watch.keys /\ watch'.options = watch.options
      /\ watch'.native = watch.native /\ watch'.start = watch.start
      /\ watch'.pending = watch.pending \ {r}
  BY <1>1, <1>2 DEF Watchers
<1> DEFINE key == log[r].key
<1>5. /\ r \in 1..n /\ key \in Key /\ copy'[key] = r
      /\ \A k \in Key : k # key => copy'[k] = copy[k]
  BY <1>1, <1>2
<1>6. \A k \in Key : copy[k] < r
  BY <1>1, <1>2 DEF CopyInv, Delivered
<1> HIDE DEF n
<1>7. Phases'
  BY <1>1, <1>2, <1>3, <1>4, <1>5 DEF CopyInv, Phases
<1>8. Delivered'
  <2>1. watch.options.updates_only => watch.start < r
    BY <1>2 DEF CopyInv, Phases
  <2>2. \A p \in watch.pending \ {r} : r < p
    BY <1>1, <1>2
  <2> QED
    BY <1>2, <1>3, <1>4, <1>5, <2>1, <2>2 DEF CopyInv, Delivered
<1>9. Fresh'
  <2> SUFFICES ASSUME ~watch.options.ignore_deletes,
                      NEW t \in (watch.start + 1)..n, log[t].key \in watch.keys
               PROVE  t \in watch.pending \ {r} \/ t <= copy'[log[t].key]
    BY <1>3, <1>4 DEF Fresh, n
  <2>1. t \in watch.pending \/ t <= copy[log[t].key]
    BY <1>2 DEF CopyInv, Fresh, n
  <2>2. log[t].key \in Key /\ t \in Nat
    BY <1>2
  <2> QED
    BY <1>2, <1>5, <1>6, <2>1, <2>2
<1>10. Opened'
  <2> SUFFICES ASSUME ~watch.options.ignore_deletes, ~watch.options.updates_only,
                      NEW t \in 1..watch.start, log[t].key \in watch.keys, LastOfKey(t)
               PROVE  \/ t \in watch.pending \ {r} \/ t <= copy'[log[t].key]
                      \/ /\ log[t].op \in Markers /\ copy'[log[t].key] = 0
                         /\ \A p \in watch.pending \ {r} :
                              log[p].key = log[t].key => watch.start < p
    BY <1>3, <1>4 DEF Opened, LastOfKey
  <2>1. \/ t \in watch.pending \/ t <= copy[log[t].key]
        \/ /\ log[t].op \in Markers /\ copy[log[t].key] = 0
           /\ \A p \in watch.pending : log[p].key = log[t].key => watch.start < p
    BY <1>2 DEF CopyInv, Opened
  <2>2. log[t].key \in Key /\ t \in Nat
    BY <1>2
  <2>3. CASE log[t].key = key
    BY <1>1, <1>2, <1>5, <1>6, <2>1, <2>2, <2>3
  <2>4. CASE log[t].key # key
    BY <1>2, <1>5, <2>1, <2>2, <2>4
  <2> QED
    BY <2>3, <2>4
<1>11. NoMarkers'
  BY <1>2, <1>3, <1>4, <1>5 DEF CopyInv, NoMarkers
<1> QED
  BY <1>7, <1>8, <1>9, <1>10, <1>11 DEF CopyInv

\* Nothing else touches a watcher or the copy.
LEMMA CopyStep ==
  ASSUME BucketInv, CopyInv, [Next]_vars
  PROVE  CopyInv'
<1>0. TypeOK /\ Requests
  BY DEF BucketInv
<1>1. CASE UNCHANGED <<log, watch, ends, copy, synced>>
  BY <1>1 DEF CopyInv, Phases, Delivered, Fresh, Opened, LastOfKey, NoMarkers
<1>2. ASSUME NEW c \in Client, NEW k \in Key,
             \/ Get(c, k) \/ Put(c, k) \/ Create(c, k)
             \/ Update(c, k) \/ Erase(c, k) \/ Purge(c, k)
      PROVE  UNCHANGED <<log, watch, ends, copy, synced>>
  BY <1>2 DEF Get, Put, Create, Update, Erase, Purge, Send, bucketVars, watcherVars
<1>3. ASSUME NEW c \in Client, Return(c) \/ Refused(c) \/ Timeout(c)
      PROVE  UNCHANGED <<log, watch, ends, copy, synced>>
  BY <1>3 DEF Return, Refused, Timeout, Done, bucketVars, watcherVars
<1>4. ASSUME NEW c \in Client, ServeGet(c) \/ RefuseWrite(c)
      PROVE  UNCHANGED <<log, watch, ends, copy, synced>>
  BY <1>4 DEF ServeGet, RefuseWrite, bucketVars, watcherVars
<1>5. ASSUME NEW q \in late, DropLate(q)
      PROVE  UNCHANGED <<log, watch, ends, copy, synced>>
  BY <1>5 DEF DropLate, bucketVars, watcherVars
<1>6. ASSUME PurgeDeletes \/ UNCHANGED vars
      PROVE  UNCHANGED <<log, watch, ends, copy, synced>>
  BY <1>6 DEF PurgeDeletes, vars, watcherVars
<1>7. ASSUME NEW c \in Client, ServeWrite(c)
      PROVE  CopyInv'
  BY <1>0, <1>7, CopyApply DEF ServeWrite, Pending, TypeOK
<1>8. ASSUME NEW q \in late, ApplyLate(q)
      PROVE  CopyInv'
  BY <1>0, <1>8, CopyApply DEF ApplyLate, TypeOK
<1>9. ASSUME NEW K \in (SUBSET Key) \ {{}}, NEW o \in Options, Watch(K, o)
      PROVE  CopyInv'
  BY <1>9, CopyWatch
<1>10. CASE EndOfSnapshot
  BY <1>10 DEF EndOfSnapshot, bucketVars, CopyInv, Phases, Delivered, Fresh, Opened,
     LastOfKey, NoMarkers
<1>11. CASE NextEntry
  BY <1>0, <1>11, CopyNext
<1>12. CASE Stop
  BY <1>12 DEF Stop, CopyInv, Phases, Delivered, Fresh, Opened, NoMarkers
<1> QED
  BY <1>1, <1>2, <1>3, <1>4, <1>5, <1>6, <1>7, <1>8, <1>9, <1>10, <1>11, <1>12 DEF Next

\* A set of revisions has a last one.
LEMMA LastOne ==
  ASSUME NEW m \in Nat, NEW R \in SUBSET (0..m), R # {}
  PROVE  \E s \in R : \A r \in R : r <= s
<1> DEFINE T == {x \in Nat : m - x \in R}
<1>1. PICK r \in R : r \in 0..m
  OBVIOUS
<1>2. m - r \in T
  BY <1>1
<1> HIDE DEF T
<1>3. T \subseteq Nat /\ T # {}
  BY <1>2 DEF T
<1>4. PICK x \in T : \A y \in T : ~(<<y, x>> \in OpToRel(<, Nat))
  BY <1>3, WFMin, NatLessThanWellFounded, Zenon
<1>5. \A y \in T : ~(y < x)
  BY <1>3, <1>4 DEF OpToRel
<1>6. ASSUME NEW s \in R
      PROVE  s <= m - x
  <2>1. m - s \in T /\ m - s \in Nat /\ x \in Nat
    BY <1>3 DEF T
  <2>2. ~(m - s < x)
    BY <1>5, <2>1
  <2> QED
    BY <2>1, <2>2
<1>7. m - x \in R
  BY DEF T
<1> QED
  BY <1>6, <1>7

\* When the end of the snapshot has been seen and everything up to revision n been
\* delivered, a key's copy is its last write up to n, or both are absent.
LEMMA CopyIsLast ==
  ASSUME TypeOK, CopyInv
  PROVE  CopyFollows
<1> SUFFICES ASSUME watch # None, synced, NEW k \in watch.keys,
                    NEW m \in 0..Len(log), Upto(m)
             PROVE  LET first == IF watch.options.updates_only THEN watch.start + 1 ELSE 1
                        R == {r \in first..m : log[r].key = k}
                    IN IF watch.options.ignore_deletes THEN Alive(copy[k]) = copy[k]
                       ELSE IF R = {} THEN Alive(copy[k]) = 0
                       ELSE \E r \in R : IsNewest(r, R) /\ Alive(copy[k]) = Alive(r)
  BY DEF CopyFollows
<1> DEFINE n == Len(log)
           first == IF watch.options.updates_only THEN watch.start + 1 ELSE 1
           R == {r \in first..m : log[r].key = k}
<1>1. /\ n \in Nat /\ watch.pending \subseteq 1..n /\ watch.start \in 0..n
      /\ k \in Key /\ copy[k] \in 0..n /\ m \in 0..n
  BY WatchTypes
<1>2. \A p \in watch.pending : watch.start < p /\ m < p /\ copy[k] < p
  BY <1>1 DEF CopyInv, Phases, Delivered, Upto
<1>3. watch.start <= m /\ copy[k] <= m
  BY <1>1, <1>2 DEF Upto
<1>4. copy[k] # 0 => copy[k] \in R
  BY <1>1, <1>3 DEF CopyInv, Delivered
<1>5. CASE watch.options.ignore_deletes
  BY <1>1, <1>5 DEF CopyInv, NoMarkers, Alive
<1>6. CASE ~watch.options.ignore_deletes /\ R = {}
  BY <1>4, <1>6 DEF Alive
<1>7. CASE ~watch.options.ignore_deletes /\ R # {}
  <2>1. PICK s \in R : IsNewest(s, R)
    <3>1. R \in SUBSET (0..m) /\ m \in Nat /\ R # {}
      BY <1>1, <1>7
    <3> HIDE DEF R
    <3>2. \E s \in R : \A r \in R : r <= s
      BY <3>1, LastOne
    <3> QED
      BY <3>2 DEF IsNewest
  <2>2. s \in first..m /\ log[s].key = k /\ s \in 1..n
    BY <1>1, <2>1
  <2>3. copy[k] <= s
    BY <1>1, <1>4, <2>1, <2>2 DEF IsNewest
  <2>4. CASE watch.start < s
    <3>1. s <= copy[k]
      BY <1>1, <1>2, <1>7, <2>2, <2>4 DEF CopyInv, Fresh
    <3>2. copy[k] = s
      BY <1>1, <2>2, <2>3, <3>1
    <3> QED
      BY <1>7, <2>1, <3>2
  <2>5. CASE s <= watch.start
    <3>1. ~watch.options.updates_only /\ s \in 1..watch.start
      BY <1>1, <2>2, <2>5
    <3>2. LastOfKey(s)
      BY <1>1, <1>3, <2>1, <2>2, <3>1 DEF LastOfKey, IsNewest
    <3>3. s <= copy[k] \/ (log[s].op \in Markers /\ copy[k] = 0)
      BY <1>1, <1>2, <1>7, <2>2, <3>1, <3>2 DEF CopyInv, Opened
    <3>4. CASE s <= copy[k]
      <4>1. copy[k] = s
        BY <1>1, <2>2, <2>3, <3>4
      <4> QED
        BY <1>7, <2>1, <4>1
    <3>5. CASE log[s].op \in Markers /\ copy[k] = 0
      <4>1. Alive(copy[k]) = Alive(s)
        BY <3>5 DEF Alive
      <4> QED
        BY <1>7, <2>1, <4>1
    <3> QED
      BY <3>3, <3>4, <3>5
  <2>6. watch.start < s \/ s <= watch.start
    BY <1>1, <2>2
  <2> QED
    BY <2>4, <2>5, <2>6
<1> QED
  BY <1>5, <1>6, <1>7

\* A program that has seen the end of the snapshot has a copy of the keys it watches.
THEOREM WatchedCopy == Spec => []CopyFollows
<1>1. Init => CopyInv
  BY DEF Init, CopyInv, Phases, Delivered, Fresh, Opened, NoMarkers
<1>2. Inv /\ CopyInv /\ [Next]_vars => CopyInv'
  BY CopyStep DEF Inv
<1>3. Inv /\ CopyInv => CopyFollows
  BY CopyIsLast DEF Inv, BucketInv
<1> QED
  BY <1>1, <1>2, <1>3, Invariance, PTL DEF Spec
-----------------------------------------------------------------------------
(* To its callers the bucket is a map                                      *)

\* Revision r is a value of the key.
ValueOf(k, r) == r \in 1..Len(log) /\ log[r].key = k /\ log[r].op \notin Markers

\* The revision passed to update() is a value of the key, or 0.
Revised(q) == q.op = "update" => q.rev = 0 \/ ValueOf(q.key, q.rev)

\* What a program was returned for a key, and passes to update(), is a value of
\* it: so purge_deletes() never makes an update that is due fail.
Based ==
  /\ \A c \in Client, k \in Key : known[c][k] # 0 => ValueOf(k, known[c][k])
  /\ \A c \in Client : call[c] # None => Revised(call[c])
  /\ \A q \in late : Revised(q)
  /\ \A c \in Client :
       reply[c] # None /\ reply[c].ok /\ call[c].op \notin {"erase", "purge"}
       => ValueOf(call[c].key, reply[c].rev)

\* A value stays one.
LEMMA ValueStays ==
  ASSUME BucketInv, [Next]_vars, NEW k, NEW r, ValueOf(k, r)
  PROVE  ValueOf(k, r)'
BY WrittenStays DEF ValueOf

\* What the bucket keeps tells what all that was written would tell.
LEMMA Current ==
  ASSUME BucketInv, NEW k, NEW r \in 1..Len(log)
  PROVE  Atomic!Holds(k, r) <=> IsNewest(r, Revisions(k)) /\ log[r].op \notin Markers
<1>0. kept \subseteq 1..Len(log) /\ Len(log) \in Nat
  BY Kept
<1>1. ASSUME Atomic!Holds(k, r)
      PROVE  IsNewest(r, Revisions(k)) /\ log[r].op \notin Markers
  <2>1. /\ log[r].key = k /\ log[r].op \notin Markers
        /\ \A s \in 1..Len(log) : log[s].key = k => s <= r
    BY <1>1 DEF Atomic!Holds, Atomic!Erased, Markers
  <2>2. r \in kept
    BY <2>1 DEF BucketInv, LastKept
  <2> QED
    BY <1>0, <2>1, <2>2 DEF IsNewest, Revisions
<1>2. ASSUME IsNewest(r, Revisions(k)), log[r].op \notin Markers
      PROVE  Atomic!Holds(k, r)
  <2>1. r \in kept /\ log[r].key = k
    BY <1>2 DEF IsNewest, Revisions
  <2>2. ASSUME NEW s \in 1..Len(log), log[s].key = k, r < s
        PROVE  FALSE
    <3>1. PICK u \in kept : log[u].key = k /\ s <= u
      BY <2>1, <2>2 DEF BucketInv, Covered
    <3>2. u <= r
      BY <1>2, <3>1 DEF IsNewest, Revisions
    <3>3. s \in Nat /\ u \in Nat /\ r \in Nat
      BY <1>0, <3>1, Revs
    <3> QED
      BY <2>2, <3>1, <3>2, <3>3
  <2>3. \A s \in 1..Len(log) : log[s].key = k => s <= r
    BY <1>0, <2>2
  <2> QED
    BY <1>2, <2>1, <2>3 DEF Atomic!Holds, Atomic!Erased, Markers
<1> QED
  BY <1>1, <1>2

LEMMA Absence ==
  ASSUME BucketInv, NEW k
  PROVE  Absent(k) <=> Atomic!Missing(k)
<1>1. kept \subseteq 1..Len(log)
  BY Kept
<1>2. \A r \in 1..Len(log) :
        Atomic!Holds(k, r) <=> IsNewest(r, Revisions(k)) /\ log[r].op \notin Markers
  BY Current
<1>3. \A r : IsNewest(r, Revisions(k)) => r \in kept
  BY DEF IsNewest, Revisions
<1> QED
  BY <1>1, <1>2, <1>3 DEF Absent, Atomic!Missing

\* The server's conditions are those of the map.
LEMMA Admission ==
  ASSUME BucketInv, NEW q \in Request, Mapped(q), Revised(q)
  PROVE  /\ Accepts(q) <=> Atomic!Admits(q)
         /\ Unspecified(q) <=> Atomic!Open(q)
<1>1. /\ q.native = "Create" <=> q.op = "create"
      /\ q.native = "Update" <=> q.op = "update"
  BY DEF Mapped, Request
<1>1a. Unspecified(q) <=> Atomic!Open(q)
  BY <1>1 DEF Unspecified, Atomic!Open
<1>2. Absent(q.key) <=> Atomic!Missing(q.key)
  BY Absence
<1>3. q.op = "update" /\ q.rev # 0 =>
        (IsNewest(q.rev, Revisions(q.key)) <=> Atomic!Holds(q.key, q.rev))
  BY Current DEF ValueOf, Revised
<1> QED
  BY <1>1, <1>1a, <1>2, <1>3 DEF Accepts, Atomic!Admits, Unspecified

\* What an answered get is about.
LEMMA GetAnswers ==
  ASSUME Inv, NEW c \in Client, ServeGet(c)
  PROVE  /\ call[c] \in Request /\ call[c].op = "get" /\ log' = log
         /\ \/ /\ Atomic!Missing(call[c].key)
               /\ reply' = [reply EXCEPT ![c] = [ok |-> FALSE, rev |-> 0]]
            \/ \E r \in 1..Len(log) :
                 /\ Atomic!Holds(call[c].key, r) /\ ValueOf(call[c].key, r)
                 /\ reply' = [reply EXCEPT ![c] = [ok |-> TRUE, rev |-> r]]
<1> DEFINE k == call[c].key
<1>0. BucketInv /\ kept \subseteq 1..Len(log)
  BY Kept DEF Inv
<1>1. call[c] \in Request /\ Mapped(call[c]) /\ call[c].native = "Get" /\ log' = log
  BY <1>0 DEF ServeGet, Pending, BucketInv, Requests, bucketVars
<1>2. call[c].op = "get"
  BY <1>1 DEF Mapped, Request
<1>3. PICK r \in kept \cup {0} :
        /\ IF Absent(k) THEN r = 0 ELSE IsNewest(r, Revisions(k))
        /\ reply' = [reply EXCEPT ![c] = [ok |-> r # 0, rev |-> r]]
  BY DEF ServeGet
<1> HIDE DEF k
<1>4. CASE Absent(k)
  <2>1. Atomic!Missing(k)
    BY <1>0, <1>4, Absence
  <2>2. r = 0 /\ (r # 0) = FALSE
    BY <1>3, <1>4
  <2> QED
    BY <1>1, <1>2, <1>3, <2>1, <2>2 DEF k
<1>5. CASE ~Absent(k)
  <2>1. PICK s \in kept : IsNewest(s, Revisions(k)) /\ log[s].op \notin Markers
    BY <1>5 DEF Absent
  <2>2. IsNewest(r, Revisions(k)) /\ r \in kept /\ s \in 1..Len(log) /\ r \in 1..Len(log)
    BY <1>0, <1>3, <1>5, <2>1 DEF IsNewest, Revisions
  <2>3. r = s
    <3>1. r <= s /\ s <= r
      BY <2>1, <2>2 DEF IsNewest
    <3> QED
      BY <1>0, <2>2, <3>1, Kept
  <2>4. Atomic!Holds(k, r)
    BY <1>0, <2>1, <2>2, <2>3, Current
  <2>5. ValueOf(k, r)
    BY <2>4 DEF Atomic!Holds, Atomic!Erased, ValueOf, Markers
  <2>6. (r # 0) = TRUE
    BY <2>2
  <2> QED
    BY <1>1, <1>2, <1>3, <2>2, <2>4, <2>5, <2>6 DEF k
<1> QED
  BY <1>4, <1>5

\* What an answered write is about.
LEMMA WriteAnswers ==
  ASSUME Inv, Based, NEW q \in Request, Mapped(q), Apply(q), Revised(q)
  PROVE  /\ q.op # "get" /\ Atomic!Admits(q)
         /\ log' = Append(log, Atomic!Entry(q))
         /\ Len(log') = Len(log) + 1 /\ Len(log) \in Nat
         /\ q.op \notin {"erase", "purge"} => ValueOf(q.key, Len(log))'
<1>1. BucketInv /\ TypeOK
  BY DEF Inv, BucketInv
<1>2. q.native # "Get" /\ Accepts(q) /\ log' = Append(log, Recorded(q))
  BY DEF Apply
<1>3. q.op # "get"
  BY <1>2 DEF Mapped
<1>4. Recorded(q) = Atomic!Entry(q)
  BY <1>2, <1>3 DEF Recorded, Atomic!Entry, Mapped, Request, Markers
<1>5. Atomic!Admits(q)
  BY <1>1, <1>2, Admission
<1>6. Len(log') = Len(log) + 1 /\ Len(log) \in Nat /\ log'[Len(log) + 1] = Recorded(q)
  BY <1>1, ApplyLog, ApplyTypes
<1>7. ASSUME q.op \notin {"erase", "purge"}
      PROVE  ValueOf(q.key, Len(log))'
  <2>1. Recorded(q).op = "Put" /\ Recorded(q).key = q.key
    BY <1>4, <1>7 DEF Atomic!Entry
  <2>2. Len(log) + 1 \in 1..Len(log')
    BY <1>6
  <2> HIDE DEF Atomic!Entry
  <2> QED
    BY <1>6, <2>1, <2>2 DEF ValueOf, Markers
<1> QED
  BY <1>2, <1>3, <1>4, <1>5, <1>6, <1>7

\* A call is made with a revision the program was returned for the key; a return
\* is of a value; a call that throws takes its revision along.
LEMMA BasedStep ==
  ASSUME Inv, Based, [Next]_vars
  PROVE  Based'
<1> DEFINE Known(c) == \A k \in Key : known[c][k] # 0 => ValueOf(k, known[c][k])
           Calls(c) == call[c] # None => Revised(call[c])
           Answered(c) == reply[c] # None /\ reply[c].ok
                          /\ call[c].op \notin {"erase", "purge"}
                          => ValueOf(call[c].key, reply[c].rev)
<1>0. BucketInv /\ TypeOK
  BY DEF Inv, BucketInv
<1>1. /\ \A k, r : ValueOf(k, r) => ValueOf(k, r)'
      /\ \A q : Revised(q) => Revised(q)'
  BY <1>0, ValueStays DEF Revised
<1>2. /\ \A c \in Client : Known(c) /\ Calls(c) /\ Answered(c)
      /\ \A q \in late : Revised(q)
  BY DEF Based
<1>3. SUFFICES /\ \A c \in Client : Known(c)' /\ Calls(c)' /\ Answered(c)'
               /\ \A q \in late' : Revised(q)'
  BY DEF Based
<1>4. ASSUME NEW c \in Client
      PROVE  /\ known'[c] = known[c] => Known(c)'
             /\ call'[c] = call[c] => Calls(c)'
             /\ call'[c] = call[c] /\ reply'[c] = reply[c] => Answered(c)'
             /\ reply'[c] = None => Answered(c)'
             /\ call'[c] = None => Calls(c)'
  BY <1>1, <1>2
<1>5. ASSUME NEW q \in late', q \in late
      PROVE  Revised(q)'
  BY <1>1, <1>2, <1>5
<1> HIDE DEF Known, Calls, Answered
<1>6. ASSUME NEW d \in Client, NEW k \in Key,
             \/ Get(d, k) \/ Put(d, k) \/ Create(d, k)
             \/ Update(d, k) \/ Erase(d, k) \/ Purge(d, k)
      PROVE  /\ \A c \in Client : Known(c)' /\ Calls(c)' /\ Answered(c)'
             /\ \A q \in late' : Revised(q)'
  <2>1. /\ UNCHANGED <<log, reply, late, known>> /\ call[d] = None
        /\ \E q : call' = [call EXCEPT ![d] = q] /\ Revised(q)
    <3>1. ASSUME NEW o, NEW nat, NEW rev, Send(d, o, nat, k, rev),
                 o = "update" => rev = 0 \/ ValueOf(k, rev)
          PROVE  /\ UNCHANGED <<log, reply, late, known>> /\ call[d] = None
                 /\ \E q : call' = [call EXCEPT ![d] = q] /\ Revised(q)
      <4> DEFINE q == [client |-> d, op |-> o, native |-> nat, key |-> k, rev |-> rev]
      <4>1. Revised(q)
        BY <3>1 DEF Revised
      <4>2. call' = [call EXCEPT ![d] = q]
        BY <3>1 DEF Send
      <4> QED
        BY <3>1, <4>1, <4>2 DEF Send, bucketVars, learnt
    <3>2. CASE Update(d, k)
      BY <3>1, <3>2 DEF Update, Based
    <3>3. CASE ~Update(d, k)
      BY <1>6, <3>1, <3>3 DEF Get, Put, Create, Erase, Purge
    <3> QED
      BY <3>2, <3>3
  <2>2. PICK q : call' = [call EXCEPT ![d] = q] /\ Revised(q)
    BY <2>1
  <2>3. \A c \in Client : call'[c] = call[c] \/ call'[c] = q
    BY <1>0, <2>2 DEF TypeOK
  <2>4. \A c \in Client : Calls(c)'
    BY <1>1, <1>4, <2>2, <2>3 DEF Calls
  <2>5. reply[d] = None
    BY <1>0, <2>1 DEF TypeOK
  <2>6. \A c \in Client : c # d => call'[c] = call[c]
    BY <1>0, <2>2 DEF TypeOK
  <2> QED
    BY <1>4, <1>5, <2>1, <2>4, <2>5, <2>6
<1>7. ASSUME NEW d \in Client, Return(d) \/ Refused(d) \/ Timeout(d)
      PROVE  /\ \A c \in Client : Known(c)' /\ Calls(c)' /\ Answered(c)'
             /\ \A q \in late' : Revised(q)'
  <2>1. /\ call' = [call EXCEPT ![d] = None] /\ reply' = [reply EXCEPT ![d] = None]
        /\ log' = log
    BY <1>7 DEF Return, Refused, Timeout, Done, bucketVars
  <2>2. \A c \in Client : /\ call'[c] = None \/ call'[c] = call[c]
                          /\ reply'[c] = None \/ (reply'[c] = reply[c] /\ call'[c] = call[c])
    BY <1>0, <2>1 DEF TypeOK
  <2>3. \A q \in late' : Revised(q)'
    <3>1. late' = late \/ (call[d] # None /\ late' = late \cup {call[d]})
      BY <1>7 DEF Return, Refused, Timeout
    <3>2. call[d] # None => Revised(call[d])
      BY <1>2 DEF Calls
    <3> QED
      BY <1>1, <1>5, <3>1, <3>2
  <2>4. \A c \in Client : Known(c)'
    <3>1. CASE known' = known
      BY <1>4, <3>1
    <3>2. CASE Return(d)
      <4> DEFINE v == IF call[d].op \in {"erase", "purge"} THEN 0 ELSE reply[d].rev
      <4>1. known' = [known EXCEPT ![d][call[d].key] = v]
        BY <3>2 DEF Return
      <4>2. v # 0 => ValueOf(call[d].key, v)
        BY <1>2, <3>2 DEF Return, Answered
      <4> HIDE DEF v
      <4>3. \A c \in Client, k \in Key :
              known'[c][k] = IF c = d /\ k = call[d].key THEN v ELSE known[c][k]
        BY <1>0, <4>1 DEF TypeOK
      <4> QED
        BY <1>1, <1>2, <4>2, <4>3 DEF Known
    <3> QED
      BY <1>7, <3>1, <3>2 DEF Refused, Timeout, learnt
  <2> QED
    BY <1>4, <2>2, <2>3, <2>4
<1>8. ASSUME NEW d \in Client, NEW v, reply' = [reply EXCEPT ![d] = v],
             UNCHANGED <<call, late, known>>,
             v.ok /\ call[d].op \notin {"erase", "purge"} =>
               ValueOf(call[d].key, v.rev)'
      PROVE  /\ \A c \in Client : Known(c)' /\ Calls(c)' /\ Answered(c)'
             /\ \A q \in late' : Revised(q)'
  <2>1. \A c \in Client : c # d => reply'[c] = reply[c]
    BY <1>0, <1>8 DEF TypeOK
  <2>2. reply'[d] = v
    BY <1>0, <1>8 DEF TypeOK
  <2>3. Answered(d)'
    BY <1>8, <2>2 DEF Answered
  <2> QED
    BY <1>4, <1>5, <1>8, <2>1, <2>3
<1>9. ASSUME NEW d \in Client, ServeGet(d)
      PROVE  /\ \A c \in Client : Known(c)' /\ Calls(c)' /\ Answered(c)'
             /\ \A q \in late' : Revised(q)'
  <2>1. UNCHANGED <<call, late, known>>
    BY <1>9 DEF ServeGet, learnt
  <2>2. CASE reply' = [reply EXCEPT ![d] = [ok |-> FALSE, rev |-> 0]]
    BY <1>8, <2>1, <2>2
  <2>3. ASSUME NEW r \in 1..Len(log), ValueOf(call[d].key, r),
               reply' = [reply EXCEPT ![d] = [ok |-> TRUE, rev |-> r]]
        PROVE  /\ \A c \in Client : Known(c)' /\ Calls(c)' /\ Answered(c)'
               /\ \A q \in late' : Revised(q)'
    <3>1. ValueOf(call[d].key, r)'
      BY <1>1, <2>1, <2>3
    <3> QED
      BY <1>8, <2>1, <2>3, <3>1
  <2> QED
    BY <1>9, <2>2, <2>3, GetAnswers
<1>10. ASSUME NEW d \in Client, ServeWrite(d)
       PROVE  /\ \A c \in Client : Known(c)' /\ Calls(c)' /\ Answered(c)'
              /\ \A q \in late' : Revised(q)'
  <2>1. call[d] \in Request /\ Mapped(call[d]) /\ Apply(call[d])
    BY <1>0, <1>10 DEF ServeWrite, Pending, BucketInv, Requests
  <2>2. call[d].op \notin {"erase", "purge"} => ValueOf(call[d].key, Len(log))'
    BY <1>2, <1>10, <2>1, WriteAnswers DEF Calls, Revised, ServeWrite, Pending
  <2>3. /\ UNCHANGED <<call, late, known>>
        /\ reply' = [reply EXCEPT ![d] = [ok |-> TRUE, rev |-> Len(log')]]
    BY <1>10 DEF ServeWrite, learnt
  <2> QED
    BY <1>8, <2>2, <2>3
<1>11. ASSUME NEW d \in Client, RefuseWrite(d)
       PROVE  /\ \A c \in Client : Known(c)' /\ Calls(c)' /\ Answered(c)'
              /\ \A q \in late' : Revised(q)'
  BY <1>8, <1>11 DEF RefuseWrite, learnt
<1>12. CASE UNCHANGED <<call, reply, known>> /\ late' \subseteq late
  BY <1>4, <1>5, <1>12
<1>13. ASSUME NEW q \in late, ApplyLate(q) \/ DropLate(q)
       PROVE  UNCHANGED <<call, reply, known>> /\ late' \subseteq late
  BY <1>13 DEF ApplyLate, DropLate, learnt
<1>14. ASSUME NEW K \in (SUBSET Key) \ {{}}, NEW o \in Options, Watch(K, o)
       PROVE  UNCHANGED <<call, reply, known>> /\ late' \subseteq late
  BY <1>14 DEF Watch, learnt
<1>15. ASSUME PurgeDeletes \/ EndOfSnapshot \/ NextEntry \/ Stop \/ UNCHANGED vars
       PROVE  UNCHANGED <<call, reply, known>> /\ late' \subseteq late
  BY <1>15 DEF PurgeDeletes, EndOfSnapshot, NextEntry, Stop, vars, learnt
<1> QED
  BY <1>6, <1>7, <1>9, <1>10, <1>11, <1>12, <1>13, <1>14, <1>15 DEF Next

\* Every step is one of the map's, or none.
LEMMA AtomicStep ==
  ASSUME Inv, Based, [Next]_vars
  PROVE  [Atomic!Next]_(Atomic!vars)
<1>0. BucketInv /\ TypeOK /\ Requests
  BY DEF Inv, BucketInv
<1>1. CASE UNCHANGED <<log, call, reply, late>>
  BY <1>1 DEF Atomic!vars
<1>2. ASSUME NEW c \in Client, NEW k \in Key,
             \/ Get(c, k) \/ Put(c, k) \/ Create(c, k)
             \/ Update(c, k) \/ Erase(c, k) \/ Purge(c, k)
      PROVE  Atomic!Begin(c) \/ UNCHANGED <<log, call, reply, late>>
  <2>1. PICK o, nat, rev : Send(c, o, nat, k, rev)
    BY <1>2 DEF Get, Put, Create, Update, Erase, Purge
  <2> DEFINE q == [client |-> c, op |-> o, native |-> nat, key |-> k, rev |-> rev]
  <2>2. call[c] = None /\ call' = [call EXCEPT ![c] = q] /\ UNCHANGED <<log, reply, late>>
    BY <2>1 DEF Send, bucketVars
  <2>3. call'[c] = q /\ q.client = c
    BY <1>0, <2>2 DEF TypeOK
  <2>4. call'[c] # None => call'[c] \in Request
    BY <1>0, TypeStep, RequestsStep DEF Requests
  <2> HIDE DEF q
  <2>5. CASE q = None
    BY <1>0, <2>2, <2>5 DEF TypeOK
  <2>6. CASE q # None
    BY <2>2, <2>3, <2>4, <2>6 DEF Atomic!Begin
  <2> QED
    BY <2>5, <2>6
<1>3. ASSUME NEW c \in Client, Return(c) \/ Refused(c)
      PROVE  Atomic!Return(c)
  BY <1>0, <1>3 DEF Return, Refused, Done, bucketVars, TypeOK, Atomic!Return, Atomic!Ends
<1>4. ASSUME NEW c \in Client, Timeout(c)
      PROVE  Atomic!Expire(c)
  BY <1>4 DEF Timeout, Done, bucketVars, Atomic!Expire, Atomic!Ends
<1>5. ASSUME NEW c \in Client, ServeGet(c)
      PROVE  Atomic!Read(c)
  <2>1. /\ call[c] # None /\ reply[c] = None /\ UNCHANGED <<log, call, late>>
    BY <1>5 DEF ServeGet, Pending, bucketVars
  <2>2. call[c].op = "get"
    BY <1>5, GetAnswers
  <2>3. CASE /\ Atomic!Missing(call[c].key)
             /\ reply' = [reply EXCEPT ![c] = [ok |-> FALSE, rev |-> 0]]
    BY <2>1, <2>2, <2>3 DEF Atomic!Read, Atomic!Answer, Atomic!Pending
  <2>4. ASSUME NEW r \in 1..Len(log), Atomic!Holds(call[c].key, r),
               reply' = [reply EXCEPT ![c] = [ok |-> TRUE, rev |-> r]]
        PROVE  Atomic!Read(c)
    BY <2>1, <2>2, <2>4 DEF Atomic!Read, Atomic!Answer, Atomic!Pending, Atomic!Missing
  <2> QED
    BY <1>5, <2>3, <2>4, GetAnswers
<1>6. ASSUME NEW c \in Client, ServeWrite(c)
      PROVE  Atomic!Write(c)
  <2>1. /\ call[c] \in Request /\ Mapped(call[c]) /\ Apply(call[c])
        /\ Revised(call[c])
    BY <1>0, <1>6 DEF ServeWrite, Pending, Requests, Based
  <2>2. /\ call[c] # None /\ reply[c] = None /\ UNCHANGED <<call, late>>
        /\ reply' = [reply EXCEPT ![c] = [ok |-> TRUE, rev |-> Len(log')]]
    BY <1>6 DEF ServeWrite, Pending
  <2>3. /\ call[c].op # "get" /\ Atomic!Admits(call[c])
        /\ log' = Append(log, Atomic!Entry(call[c])) /\ Len(log') = Len(log) + 1
    BY <2>1, WriteAnswers
  <2> QED
    BY <2>2, <2>3 DEF Atomic!Write, Atomic!Answer, Atomic!Pending
<1>7. ASSUME NEW c \in Client, RefuseWrite(c)
      PROVE  Atomic!Refuse(c)
  <2>1. /\ call[c] \in Request /\ Mapped(call[c])
        /\ ~Accepts(call[c]) \/ Unspecified(call[c])
    BY <1>0, <1>7 DEF RefuseWrite, Pending, Requests
  <2>2. ~Atomic!Admits(call[c]) \/ Atomic!Open(call[c])
    BY <1>0, <1>7, <2>1, Admission DEF RefuseWrite, Pending, Based
  <2> QED
    BY <1>7, <2>2 DEF RefuseWrite, Pending, bucketVars, Atomic!Refuse, Atomic!Answer,
       Atomic!Pending
<1>8. ASSUME NEW q \in late, ApplyLate(q)
      PROVE  Atomic!LateWrite(q)
  <2>1. /\ q \in Request /\ Mapped(q) /\ Apply(q)
        /\ Revised(q)
    BY <1>0, <1>8 DEF ApplyLate, TypeOK, Requests, Based
  <2>2. q.op # "get" /\ Atomic!Admits(q) /\ log' = Append(log, Atomic!Entry(q))
    BY <2>1, WriteAnswers
  <2> QED
    BY <1>8, <2>2 DEF ApplyLate, Atomic!LateWrite
<1>9. ASSUME NEW q \in late, DropLate(q)
      PROVE  Atomic!Lose(q)
  BY <1>9 DEF DropLate, bucketVars, Atomic!Lose
<1>10. ASSUME NEW K \in (SUBSET Key) \ {{}}, NEW o \in Options, Watch(K, o)
       PROVE  UNCHANGED <<log, call, reply, late>>
  BY <1>10 DEF Watch, bucketVars
<1>11. ASSUME PurgeDeletes \/ EndOfSnapshot \/ NextEntry \/ Stop \/ UNCHANGED vars
       PROVE  UNCHANGED <<log, call, reply, late>>
  BY <1>11 DEF PurgeDeletes, EndOfSnapshot, NextEntry, Stop, vars, bucketVars
<1> QED
  BY <1>1, <1>2, <1>3, <1>4, <1>5, <1>6, <1>7, <1>8, <1>9, <1>10, <1>11
  DEF Next, Atomic!Next

\* Whatever the bucket discards and however late requests are served, the calls of
\* all clients take effect on a map, each at one moment.
THEOREM Linearizable == Spec => IsAtomic
<1>1. Init => Based /\ Atomic!Init
  BY DEF Init, Based, Atomic!Init
<1>2. Inv /\ Based /\ [Next]_vars => Based'
  BY BasedStep
<1>3. Inv /\ Based /\ [Next]_vars => [Atomic!Next]_(Atomic!vars)
  BY AtomicStep
<1> QED
  BY <1>1, <1>2, <1>3, Invariance, PTL DEF Spec, IsAtomic, Atomic!Spec
=============================================================================
