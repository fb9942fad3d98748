------------------------------ MODULE KeyValue ------------------------------
(***************************************************************************)
(* The operations of natscpp::key_value and natscpp::kv_watcher, as        *)
(* several clients see them.  Each is one request to the server; a call    *)
(* returns what the server replied, or throws.  A call that timed out may  *)
(* have been applied, may never be, or may still be.                       *)
(*                                                                         *)
(* The bucket is external.  log holds every write ever applied, a          *)
(* revision is an index of it, and kept are the revisions not discarded.   *)
(* One client also has a kv_watcher, from which it builds a copy.          *)
(* A client writes its own name as the value.                              *)
(***************************************************************************)
EXTENDS Naturals, FiniteSets, Sequences

CONSTANTS Client, Key,
          None,       \* nothing
          History,    \* kv_config::history
          Options,    \* the kv_watch_options programs use
          MaxRev,     \* bound: writes applied
          MaxLate     \* bound: requests under way of calls that timed out

ASSUME ConstantsAssumption ==
  /\ Options \subseteq [ignore_deletes : BOOLEAN, include_history : BOOLEAN,
                         updates_only : BOOLEAN]
  /\ History \in Nat \ {0} /\ MaxRev \in Nat /\ MaxLate \in Nat

VARIABLES log,        \* writes: [op, key, value]
          kept,       \* revisions the bucket still has
          call,       \* [Client -> the request of the call under way, or None]
          reply,      \* [Client -> the server's reply to it, or None]
          late,       \* requests under way of calls that timed out
          known,      \* [Client -> [Key -> revision last returned, or 0]]
          floor,      \* [Client -> [Key -> newest revision a returned call was about]]
          watch,      \* the native watcher: its options and entries to deliver
          ends,       \* is the entry that ends the snapshot still to come?
          copy,       \* [Key -> revision last taken from the watcher, or 0]
          synced      \* has the program seen the end of the snapshot?

vars == <<log, kept, call, reply, late, known, floor, watch, ends, copy, synced>>
bucketVars  == <<log, kept>>
learnt      == <<known, floor>>
watcherVars == <<watch, ends, copy, synced>>

-----------------------------------------------------------------------------
(* The bucket                                                              *)

Markers == {"Delete", "Purge"}
Revisions(k) == {r \in kept : log[r].key = k}
IsNewest(r, R) == r \in R /\ \A s \in R : s <= r

\* The key reads as absent.
Absent(k) == \A r \in kept : IsNewest(r, Revisions(k)) => log[r].op \in Markers

\* What Update does with revision 0 is up to nats.c: it may write or refuse.
Unspecified(q) == q.native = "Update" /\ q.rev = 0

\* Create and Update are Puts with a condition.
Accepts(q) ==
  /\ q.native = "Create" => Absent(q.key)
  /\ q.native = "Update" => Unspecified(q) \/ IsNewest(q.rev, Revisions(q.key))

\* How the log records a write.
Recorded(q) == [op |-> IF q.native \in Markers THEN q.native ELSE "Put",
                key |-> q.key, value |-> q.client]

\* What stays besides a new revision of the key: nothing after a Purge, else
\* the newest History - 1.
Survivors(q) ==
  {r \in kept : log[r].key = q.key =>
     /\ q.native # "Purge"
     /\ Cardinality({s \in Revisions(q.key) : s >= r}) < History}

\* Does the watcher deliver revision r of the log l?
Delivers(w, l, r) ==
  l[r].key \in w.keys /\ (w.native.IgnoreDeletes => l[r].op \notin Markers)

\* The write is applied, and offered to the watcher.
Apply(q) ==
  LET r == Len(log) + 1 IN
  /\ Len(log) < MaxRev /\ q.native # "Get" /\ Accepts(q)
  /\ log' = Append(log, Recorded(q))
  /\ kept' = Survivors(q) \cup {r}
  /\ watch' = IF watch # None /\ Delivers(watch, log', r)
              THEN [watch EXCEPT !.pending = @ \cup {r}] ELSE watch

Init ==
  /\ log = <<>>
  /\ kept = {}
  /\ call = [c \in Client |-> None]
  /\ reply = [c \in Client |-> None]
  /\ late = {}
  /\ known = [c \in Client |-> [k \in Key |-> 0]]
  /\ floor = [c \in Client |-> [k \in Key |-> 0]]
  /\ watch = None
  /\ ends = FALSE
  /\ copy = [k \in Key |-> 0]
  /\ synced = FALSE

-----------------------------------------------------------------------------
(* Calls of key_value: one kvStore function each, with the arguments.      *)

Send(c, op, native, k, rev) ==
  /\ call[c] = None
  /\ native # "Get" => Len(log) < MaxRev
  /\ call' = [call EXCEPT ![c] = [client |-> c, op |-> op, native |-> native,
                                  key |-> k, rev |-> rev]]
  /\ UNCHANGED <<bucketVars, reply, late, learnt, watcherVars>>

Get(c, k)    == Send(c, "get", "Get", k, 0)
Put(c, k)    == Send(c, "put", "Put", k, 0)
Create(c, k) == Send(c, "create", "Create", k, 0)

\* Mutant: kvStore_Put is called for kvStore_Update.
UpdateByPut(c, k) == Send(c, "update", "Put", k, known[c][k])

\* The program passes the revision it was last given for the key, 0 if none.
Update(c, k) == Send(c, "update", "Update", k, known[c][k])

\* Mutant: kvStore_Purge is called for kvStore_Delete.
EraseByPurge(c, k) == Send(c, "erase", "Purge", k, 0)

Erase(c, k) == Send(c, "erase", "Delete", k, 0)
Purge(c, k) == Send(c, "purge", "Purge", k, 0)

\* Mutant: the reply is left for the client's next call.
DoneKeepingReply(c) ==
  /\ call' = [call EXCEPT ![c] = None]
  /\ UNCHANGED <<reply, bucketVars, watcherVars>>

Done(c) ==
  /\ call' = [call EXCEPT ![c] = None]
  /\ reply' = [reply EXCEPT ![c] = None]
  /\ UNCHANGED <<bucketVars, watcherVars>>

\* The call returns.  A revision, or that of the kv_entry of a get, is what the
\* program knows from then on; after erase and purge it knows none.
Return(c) ==
  /\ reply[c] # None /\ reply[c].ok
  /\ LET q == call[c]
         r == reply[c].rev
     IN /\ known' = [known EXCEPT ![c][q.key] =
                       IF q.op \in {"erase", "purge"} THEN 0 ELSE r]
        /\ floor' = [floor EXCEPT ![c][q.key] = r]
  /\ Done(c)
  /\ UNCHANGED late

\* The server refused: throw_on_error throws, nothing is learnt.
Refused(c) ==
  /\ reply[c] # None /\ ~reply[c].ok
  /\ Done(c)
  /\ UNCHANGED <<late, learnt>>

\* Mutant: the status NATS_TIMEOUT is not thrown, and the revision is returned
\* as it was initialised.
TimeoutReturns(c) ==
  /\ call[c] # None
  /\ known' = [known EXCEPT ![c][call[c].key] = 0]
  /\ Done(c)
  /\ UNCHANGED <<late, floor>>

\* NATS_TIMEOUT is thrown.  A reply there was is lost; a write that was not
\* served is under way.
Timeout(c) ==
  /\ call[c] # None
  /\ IF reply[c] = None /\ Cardinality(late) < MaxLate
     THEN late' = late \cup {call[c]} ELSE UNCHANGED late
  /\ Done(c)
  /\ UNCHANGED learnt

-----------------------------------------------------------------------------
(* The server                                                              *)

Pending(c) == call[c] # None /\ reply[c] = None

ServeGet(c) ==
  /\ Pending(c) /\ call[c].native = "Get"
  /\ \E r \in kept \cup {0} :
       /\ IF Absent(call[c].key)
          THEN r = 0 ELSE IsNewest(r, Revisions(call[c].key))
       /\ reply' = [reply EXCEPT ![c] = [ok |-> r # 0, rev |-> r]]
  /\ UNCHANGED <<bucketVars, call, late, learnt, watcherVars>>

ServeWrite(c) ==
  /\ Pending(c)
  /\ Apply(call[c])
  /\ reply' = [reply EXCEPT ![c] = [ok |-> TRUE, rev |-> Len(log')]]
  /\ UNCHANGED <<call, late, learnt, ends, copy, synced>>

RefuseWrite(c) ==
  /\ Pending(c) /\ (~Accepts(call[c]) \/ Unspecified(call[c]))
  /\ reply' = [reply EXCEPT ![c] = [ok |-> FALSE, rev |-> 0]]
  /\ UNCHANGED <<bucketVars, call, late, learnt, watcherVars>>

\* A late write is applied although its call has thrown.
ApplyLate(q) ==
  /\ Apply(q)
  /\ late' = late \ {q}
  /\ UNCHANGED <<call, reply, learnt, ends, copy, synced>>

\* A late request is lost or refused.
DropLate(q) ==
  /\ late' = late \ {q}
  /\ UNCHANGED <<bucketVars, call, reply, learnt, watcherVars>>

\* purge_deletes(): keys whose newest revision is a marker are removed; nats.c
\* may leave some.
PurgeDeletes ==
  /\ \E K \in SUBSET {k \in Key : Absent(k)} :
       kept' = {r \in kept : log[r].key \notin K}
  /\ UNCHANGED <<log, call, reply, late, learnt, watcherVars>>

-----------------------------------------------------------------------------
(* Watching                                                                *)

\* Mutant: two fields are swapped.
to_native_watch_options_swapped(o) ==
  [IgnoreDeletes |-> o.updates_only, IncludeHistory |-> o.include_history,
   UpdatesOnly |-> o.ignore_deletes]

to_native_watch_options(o) ==
  [IgnoreDeletes |-> o.ignore_deletes, IncludeHistory |-> o.include_history,
   UpdatesOnly |-> o.updates_only]

\* What is delivered first: with IncludeHistory all revisions, else the newest
\* of each key, and nothing with UpdatesOnly.
Snapshot(w) ==
  {r \in kept : /\ ~w.native.UpdatesOnly
                /\ Delivers(w, log, r)
                /\ w.native.IncludeHistory \/ IsNewest(r, Revisions(log[r].key))}

\* watch(key), watch_multi(keys), watch_all(); the program starts a new copy.
Watch(K, o) ==
  LET w == [keys |-> K, options |-> o, native |-> to_native_watch_options(o),
            pending |-> {}, start |-> Len(log)]
  IN /\ watch = None
     /\ watch' = [w EXCEPT !.pending = Snapshot(w)]
     /\ ends' = ~w.native.UpdatesOnly
     /\ copy' = [k \in Key |-> 0]
     /\ synced' = o.updates_only
     /\ UNCHANGED <<bucketVars, call, reply, late, learnt>>

\* next() returns the null kvEntry that comes between the snapshot and what was
\* written since: the program finds it is not valid().
EndOfSnapshot ==
  /\ watch # None /\ ends
  /\ \A r \in watch.pending : r > watch.start
  /\ ends' = FALSE
  /\ synced' = TRUE
  /\ UNCHANGED <<bucketVars, call, reply, late, learnt, watch, copy>>

\* next() returns an entry, in the order of their revisions: the program takes
\* it over.
NextEntry ==
  /\ watch # None
  /\ \E r \in watch.pending :
       /\ \A s \in watch.pending : r <= s
       /\ ends => r <= watch.start
       /\ copy' = [copy EXCEPT ![log[r].key] = r]
       /\ watch' = [watch EXCEPT !.pending = @ \ {r}]
  /\ UNCHANGED <<bucketVars, call, reply, late, learnt, ends, synced>>

\* stop(), and the watcher is destroyed.
Stop ==
  /\ watch # None
  /\ watch' = None
  /\ ends' = FALSE
  /\ copy' = [k \in Key |-> 0]
  /\ synced' = FALSE
  /\ UNCHANGED <<bucketVars, call, reply, late, learnt>>

-----------------------------------------------------------------------------
Next ==
  \/ \E c \in Client, k \in Key :
       \/ Get(c, k) \/ Put(c, k) \/ Create(c, k)
       \/ Update(c, k) \/ Erase(c, k) \/ Purge(c, k)
  \/ \E c \in Client : \/ Return(c) \/ Refused(c) \/ Timeout(c)
                       \/ ServeGet(c) \/ ServeWrite(c) \/ RefuseWrite(c)
  \/ \E q \in late : ApplyLate(q) \/ DropLate(q)
  \/ PurgeDeletes
  \/ \E K \in (SUBSET Key) \ {{}}, o \in Options : Watch(K, o)
  \/ EndOfSnapshot \/ NextEntry \/ Stop

Spec == Init /\ [][Next]_vars

-----------------------------------------------------------------------------
Request == [client : Client, op : {"get", "put", "create", "update", "erase", "purge"},
            native : {"Get", "Put", "Create", "Update"} \cup Markers,
            key : Key, rev : Nat]

NativeOptions == [IgnoreDeletes : BOOLEAN, IncludeHistory : BOOLEAN, UpdatesOnly : BOOLEAN]

\* Types; what the server keeps are writes it applied, and only the call under
\* way has a reply.
TypeOK ==
  /\ log \in Seq([op : {"Put"} \cup Markers, key : Key, value : Client])
  /\ kept \subseteq 1..Len(log)
  /\ call \in [Client -> Request \cup {None}]
  /\ reply \in [Client -> [ok : BOOLEAN, rev : 0..Len(log)] \cup {None}]
  /\ \A c \in Client : reply[c] # None => call[c] # None
  /\ late \subseteq Request
  /\ known \in [Client -> [Key -> 0..Len(log)]]
  /\ floor \in [Client -> [Key -> 0..Len(log)]]
  /\ watch \in [keys : SUBSET Key, options : Options, native : NativeOptions,
                pending : SUBSET (1..Len(log)), start : 0..Len(log)] \cup {None}
  /\ copy \in [Key -> 0..Len(log)]
  /\ ends \in BOOLEAN /\ synced \in BOOLEAN

\* The bucket discards revisions and requests are served late; to its callers it
\* is a map all the same, in which every get, put, create, update, erase and
\* purge takes effect at once: a call is answered with the revision of its own
\* write or the value there is, create and update are refused only for cause,
\* and a call that threw takes effect once at most.
Atomic == INSTANCE AtomicBucket
IsAtomic == Atomic!Spec

\* Between the revision update() was given, unless it is 0, and the one it returns
\* nobody wrote the key, and create() returns only if the last write of the key before its
\* own erased or purged it, or none was.  So of two clients that read, compute
\* and update, one throws.
Before(r, k) == {s \in 1..(r - 1) : log[s].key = k}
Written(c) == reply[c] # None /\ reply[c].ok /\ call[c].op # "get"
CompareAndSet ==
  \A c \in Client : Written(c) =>
    LET B == Before(reply[c].rev, call[c].key) IN
    /\ call[c].op = "update" /\ call[c].rev # 0 => IsNewest(call[c].rev, B)
    /\ call[c].op = "create" => \A s \in B : IsNewest(s, B) => log[s].op \in Markers

\* What a client is returned for a key never goes back: not behind what it was
\* returned before, and not behind a write, erase or purge of its own that
\* returned, whichever of its calls timed out in between.
Session ==
  [][\A c \in Client, k \in Key :
       known'[c][k] # known[c][k] /\ call[c].op \notin {"erase", "purge"}
       => known'[c][k] # 0 /\ known'[c][k] >= floor[c][k]]_vars

\* A program that watches without ignore_deletes and waits for the entry that is
\* not valid() has, from then on, a copy of the watched keys as they were when
\* the entry it will get next was written, or are now.  With updates_only it is
\* a copy of what was written since.  With ignore_deletes it holds no tombstone.
Alive(r) == IF r = 0 THEN 0 ELSE IF log[r].op \in Markers THEN 0 ELSE r
Upto(n) == IF watch.pending = {} THEN n = Len(log)
           ELSE n + 1 \in watch.pending /\ \A r \in watch.pending : n < r
CopyFollows ==
  watch # None /\ synced =>
    \A k \in watch.keys, n \in 0..Len(log) : Upto(n) =>
      LET first == IF watch.options.updates_only THEN watch.start + 1 ELSE 1
          R == {r \in first..n : log[r].key = k}
      IN IF watch.options.ignore_deletes THEN Alive(copy[k]) = copy[k]
         ELSE IF R = {} THEN Alive(copy[k]) = 0
         ELSE \E r \in R : IsNewest(r, R) /\ Alive(copy[k]) = Alive(r)
=============================================================================
