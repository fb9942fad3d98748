---------------------------- MODULE NativeHandles ----------------------------
(***************************************************************************)
(* The classes that manage native handles by hand: key_value, which holds  *)
(* a JetStream context and a store made in it, and the wrappers of a       *)
(* single pointer (jetstream, js_pull_consumer, js_push_consumer,          *)
(* kv_entry, kv_watcher), which share one shape of move, assignment and    *)
(* destructor.  Creating a key_value takes two native calls, of which the  *)
(* second can fail after the first succeeded.  And the calls that receive  *)
(* a native result, copy it into C++ objects and destroy it by a guard,    *)
(* whether the copying throws or not.  upsert_consumer_group() alone       *)
(* copies two strings before it makes the guard, and leaks its result when *)
(* a copy throws; history() moves the entries out of the native list.      *)
(***************************************************************************)
EXTENDS Naturals, FiniteSets

CONSTANTS Obj,      \* key_value objects
          Wrapper,  \* objects of a class that wraps one pointer
          Ctx,      \* jsCtx handles that exist at one time
          Store,    \* kvStore handles that exist at one time
          Handle,   \* handles of the single-pointer classes
          Task,     \* calls that hold something native for their duration
          None      \* nullptr

ASSUME ConstantsAssumption ==
  /\ None \notin Ctx \cup Store \cup Handle
  /\ Ctx \cap Store = {} /\ Ctx \cap Handle = {} /\ Store \cap Handle = {}

VARIABLES ctx_,     \* [Obj -> Ctx or None]    key_value::ctx_
          kv_,      \* [Obj -> Store or None]  key_value::kv_
          pc,       \* [Obj -> step of its creation]
          temp,     \* [Task -> Ctx or None]   delete_bucket's context
          ptr,      \* [Wrapper -> Handle or None]
          result,   \* [Task -> Handle or None]  the native result being copied
          list,     \* [Task -> entries in the kvEntryList of history()]
          entries,  \* [Task -> entries in its vector, also once returned]
          bare,     \* tasks whose result has no guard yet
          abandoned,\* native handles nothing points to any more: leaked
          live,     \* native handles that exist
          context   \* [Store -> Ctx or None]  the context of a store

vars == <<ctx_, kv_, pc, temp, ptr, result, list, entries, bare, abandoned, live, context>>
kvVars   == <<ctx_, kv_, pc, temp, context>>
callVars == <<result, list, entries, bare, abandoned>>

Init ==
  /\ ctx_ = [o \in Obj |-> None]
  /\ kv_ = [o \in Obj |-> None]
  /\ pc = [o \in Obj |-> "none"]
  /\ temp = [d \in Task |-> None]
  /\ ptr = [w \in Wrapper |-> None]
  /\ result = [d \in Task |-> None]
  /\ list = [d \in Task |-> {}]
  /\ entries = [d \in Task |-> {}]
  /\ bare = {}
  /\ abandoned = {}
  /\ live = {}
  /\ context = [s \in Store |-> None]

-----------------------------------------------------------------------------
(* key_value                                                               *)

\* Mutant: the members keep the pointers.
DestroySelfKeeping(o) ==
  /\ live' = live \ {kv_[o], ctx_[o]}
  /\ UNCHANGED <<ctx_, kv_>>

\* destroy_self(): the store, then its context; null pointers are skipped.
DestroySelf(o) ==
  /\ live' = live \ {kv_[o], ctx_[o]}
  /\ kv_' = [kv_ EXCEPT ![o] = None]
  /\ ctx_' = [ctx_ EXCEPT ![o] = None]

\* natsConnection_JetStream in create() or in the constructor.  When it fails
\* the call throws and leaves nothing.
CreateContext(o, c, by) ==
  /\ pc[o] = "none" /\ c \notin live
  /\ live' = live \cup {c}
  /\ ctx_' = [ctx_ EXCEPT ![o] = c]
  /\ pc' = [pc EXCEPT ![o] = by]
  /\ UNCHANGED <<kv_, temp, ptr, context, callVars>>

BeginCreate(o, c) == CreateContext(o, c, "create")
BeginConstruct(o, c) == CreateContext(o, c, "construct")

\* js_CreateKeyValue or js_KeyValue succeeds; the object exists.
OpenStore(o, s) ==
  /\ pc[o] \in {"create", "construct"} /\ s \notin live
  /\ live' = live \cup {s}
  /\ context' = [context EXCEPT ![s] = ctx_[o]]
  /\ kv_' = [kv_ EXCEPT ![o] = s]
  /\ pc' = [pc EXCEPT ![o] = "alive"]
  /\ UNCHANGED <<ctx_, temp, ptr, callVars>>

\* In create() the catch block calls destroy_self() and rethrows ...
CreateFails(o) ==
  /\ pc[o] = "create"
  /\ DestroySelf(o)
  /\ pc' = [pc EXCEPT ![o] = "unwinding"]
  /\ UNCHANGED <<temp, ptr, context, callVars>>

\* ... or kvConfig_Init, or a copy of a string, failed before the try block ...
ConfigFails(o) ==
  /\ pc[o] = "create"
  /\ pc' = [pc EXCEPT ![o] = "unwinding"]
  /\ UNCHANGED <<ctx_, kv_, temp, ptr, live, context, callVars>>

\* ... and the local key_value is destroyed by the unwinding, again.
Unwind(o) ==
  /\ pc[o] = "unwinding"
  /\ DestroySelf(o)
  /\ pc' = [pc EXCEPT ![o] = "none"]
  /\ UNCHANGED <<temp, ptr, context, callVars>>

\* Mutant: the constructor throws without destroying the context; no destructor
\* runs for an object whose constructor threw.
ConstructFailsLeaking(o) ==
  /\ pc[o] = "construct"
  /\ ctx_' = [ctx_ EXCEPT ![o] = None]
  /\ pc' = [pc EXCEPT ![o] = "none"]
  /\ UNCHANGED <<kv_, temp, ptr, live, context, callVars>>

\* In the constructor the context is destroyed and the error rethrown.
ConstructFails(o) ==
  /\ pc[o] = "construct"
  /\ live' = live \ {ctx_[o]}
  /\ ctx_' = [ctx_ EXCEPT ![o] = None]
  /\ pc' = [pc EXCEPT ![o] = "none"]
  /\ UNCHANGED <<kv_, temp, ptr, context, callVars>>

MoveConstruct(o, p) ==
  /\ pc[o] = "none" /\ pc[p] = "alive"
  /\ ctx_' = [ctx_ EXCEPT ![o] = ctx_[p], ![p] = None]
  /\ kv_' = [kv_ EXCEPT ![o] = kv_[p], ![p] = None]
  /\ pc' = [pc EXCEPT ![o] = "alive"]
  /\ UNCHANGED <<temp, ptr, live, context, callVars>>

\* Mutant: only the store of the source is taken.
MoveAssignStoreOnly(o, p) ==
  /\ o # p /\ pc[o] = "alive" /\ pc[p] = "alive"
  /\ live' = live \ {kv_[o], ctx_[o]}
  /\ kv_' = [kv_ EXCEPT ![o] = kv_[p], ![p] = None]
  /\ ctx_' = [ctx_ EXCEPT ![o] = None]
  /\ UNCHANGED <<pc, temp, ptr, context, callVars>>

\* operator=(key_value&&): destroy_self(), then both pointers move.
MoveAssign(o, p) ==
  /\ o # p /\ pc[o] = "alive" /\ pc[p] = "alive"
  /\ live' = live \ {kv_[o], ctx_[o]}
  /\ kv_' = [kv_ EXCEPT ![o] = kv_[p], ![p] = None]
  /\ ctx_' = [ctx_ EXCEPT ![o] = ctx_[p], ![p] = None]
  /\ UNCHANGED <<pc, temp, ptr, context, callVars>>

Destruct(o) ==
  /\ pc[o] = "alive"
  /\ DestroySelf(o)
  /\ pc' = [pc EXCEPT ![o] = "none"]
  /\ UNCHANGED <<temp, ptr, context, callVars>>

\* delete_bucket(): a context of its own, ...
DeleteBucket(d, c) ==
  /\ temp[d] = None /\ c \notin live
  /\ live' = live \cup {c}
  /\ temp' = [temp EXCEPT ![d] = c]
  /\ UNCHANGED <<ctx_, kv_, pc, ptr, context, callVars>>

\* ... destroyed whether js_DeleteKeyValue succeeds or throws.
BucketDeleted(d) ==
  /\ temp[d] # None
  /\ live' = live \ {temp[d]}
  /\ temp' = [temp EXCEPT ![d] = None]
  /\ UNCHANGED <<ctx_, kv_, pc, ptr, context, callVars>>

-----------------------------------------------------------------------------
(* The wrappers of one pointer                                             *)

\* A native call fills a pointer, which goes into a new wrapper; when the call
\* fails it throws before there is one.
Wrap(w, h) ==
  /\ ptr[w] = None /\ h \notin live
  /\ live' = live \cup {h}
  /\ ptr' = [ptr EXCEPT ![w] = h]
  /\ UNCHANGED <<kvVars, callVars>>

\* operator=(T&&), and the move constructor when w is empty.
AssignWrapper(w, x) ==
  /\ w # x
  /\ live' = live \ {ptr[w]}
  /\ ptr' = [ptr EXCEPT ![w] = ptr[x], ![x] = None]
  /\ UNCHANGED <<kvVars, callVars>>

DestroyWrapper(w) ==
  /\ ptr[w] # None
  /\ live' = live \ {ptr[w]}
  /\ ptr' = [ptr EXCEPT ![w] = None]
  /\ UNCHANGED <<kvVars, callVars>>

-----------------------------------------------------------------------------
(* Native results                                                          *)

\* The native call fills a pointer or a list ...
Fill(d, h) ==
  /\ result[d] = None /\ h \notin live
  /\ result' = [result EXCEPT ![d] = h]
  /\ live' = live \cup {h}
  /\ UNCHANGED <<kvVars, ptr, list, entries, abandoned>>

\* ... which a guard is made for: nothing in between can throw.
Receive(d, h) == Fill(d, h) /\ UNCHANGED bare

header_values(d, h)        == Receive(d, h)  \* and header_keys
get_metadata(d, h)         == Receive(d, h)
extract_pub_ack(d, h)      == Receive(d, h)
create_stream(d, h)        == Receive(d, h)  \* and update_stream
get_stream_info(d, h)      == Receive(d, h)
list_streams(d, h)         == Receive(d, h)  \* and list_stream_names
get_consumer_group(d, h)   == Receive(d, h)
list_consumer_groups(d, h) == Receive(d, h)  \* and list_consumer_group_names
get_account_info(d, h)     == Receive(d, h)
keys(d, h)                 == Receive(d, h)  \* and keys_with_filters
status(d, h)               == Receive(d, h)

\* js_AddConsumer or js_UpdateConsumer fills consumer_info_raw; the stream and
\* the durable name are copied into the C++ result before there is a guard.
upsert_consumer_group(d, h) == Fill(d, h) /\ bare' = bare \cup {d}

\* The strings are copied and the guard takes consumer_info_raw ...
GuardResult(d) ==
  /\ d \in bare
  /\ bare' = bare \ {d}
  /\ UNCHANGED <<kvVars, ptr, result, list, entries, abandoned, live>>

\* ... or a copy throws, and nothing will destroy it.
CopyThrows(d) ==
  /\ d \in bare
  /\ bare' = bare \ {d}
  /\ abandoned' = abandoned \cup {result[d]}
  /\ result' = [result EXCEPT ![d] = None]
  /\ UNCHANGED <<kvVars, ptr, list, entries, live>>

\* The copy is complete, or making it threw: the guard destroys the result.
ResultEnds(d) ==
  /\ result[d] # None /\ d \notin bare
  /\ live' = live \ {result[d]}
  /\ result' = [result EXCEPT ![d] = None]
  /\ UNCHANGED <<kvVars, ptr, list, entries, bare, abandoned>>

\* kvStore_History fills a list of entries.
history(d, H) ==
  /\ list[d] = {} /\ entries[d] = {} /\ H \cap live = {}
  /\ list' = [list EXCEPT ![d] = H]
  /\ live' = live \cup H
  /\ UNCHANGED <<kvVars, ptr, result, entries, bare, abandoned>>

\* A kv_entry is made from a pointer of the list, which is set to null there.
TakeEntry(d, h) ==
  /\ h \in list[d]
  /\ list' = [list EXCEPT ![d] = @ \ {h}]
  /\ entries' = [entries EXCEPT ![d] = @ \cup {h}]
  /\ UNCHANGED <<kvVars, ptr, result, live, bare, abandoned>>

\* vector::reserve throws: the guard destroys the list with its entries.
HistoryThrows(d) ==
  /\ list[d] # {} /\ entries[d] = {}
  /\ live' = live \ list[d]
  /\ list' = [list EXCEPT ![d] = {}]
  /\ UNCHANGED <<kvVars, ptr, result, entries, bare, abandoned>>

\* The program destroys the vector that history() returned.
DropHistory(d) ==
  /\ list[d] = {} /\ entries[d] # {}
  /\ live' = live \ entries[d]
  /\ entries' = [entries EXCEPT ![d] = {}]
  /\ UNCHANGED <<kvVars, ptr, result, list, bare, abandoned>>

-----------------------------------------------------------------------------
Next ==
  \/ \E o \in Obj, c \in Ctx : BeginCreate(o, c) \/ BeginConstruct(o, c)
  \/ \E o \in Obj, s \in Store : OpenStore(o, s)
  \/ \E o \in Obj : \/ CreateFails(o) \/ ConfigFails(o) \/ Unwind(o)
                    \/ ConstructFails(o) \/ Destruct(o)
  \/ \E o, p \in Obj : MoveConstruct(o, p) \/ MoveAssign(o, p)
  \/ \E d \in Task, c \in Ctx : DeleteBucket(d, c)
  \/ \E d \in Task : BucketDeleted(d)
  \/ \E w \in Wrapper, h \in Handle : Wrap(w, h)
  \/ \E w, x \in Wrapper : AssignWrapper(w, x)
  \/ \E w \in Wrapper : DestroyWrapper(w)
  \/ \E d \in Task, h \in Handle :
       \/ header_values(d, h) \/ get_metadata(d, h) \/ extract_pub_ack(d, h)
       \/ create_stream(d, h) \/ get_stream_info(d, h) \/ list_streams(d, h)
       \/ get_consumer_group(d, h) \/ upsert_consumer_group(d, h)
       \/ list_consumer_groups(d, h) \/ get_account_info(d, h)
       \/ keys(d, h) \/ status(d, h)
       \/ TakeEntry(d, h)
  \/ \E d \in Task, H \in SUBSET Handle : history(d, H)
  \/ \E d \in Task : \/ GuardResult(d) \/ CopyThrows(d) \/ ResultEnds(d)
                     \/ HistoryThrows(d) \/ DropHistory(d)

Spec == Init /\ [][Next]_vars

-----------------------------------------------------------------------------
(* Properties                                                              *)

\* Types; a key_value has a store only with a context, and none while it does
\* not exist.
TypeOK ==
  /\ ctx_ \in [Obj -> Ctx \cup {None}]
  /\ kv_ \in [Obj -> Store \cup {None}]
  /\ pc \in [Obj -> {"none", "create", "construct", "unwinding", "alive"}]
  /\ temp \in [Task -> Ctx \cup {None}]
  /\ ptr \in [Wrapper -> Handle \cup {None}]
  /\ result \in [Task -> Handle \cup {None}]
  /\ list \in [Task -> SUBSET Handle]
  /\ entries \in [Task -> SUBSET Handle]
  /\ bare \subseteq {d \in Task : result[d] # None}
  /\ abandoned \subseteq Handle
  /\ live \subseteq Ctx \cup Store \cup Handle
  /\ context \in [Store -> Ctx \cup {None}]
  /\ \A o \in Obj : /\ pc[o] # "alive" => kv_[o] = None
                    /\ pc[o] = "none" => ctx_[o] = None

\* Everything that points to handle h.
Owners(h) ==
  {o \in Obj : ctx_[o] = h \/ kv_[o] = h} \cup {w \in Wrapper : ptr[w] = h}
  \cup {d \in Task : temp[d] = h} \cup {<<d, "result">> : d \in {e \in Task : result[e] = h}}
  \cup {<<d, "list">> : d \in {e \in Task : h \in list[e]}}
  \cup {<<d, "entries">> : d \in {e \in Task : h \in entries[e]}}

\* A native handle exists as long as one object owns it: no path through a
\* failed creation, a move or a destruction destroys a handle twice or leaves a
\* pointer to it behind, and the only one that leaks it is the exception between
\* the native call of upsert_consumer_group() and its guard.
OneOwner ==
  \A h \in Ctx \cup Store \cup Handle :
    Cardinality(Owners(h)) = IF h \in live \ abandoned THEN 1 ELSE 0

\* A store is never left without the context it was made in, and the two stay
\* in the same object.
StoreWithContext ==
  \A o \in Obj : kv_[o] # None => ctx_[o] = context[kv_[o]] /\ ctx_[o] \in live
=============================================================================
