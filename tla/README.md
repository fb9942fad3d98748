# A verification development for nats-cpp

nats-cpp is a header-only C++20 wrapper around the C client nats.c.  It keeps
little state of its own; what it adds is *ownership*: which C++ object destroys
which native handle, and what keeps a C++ closure alive while a thread of nats.c
may call it.  Those are the questions this development answers.  nats.c itself is
not in the repository (`src/include/nats/nats.h` is a shim that includes the real
header), so it is modelled only as far as the wrapper's use of it goes, and what
it may or may not do is a parameter where the answer matters.

## 1. Inventory

| Component | State | Operations | Interacts with |
|---|---|---|---|
| **Handler registry** (`connection.hpp` `callback_state`, `register_async_subscription`, `async_msg_callback`; `subscription.hpp`) | `callbacks` (token -> `std::function`) under a mutex; per subscription `sub_`, `on_release_` | the `subscribe*` family, `unsubscribe`, `~subscription`, moves, `drain`, `auto_unsubscribe` | nats.c dispatcher threads call the token through a raw closure pointer; `on_release_` holds a `weak_ptr` to the registry |
| **Connection lifetime** (`connection.hpp`) | `conn_`, `callback_state_`, `callback_handlers_`, the handlers captured by the deleter of `conn_` | `connect` (also again), moves, destructor, `close`, `drain`, `request_async` | lifecycle bridges run on nats.c threads; a request's task shares `conn_` |
| **future_awaitable** (`awaitable.hpp`) | shared `fut`, flag `alive` | `await_ready/suspend/resume`, destructor | request task, one detached worker thread per suspension, owner of the coroutine |
| **message** (`message.hpp`, and publish, request, fetch, dispatch elsewhere) | `msg_` | `create`, `release`, moves; raw pointers in between | nats.c's queues and message lists |
| **Handle wrappers** (`key_value`, `jetstream`, `js_pull_consumer`, `js_push_consumer`, `kv_entry`, `kv_watcher`) | one or two raw handles | creation in two steps, moves, destruction | |
| **On-complete callback** (`subscription.hpp:207`) | `completion_callbacks_` and its mutex | `set_on_complete_callback` | nats.c thread that completes a subscription; moves and destruction of the object |
| **Key-value operations** (`kv.hpp`) | none (the bucket is the server's); a `kv_watcher` has the native watcher | `get`, `put`, `create`, `update`, `erase`, `purge`, `purge_deletes`, `watch*`, `next`, `stop`; `history`, `keys`, `status` | server; other clients; calls that time out and are served later |
| **JetStream** (`jetstream.hpp`, ack functions of `message.hpp`) | none (the stream is the server's) | `publish`, `publish_msg` with expectations; consumers; `ack`, `ack_sync`, `nak`, `nak_with_delay`, `term`; `delete_msg`, `erase_msg`, `purge_stream`; stream and consumer management | server; several publishers and workers |
| **Payload sizes** | none | `size_t` to `int` casts | |
| options, `header`, `error`, `library`, `trace` | none worth a model | one native call each | |

What makes each correct:

* registry: a closure is not freed while nats.c can still call it, nor while it
  runs; each registered closure is freed eventually, once, by one owner;
* connection: handlers outlive the `natsConnection` that calls them; the
  connection lives as long as anybody uses it and no longer; members of an object
  belong together;
* awaitable: each suspension is ended once, by resumption or by destruction; the
  worker never touches a dead frame; workers and tasks end;
* message, handles: one owner at any moment, on failing paths too;
* key-value: what a call returns is what it did, also when earlier calls timed out;
  `update` and `create` are atomic; a client never goes back; a watcher's copy is true;
* JetStream: a publish that is retried is stored once; a message is settled only by
  somebody who handled it, and sooner or later; what `ack_sync` confirmed is final.

What is hard: dispatcher threads run between any two native calls of another
thread; destruction order; failures half way through a creation; addresses that
the heap reuses; calls that block for callbacks; requests that throw `NATS_TIMEOUT`
and are served all the same.  `PROJECT.json` lists each such
place with its line under `hazards`.

## 2. Modules

| Module | What it is |
|---|---|
| `HandlerContract` | abstract: what a handler is promised (held before it is entered, freed only when nobody is inside) |
| `CallbackRegistry` | the registry, the subscription objects and the dispatcher; implements `HandlerContract` |
| `CompletionCallback` | on-complete callbacks against the thread that completes a subscription; implements `HandlerContract` |
| `AwaitContract` | abstract: a suspension ends at most once |
| `FutureAwaitable` | a coroutine, request tasks, workers and the owner; implements `AwaitContract` |
| `ConnectionLifetime` | connection objects, natsConnections, lifecycle handlers; implements `HandlerContract` |
| `MessageOwnership` | who destroys a `natsMsg` |
| `NativeHandles` | `key_value`, the single-pointer wrappers, and the calls that hold a native result |
| `AtomicBucket` | abstract: each call takes effect on a plain map at one moment; one that threw does so then, later or never |
| `KeyValue` | clients of a bucket, with late writes, and a watcher; implements `AtomicBucket` |
| `WorkQueue` | abstract: messages are stored and acted on once, leave the queue only for a reason, and do not come back |
| `JetStream` | publishers that retry, a stream, a shared durable consumer and its workers; implements `WorkQueue` |
| `*Proofs` | theorems about the module of that name |
| `MC*` | the small instances TLC checks |

Each module is one component; operators keep the names of the source.  Operators
whose comment begins with "Mutant:" are variants of the operator that follows,
with one plausible mistake each; no specification uses them.  They document which
mistake each property would catch.

### CallbackRegistry

One registration is one element of `Id`, which stands for the address of its
token and for its `natsSubscription`; an Id is reused when nothing refers to it,
which is what the heap does with addresses.  The variables `sub`, `on_release`
and `callbacks` are the members; `pc`, `local` and `from` are where a call on an
object is and its locals.  A call is cut wherever it calls nats.c or leaves the
mutex.  The mutex itself is not a variable: it is held for one access to the map and never across a call, so lock,
access and unlock are one step (and `OpsComplete` would not notice a lock held across a native call):

| Code | Actions |
|---|---|
| `register_async_subscription` | `Insert`, then `SubscribeSucceeds` + `ReturnSubscription` or `ReturnThrows`, or `SubscribeFails` + `EraseFailed` |
| `subscribe_sync`, `subscribe_queue_sync` | `SubscribeSync` |
| `unsubscribe` | `Unsubscribe`, `ResetHandle`, `ReleaseCallback` |
| `~subscription` | `ResetHandle`, `ReleaseCallback` |
| `operator=` | `AssignRelease`, `AssignHandle` |
| `async_msg_callback` | `EnterHandler`, `LeaveHandler` |
| `~connection` | `DropCallbackState`, `DropConnection` |

Between `SubscribeSucceeds` and `ReturnSubscription` messages are dispatched already.  `ReturnThrows` is the
allocation of the release function (`connection.hpp:572`) failing: the registration is then in `abandoned`, delivers on,
and no object can end it.  Its token stays in the registry, so it is safe until `~connection`, and the properties
except it from there on; `OwnedOnce` says it is the only thing that is ever forgotten.

Steps that change nothing (an `unsubscribe` that throws, the null message of a
subscription timeout, the getters) are stuttering.  Different threads use
different objects; that one object is not used by two threads at once is the usual
rule of the C++ library and is assumed, except for `set_on_complete_callback` (below).  A handler does not destroy its
own subscription: what nats.c does then is not in this repository.

Three constants name assumptions about the surroundings.  `DestroyWaits`:
`natsSubscription_Destroy` returns only when a running callback has returned.
`AssignOverLive`: programs move-assign over a subscription that still delivers.
`ConnectionFirst`: programs destroy a connection before the subscriptions made
from it.  The first is a fact about nats.c we cannot look up here; the other two
are things the types permit and the library does not guard against.

`DestroyWaits = FALSE` is not checked by a run: theorem `EntrySafety` covers both values.

### CompletionCallback

nats.c stores one closure per subscription (`stored`) and calls it when delivery has ended
(`CompletionStarts`, `CompletionEnds`); `tokens` are the keys of `completion_callbacks_`, and
`token` is the local `shared_ptr` of a call under way.  Here a call belongs to a thread, since two
threads may be inside one object:

| Code | Actions |
|---|---|
| `set_on_complete_callback` | `Insert`, then `SetAccepted` + `Prune` or `SetRejected` + `EraseRejected` |
| `unsubscribe` | `Unsubscribe`, `Unsubscribed` (the map is left as it is) |
| `~subscription` | `Destruct`, `DestroyTokens` |
| `operator=` | `AssignHandle`, `AssignTokens` |

`SharedSetters` says whether two threads set callbacks on one object at once.  The class has a
mutex for that and nothing else; every other pair of calls on one object is excluded.  Of nats.c it is
assumed that a closure is accepted only until the completion has begun, and, by
`DestroyWaits`, that `natsSubscription_Destroy` returns after the callback.  Without the latter the
destructor frees a callback that is about to run, whatever order it keeps.

### FutureAwaitable

A coroutine evaluates up to `N` `co_await`s one after another.  The thread that
runs the body is the caller's until the first suspension and then the last
worker's, so the worker of suspension *i* is still inside `h.resume()` while the
body suspends at *i + 1* and worker *i + 1* resumes it.  `Claim` (the
compare-exchange) and `WorkerResumes` (`h.resume()`) are separate actions, and so
are `Destroy` (`alive.exchange(false)`) and `FreeFrame`.  A `std::async` future's last owner
blocks until the task is done (guard of `AwaitableGone`).  `DestroyWhen` says when
the owner destroys the suspended coroutine.

### ConnectionLifetime

`conn_` is a `shared_ptr`; its owners are objects, `connect()`'s local `raw`, and request
tasks.  The last release makes the connection "dying" (`natsConnection_Destroy` has
begun); `DestroyReturns` ends it and frees the handlers that the deleter captured.
`connect()` is `ConnectStarts`, `ConnectSucceeds`, `ResetConn`, `StoreHandlers`, or
`ConnectFails`; the defaulted `operator=` is `AssignConn` and `AssignRest`, since
members are assigned in declaration order and the first may block.  `old` is the
connection whose destruction such a call is waiting in.  `ReuseMovedFrom` says whether programs call
`connect()` on a moved-from object; such an object has no `callback_state_`
and its next `subscribe_async` would dereference null, so `MembersAgree` holds only
without it.

### MessageOwnership and NativeHandles

`MessageOwnership` follows the pointer: nats.c's queue, a `message`, the argument of a
handler, a pointer released during a publish, a `natsMsgList`, the resulting vector,
and the program after `release()`.  `SendEnds` stands for success and failure alike,
because `natsMsg_Destroy(raw)` precedes `throw_on_error` in all three callers.  `NewMessage`
is every call whose native function makes the message it returns: `message::create`, `request_sync`,
`request_string`, `get_msg` and `get_last_msg`.

`NativeHandles` models `key_value`, whose creation can fail between two handles and
whose `create` destroys by hand *and* by unwinding, `delete_bucket`'s context, and one
shape for the single-pointer classes.  The calls that receive a native structure,
copy it into C++ objects and destroy it by a guard (`get_stream_info`, `get_account_info`,
`list_streams`, `keys`, `status`, `get_metadata`, ...) share `Receive` and `ResultEnds`; each
is a definition of its own, with its lines (functions of one shape, as `list_streams` and `list_stream_names`, share one).  A null result is a stutter.  `upsert_consumer_group` copies two strings
(`jetstream.hpp:771-774`) after the native call and before its guard: its result is `bare` until `GuardResult`, and
`CopyThrows` leaks it.  That is the one leak `OneOwner` allows (`abandoned`).  `history()` is different too: it moves entries one by one
out of the native list (`TakeEntry`), and may throw half way (`HistoryThrows`).

### KeyValue

A call is a request (`Put`, `Update`, ... through `Send`), what the server does with it
(`ServeGet`, `ServeWrite`, `RefuseWrite`) and its end (`Return`, `Refused`, `Timeout`).
`Timeout` covers a lost reply, a lost request and a request still under way, which
`ApplyLate` may apply at any later time, also in the middle of later calls of the same
client.  The bucket is external, modelled from the table at `README.md:461` of the repository and the
integration tests: `log` is every write, `kept` what the history limit and purges left.
Expiry (`ttl`), `max_bytes` and replicas that lag are left out: the bucket is one place
that forgets only by `history`, `purge` and `purge_deletes` (of which nats.c may leave recent markers).

The program's part is what it does with a result: it keeps the revision
(`known`) and passes it to `update`; before it has one that is 0.  `update(key, value, 0)` passes 0 on (`kv.hpp:357`), and what
nats.c makes of it is not in the repository: `Unspecified` lets the server write or refuse it, and `CompareAndSet` says nothing about it.
`kvStore_Create` is taken as one step of the server, which is an assumption about nats.c.  A `kv_watcher` delivers a snapshot, then an entry
that is not `valid()`, then what was written since; the program asks `valid()` before
`operation()`, since `operation()` of the null entry would say `put`.  Reads that change nothing stutter.
`Watch` takes any of `kv_watch_options` through `to_native_watch_options`.

`AtomicBucket` has no history, no markers and no floor: a key has the value of its last write, or none.
It has the variables `log`, `call`, `reply` and `late` of `KeyValue` and none of the others, so the
refinement mapping is the identity on these.  Its `Read`, `Write` and `Refuse` are the moment at which a call takes effect.

### JetStream

A publisher has one message; a publish that throws may be repeated with the same
options (`Retry`) or given up, and its earlier requests may still arrive (`ServeLate`).
`pub_opts` is the code's translation of the options: without `has_opts` a null pointer is passed.  The stream
deduplicates by `msg_id`; its window is taken to be longer than the retries last, and the
stream has one subject, so `expected_last_subject_seq` is the same as `expected_last_seq` and left out.

Workers share a durable consumer with the explicit ack policy.  `jetstream.hpp:48-52` offers `none` and `all` as well; with
these the server settles messages nobody acknowledged one by one, and `NoLoss`, `IsQueue` and `Settles` say nothing about
them.  `Deliver` is any of `next`, `fetch` or a push
callback; the order of deliveries is not assumed.  `Ack`, `Nak`, `NakWithDelay` and `Term` only
publish: the acknowledgement may be lost, late, and of a delivery that expired.
`AckSync` waits, and throws whether or not the server took it.  `AckWaitExpires` is both the
ack wait and the delay of a nak; `in_progress` only restarts that timer and changes
nothing in an untimed model.  `delete_msg`, `erase_msg` and `purge_stream` remove messages at any
time.  The workers remember sequences (`seen`), which is how a program tells a redelivery by `get_metadata`.

`WorkQueue` has neither requests nor acknowledgements nor deliveries under way.  Its `open`, `settled`, `given` and `final` are sets of
sequences read off `st` and `ended`, and `receipt` is what the publisher's reply says, so that retries, late requests, lost
acknowledgements and expired deliveries are stutters or single steps of it.

## 3. Runs

| Run | Instance | Shows |
|---|---|---|
| `registry` | 3 objects, 3 registrations, 1 request, fair; 328649 states | `EntrySafe`, `OwnedOnce`, `KeepsContract` (refinement of `HandlerContract`, which also says that no handler is freed while it runs); every call returns (`OpsComplete`), no token stays without a subscription (`TokensSettle`) |
| `registry_assign` | `AssignOverLive = TRUE` | `EntrySafe` fails: finding 1 |
| `registry_order` | `ConnectionFirst = TRUE` | `EntrySafe` fails: finding 2 |
| `awaitable` | 3 suspensions, owner destroys only before the future is ready, fair; 248 states | `ResumeValid`, `RunsAlone`, `KeepsContract` (refinement of `AwaitContract`), `SuspensionEnds`, `WorkersEnd` |
| `awaitable_anytime` | owner destroys at any time | `ResumeValid` fails: finding 3 |
| `lifetime` | 2 objects, 3 connections, 3 handlers, 1 request, fair; 130602 states | `HandlersOutlive`, `OwnedIffLive`, `MembersAgree`, `CallsReturn`, `HandlersFreed` |
| `completion` | 2 objects, 2 subscriptions, 3 tokens, 2 threads; 59896 states | `CompletionSafe`, `ExactToken`, and `KeepsContract` (the on-complete callbacks refine `HandlerContract` too) |
| `completion_shared` | `SharedSetters = TRUE` | `CompletionSafe` fails: finding 4 |
| `messages` | 4 messages, 2 variables, 2 threads, batches of 3; 18398 states | `OneOwner`, `FetchKeepsOrder` |
| `handles` | 2 objects, 2 wrappers, 3 contexts, 2 stores, 3 handles; 22784 states | `OneOwner`, `StoreWithContext` |
| `kv` | 2 clients, 1 key, history 2, 3 writes, 1 late request; 1640072 states | `CompareAndSet`, `Session`, `CopyFollows`, and `IsAtomic` (refinement of `AtomicBucket`, which also says what calls return and when they may be refused) |
| `jetstream` | 2 messages, 2 workers, 2 sequences, 5 kinds of options, `max_deliver` 2, fair; 444632 states | `RetriedOnce`, `PubAckHolds`, `EffectOnce`, `NoLoss`, `Settles`, and `IsQueue` (refinement of `WorkQueue`, which also says that `ack_sync` is final) |

Why the bounds suffice: three subscription objects are what a move-assignment
and a bystander need, and three registrations allow one to be overwritten, one moved in
and one to be registered meanwhile with a reused address.  For completion, three tokens are a stored one, its replacement and one of
another object; two threads are the fewest for the race.  Two connection objects
exercise every move; three connections let one be dying while each object holds
another.  Three suspensions are the fewest for which a worker still returning, one
resuming and one waiting coexist.  Three messages make a batch of which one is taken, one is not and the
order can be wrong; the fourth arrives during it.

Only the two modules with a server have counters, and these are the bounds on them.
`MaxRev` (writes applied, 3): a read or write, another client's write and the conditional write after
it; with a history of 2 the third discards the first.  `MaxLate` (1): one late write is enough to
come between a client's later calls.  `Focus` (a state constraint of `MCKeyValue`): while a
watcher is open one client writes, since a watcher sees only writes that were applied, by whom does not
matter.  An update with revision 0, which is an unconditional put where it is not refused, runs against the other client's calls, but
not together with late requests or a watcher.  `MaxSeq` (2 messages stored): one stored twice, or one and what it expects before it.
`MaxAcks` (1 acknowledgement under way): it is enough for one to arrive after its delivery has
expired and the other worker has the message.  `Overlap = FALSE`: messages are delivered
when publishing is over; what the two halves have to do with each other, `EffectOnce`, is a fact about the
log.  The theorems of section 4 hold whatever the values of these bounds, and do not need
`Focus` or `Overlap`.  `max_deliver` is 2, so that a message can be exhausted; `Settles` is about such a limit.  The code's default, -1, is
unlimited, and then a message that every worker naks or drops is never settled.  `Options` gives the first message
every option alone and `msg_id` with an expectation; the second none.

Deadlock is not checked: programs may stop using the library at any point, and
in `awaitable` the coroutine returns.  That calls return is stated as liveness
instead.

### Fairness

* A call that has begun goes on, and handlers return (weak fairness of `Continue` and of
  the `Leave*` actions).  No lock of this code is held across a native call
  (`connection.hpp:558-570`, `subscription.hpp:211-236`), so only the native call itself can delay it.
* Request tasks end: `natsConnection_Request` has a timeout.
* `natsConnection_Destroy` returns (strong fairness of `DestroyReturns`): it is
  disabled again and again by callbacks that start while it runs, but not for ever.
* Workers of a consumer call `next()` again and again, and what a worker does with a message
  ends, if only by destroying it; the server's timers run (weak fairness of `Works`,
  `Deliver` and `AckWaitExpires`).  The latter is JetStream's promise, not this code's.
* Nothing is assumed of publishers, clients of a bucket, other programs, arriving messages, or owners of coroutines.

### Findings

1. `subscription::operator=` (`subscription.hpp:75`) releases the closure before the old
   subscription is destroyed, against the rule stated in the destructor
   (`subscription.hpp:61`).  A message that arrives between is dispatched through a
   freed closure.
2. `~connection` destroys `callback_state_` before `conn_` (`connection.hpp:860-861`)
   and subscriptions may outlive it; their handlers are then freed while delivery goes on.
3. `awaitable.hpp:52` says that a worker that wins the race has a valid handle.  The owner
   may destroy the coroutine after the race and before `h.resume()`.
4. `set_on_complete_callback` (`subscription.hpp:234`) locks around each access to its map but not
   around the sequence of insertion, native call and pruning.  A call that prunes after another has
   inserted frees the other's callback, which nats.c then stores; the comment at line 231 speaks of
   *previously* registered tokens only.

## 4. Proofs

Every theorem holds for sets and bounds of any size.  Each module below states
its theorems and their lemmas; in each, an inductive invariant strengthens the properties with what
they depend on, every conjunct of it has a lemma that goes through the actions,
and the last steps combine the three facts.

| Module | Theorem | Assumes | Property |
|---|---|---|---|
| `CallbackRegistryProofs` | `TypeCorrect` | | `TypeOK` |
| | `Ownership` | | `OwnedOnce` |
| | `EntrySafety` | `~AssignOverLive`, `~ConnectionFirst` | `EntrySafe` |
| | `UseSafety` | and `DestroyWaits` | `UseSafe`: no handler is freed while it runs |
| | `Refinement` | the same | `KeepsContract` |
| `CompletionCallbackProofs` | `TypeCorrect` | | `TypeOK` |
| | `CallbackSafety` | `~SharedSetters`, `DestroyWaits` | `CompletionSafe` |
| | `NothingPilesUp` | the same | `ExactToken` |
| | `Refinement` | the same | `KeepsContract` |
| `FutureAwaitableProofs` | `TypeCorrect` | `DestroyWhen # "anytime"` (so for all) | `TypeOK` |
| | `Resumption` | | `ResumeValid` |
| | `Execution` | | `RunsAlone` |
| | `Refinement` | | `KeepsContract` |
| `ConnectionLifetimeProofs` | `TypeCorrect` | | `TypeOK` |
| | `ConnectionOwnership` | | `OwnedIffLive` |
| | `HandlerSafety` | `DestroyWaits` | `HandlersOutlive` |
| | `MembersTogether` | `~ReuseMovedFrom` | `MembersAgree` |
| | `Refinement` | `DestroyWaits` | `KeepsContract` of that module |
| | `NoCircularWait` | | `WaitsForDestroy`: what calls under way wait for |
| `MessageOwnershipProofs` | `TypeCorrect` | | `TypeOK` |
| | `FetchOrder` | | `FetchKeepsOrder` |
| | `DestroyedOnce` | | `OneOwner` |
| `NativeHandlesProofs` | `TypeCorrect` | | `TypeOK` |
| | `StorePaired` | | `StoreWithContext` |
| | `DestroyedOnce` | | `OneOwner`, which excepts the result `upsert_consumer_group` leaks |
| `KeyValueProofs` | `TypeCorrect` | | `TypeOK` |
| | `Answers` | | `AnswersMatch`: a write returns the revision of that write |
| | `Optimistic` | | `CompareAndSet`, of revisions other than 0 |
| | `SessionOrder` | | `Session` |
| | `WatchedCopy` | | `CopyFollows` |
| | `Linearizable` | | `IsAtomic` |
| `JetStreamProofs` | `TypeCorrect` | | `TypeOK` |
| | `PublishedOnce` | | `RetriedOnce` |
| | `Acknowledged` | | `PubAckHolds` |
| | `Handled` | | `NoLoss` |
| | `ActedOnce` | | `EffectOnce` |
| | `SyncSettles` | | `SyncFinal`: what `ack_sync` confirmed is not delivered again |
| | `Refinement` | | `IsQueue` |

The arguments.

*Registry.*  `OneOwner` is not inductive: whether a step duplicates an owner depends
on what the locals of calls under way stand for.  `CallLocals` says it: a registration
owns a token nobody else knows; a destruction in progress keeps the key of the handle
it destroyed, and only such a call has a key without a handle; an abandoned registration is known to no object.  `OwnershipInv` adds it, and holds
whatever the program does.  For delivery, `DeliveryInv` says that a delivering
subscription sits in one object with the key of its own token (`Paired`), that keys held
are registered while the registry exists (`KeysHeld`), that nobody holds anything of a
connection that is gone (`GoneEmpty`), that the token of a running handler still has a
holder (`RunningHeld`, if destroying waits), and that what `operator=` overwrites stays quiet
meanwhile (`AssignsQuiet`).  `GoneEmpty`, `RunningHeld` and `AssignsQuiet` are where the
assumptions enter.  In reachable states the living handlers are
exactly the registry's keys, and the abandoned ones (`HeldIsRegistered`), so `Insert` is the contract's `Hold`,
erasing is `Free`, and every other step is `Enter`, `Return` or a stutter.

*On-complete callbacks.*  Between calls the map of an object is exactly what nats.c stored (`Exact`).
During a call it is not, and `Midway` says what it is at each step: the new callback and the
stored one, or a stored one besides one to be pruned.  `Few` and `Replaced` are needed for pruning to erase one
callback at most, which makes it a single `Free` of the contract; `Exclusive` is `~SharedSetters` and the usual
rule, `Distinct` that no callback is registered twice.

*Awaitable.*  `Race` ties the flag to the winner; `Past` and `Fresh` say that
workers of earlier suspensions are on their way out and later ones do not exist, so that
only the last can have won; `SharedState` that whoever still has the future waits for its task; `Running` which thread
is in the body.

*Connection.*  `OwnerInv` counts owners: locals of `connect` and of `operator=` included, no two
objects share a connection (`Unshared`), so a release that is the last one is known to be.  `Captured` follows
the handlers from `connect`'s local into the deleter; with it and `CalledAlive` they outlive the connection.  `Together`
says which members agree at each step of `connect` and `operator=`.  For the refinement, `Distinct` (no two
connections, nor one and a `connect` under way, know the same handlers) makes a step free one of them at most, so
that it is a single `Free`, and by `HandlersOutlive` one that no callback runs.
`WaitsForDestroy` is inductive with the types and `Calls`.  That the waits it allows end is `CallsReturn`.
`KeepsContract` of this module is not among the properties of the run; TLC finds no error in it on the same instance.

*Messages and handles.*  The proofs replace cardinalities by existence and
disjointness: what exists is in one of the places (`Accounted`; `Contexts`, `Stores`, `Handles`), the places do
not overlap (`Apart`).  `FetchState` says which part of a batch is in the vector and which still in the list.

*Key-value.*  The server checks a condition against what it *keeps*, the property speaks of all
writes.  `Covered` (what is discarded is older than something kept of the same key) and `LastKept`
(the last write is kept unless it was a marker) bridge the two.  `Right` says that a reply
under way stays true whatever is applied meanwhile.  For `IsAtomic` the step that needs an argument is a refusal: the
bucket refuses an `update` whose revision is not the last of the key, and the map refuses it if the key has not that *value*; they
agree because the revisions, other than 0, that programs pass were returned by reads and writes and so are values, not markers (`Based`),
and a revision that was one stays one (`ValueOf`).  For
`CopyFollows`, `CopyInv` relates the copy to what the watcher has still to deliver: what it delivered is older than what is to come (`Delivered`),
what was written since it was opened is to come or has come (`Fresh`), the last write before is too unless it was a marker the bucket had
discarded (`Opened`), with `ignore_deletes` no marker comes (`NoMarkers`), and `Phases` divides the two parts at the end of the snapshot.

*JetStream.*  All requests of a message that may still arrive have the same options
(`Attempts`), and what was stored fulfils them (`Stored`): so an attempt either finds its `msg_id`, or expects a
last sequence that has passed.  `Acted` ties effects to remembered sequences; `Told` says
that an acknowledgement on its way is of a message that was handled or given up, whichever delivery it was of;
`Confirmed` that what the server answered stays settled; the refinement adds that a worker works only on what was delivered (`Delivered`).  These need neither `Overlap = FALSE` nor a limit
on acknowledgements, which is why the run can afford both.

Only model-checked: liveness (`OpsComplete`, `TokensSettle`, `SuspensionEnds`, `WorkersEnd`,
`CallsReturn`, `HandlersFreed`, `Settles`), since fairness and ENABLED are out of the proof
system's reach.

## 5. Not modelled

* Payload sizes: `connection.hpp` checks a `size_t` before it casts it to `int`; `message::create`, the
  JetStream publishes and the key-value writes do not.  Each is a single expression without a state.
* Creation and update of streams and consumers, and what the informational calls return: structures are
  translated field by field.  The ownership of the native structures is in `NativeHandles`.
* The expectations by stream name, last message id and subject sequence, message TTL, and `in_progress`.
* The ack policies `none` and `all`.
* Options, headers, error texts and tracing; tests and examples.
* Use of one object by two threads, except for `set_on_complete_callback`, and a handler
  that destroys its own subscription: whether `natsSubscription_Destroy` waits for its caller is not in this repository.

## 6. What could come next

Proofs that no call waits in a circle for the other
modules, as `NoCircularWait`; `JetStream` with several subjects and `expected_last_subject_seq`; a push consumer's callback as a
composition of `JetStream` with `CallbackRegistry`.
