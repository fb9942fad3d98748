-------------------------- MODULE CallbackRegistry --------------------------
(***************************************************************************)
(* The lifetime of message handlers: the registry that a                   *)
(* natscpp::connection keeps (callback_state), the natscpp::subscription   *)
(* objects whose on_release_ removes entries from it, and the nats.c       *)
(* dispatcher that calls the handlers through a raw closure pointer.       *)
(*                                                                         *)
(* One registration (one call of register_async_subscription) is named by  *)
(* an element of Id, which stands both for the address of its token (the   *)
(* std::function on the heap, the closure nats.c stores) and for its       *)
(* natsSubscription.  An Id is reused once nothing refers to it any more.  *)
(* A registration is abandoned when nats.c has accepted it and making the  *)
(* subscription object throws: it delivers on, and nobody can release it.  *)
(*                                                                         *)
(* Operations on subscription objects are cut wherever the C++ code calls  *)
(* into nats.c or releases the registry's mutex, because dispatcher        *)
(* threads run in between.  The mutex is held for one access to the map    *)
(* and never across a call, so lock, access and unlock are one step.  An   *)
(* operation is identified by the object it works on, so as many user      *)
(* threads as objects run concurrently.                                    *)
(***************************************************************************)
EXTENDS Naturals

CONSTANTS Var,              \* variables of type natscpp::subscription
          Id,               \* registrations that exist at one time
          Req,              \* request_async calls in flight at one time
          None,             \* nullptr
          DestroyWaits,     \* does natsSubscription_Destroy return only after
                            \* a running message callback has returned?
          AssignOverLive,   \* may a program move-assign over a subscription
                            \* that nats.c can still deliver to?
          ConnectionFirst   \* may a program destroy a connection before the
                            \* subscriptions made from it?

ASSUME ConstantsAssumption ==
  /\ None \notin Id
  /\ None \notin Var
  /\ None \notin Req
  /\ {DestroyWaits, AssignOverLive, ConnectionFirst} \subseteq BOOLEAN

VARIABLES sub,         \* [Var -> Id or None]   subscription::sub_
          on_release,  \* [Var -> Id or None]   the key on_release_ will erase
          pc,          \* [Var -> step of the call under way on the object]
          local,       \* [Var -> Id or None]   the call's local: the token being
                       \*   registered, or the handle being destroyed
          from,        \* [Var -> Var or None]  source of a move-assignment
          callbacks,   \* keys of callback_state::callbacks
          object,      \* the natscpp::connection object
          refs,        \* owners of the shared_ptr conn_: None is the object,
                       \*   the others are request_async tasks
          conn,        \* the natsConnection
          nsub,        \* [Id -> state of the natsSubscription]
          running,     \* registrations whose handler is being executed
          abandoned    \* registrations that deliver but have no object

vars == <<sub, on_release, pc, local, from, callbacks, object, refs, conn,
          nsub, running, abandoned>>
objectVars == <<sub, on_release, pc, local, from>>
connVars   == <<object, refs, conn>>

-----------------------------------------------------------------------------
(* Native state, external to src/.  "sync" is open without a closure;      *)
(* "finishing" is draining or auto-unsubscribing: it still delivers what   *)
(* is queued, then closes by itself; "none" is not created or destroyed.   *)

Delivering == {"open", "finishing"}
CanDeliver(k) == nsub[k] \in Delivering

\* Every subscription of a connection that closes stops delivering.
CloseAll == [k \in Id |-> IF nsub[k] \in Delivering \cup {"sync"}
                          THEN "closed" ELSE nsub[k]]

\* natsSubscription_Destroy has returned for handle k.
DestroyReturned(k) == DestroyWaits => k \notin running

-----------------------------------------------------------------------------
Registering == {"registering", "subscribed", "failed"}

\* The std::function of registration k exists: an entry of the registry or the
\* local shared_ptr of a registration under way keeps it.
Alive(k) == \/ k \in callbacks
            \/ \E v \in Var : pc[v] \in Registering /\ local[v] = k

Fresh(k) == /\ nsub[k] = "none"
            /\ k \notin callbacks \cup running
            /\ \A v \in Var : k \notin {sub[v], on_release[v], local[v]}

Empty(v) == pc[v] = "idle" /\ sub[v] = None /\ on_release[v] = None

\* Nothing can be delivered, or is being delivered, through v.
Quiet(v) == sub[v] # None => ~CanDeliver(sub[v]) /\ sub[v] \notin running

Init ==
  /\ sub = [v \in Var |-> None]
  /\ on_release = [v \in Var |-> None]
  /\ pc = [v \in Var |-> "idle"]
  /\ local = [v \in Var |-> None]
  /\ from = [v \in Var |-> None]
  /\ callbacks = {}
  /\ object = "alive"
  /\ refs = {None}
  /\ conn = "open"
  /\ nsub = [k \in Id |-> "none"]
  /\ running = {}
  /\ abandoned = {}

-----------------------------------------------------------------------------
(* connection::register_async_subscription                                 *)

\* Lock, insert the token, unlock.
Insert(v, k) ==
  /\ object = "alive" /\ Empty(v) /\ Fresh(k)
  /\ callbacks' = callbacks \cup {k}
  /\ local' = [local EXCEPT ![v] = k]
  /\ pc' = [pc EXCEPT ![v] = "registering"]
  /\ UNCHANGED <<sub, on_release, from, connVars, nsub, running, abandoned>>

\* do_subscribe returns NATS_OK: nats.c may deliver from here on, ...
SubscribeSucceeds(v) ==
  /\ pc[v] = "registering" /\ conn = "open"
  /\ nsub' = [nsub EXCEPT ![local[v]] = "open"]
  /\ pc' = [pc EXCEPT ![v] = "subscribed"]
  /\ UNCHANGED <<sub, on_release, local, from, callbacks, connVars, running, abandoned>>

\* ... the object that will erase the token is made and returned, ...
ReturnSubscription(v) ==
  /\ pc[v] = "subscribed"
  /\ sub' = [sub EXCEPT ![v] = local[v]]
  /\ on_release' = [on_release EXCEPT ![v] = local[v]]
  /\ local' = [local EXCEPT ![v] = None]
  /\ pc' = [pc EXCEPT ![v] = "idle"]
  /\ UNCHANGED <<from, callbacks, connVars, nsub, running, abandoned>>

\* ... or allocating its std::function throws: the handle is lost.
ReturnThrows(v) ==
  /\ pc[v] = "subscribed"
  /\ abandoned' = abandoned \cup {local[v]}
  /\ local' = [local EXCEPT ![v] = None]
  /\ pc' = [pc EXCEPT ![v] = "idle"]
  /\ UNCHANGED <<sub, on_release, from, callbacks, connVars, nsub, running>>

SubscribeFails(v) ==
  /\ pc[v] = "registering"
  /\ pc' = [pc EXCEPT ![v] = "failed"]
  /\ UNCHANGED <<sub, on_release, local, from, callbacks, connVars, nsub, running,
                 abandoned>>

\* Mutant: the error path throws without erasing the token.
EraseFailedKeepsToken(v) ==
  /\ pc[v] = "failed"
  /\ local' = [local EXCEPT ![v] = None]
  /\ pc' = [pc EXCEPT ![v] = "idle"]
  /\ UNCHANGED <<sub, on_release, from, callbacks, connVars, nsub, running, abandoned>>

\* Lock, erase the token, throw.
EraseFailed(v) ==
  /\ pc[v] = "failed"
  /\ callbacks' = callbacks \ {local[v]}
  /\ local' = [local EXCEPT ![v] = None]
  /\ pc' = [pc EXCEPT ![v] = "idle"]
  /\ UNCHANGED <<sub, on_release, from, connVars, nsub, running, abandoned>>

\* subscribe_sync and subscribe_queue_sync: a handle without a closure.
SubscribeSync(v, k) ==
  /\ object = "alive" /\ conn = "open" /\ Empty(v) /\ Fresh(k)
  /\ nsub' = [nsub EXCEPT ![k] = "sync"]
  /\ sub' = [sub EXCEPT ![v] = k]
  /\ UNCHANGED <<on_release, pc, local, from, callbacks, connVars, running, abandoned>>

-----------------------------------------------------------------------------
(* Operations of natscpp::subscription                                     *)

\* unsubscribe() when natsSubscription_Unsubscribe succeeds.  When it fails the
\* call throws and changes nothing.
Unsubscribe(v) ==
  /\ pc[v] = "idle" /\ sub[v] # None
  /\ nsub[sub[v]] \in Delivering \cup {"sync"}
  /\ nsub' = [nsub EXCEPT ![sub[v]] = "closed"]
  /\ pc' = [pc EXCEPT ![v] = "unsubscribed"]
  /\ UNCHANGED <<sub, on_release, local, from, callbacks, connVars, running, abandoned>>

\* Mutant: sub_.release() for sub_.reset(): the native handle is not destroyed.
ResetHandleByRelease(v) ==
  /\ pc[v] \in {"idle", "unsubscribed"} /\ sub[v] # None
  /\ local' = [local EXCEPT ![v] = sub[v]]
  /\ sub' = [sub EXCEPT ![v] = None]
  /\ pc' = [pc EXCEPT ![v] = "reset"]
  /\ UNCHANGED <<on_release, from, callbacks, connVars, nsub, running, abandoned>>

\* sub_.reset(), in ~subscription() or as the next statement of unsubscribe().
ResetHandle(v) ==
  /\ pc[v] \in {"idle", "unsubscribed"} /\ sub[v] # None
  /\ nsub' = [nsub EXCEPT ![sub[v]] = "none"]
  /\ local' = [local EXCEPT ![v] = sub[v]]
  /\ sub' = [sub EXCEPT ![v] = None]
  /\ pc' = [pc EXCEPT ![v] = "reset"]
  /\ UNCHANGED <<on_release, from, callbacks, connVars, running, abandoned>>

\* Mutant: release_callback() does not wait for the running handler.
ReleaseCallbackEarly(v) ==
  /\ pc[v] = "reset"
  /\ callbacks' = callbacks \ {on_release[v]}
  /\ on_release' = [on_release EXCEPT ![v] = None]
  /\ local' = [local EXCEPT ![v] = None]
  /\ pc' = [pc EXCEPT ![v] = "idle"]
  /\ UNCHANGED <<sub, from, connVars, nsub, running, abandoned>>

\* release_callback(), once natsSubscription_Destroy has returned.  If the
\* registry is gone the weak_ptr does not lock and nothing is erased.
ReleaseCallback(v) ==
  /\ pc[v] = "reset" /\ DestroyReturned(local[v])
  /\ callbacks' = callbacks \ {on_release[v]}
  /\ on_release' = [on_release EXCEPT ![v] = None]
  /\ local' = [local EXCEPT ![v] = None]
  /\ pc' = [pc EXCEPT ![v] = "idle"]
  /\ UNCHANGED <<sub, from, connVars, nsub, running, abandoned>>

\* Mutant: on_release_ is copied, not moved, out of the source.
MoveConstructCopiesRelease(v, w) ==
  /\ Empty(v) /\ pc[w] = "idle" /\ sub[w] # None
  /\ sub' = [sub EXCEPT ![v] = sub[w], ![w] = None]
  /\ on_release' = [on_release EXCEPT ![v] = on_release[w]]
  /\ UNCHANGED <<pc, local, from, callbacks, connVars, nsub, running, abandoned>>

MoveConstruct(v, w) ==
  /\ Empty(v) /\ pc[w] = "idle" /\ sub[w] # None
  /\ sub' = [sub EXCEPT ![v] = sub[w], ![w] = None]
  /\ on_release' = [on_release EXCEPT ![v] = on_release[w], ![w] = None]
  /\ UNCHANGED <<pc, local, from, callbacks, connVars, nsub, running, abandoned>>

\* Mutant: no test for self-assignment.
AssignReleaseToSelf(v, w) ==
  /\ pc[v] = "idle" /\ pc[w] = "idle"
  /\ AssignOverLive \/ Quiet(v)
  /\ callbacks' = callbacks \ {on_release[v]}
  /\ on_release' = [on_release EXCEPT ![v] = None]
  /\ from' = [from EXCEPT ![v] = w]
  /\ pc' = [pc EXCEPT ![v] = "assigning", ![w] = "source"]
  /\ UNCHANGED <<sub, local, connVars, nsub, running, abandoned>>

\* operator=(subscription&&), first statement: release_callback().
AssignRelease(v, w) ==
  /\ v # w /\ pc[v] = "idle" /\ pc[w] = "idle"
  /\ AssignOverLive \/ Quiet(v)
  /\ callbacks' = callbacks \ {on_release[v]}
  /\ on_release' = [on_release EXCEPT ![v] = None]
  /\ from' = [from EXCEPT ![v] = w]
  /\ pc' = [pc EXCEPT ![v] = "assigning", ![w] = "source"]
  /\ UNCHANGED <<sub, local, connVars, nsub, running, abandoned>>

\* sub_ = std::move(other.sub_), which destroys the handle sub_ held, then
\* on_release_ = std::move(other.on_release_).
AssignHandle(v) ==
  /\ pc[v] = "assigning"
  /\ LET w == from[v] IN
     /\ nsub' = [k \in Id |-> IF k = sub[v] THEN "none" ELSE nsub[k]]
     /\ sub' = [sub EXCEPT ![v] = sub[w], ![w] = None]
     /\ on_release' = [on_release EXCEPT ![v] = on_release[w], ![w] = None]
     /\ from' = [from EXCEPT ![v] = None]
     /\ pc' = [pc EXCEPT ![v] = "idle", ![w] = "idle"]
  /\ UNCHANGED <<local, callbacks, connVars, running, abandoned>>

\* drain() or auto_unsubscribe(n).
Drain(v) ==
  /\ pc[v] = "idle" /\ sub[v] # None /\ nsub[sub[v]] = "open"
  /\ nsub' = [nsub EXCEPT ![sub[v]] = "finishing"]
  /\ UNCHANGED <<objectVars, callbacks, connVars, running, abandoned>>

-----------------------------------------------------------------------------
(* The nats.c dispatcher                                                   *)

\* async_msg_callback is entered with a message and calls through the closure;
\* nats.c runs one callback per subscription at a time.  A timeout (null
\* message) returns before the closure is used and changes nothing.
EnterHandler(k) ==
  /\ CanDeliver(k) /\ k \notin running
  /\ running' = running \cup {k}
  /\ UNCHANGED <<objectVars, callbacks, connVars, nsub, abandoned>>

\* The handler returns or its exception is swallowed.
LeaveHandler(k) ==
  /\ k \in running
  /\ running' = running \ {k}
  /\ UNCHANGED <<objectVars, callbacks, connVars, nsub, abandoned>>

FinishDrain(k) ==
  /\ nsub[k] = "finishing" /\ k \notin running
  /\ nsub' = [nsub EXCEPT ![k] = "closed"]
  /\ UNCHANGED <<objectVars, callbacks, connVars, running, abandoned>>

-----------------------------------------------------------------------------
(* The connection object and the shared natsConnection                     *)

\* One owner of conn_ lets go; the last one runs natsConnection_Destroy.
DropRef(r) ==
  /\ refs' = refs \ {r}
  /\ IF refs = {r}
     THEN conn' = "destroyed" /\ nsub' = CloseAll
     ELSE UNCHANGED <<conn, nsub>>

\* connection::drain(): every subscription drains, then nats.c closes by itself.
DrainConnection ==
  /\ object = "alive" /\ conn = "open"
  /\ conn' = "draining"
  /\ nsub' = [k \in Id |-> IF nsub[k] = "open" THEN "finishing" ELSE nsub[k]]
  /\ UNCHANGED <<objectVars, callbacks, object, refs, running, abandoned>>

ConnectionDrained ==
  /\ conn = "draining" /\ ~\E k \in Id : CanDeliver(k)
  /\ conn' = "closed"
  /\ nsub' = CloseAll
  /\ UNCHANGED <<objectVars, callbacks, object, refs, running, abandoned>>

Close ==
  /\ object = "alive" /\ conn \in {"open", "draining"}
  /\ conn' = "closed"
  /\ nsub' = CloseAll
  /\ UNCHANGED <<objectVars, callbacks, object, refs, running, abandoned>>

\* request_async copies conn_ into the task ...
RequestStarts(r) ==
  /\ object = "alive" /\ r \notin refs
  /\ refs' = refs \cup {r}
  /\ UNCHANGED <<objectVars, callbacks, object, conn, nsub, running, abandoned>>

\* ... and the copy dies with the task.
RequestEnds(r) ==
  /\ r \in refs
  /\ DropRef(r)
  /\ UNCHANGED <<objectVars, callbacks, object, running, abandoned>>

\* ~connection() destroys the members in reverse order: callback_handlers_,
\* then callback_state_ with every token in it, ...
DropCallbackState ==
  /\ object = "alive"
  /\ \A v \in Var : pc[v] \notin Registering
  /\ ConnectionFirst \/ \A v \in Var : Empty(v)
  /\ object' = "dying"
  /\ callbacks' = {}
  /\ UNCHANGED <<objectVars, refs, conn, nsub, running, abandoned>>

\* ... and conn_ last.
DropConnection ==
  /\ object = "dying"
  /\ object' = "gone"
  /\ DropRef(None)
  /\ UNCHANGED <<objectVars, callbacks, running, abandoned>>

-----------------------------------------------------------------------------
Next ==
  \/ \E v \in Var, k \in Id : Insert(v, k) \/ SubscribeSync(v, k)
  \/ \E v \in Var : \/ SubscribeSucceeds(v) \/ SubscribeFails(v) \/ EraseFailed(v)
                    \/ ReturnSubscription(v) \/ ReturnThrows(v)
                    \/ Unsubscribe(v) \/ ResetHandle(v) \/ ReleaseCallback(v)
                    \/ AssignHandle(v) \/ Drain(v)
  \/ \E v, w \in Var : MoveConstruct(v, w) \/ AssignRelease(v, w)
  \/ \E k \in Id : EnterHandler(k) \/ LeaveHandler(k) \/ FinishDrain(k)
  \/ \E r \in Req : RequestStarts(r) \/ RequestEnds(r)
  \/ Close \/ DrainConnection \/ ConnectionDrained
  \/ DropCallbackState \/ DropConnection

Spec == Init /\ [][Next]_vars

\* A call that has begun goes on, and a handler returns; that programs start
\* calls and that messages arrive is not assumed.
Continue(v) ==
  \/ SubscribeSucceeds(v) \/ SubscribeFails(v) \/ EraseFailed(v)
  \/ ReturnSubscription(v) \/ ReturnThrows(v)
  \/ pc[v] = "unsubscribed" /\ ResetHandle(v)
  \/ ReleaseCallback(v) \/ AssignHandle(v)

FairSpec ==
  /\ Spec
  /\ \A v \in Var : WF_vars(Continue(v))
  /\ \A k \in Id : WF_vars(LeaveHandler(k))

-----------------------------------------------------------------------------
(* Properties                                                              *)

\* Types, and the locals that go with each step of a call: the source of an
\* assignment is locked by exactly the assignment that names it.
TypeOK ==
  /\ sub \in [Var -> Id \cup {None}]
  /\ on_release \in [Var -> Id \cup {None}]
  /\ pc \in [Var -> {"idle", "unsubscribed", "reset", "assigning", "source"}
                    \cup Registering]
  /\ local \in [Var -> Id \cup {None}]
  /\ from \in [Var -> Var \cup {None}]
  /\ callbacks \subseteq Id
  /\ object \in {"alive", "dying", "gone"}
  /\ refs \subseteq Req \cup {None}
  /\ conn \in {"open", "draining", "closed", "destroyed"}
  /\ nsub \in [Id -> {"none", "open", "finishing", "sync", "closed"}]
  /\ running \subseteq Id
  /\ abandoned \subseteq Id
  /\ \A v \in Var :
       /\ pc[v] \in Registering \cup {"reset"} <=> local[v] # None
       /\ pc[v] = "assigning" <=> from[v] # None
       /\ pc[v] = "assigning" => /\ pc[from[v]] = "source"
                                /\ \A w \in Var \ {v} : from[w] # from[v]

\* While nats.c may still call a handler, the std::function it would call
\* through exists: a closure handed to natsConnection_Subscribe is not freed
\* before its subscription has stopped delivering, whatever subscription
\* objects are moved, assigned or destroyed meanwhile.  Only an abandoned
\* registration outlives its token, when the connection object is destroyed.
EntrySafe ==
  \A k \in Id : CanDeliver(k) => Alive(k) \/ (k \in abandoned /\ object # "alive")

\* Every entry of callback_state::callbacks will be erased by someone: by the
\* subscription object that holds its key in on_release_, or by the
\* registration still under way; an abandoned one stays with the registry.
NoTokenLeak ==
  \A k \in callbacks \ abandoned : \E v \in Var :
    \/ on_release[v] = k
    \/ pc[v] \in Registering /\ local[v] = k

\* A native subscription is owned by exactly one object (or by the call that
\* has just made it, or it is abandoned and nobody has it), the others hold
\* neither its handle nor the key of its token, and an owner of a delivering
\* subscription can erase the token of that one only.
OneOwner ==
  /\ \A k \in Id : nsub[k] # "none" =>
       \/ k \in abandoned
       \/ \E v \in Var : sub[v] = k \/ (pc[v] = "subscribed" /\ local[v] = k)
  /\ \A k \in abandoned : /\ nsub[k] # "none"
                          /\ \A v \in Var : k \notin {sub[v], on_release[v], local[v]}
  /\ \A v \in Var : sub[v] # None => nsub[sub[v]] # "none"
  /\ \A v, w \in Var :
       v # w => /\ sub[v] = None \/ sub[v] # sub[w]
                /\ on_release[v] = None \/ on_release[v] # on_release[w]
  /\ \A v \in Var : on_release[v] \in {None, sub[v]} \/ sub[v] = None

\* Nothing is owned twice and nothing is forgotten, whatever a program does with
\* its objects and wherever subscribing fails, except what is abandoned because
\* the object for an accepted subscription could not be made.
OwnedOnce == OneOwner /\ NoTokenLeak

\* Seen from a handler, the registry, the subscription objects and nats.c
\* together keep the promise of HandlerContract.  Nobody frees an abandoned
\* handler but ~connection(), so the promise is about the others: the abandoned
\* ones count as held for ever.
Contract == INSTANCE HandlerContract
              WITH held <- {k \in Id : Alive(k) \/ k \in abandoned}, inside <- running
KeepsContract == Contract!Spec

\* Every call on a subscription object returns, ~subscription() that waits for
\* a running handler included.
OpsComplete == \A v \in Var : pc[v] # "idle" ~> pc[v] = "idle"

\* A std::function without a native subscription is on its way out (or in): it
\* does not stay in the registry.
TokensSettle ==
  \A k \in Id : k \in callbacks /\ nsub[k] = "none"
                 ~> k \notin callbacks \/ nsub[k] # "none"
=============================================================================
