------------------------- MODULE CompletionCallback -------------------------
(***************************************************************************)
(* The on-complete callbacks of natscpp::subscription.  nats.c stores one  *)
(* closure per native subscription and calls it on its own thread once     *)
(* delivery has ended; completion_callbacks_ keeps the std::function       *)
(* behind that closure alive.                                              *)
(*                                                                         *)
(* A token is the address of such a std::function.  It is free again when  *)
(* no shared_ptr to it is left.  Calls are made by threads and are cut     *)
(* where the code calls into nats.c or leaves completion_callbacks_mutex_. *)
(***************************************************************************)
EXTENDS Naturals

CONSTANTS Var,           \* variables of type natscpp::subscription
          Id,            \* native subscriptions that exist at one time
          Token,         \* std::functions that exist at one time
          Thread,        \* threads of the program
          None,          \* nullptr
          DestroyWaits,  \* does natsSubscription_Destroy return only after
                         \* the on-complete callback has returned?
          SharedSetters  \* may two threads call set_on_complete_callback on
                         \* one object at once?

ASSUME ConstantsAssumption ==
  /\ None \notin Var /\ None \notin Id /\ None \notin Token
  /\ {DestroyWaits, SharedSetters} \subseteq BOOLEAN

VARIABLES sub,       \* [Var -> Id or None]        subscription::sub_
          tokens,    \* [Var -> SUBSET Token]      keys of completion_callbacks_
          pc,        \* [Thread -> step of its call]
          obj,       \* [Thread -> Var or None]    the object called
          token,     \* [Thread -> Token or None]  the local shared_ptr
          handle,    \* [Thread -> Id or None]     the handle being destroyed
          source,    \* [Thread -> Var or None]    source of a move-assignment
          nsub,      \* [Id -> state of the native subscription]
          stored,    \* [Id -> Token or None]      the closure nats.c stores
          calling    \* [Id -> Token or None]      the closure being called

vars == <<sub, tokens, pc, obj, token, handle, source, nsub, stored, calling>>
callVars   == <<pc, obj, token, handle, source>>
nativeVars == <<nsub, stored, calling>>

-----------------------------------------------------------------------------
(* Native states, external to src/: "open" delivers, "ending" has been     *)
(* drained, closed, unsubscribed or destroyed and is going to complete,    *)
(* "completing" runs the on-complete callback, "done" has no thread left.  *)

End(k) == [nsub EXCEPT ![k] = IF @ = "open" THEN "ending" ELSE @]

DestroyReturned(k) == DestroyWaits /\ k # None => nsub[k] = "done"

FreshId(k) == /\ nsub[k] = "done"
              /\ \A v \in Var : sub[v] # k
              /\ \A t \in Thread : handle[t] # k

-----------------------------------------------------------------------------
Setting == {"inserted", "accepted", "rejected"}

\* The std::function exists: the map of an object or the local of a call of
\* set_on_complete_callback shares it.
Alive(f) == (\E v \in Var : f \in tokens[v]) \/ (\E t \in Thread : token[t] = f)

\* No call is under way on the object.
Unused(v) == \A t \in Thread : v \notin {obj[t], source[t]}

\* A call of set_on_complete_callback may begin: calls on one object exclude
\* each other, but the mutex is there for several of these.
MaySet(v) ==
  \/ Unused(v)
  \/ SharedSetters /\ \A t \in Thread :
       v \in {obj[t], source[t]} => pc[t] \in Setting

Init ==
  /\ sub = [v \in Var |-> None]
  /\ tokens = [v \in Var |-> {}]
  /\ pc = [t \in Thread |-> "idle"]
  /\ obj = [t \in Thread |-> None]
  /\ token = [t \in Thread |-> None]
  /\ handle = [t \in Thread |-> None]
  /\ source = [t \in Thread |-> None]
  /\ nsub = [k \in Id |-> "done"]
  /\ stored = [k \in Id |-> None]
  /\ calling = [k \in Id |-> None]

\* The call of thread t is over.
Return(t) ==
  /\ pc' = [pc EXCEPT ![t] = "idle"]
  /\ obj' = [obj EXCEPT ![t] = None]
  /\ token' = [token EXCEPT ![t] = None]
  /\ handle' = [handle EXCEPT ![t] = None]
  /\ source' = [source EXCEPT ![t] = None]

-----------------------------------------------------------------------------
(* subscription::set_on_complete_callback                                  *)

\* make_shared; lock, insert, unlock.
Insert(t, v, f) ==
  /\ pc[t] = "idle" /\ MaySet(v) /\ sub[v] # None /\ ~Alive(f)
  /\ tokens' = [tokens EXCEPT ![v] = @ \cup {f}]
  /\ pc' = [pc EXCEPT ![t] = "inserted"]
  /\ obj' = [obj EXCEPT ![t] = v]
  /\ token' = [token EXCEPT ![t] = f]
  /\ UNCHANGED <<sub, handle, source, nativeVars>>

\* natsSubscription_SetOnCompleteCB returns NATS_OK, which it does until the
\* callback has begun ...
SetAccepted(t) ==
  /\ pc[t] = "inserted"
  /\ LET k == sub[obj[t]] IN
     /\ nsub[k] \in {"open", "ending"}
     /\ stored' = [stored EXCEPT ![k] = token[t]]
  /\ pc' = [pc EXCEPT ![t] = "accepted"]
  /\ UNCHANGED <<sub, tokens, obj, token, handle, source, nsub, calling>>

\* ... or an error, which it may at any time.
SetRejected(t) ==
  /\ pc[t] = "inserted"
  /\ pc' = [pc EXCEPT ![t] = "rejected"]
  /\ UNCHANGED <<sub, tokens, obj, token, handle, source, nativeVars>>

\* Mutant: the error path clears the map instead of erasing its own token.
EraseRejectedAll(t) ==
  /\ pc[t] = "rejected"
  /\ tokens' = [tokens EXCEPT ![obj[t]] = {}]
  /\ Return(t)
  /\ UNCHANGED <<sub, nativeVars>>

\* Lock, erase the token, unlock, throw.
EraseRejected(t) ==
  /\ pc[t] = "rejected"
  /\ tokens' = [tokens EXCEPT ![obj[t]] = @ \ {token[t]}]
  /\ Return(t)
  /\ UNCHANGED <<sub, nativeVars>>

\* Lock, erase every other token, unlock, return.
Prune(t) ==
  /\ pc[t] = "accepted"
  /\ tokens' = [tokens EXCEPT ![obj[t]] = @ \cap {token[t]}]
  /\ Return(t)
  /\ UNCHANGED <<sub, nativeVars>>

-----------------------------------------------------------------------------
(* The other operations of natscpp::subscription                           *)

\* A subscribe call returns an object; v is a variable that holds none.
Subscribe(v, k) ==
  /\ Unused(v) /\ sub[v] = None /\ tokens[v] = {} /\ FreshId(k)
  /\ sub' = [sub EXCEPT ![v] = k]
  /\ nsub' = [nsub EXCEPT ![k] = "open"]
  /\ stored' = [stored EXCEPT ![k] = None]
  /\ UNCHANGED <<tokens, callVars, calling>>

\* drain(), or auto_unsubscribe() whose last message arrives.
Drain(v) ==
  /\ Unused(v) /\ sub[v] # None /\ nsub[sub[v]] = "open"
  /\ nsub' = End(sub[v])
  /\ UNCHANGED <<sub, tokens, callVars, stored, calling>>

\* unsubscribe(): natsSubscription_Unsubscribe succeeds, sub_.reset() begins
\* natsSubscription_Destroy.
Unsubscribe(t, v) ==
  /\ pc[t] = "idle" /\ Unused(v) /\ sub[v] # None /\ nsub[sub[v]] = "open"
  /\ nsub' = End(sub[v])
  /\ sub' = [sub EXCEPT ![v] = None]
  /\ pc' = [pc EXCEPT ![t] = "unsubscribing"]
  /\ obj' = [obj EXCEPT ![t] = v]
  /\ handle' = [handle EXCEPT ![t] = sub[v]]
  /\ UNCHANGED <<tokens, token, source, stored, calling>>

\* Destroy has returned; completion_callbacks_ is left as it is.
Unsubscribed(t) ==
  /\ pc[t] = "unsubscribing" /\ DestroyReturned(handle[t])
  /\ Return(t)
  /\ UNCHANGED <<sub, tokens, nativeVars>>

\* ~subscription(): sub_.reset() begins natsSubscription_Destroy, if there is
\* a handle ...
Destruct(t, v) ==
  /\ pc[t] = "idle" /\ Unused(v)
  /\ sub[v] # None \/ tokens[v] # {}
  /\ nsub' = IF sub[v] = None THEN nsub ELSE End(sub[v])
  /\ sub' = [sub EXCEPT ![v] = None]
  /\ pc' = [pc EXCEPT ![t] = "destroying"]
  /\ obj' = [obj EXCEPT ![t] = v]
  /\ handle' = [handle EXCEPT ![t] = sub[v]]
  /\ UNCHANGED <<tokens, token, source, stored, calling>>

\* Mutant: the callbacks are freed without waiting for the handle's end, as
\* when completion_callbacks_ were cleared first.
DestroyTokensEarly(t) ==
  /\ pc[t] = "destroying"
  /\ tokens' = [tokens EXCEPT ![obj[t]] = {}]
  /\ Return(t)
  /\ UNCHANGED <<sub, nativeVars>>

\* ... and completion_callbacks_ is destroyed with the other members.
DestroyTokens(t) ==
  /\ pc[t] = "destroying" /\ DestroyReturned(handle[t])
  /\ tokens' = [tokens EXCEPT ![obj[t]] = {}]
  /\ Return(t)
  /\ UNCHANGED <<sub, nativeVars>>

MoveConstruct(v, w) ==
  /\ v # w /\ Unused(v) /\ Unused(w)
  /\ sub[v] = None /\ tokens[v] = {}
  /\ sub' = [sub EXCEPT ![v] = sub[w], ![w] = None]
  /\ tokens' = [tokens EXCEPT ![v] = tokens[w], ![w] = {}]
  /\ UNCHANGED <<callVars, nativeVars>>

\* Mutant: no test for self-assignment.
AssignHandleToSelf(t, v, w) ==
  /\ pc[t] = "idle" /\ Unused(v) /\ Unused(w)
  /\ nsub' = IF sub[v] = None THEN nsub ELSE End(sub[v])
  /\ sub' = [sub EXCEPT ![v] = sub[w], ![w] = None]
  /\ pc' = [pc EXCEPT ![t] = "assigning"]
  /\ obj' = [obj EXCEPT ![t] = v]
  /\ handle' = [handle EXCEPT ![t] = sub[v]]
  /\ source' = [source EXCEPT ![t] = w]
  /\ UNCHANGED <<tokens, token, stored, calling>>

\* operator=: sub_ = std::move(other.sub_) takes the new handle and begins to
\* destroy the old one ...
AssignHandle(t, v, w) ==
  /\ pc[t] = "idle" /\ v # w /\ Unused(v) /\ Unused(w)
  /\ nsub' = IF sub[v] = None THEN nsub ELSE End(sub[v])
  /\ sub' = [sub EXCEPT ![v] = sub[w], ![w] = None]
  /\ pc' = [pc EXCEPT ![t] = "assigning"]
  /\ obj' = [obj EXCEPT ![t] = v]
  /\ handle' = [handle EXCEPT ![t] = sub[v]]
  /\ source' = [source EXCEPT ![t] = w]
  /\ UNCHANGED <<tokens, token, stored, calling>>

\* Mutant: the source's callbacks are added to those of the target.
AssignTokensMerging(t) ==
  /\ pc[t] = "assigning" /\ DestroyReturned(handle[t])
  /\ tokens' = [tokens EXCEPT ![obj[t]] = @ \cup tokens[source[t]],
                              ![source[t]] = {}]
  /\ Return(t)
  /\ UNCHANGED <<sub, nativeVars>>

\* ... then the callbacks of the old one are replaced by those of the new.
AssignTokens(t) ==
  /\ pc[t] = "assigning" /\ DestroyReturned(handle[t])
  /\ tokens' = [tokens EXCEPT ![obj[t]] = tokens[source[t]],
                              ![source[t]] = {}]
  /\ Return(t)
  /\ UNCHANGED <<sub, nativeVars>>

-----------------------------------------------------------------------------
(* nats.c                                                                  *)

\* The connection closes: every subscription ends.
ConnectionCloses ==
  /\ \E k \in Id : nsub[k] = "open"
  /\ nsub' = [k \in Id |-> IF nsub[k] = "open" THEN "ending" ELSE nsub[k]]
  /\ UNCHANGED <<sub, tokens, callVars, stored, calling>>

\* The last message has been handled: the stored closure, if any, is called.
CompletionStarts(k) ==
  /\ nsub[k] = "ending"
  /\ nsub' = [nsub EXCEPT ![k] = "completing"]
  /\ calling' = [calling EXCEPT ![k] = stored[k]]
  /\ UNCHANGED <<sub, tokens, callVars, stored>>

\* The callback returns, or its exception is swallowed.
CompletionEnds(k) ==
  /\ nsub[k] = "completing"
  /\ nsub' = [nsub EXCEPT ![k] = "done"]
  /\ calling' = [calling EXCEPT ![k] = None]
  /\ UNCHANGED <<sub, tokens, callVars, stored>>

-----------------------------------------------------------------------------
Next ==
  \/ \E t \in Thread : \/ SetAccepted(t) \/ SetRejected(t) \/ EraseRejected(t)
                       \/ Prune(t) \/ Unsubscribed(t) \/ DestroyTokens(t)
                       \/ AssignTokens(t)
  \/ \E t \in Thread, v \in Var : Unsubscribe(t, v) \/ Destruct(t, v)
  \/ \E t \in Thread, v \in Var, f \in Token : Insert(t, v, f)
  \/ \E t \in Thread, v, w \in Var : AssignHandle(t, v, w)
  \/ \E v, w \in Var : MoveConstruct(v, w)
  \/ \E v \in Var, k \in Id : Subscribe(v, k)
  \/ \E v \in Var : Drain(v)
  \/ \E k \in Id : CompletionStarts(k) \/ CompletionEnds(k)
  \/ ConnectionCloses

Spec == Init /\ [][Next]_vars

-----------------------------------------------------------------------------
(* Properties                                                              *)

\* Types, and the locals each step of a call has; no object is assigned to
\* itself past the test in operator=.
TypeOK ==
  /\ sub \in [Var -> Id \cup {None}]
  /\ tokens \in [Var -> SUBSET Token]
  /\ pc \in [Thread -> Setting \cup {"idle", "unsubscribing", "destroying",
                                     "assigning"}]
  /\ obj \in [Thread -> Var \cup {None}]
  /\ token \in [Thread -> Token \cup {None}]
  /\ handle \in [Thread -> Id \cup {None}]
  /\ source \in [Thread -> Var \cup {None}]
  /\ nsub \in [Id -> {"open", "ending", "completing", "done"}]
  /\ stored \in [Id -> Token \cup {None}]
  /\ calling \in [Id -> Token \cup {None}]
  /\ \A t \in Thread : /\ obj[t] # None <=> pc[t] # "idle"
                       /\ token[t] # None <=> pc[t] \in Setting
                       /\ source[t] # None <=> pc[t] = "assigning"
                       /\ pc[t] = "assigning" => source[t] # obj[t]

\* The std::function that nats.c is calling, or may still call, exists: no
\* pruning, failed replacement, move, unsubscribe or destruction has freed it.
CompletionSafe ==
  \A k \in Id :
    /\ nsub[k] \in {"open", "ending"} => stored[k] = None \/ Alive(stored[k])
    /\ calling[k] = None \/ Alive(calling[k])

\* Between calls an object that has a native subscription keeps exactly the
\* callback nats.c stores for it: replaced callbacks and those of rejected or
\* overwritten registrations do not pile up in completion_callbacks_.
ExactToken ==
  \A v \in Var : Unused(v) /\ sub[v] # None
                  => tokens[v] = {stored[sub[v]]} \ {None}

\* Seen from an on-complete callback, completion_callbacks_ keeps the promise
\* that the registry makes to message handlers.
Contract == INSTANCE HandlerContract
              WITH Id <- Token,
                   held <- {f \in Token : Alive(f)},
                   inside <- {f \in Token : \E k \in Id : calling[k] = f}
KeepsContract == Contract!Spec
=============================================================================
