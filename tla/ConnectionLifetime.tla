------------------------- MODULE ConnectionLifetime -------------------------
(***************************************************************************)
(* natscpp::connection objects, the natsConnections they share, and the    *)
(* lifecycle handlers (closed, disconnected, reconnected, error, lame      *)
(* duck, discovered servers) that nats.c calls through a raw pointer.      *)
(*                                                                         *)
(* conn_ is a shared_ptr that request_async copies into its task, so a     *)
(* natsConnection can outlive the object that made it; its deleter holds   *)
(* the handlers.  connect() may be called again on a connected object, and *)
(* objects are moved, assigned and destroyed.  Operations are cut wherever *)
(* nats.c runs or another owner of the connection can act in between.      *)
(***************************************************************************)
EXTENDS Naturals

CONSTANTS Obj,            \* variables of type natscpp::connection
          Conn,           \* natsConnections that exist at one time
          Handlers,       \* callback_handlers on the heap at one time
          Req,            \* request_async tasks at one time
          None,           \* nullptr
          DestroyWaits,   \* does natsConnection_Destroy return only after the
                          \* last lifecycle callback of the connection?
          ReuseMovedFrom  \* may a program connect() a moved-from object?

ASSUME ConstantsAssumption ==
  /\ None \notin Obj \cup Conn \cup Handlers \cup Req
  /\ Obj \cap Req = {}
  /\ {DestroyWaits, ReuseMovedFrom} \subseteq BOOLEAN

VARIABLES object,              \* [Obj -> state of the object]
          conn_,               \* [Obj -> Conn or None]
          callback_state_,     \* [Obj -> BOOLEAN]  is there a registry?
          callback_handlers_,  \* [Obj -> Handlers or None]
          pc,                  \* [Obj -> step of the call under way]
          handlers,            \* [Obj -> Handlers or None]  local of connect()
          raw,                 \* [Obj -> Conn or None]      local of connect()
          old,                 \* [Obj -> Conn or None]  connection the call is destroying
          from,                \* [Obj -> Obj or None]  source of an assignment
          task,                \* [Req -> Conn or None]  a task's copy of conn_
          native,              \* [Conn -> state of the natsConnection]
          closure,             \* [Conn -> Handlers or None] known to nats.c
          deleter,             \* [Conn -> Handlers or None] captured by deleter
          calling              \* connections that run a lifecycle callback

vars == <<object, conn_, callback_state_, callback_handlers_, pc, handlers, raw,
          old, from, task, native, closure, deleter, calling>>
members == <<object, conn_, callback_state_, callback_handlers_>>
locals  == <<pc, handlers, raw, old, from>>
natives == <<native, closure, deleter>>

Init ==
  /\ object = [o \in Obj |-> "none"]
  /\ conn_ = [o \in Obj |-> None]
  /\ callback_state_ = [o \in Obj |-> FALSE]
  /\ callback_handlers_ = [o \in Obj |-> None]
  /\ pc = [o \in Obj |-> "idle"]
  /\ handlers = [o \in Obj |-> None]
  /\ raw = [o \in Obj |-> None]
  /\ old = [o \in Obj |-> None]
  /\ from = [o \in Obj |-> None]
  /\ task = [r \in Req |-> None]
  /\ native = [c \in Conn |-> "none"]
  /\ closure = [c \in Conn |-> None]
  /\ deleter = [c \in Conn |-> None]
  /\ calling = {}

-----------------------------------------------------------------------------
\* The shared_ptrs and the raw local that own connection c.
Owners(c) == {o \in Obj : conn_[o] = c \/ raw[o] = c} \cup {r \in Req : task[r] = c}

\* The callback_handlers h has not been freed: some shared_ptr owns it.
HandlersAlive(h) == \/ \E o \in Obj : callback_handlers_[o] = h \/ handlers[o] = h
                    \/ \E c \in Conn : deleter[c] = h

Idle(o) == object[o] = "alive" /\ pc[o] = "idle"

\* Mutant: request_async copies the raw pointer, not the shared_ptr.
ReleaseIgnoringTasks(c, owner) ==
  native' = [d \in Conn |-> IF d = c /\ Owners(c) \subseteq {owner} \cup Req
                            THEN "dying" ELSE native[d]]

\* owner's shared_ptr to connection c (if any) is released; the last one runs
\* the deleter, which calls natsConnection_Destroy.
Release(c, owner) ==
  native' = [d \in Conn |-> IF d = c /\ Owners(c) = {owner}
                            THEN "dying" ELSE native[d]]

\* The connection whose natsConnection_Destroy runs inside owner's call.
Destroying(c, owner) == IF c \in Conn /\ Owners(c) = {owner} THEN c ELSE None

-----------------------------------------------------------------------------
(* connect()                                                               *)

Construct(o) ==
  /\ object[o] = "none"
  /\ object' = [object EXCEPT ![o] = "alive"]
  /\ callback_state_' = [callback_state_ EXCEPT ![o] = TRUE]
  /\ UNCHANGED <<conn_, callback_handlers_, locals, task, natives, calling>>

\* The handlers are built on the heap and their address goes into natsOptions.
ConnectStarts(o, h) ==
  /\ Idle(o) /\ ~HandlersAlive(h)
  /\ ReuseMovedFrom \/ callback_state_[o]
  /\ handlers' = [handlers EXCEPT ![o] = h]
  /\ pc' = [pc EXCEPT ![o] = "connecting"]
  /\ UNCHANGED <<members, raw, old, from, task, natives, calling>>

\* An option is refused or natsConnection_Connect fails: an exception, and the
\* locals die.
ConnectFails(o) ==
  /\ pc[o] = "connecting"
  /\ handlers' = [handlers EXCEPT ![o] = None]
  /\ pc' = [pc EXCEPT ![o] = "idle"]
  /\ UNCHANGED <<members, raw, old, from, task, natives, calling>>

\* From here on nats.c may call through the handlers' address.
ConnectSucceeds(o, c) ==
  /\ pc[o] = "connecting" /\ native[c] = "none"
  /\ native' = [native EXCEPT ![c] = "live"]
  /\ closure' = [closure EXCEPT ![c] = handlers[o]]
  /\ raw' = [raw EXCEPT ![o] = c]
  /\ pc' = [pc EXCEPT ![o] = "connected"]
  /\ UNCHANGED <<members, handlers, old, from, task, deleter, calling>>

\* Mutant: the deleter does not capture the handlers.
ResetConnPlainDeleter(o) ==
  /\ pc[o] = "connected"
  /\ conn_' = [conn_ EXCEPT ![o] = raw[o]]
  /\ raw' = [raw EXCEPT ![o] = None]
  /\ old' = [old EXCEPT ![o] = Destroying(conn_[o], o)]
  /\ Release(conn_[o], o)
  /\ pc' = [pc EXCEPT ![o] = "storing"]
  /\ UNCHANGED <<object, callback_state_, callback_handlers_, handlers, from, task,
                 closure, deleter, calling>>

\* conn_.reset(raw, deleter) lets the connection of an earlier connect() go.
ResetConn(o) ==
  /\ pc[o] = "connected"
  /\ conn_' = [conn_ EXCEPT ![o] = raw[o]]
  /\ deleter' = [deleter EXCEPT ![raw[o]] = handlers[o]]
  /\ raw' = [raw EXCEPT ![o] = None]
  /\ old' = [old EXCEPT ![o] = Destroying(conn_[o], o)]
  /\ Release(conn_[o], o)
  /\ pc' = [pc EXCEPT ![o] = "storing"]
  /\ UNCHANGED <<object, callback_state_, callback_handlers_, handlers, from, task,
                 closure, calling>>

\* callback_handlers_ = std::move(handlers)
StoreHandlers(o) ==
  /\ pc[o] = "storing" /\ old[o] = None
  /\ callback_handlers_' = [callback_handlers_ EXCEPT ![o] = handlers[o]]
  /\ handlers' = [handlers EXCEPT ![o] = None]
  /\ pc' = [pc EXCEPT ![o] = "idle"]
  /\ UNCHANGED <<object, conn_, callback_state_, raw, old, from, task, natives, calling>>

-----------------------------------------------------------------------------
(* Move and destruction: the defaulted members of class connection         *)

MoveConstruct(o, p) ==
  /\ object[o] = "none" /\ Idle(p)
  /\ object' = [object EXCEPT ![o] = "alive"]
  /\ conn_' = [conn_ EXCEPT ![o] = conn_[p], ![p] = None]
  /\ callback_state_' = [callback_state_ EXCEPT ![o] = callback_state_[p], ![p] = FALSE]
  /\ callback_handlers_' = [callback_handlers_ EXCEPT ![o] = callback_handlers_[p],
                                                      ![p] = None]
  /\ UNCHANGED <<locals, task, natives, calling>>

\* operator=(connection&&): conn_ first, which lets the old connection go, ...
AssignConn(o, p) ==
  /\ o # p /\ Idle(o) /\ Idle(p)
  /\ conn_' = [conn_ EXCEPT ![o] = conn_[p], ![p] = None]
  /\ Release(conn_[o], o)
  /\ old' = [old EXCEPT ![o] = Destroying(conn_[o], o)]
  /\ from' = [from EXCEPT ![o] = p]
  /\ pc' = [pc EXCEPT ![o] = "assigning", ![p] = "source"]
  /\ UNCHANGED <<object, callback_state_, callback_handlers_, handlers, raw, task,
                 closure, deleter, calling>>

\* Mutant: callback_handlers_ is not assigned.
AssignRestWithoutHandlers(o) ==
  /\ pc[o] = "assigning" /\ old[o] = None
  /\ LET p == from[o] IN
     /\ callback_state_' = [callback_state_ EXCEPT ![o] = callback_state_[p], ![p] = FALSE]
     /\ pc' = [pc EXCEPT ![o] = "idle", ![p] = "idle"]
  /\ from' = [from EXCEPT ![o] = None]
  /\ UNCHANGED <<object, conn_, callback_handlers_, handlers, raw, old, task, natives,
                 calling>>

\* Mutant: operator= waits for the source, which it has locked itself.
AssignRestLocksSource(o) ==
  /\ pc[o] = "assigning" /\ pc[from[o]] = "idle"
  /\ pc' = [pc EXCEPT ![o] = "idle"]
  /\ from' = [from EXCEPT ![o] = None]
  /\ UNCHANGED <<members, handlers, raw, old, task, natives, calling>>

\* ... then callback_state_ and callback_handlers_.
AssignRest(o) ==
  /\ pc[o] = "assigning" /\ old[o] = None
  /\ LET p == from[o] IN
     /\ callback_state_' = [callback_state_ EXCEPT ![o] = callback_state_[p], ![p] = FALSE]
     /\ callback_handlers_' = [callback_handlers_ EXCEPT ![o] = callback_handlers_[p],
                                                         ![p] = None]
     /\ pc' = [pc EXCEPT ![o] = "idle", ![p] = "idle"]
  /\ from' = [from EXCEPT ![o] = None]
  /\ UNCHANGED <<object, conn_, handlers, raw, old, task, natives, calling>>

\* ~connection() destroys callback_handlers_ and callback_state_ ...
DestroyHandlers(o) ==
  /\ Idle(o)
  /\ callback_handlers_' = [callback_handlers_ EXCEPT ![o] = None]
  /\ callback_state_' = [callback_state_ EXCEPT ![o] = FALSE]
  /\ pc' = [pc EXCEPT ![o] = "destroying"]
  /\ UNCHANGED <<object, conn_, handlers, raw, old, from, task, natives, calling>>

\* Mutant: the pointer is not cleared.
DestroyConnDangling(o) ==
  /\ pc[o] = "destroying"
  /\ Release(conn_[o], o)
  /\ object' = [object EXCEPT ![o] = "none"]
  /\ pc' = [pc EXCEPT ![o] = "idle"]
  /\ UNCHANGED <<conn_, callback_state_, callback_handlers_, handlers, raw, old, from,
                 task, closure, deleter, calling>>

\* ... before conn_.
DestroyConn(o) ==
  /\ pc[o] = "destroying"
  /\ Release(conn_[o], o)
  /\ conn_' = [conn_ EXCEPT ![o] = None]
  /\ object' = [object EXCEPT ![o] = "none"]
  /\ pc' = [pc EXCEPT ![o] = "idle"]
  /\ UNCHANGED <<callback_state_, callback_handlers_, handlers, raw, old, from, task,
                 closure, deleter, calling>>

-----------------------------------------------------------------------------
(* request_async, and nats.c                                               *)

RequestStarts(o, r) ==
  /\ Idle(o) /\ conn_[o] # None /\ task[r] = None
  /\ task' = [task EXCEPT ![r] = conn_[o]]
  /\ UNCHANGED <<members, locals, natives, calling>>

\* The task's function object, with its copy of conn_, is destroyed.
RequestEnds(r) ==
  /\ task[r] # None
  /\ Release(task[r], r)
  /\ task' = [task EXCEPT ![r] = None]
  /\ UNCHANGED <<members, locals, closure, deleter, calling>>

\* One of the bridge functions casts the closure and calls the handler; nats.c
\* runs them one at a time, also while it destroys the connection.
EnterLifecycle(c) ==
  /\ native[c] \in {"live", "dying"} /\ c \notin calling
  /\ calling' = calling \cup {c}
  /\ UNCHANGED <<members, locals, task, natives>>

\* The handler returns or its exception is swallowed.
LeaveLifecycle(c) ==
  /\ c \in calling
  /\ calling' = calling \ {c}
  /\ UNCHANGED <<members, locals, task, natives>>

\* natsConnection_Destroy returns and the deleter, with the handlers it
\* captured, is destroyed; a call that was waiting in it goes on.
DestroyReturns(c) ==
  /\ native[c] = "dying"
  /\ DestroyWaits => c \notin calling
  /\ native' = [native EXCEPT ![c] = "none"]
  /\ closure' = [closure EXCEPT ![c] = None]
  /\ deleter' = [deleter EXCEPT ![c] = None]
  /\ old' = [o \in Obj |-> IF old[o] = c THEN None ELSE old[o]]
  /\ UNCHANGED <<members, pc, handlers, raw, from, task, calling>>

Next ==
  \/ \E o \in Obj : \/ Construct(o) \/ ConnectFails(o) \/ ResetConn(o)
                    \/ StoreHandlers(o) \/ AssignRest(o)
                    \/ DestroyHandlers(o) \/ DestroyConn(o)
  \/ \E o \in Obj, h \in Handlers : ConnectStarts(o, h)
  \/ \E o \in Obj, c \in Conn : ConnectSucceeds(o, c)
  \/ \E o, p \in Obj : MoveConstruct(o, p) \/ AssignConn(o, p)
  \/ \E o \in Obj, r \in Req : RequestStarts(o, r)
  \/ \E r \in Req : RequestEnds(r)
  \/ \E c \in Conn : EnterLifecycle(c) \/ LeaveLifecycle(c) \/ DestroyReturns(c)

Spec == Init /\ [][Next]_vars

\* A call that has begun goes on.
Continue(o) ==
  \/ ConnectFails(o) \/ \E c \in Conn : ConnectSucceeds(o, c)
  \/ ResetConn(o) \/ StoreHandlers(o) \/ AssignRest(o) \/ DestroyConn(o)

\* nats.c ends what it began: natsConnection_Destroy does not wait for ever for
\* callbacks that come one after another.  Tasks end by the timeout of their
\* request.  Programs need not do anything.
FairSpec ==
  /\ Spec
  /\ \A o \in Obj : WF_vars(Continue(o))
  /\ \A r \in Req : WF_vars(RequestEnds(r))
  /\ \A c \in Conn : WF_vars(LeaveLifecycle(c)) /\ SF_vars(DestroyReturns(c))

-----------------------------------------------------------------------------
(* Properties                                                              *)

TypeOK ==
  /\ object \in [Obj -> {"none", "alive"}]
  /\ conn_ \in [Obj -> Conn \cup {None}]
  /\ callback_state_ \in [Obj -> BOOLEAN]
  /\ callback_handlers_ \in [Obj -> Handlers \cup {None}]
  /\ pc \in [Obj -> {"idle", "connecting", "connected", "storing", "assigning",
                     "source", "destroying"}]
  /\ handlers \in [Obj -> Handlers \cup {None}]
  /\ raw \in [Obj -> Conn \cup {None}]
  /\ old \in [Obj -> Conn \cup {None}]
  /\ from \in [Obj -> Obj \cup {None}]
  /\ task \in [Req -> Conn \cup {None}]
  /\ native \in [Conn -> {"none", "live", "dying"}]
  /\ closure \in [Conn -> Handlers \cup {None}]
  /\ deleter \in [Conn -> Handlers \cup {None}]
  /\ calling \subseteq Conn
  /\ \A o \in Obj : object[o] = "none" =>
       pc[o] = "idle" /\ conn_[o] = None /\ callback_handlers_[o] = None

\* The handlers whose address nats.c has outlive the natsConnection and every
\* callback it runs, through moves, a second connect(), failed ones, and requests
\* that keep the connection after its object is gone (connection.hpp, comment in
\* connect()).
HandlersOutlive ==
  \A c \in Conn : native[c] # "none" \/ c \in calling =>
    closure[c] # None /\ HandlersAlive(closure[c])

\* A natsConnection lives exactly as long as somebody owns it: none is leaked,
\* and neither an object nor a request task that is still running is left with
\* a destroyed one.
OwnedIffLive ==
  \A c \in Conn : native[c] = "live" <=> Owners(c) # {}

\* An object on which no call is under way holds the handlers of the connection
\* it holds, not those of another one, and has a registry for its subscriptions.
MembersAgree ==
  \A o \in Obj : pc[o] = "idle" /\ conn_[o] # None =>
    callback_state_[o] /\ callback_handlers_[o] = closure[conn_[o]]

\* Lifecycle handlers are promised what handlers of subscriptions are: callbacks
\* of nats.c, second connects, moves and the end of requests enter only handlers
\* that are there and free none that is running.
Contract == INSTANCE HandlerContract
              WITH Id <- Handlers,
                   held <- {h \in Handlers : HandlersAlive(h)},
                   inside <- {h \in Handlers : \E c \in calling : closure[c] = h}
KeepsContract == Contract!Spec

\* connect() and operator= return, though they wait for natsConnection_Destroy
\* of the connection they replace and it waits for a running handler.
CallsReturn == \A o \in Obj : pc[o] # "idle" ~> pc[o] = "idle"

\* Handlers do not stay on the heap when the connect() they were built for
\* failed or the connection they were built for is gone.
HandlersFreed ==
  \A h \in Handlers :
    HandlersAlive(h) ~> \/ ~HandlersAlive(h)
                       \/ \E c \in Conn : native[c] = "live" /\ closure[c] = h
=============================================================================
