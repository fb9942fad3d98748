------------------------ MODULE ConnectionLifetimeProofs -----------------------
(***************************************************************************)
(* Connections and their lifecycle handlers: proofs for any number of      *)
(* connection objects, natsConnections, handlers and request tasks.        *)
(***************************************************************************)
EXTENDS ConnectionLifetime, TLAPS

\* The locals of connect(), operator= and ~connection at each of their steps;
\* an object that is being moved from waits for one assignment.
Calls ==
  /\ \A o \in Obj :
       /\ raw[o] # None <=> pc[o] = "connected"
       /\ handlers[o] # None <=> pc[o] \in {"connecting", "connected", "storing"}
       /\ from[o] # None <=> pc[o] = "assigning"
       /\ pc[o] = "assigning" =>
            from[o] # o /\ pc[from[o]] = "source" /\ conn_[from[o]] = None
       /\ pc[o] = "destroying" => callback_handlers_[o] = None
  /\ \A o, p \in Obj : from[o] = from[p] => from[o] = None \/ o = p

\* Objects share no natsConnection; only tasks share with them.
Unshared ==
  /\ \A o, p \in Obj : conn_[o] = conn_[p] => conn_[o] = None \/ o = p
  /\ \A o, p \in Obj : raw[o] = raw[p] => raw[o] = None \/ o = p
  /\ \A o, p \in Obj : raw[o] = conn_[p] => raw[o] = None

\* Some shared_ptr, or connect(), has connection c.
Owned(c) == \/ \E o \in Obj : conn_[o] = c \/ raw[o] = c
            \/ \E r \in Req : task[r] = c
LiveIfOwned == \A c \in Conn : native[c] = "live" <=> Owned(c)

\* The deleter has the handlers nats.c knows; before there is one, connect() has.
Captured ==
  /\ \A c \in Conn : native[c] # "none" =>
       /\ closure[c] # None
       /\ deleter[c] = closure[c] \/ \E o \in Obj : raw[o] = c
  /\ \A o \in Obj : raw[o] # None => closure[raw[o]] = handlers[o]

\* A handler runs only for a connection that exists.
CalledAlive == \A c \in calling : native[c] # "none"

\* What belongs together at each step of connect() and operator=.
Agrees(o, p) == conn_[o] # None =>
                  callback_state_[p] /\ callback_handlers_[p] = closure[conn_[o]]
Together ==
  \A o \in Obj :
    /\ pc[o] \in {"idle", "connecting"} => Agrees(o, o)
    /\ pc[o] = "assigning" => Agrees(o, from[o])
    /\ pc[o] = "storing" => conn_[o] # None /\ closure[conn_[o]] = handlers[o]
    /\ pc[o] \in {"connecting", "connected", "storing"} => callback_state_[o]

LocalsInv == TypeOK /\ Calls
OwnerInv  == LocalsInv /\ Unshared /\ LiveIfOwned
IInv      == OwnerInv /\ Captured /\ CalledAlive /\ Together

-----------------------------------------------------------------------------
\* Types, and which locals a call has.
LEMMA TypeStep ==
  ASSUME LocalsInv, [Next]_vars
  PROVE  LocalsInv'
<1> USE ConstantsAssumption DEF LocalsInv, TypeOK, Calls
<1>1. ASSUME NEW o \in Obj, Construct(o)
      PROVE  LocalsInv'
  BY <1>1 DEF Construct, members, locals, natives
<1>2. ASSUME NEW o \in Obj, ConnectFails(o)
      PROVE  LocalsInv'
  BY <1>2 DEF ConnectFails, members, locals, natives
<1>3. ASSUME NEW o \in Obj, ResetConn(o)
      PROVE  LocalsInv'
  BY <1>3 DEF ResetConn, Release, Destroying, members, locals, natives
<1>4. ASSUME NEW o \in Obj, StoreHandlers(o)
      PROVE  LocalsInv'
  BY <1>4 DEF StoreHandlers, members, locals, natives
<1>5. ASSUME NEW o \in Obj, AssignRest(o)
      PROVE  LocalsInv'
  BY <1>5 DEF AssignRest, members, locals, natives
<1>6. ASSUME NEW o \in Obj, DestroyHandlers(o)
      PROVE  LocalsInv'
  BY <1>6 DEF DestroyHandlers, Idle, members, locals, natives
<1>7. ASSUME NEW o \in Obj, DestroyConn(o)
      PROVE  LocalsInv'
  BY <1>7 DEF DestroyConn, Release, members, locals, natives
<1>8. ASSUME NEW o \in Obj, NEW h \in Handlers, ConnectStarts(o, h)
      PROVE  LocalsInv'
  BY <1>8 DEF ConnectStarts, Idle, members, locals, natives
<1>9. ASSUME NEW o \in Obj, NEW c \in Conn, ConnectSucceeds(o, c)
      PROVE  LocalsInv'
  BY <1>9 DEF ConnectSucceeds, members, locals, natives
<1>10. ASSUME NEW o \in Obj, NEW p \in Obj, MoveConstruct(o, p)
      PROVE  LocalsInv'
  <2>1. /\ o # p /\ object[o] = "none" /\ Idle(p) /\ pc[o] = "idle" /\ pc[p] = "idle"
        /\ UNCHANGED <<pc, handlers, raw, old, from, task, native, closure, deleter, calling>>
    BY <1>10 DEF MoveConstruct, Idle, locals, natives
  <2>2. \A q \in Obj : q # o /\ q # p =>
          /\ conn_'[q] = conn_[q] /\ callback_handlers_'[q] = callback_handlers_[q]
          /\ object'[q] = object[q]
    BY <1>10 DEF MoveConstruct
  <2>3. conn_'[p] = None /\ callback_handlers_'[p] = None /\ object'[o] = "alive"
    BY <1>10, <2>1 DEF MoveConstruct
  <2>4. TypeOK'
    BY <1>10, <2>1 DEF MoveConstruct, Idle
  <2>5. ASSUME NEW q \in Obj, pc[q] = "assigning"
        PROVE  conn_'[from[q]] = None
    BY <2>1, <2>2, <2>3, <2>5
  <2>6. ASSUME NEW q \in Obj, pc[q] = "destroying"
        PROVE  callback_handlers_'[q] = None
    BY <2>1, <2>2, <2>6
  <2> QED
    BY <2>1, <2>4, <2>5, <2>6
<1>11. ASSUME NEW o \in Obj, NEW p \in Obj, AssignConn(o, p)
      PROVE  LocalsInv'
  <2>1. /\ o # p /\ pc[o] = "idle" /\ pc[p] = "idle" /\ Idle(o) /\ Idle(p)
        /\ conn_' = [conn_ EXCEPT ![o] = conn_[p], ![p] = None]
        /\ from' = [from EXCEPT ![o] = p]
        /\ pc' = [pc EXCEPT ![o] = "assigning", ![p] = "source"]
        /\ UNCHANGED <<object, callback_state_, callback_handlers_, handlers, raw, task,
                       closure, deleter, calling>>
    BY <1>11 DEF AssignConn, Idle
  <2>2. native' \in [Conn -> {"none", "live", "dying"}] /\ old' \in [Obj -> Conn \cup {None}]
    BY <1>11 DEF AssignConn, Release, Destroying
  <2>3. TypeOK'
    BY <2>1, <2>2 DEF Idle
  <2>4. \A q \in Obj : q # o => from'[q] = from[q] /\ from[q] # p /\ from[q] # o
    BY <2>1
  <2>5. \A q \in Obj : q # o /\ q # p => conn_'[q] = conn_[q] /\ pc'[q] = pc[q]
    BY <2>1
  <2>6. from'[o] = p /\ pc'[p] = "source" /\ conn_'[p] = None /\ pc'[o] = "assigning"
    BY <2>1
  <2>7. ASSUME NEW q \in Obj, pc'[q] = "assigning"
        PROVE  from'[q] # q /\ pc'[from'[q]] = "source" /\ conn_'[from'[q]] = None
    <3>1. CASE q = o
      BY <2>1, <2>6, <3>1
    <3>2. CASE q # o
      <4>1. pc[q] = "assigning" /\ from'[q] = from[q] /\ from[q] \in Obj
        BY <2>1, <2>4, <2>5, <2>6, <2>7, <3>2
      <4> QED
        BY <2>4, <2>5, <3>2, <4>1
    <3> QED
      BY <3>1, <3>2
  <2>8. ASSUME NEW q \in Obj
        PROVE  /\ raw'[q] # None <=> pc'[q] = "connected"
               /\ handlers'[q] # None <=> pc'[q] \in {"connecting", "connected", "storing"}
               /\ from'[q] # None <=> pc'[q] = "assigning"
               /\ pc'[q] = "destroying" => callback_handlers_'[q] = None
    BY <2>1
  <2>9. ASSUME NEW q \in Obj, NEW s \in Obj, from'[q] = from'[s]
        PROVE  from'[q] = None \/ q = s
    BY <2>4, <2>6, <2>9
  <2> QED
    BY <2>3, <2>7, <2>8, <2>9
<1>12. ASSUME NEW o \in Obj, NEW r \in Req, RequestStarts(o, r)
      PROVE  LocalsInv'
  BY <1>12 DEF RequestStarts, Idle, members, locals, natives
<1>13. ASSUME NEW r \in Req, RequestEnds(r)
      PROVE  LocalsInv'
  BY <1>13 DEF RequestEnds, Release, members, locals, natives
<1>14. ASSUME NEW c \in Conn, EnterLifecycle(c)
      PROVE  LocalsInv'
  BY <1>14 DEF EnterLifecycle, members, locals, natives
<1>15. ASSUME NEW c \in Conn, LeaveLifecycle(c)
      PROVE  LocalsInv'
  BY <1>15 DEF LeaveLifecycle, members, locals, natives
<1>16. ASSUME NEW c \in Conn, DestroyReturns(c)
      PROVE  LocalsInv'
  BY <1>16 DEF DestroyReturns, members, locals, natives
<1>17. CASE UNCHANGED vars
  BY <1>17 DEF vars, members, locals, natives
<1> QED
  BY <1>1, <1>2, <1>3, <1>4, <1>5, <1>6, <1>7, <1>8, <1>9,
     <1>10, <1>11, <1>12, <1>13, <1>14, <1>15, <1>16, <1>17
  DEF Next

\* Types, whatever the program does and whether or not natsConnection_Destroy
\* waits.
THEOREM TypeCorrect == Spec => []TypeOK
<1>1. Init => LocalsInv
  BY ConstantsAssumption DEF Init, LocalsInv, TypeOK, Calls
<1>2. LocalsInv /\ [Next]_vars => LocalsInv'
  BY TypeStep
<1>3. LocalsInv => TypeOK
  BY DEF LocalsInv
<1> QED
  BY <1>1, <1>2, <1>3, PTL DEF Spec

\* conn_ is moved, never copied, between objects; a new connection is new.
LEMMA UnsharedStep ==
  ASSUME OwnerInv, LocalsInv', [Next]_vars
  PROVE  Unshared'
<1> USE ConstantsAssumption DEF OwnerInv, LocalsInv, TypeOK, Calls, Unshared, LiveIfOwned, Owned
<1>1. ASSUME NEW o \in Obj, Construct(o)
      PROVE  Unshared'
  BY <1>1 DEF Construct, members, locals, natives
<1>2. ASSUME NEW o \in Obj, ConnectFails(o)
      PROVE  Unshared'
  BY <1>2 DEF ConnectFails, members, locals, natives
<1>3. ASSUME NEW o \in Obj, ResetConn(o)
      PROVE  Unshared'
  BY <1>3 DEF ResetConn, Release, Destroying, members, locals, natives
<1>4. ASSUME NEW o \in Obj, StoreHandlers(o)
      PROVE  Unshared'
  BY <1>4 DEF StoreHandlers, members, locals, natives
<1>5. ASSUME NEW o \in Obj, AssignRest(o)
      PROVE  Unshared'
  BY <1>5 DEF AssignRest, members, locals, natives
<1>6. ASSUME NEW o \in Obj, DestroyHandlers(o)
      PROVE  Unshared'
  BY <1>6 DEF DestroyHandlers, Idle, members, locals, natives
<1>7. ASSUME NEW o \in Obj, DestroyConn(o)
      PROVE  Unshared'
  BY <1>7 DEF DestroyConn, Release, members, locals, natives
<1>8. ASSUME NEW o \in Obj, NEW h \in Handlers, ConnectStarts(o, h)
      PROVE  Unshared'
  BY <1>8 DEF ConnectStarts, Idle, members, locals, natives
<1>9. ASSUME NEW o \in Obj, NEW c \in Conn, ConnectSucceeds(o, c)
      PROVE  Unshared'
  BY <1>9 DEF ConnectSucceeds, members, locals, natives
<1>10. ASSUME NEW o \in Obj, NEW p \in Obj, MoveConstruct(o, p)
      PROVE  Unshared'
  BY <1>10 DEF MoveConstruct, Idle, members, locals, natives
<1>11. ASSUME NEW o \in Obj, NEW p \in Obj, AssignConn(o, p)
      PROVE  Unshared'
  BY <1>11 DEF AssignConn, Idle, Release, Destroying, members, locals, natives
<1>12. ASSUME NEW o \in Obj, NEW r \in Req, RequestStarts(o, r)
      PROVE  Unshared'
  BY <1>12 DEF RequestStarts, Idle, members, locals, natives
<1>13. ASSUME NEW r \in Req, RequestEnds(r)
      PROVE  Unshared'
  BY <1>13 DEF RequestEnds, Release, members, locals, natives
<1>14. ASSUME NEW c \in Conn, EnterLifecycle(c)
      PROVE  Unshared'
  BY <1>14 DEF EnterLifecycle, members, locals, natives
<1>15. ASSUME NEW c \in Conn, LeaveLifecycle(c)
      PROVE  Unshared'
  BY <1>15 DEF LeaveLifecycle, members, locals, natives
<1>16. ASSUME NEW c \in Conn, DestroyReturns(c)
      PROVE  Unshared'
  BY <1>16 DEF DestroyReturns, members, locals, natives
<1>17. CASE UNCHANGED vars
  BY <1>17 DEF vars, members, locals, natives
<1> QED
  BY <1>1, <1>2, <1>3, <1>4, <1>5, <1>6, <1>7, <1>8, <1>9,
     <1>10, <1>11, <1>12, <1>13, <1>14, <1>15, <1>16, <1>17
  DEF Next

\* The last owner, of whichever kind, is the one Release looks for.
LEMMA LastOwner ==
  ASSUME NEW c \in Conn
  PROVE  /\ \A o \in Obj : conn_[o] = c \/ raw[o] = c =>
              (Owners(c) = {o} <=> /\ \A p \in Obj : conn_[p] = c \/ raw[p] = c => p = o
                                   /\ \A r \in Req : task[r] # c)
         /\ \A r \in Req : task[r] = c =>
              (Owners(c) = {r} <=> /\ \A p \in Obj : conn_[p] # c /\ raw[p] # c
                                   /\ \A q \in Req : task[q] = c => q = r)
         /\ Owners(c) # {} <=> Owned(c)
BY ConstantsAssumption DEF Owners, Owned

\* Release begins the destruction of a live connection, or of none.
LEMMA Releases ==
  ASSUME OwnerInv, NEW c, NEW x, Release(c, x)
  PROVE  \A d \in Conn :
           /\ native'[d] # "none" <=> native[d] # "none"
           /\ native'[d] = "live" <=> native[d] = "live" /\ ~(d = c /\ Owners(c) = {x})
<1>1. \A d \in Conn : Owners(d) = {x} => native[d] = "live"
  BY LastOwner DEF OwnerInv, LiveIfOwned
<1> QED
  BY <1>1 DEF Release

\* Moving conn_ from one object to another, as both constructor and operator=
\* do, changes who owns a connection but not whether somebody does, except for
\* the connection of the target.
LEMMA MoveOwns ==
  ASSUME OwnerInv, NEW o \in Obj, NEW p \in Obj, o # p,
         conn_' = [conn_ EXCEPT ![o] = conn_[p], ![p] = None],
         UNCHANGED <<raw, task>>,
         NEW d \in Conn, d # conn_[o]
  PROVE  Owned(d)' <=> Owned(d)
<1>1. /\ conn_'[o] = conn_[p] /\ conn_'[p] = None /\ d # None
      /\ \A q \in Obj \ {o, p} : conn_'[q] = conn_[q]
  BY ConstantsAssumption DEF OwnerInv, LocalsInv, TypeOK
<1>2. (\E q \in Obj : conn_'[q] = d) <=> (\E q \in Obj : conn_[q] = d)
  <2>1. ASSUME NEW q \in Obj, conn_'[q] = d
        PROVE  \E s \in Obj : conn_[s] = d
    BY <1>1, <2>1
  <2>2. ASSUME NEW q \in Obj, conn_[q] = d
        PROVE  \E s \in Obj : conn_'[s] = d
    BY <1>1, <2>2
  <2> QED
    BY <2>1, <2>2
<1> QED
  BY <1>2 DEF Owned

\* The same of connect(), which moves it from its local into the object.
LEMMA ResetOwns ==
  ASSUME OwnerInv, NEW o \in Obj,
         conn_' = [conn_ EXCEPT ![o] = raw[o]], raw' = [raw EXCEPT ![o] = None],
         UNCHANGED task,
         NEW d \in Conn, d # conn_[o]
  PROVE  Owned(d)' <=> Owned(d)
<1>1. /\ conn_'[o] = raw[o] /\ raw'[o] = None /\ d # None
      /\ \A q \in Obj \ {o} : conn_'[q] = conn_[q] /\ raw'[q] = raw[q]
  BY ConstantsAssumption DEF OwnerInv, LocalsInv, TypeOK
<1>2. (\E q \in Obj : conn_'[q] = d \/ raw'[q] = d) <=> (\E q \in Obj : conn_[q] = d \/ raw[q] = d)
  <2>1. ASSUME NEW q \in Obj, conn_'[q] = d \/ raw'[q] = d
        PROVE  conn_[q] = d \/ raw[q] = d
    BY <1>1, <2>1
  <2>2. ASSUME NEW q \in Obj, conn_[q] = d \/ raw[q] = d
        PROVE  conn_'[q] = d \/ raw'[q] = d
    BY <1>1, <2>2
  <2> QED
    BY <2>1, <2>2
<1> QED
  BY <1>2 DEF Owned

\* Besides the object that has a connection only tasks can have it.
LEMMA Sole ==
  ASSUME OwnerInv, NEW o \in Obj, conn_[o] \in Conn
  PROVE  /\ raw[o] # conn_[o]
         /\ \A q \in Obj \ {o} : conn_[q] # conn_[o] /\ raw[q] # conn_[o]
         /\ Owners(conn_[o]) = {o} <=> \A r \in Req : task[r] # conn_[o]
<1>1. /\ raw[o] # conn_[o]
      /\ \A q \in Obj \ {o} : conn_[q] # conn_[o] /\ raw[q] # conn_[o]
  BY ConstantsAssumption DEF OwnerInv, Unshared
<1>2. Owners(conn_[o]) = {o} \cup {r \in Req : task[r] = conn_[o]}
  BY <1>1 DEF Owners
<1> QED
  BY <1>1, <1>2, ConstantsAssumption

\* A connection that no object has any more is owned if a task has it.
LEMMA GivenUp ==
  ASSUME NEW d \in Conn, UNCHANGED task,
         \A q \in Obj : conn_'[q] # d /\ raw'[q] # d
  PROVE  Owned(d)' <=> \E r \in Req : task[r] = d
BY DEF Owned

\* Whoever gives up the last shared_ptr begins natsConnection_Destroy, and
\* nobody else does.
LEMMA LiveStep ==
  ASSUME OwnerInv, [Next]_vars
  PROVE  LiveIfOwned'
<1> USE ConstantsAssumption DEF OwnerInv, LocalsInv, TypeOK, Calls, Unshared, LiveIfOwned, Owned
<1>1. ASSUME NEW o \in Obj, Construct(o)
      PROVE  LiveIfOwned'
  BY LastOwner, <1>1 DEF Construct, members, locals, natives
<1>2. ASSUME NEW o \in Obj, ConnectFails(o)
      PROVE  LiveIfOwned'
  BY LastOwner, <1>2 DEF ConnectFails, members, locals, natives
<1>3. ASSUME NEW o \in Obj, ResetConn(o)
      PROVE  LiveIfOwned'
  <2>1. /\ pc[o] = "connected" /\ raw[o] \in Conn /\ raw[o] # conn_[o]
        /\ conn_' = [conn_ EXCEPT ![o] = raw[o]] /\ raw' = [raw EXCEPT ![o] = None]
        /\ UNCHANGED task
    BY <1>3 DEF ResetConn
  <2>2. \A d \in Conn : native'[d] = "live" <=>
                          native[d] = "live" /\ ~(d = conn_[o] /\ Owners(conn_[o]) = {o})
    BY <1>3, Releases DEF ResetConn
  <2>3. ASSUME NEW d \in Conn, d # conn_[o]
        PROVE  Owned(d)' <=> Owned(d)
    BY <2>1, <2>3, ResetOwns
  <2>4. ASSUME NEW d \in Conn, d = conn_[o]
        PROVE  Owned(d)' <=> Owners(d) # {o}
    <3>1. conn_ \in [Obj -> Conn \cup {None}] /\ raw \in [Obj -> Conn \cup {None}]
      OBVIOUS
    <3> HIDE DEF OwnerInv, LocalsInv, TypeOK, Calls, Unshared, LiveIfOwned, Owned
    <3>2. /\ raw[o] # d /\ \A q \in Obj \ {o} : conn_[q] # d /\ raw[q] # d
          /\ Owners(d) = {o} <=> \A r \in Req : task[r] # d
      BY <2>4, Sole
    <3>3. \A q \in Obj : conn_'[q] # d /\ raw'[q] # d
      BY <2>1, <2>4, <3>1, <3>2
    <3>4. Owned(d)' <=> \E r \in Req : task[r] = d
      BY <2>1, <3>3, GivenUp
    <3> QED
      BY <3>2, <3>4
  <2> HIDE DEF Owned
  <2>5. ASSUME NEW d \in Conn
        PROVE  native'[d] = "live" <=> Owned(d)'
    <3>1. CASE d = conn_[o]
      BY <2>2, <2>4, <3>1 DEF Owned
    <3>2. CASE d # conn_[o]
      BY <2>2, <2>3, <3>2
    <3> QED
      BY <3>1, <3>2
  <2> QED
    BY <2>5
<1>4. ASSUME NEW o \in Obj, StoreHandlers(o)
      PROVE  LiveIfOwned'
  BY LastOwner, <1>4 DEF StoreHandlers, members, locals, natives
<1>5. ASSUME NEW o \in Obj, AssignRest(o)
      PROVE  LiveIfOwned'
  BY LastOwner, <1>5 DEF AssignRest, members, locals, natives
<1>6. ASSUME NEW o \in Obj, DestroyHandlers(o)
      PROVE  LiveIfOwned'
  BY LastOwner, <1>6 DEF DestroyHandlers, Idle, members, locals, natives
<1>7. ASSUME NEW o \in Obj, DestroyConn(o)
      PROVE  LiveIfOwned'
  <2>1. /\ pc[o] = "destroying" /\ raw[o] = None
        /\ conn_' = [conn_ EXCEPT ![o] = None]
        /\ UNCHANGED <<raw, task>>
    BY <1>7 DEF DestroyConn
  <2>2. \A d \in Conn : native'[d] = "live" <=>
                          native[d] = "live" /\ ~(d = conn_[o] /\ Owners(conn_[o]) = {o})
    BY <1>7, Releases DEF DestroyConn
  <2>3. ASSUME NEW d \in Conn, d # conn_[o]
        PROVE  Owned(d)' <=> Owned(d)
    BY <2>1, <2>3
  <2>4. ASSUME NEW d \in Conn, d = conn_[o]
        PROVE  Owned(d)' <=> Owners(d) # {o}
    <3>1. conn_ \in [Obj -> Conn \cup {None}] /\ raw \in [Obj -> Conn \cup {None}]
      OBVIOUS
    <3> HIDE DEF OwnerInv, LocalsInv, TypeOK, Calls, Unshared, LiveIfOwned, Owned
    <3>2. /\ raw[o] # d /\ \A q \in Obj \ {o} : conn_[q] # d /\ raw[q] # d
          /\ Owners(d) = {o} <=> \A r \in Req : task[r] # d
      BY <2>4, Sole
    <3>3. \A q \in Obj : conn_'[q] # d /\ raw'[q] # d
      BY <2>1, <2>4, <3>1, <3>2
    <3>4. Owned(d)' <=> \E r \in Req : task[r] = d
      BY <2>1, <3>3, GivenUp
    <3> QED
      BY <3>2, <3>4
  <2> HIDE DEF Owned
  <2>5. ASSUME NEW d \in Conn
        PROVE  native'[d] = "live" <=> Owned(d)'
    <3>1. CASE d = conn_[o]
      BY <2>2, <2>4, <3>1 DEF Owned
    <3>2. CASE d # conn_[o]
      BY <2>2, <2>3, <3>2
    <3> QED
      BY <3>1, <3>2
  <2> QED
    BY <2>5
<1>8. ASSUME NEW o \in Obj, NEW h \in Handlers, ConnectStarts(o, h)
      PROVE  LiveIfOwned'
  BY LastOwner, <1>8 DEF ConnectStarts, Idle, members, locals, natives
<1>9. ASSUME NEW o \in Obj, NEW c \in Conn, ConnectSucceeds(o, c)
      PROVE  LiveIfOwned'
  BY LastOwner, <1>9 DEF ConnectSucceeds, members, locals, natives
<1>10. ASSUME NEW o \in Obj, NEW p \in Obj, MoveConstruct(o, p)
      PROVE  LiveIfOwned'
  <2>1. /\ o # p /\ conn_[o] = None
        /\ conn_' = [conn_ EXCEPT ![o] = conn_[p], ![p] = None]
        /\ UNCHANGED <<raw, task, native>>
    BY <1>10 DEF MoveConstruct, Idle, locals, natives
  <2>2. ASSUME NEW d \in Conn
        PROVE  Owned(d)' <=> Owned(d)
    BY <2>1, MoveOwns
  <2> QED
    BY <2>1, <2>2
<1>11. ASSUME NEW o \in Obj, NEW p \in Obj, AssignConn(o, p)
      PROVE  LiveIfOwned'
  <2>1. /\ o # p /\ raw[o] = None /\ raw[p] = None
        /\ conn_' = [conn_ EXCEPT ![o] = conn_[p], ![p] = None]
        /\ UNCHANGED <<raw, task>>
    BY <1>11 DEF AssignConn, Idle
  <2>2. \A d \in Conn : native'[d] = "live" <=>
                          native[d] = "live" /\ ~(d = conn_[o] /\ Owners(conn_[o]) = {o})
    BY <1>11, Releases DEF AssignConn
  <2>3. ASSUME NEW d \in Conn, d # conn_[o]
        PROVE  Owned(d)' <=> Owned(d)
    BY <2>1, <2>3, MoveOwns
  <2>4. ASSUME NEW d \in Conn, d = conn_[o]
        PROVE  Owned(d)' <=> Owners(d) # {o}
    <3>1. conn_ \in [Obj -> Conn \cup {None}] /\ raw \in [Obj -> Conn \cup {None}]
      OBVIOUS
    <3> HIDE DEF OwnerInv, LocalsInv, TypeOK, Calls, Unshared, LiveIfOwned, Owned
    <3>2. /\ raw[o] # d /\ \A q \in Obj \ {o} : conn_[q] # d /\ raw[q] # d
          /\ Owners(d) = {o} <=> \A r \in Req : task[r] # d
      BY <2>4, Sole
    <3>3. \A q \in Obj : conn_'[q] # d /\ raw'[q] # d
      BY <2>1, <2>4, <3>1, <3>2
    <3>4. Owned(d)' <=> \E r \in Req : task[r] = d
      BY <2>1, <3>3, GivenUp
    <3> QED
      BY <3>2, <3>4
  <2> HIDE DEF Owned
  <2>5. ASSUME NEW d \in Conn
        PROVE  native'[d] = "live" <=> Owned(d)'
    <3>1. CASE d = conn_[o]
      BY <2>2, <2>4, <3>1 DEF Owned
    <3>2. CASE d # conn_[o]
      BY <2>2, <2>3, <3>2
    <3> QED
      BY <3>1, <3>2
  <2> QED
    BY <2>5
<1>12. ASSUME NEW o \in Obj, NEW r \in Req, RequestStarts(o, r)
      PROVE  LiveIfOwned'
  BY LastOwner, <1>12 DEF RequestStarts, Idle, members, locals, natives
<1>13. ASSUME NEW r \in Req, RequestEnds(r)
      PROVE  LiveIfOwned'
  <2>1. /\ task[r] \in Conn /\ task' = [task EXCEPT ![r] = None]
        /\ UNCHANGED <<conn_, raw>>
    BY <1>13 DEF RequestEnds, members, locals
  <2>2. \A d \in Conn : native'[d] = "live" <=>
                          native[d] = "live" /\ ~(d = task[r] /\ Owners(task[r]) = {r})
    BY <1>13, Releases DEF RequestEnds
  <2>3. ASSUME NEW d \in Conn, d # task[r]
        PROVE  Owned(d)' <=> Owned(d)
    BY <2>1, <2>3
  <2>4. ASSUME NEW d \in Conn, d = task[r]
        PROVE  Owned(d)' <=> Owners(d) # {r}
    <3>1. task'[r] # d /\ \A q \in Req \ {r} : task'[q] = task[q]
      BY <2>1, <2>4
    <3>2. Owned(d)' <=> \/ \E q \in Obj : conn_[q] = d \/ raw[q] = d
                        \/ \E q \in Req \ {r} : task[q] = d
      BY <2>1, <3>1
    <3> HIDE DEF OwnerInv, LocalsInv, TypeOK, Calls, Unshared, LiveIfOwned, Owned
    <3>3. Owners(d) = {r} <=> /\ \A q \in Obj : conn_[q] # d /\ raw[q] # d
                              /\ \A q \in Req : task[q] = d => q = r
      BY <2>4, LastOwner
    <3> QED
      BY <3>2, <3>3
  <2> HIDE DEF Owned
  <2>5. ASSUME NEW d \in Conn
        PROVE  native'[d] = "live" <=> Owned(d)'
    <3>1. CASE d = task[r]
      BY <2>1, <2>2, <2>4, <3>1 DEF Owned
    <3>2. CASE d # task[r]
      BY <2>2, <2>3, <3>2
    <3> QED
      BY <3>1, <3>2
  <2> QED
    BY <2>5
<1>14. ASSUME NEW c \in Conn, EnterLifecycle(c)
      PROVE  LiveIfOwned'
  BY LastOwner, <1>14 DEF EnterLifecycle, members, locals, natives
<1>15. ASSUME NEW c \in Conn, LeaveLifecycle(c)
      PROVE  LiveIfOwned'
  BY LastOwner, <1>15 DEF LeaveLifecycle, members, locals, natives
<1>16. ASSUME NEW c \in Conn, DestroyReturns(c)
      PROVE  LiveIfOwned'
  BY LastOwner, <1>16 DEF DestroyReturns, members, locals, natives
<1>17. CASE UNCHANGED vars
  BY LastOwner, <1>17 DEF vars, members, locals, natives
<1> QED
  BY <1>1, <1>2, <1>3, <1>4, <1>5, <1>6, <1>7, <1>8, <1>9,
     <1>10, <1>11, <1>12, <1>13, <1>14, <1>15, <1>16, <1>17
  DEF Next

\* The deleter takes over the handlers before connect() lets them go.
LEMMA CapturedStep ==
  ASSUME OwnerInv, LocalsInv', Captured, [Next]_vars
  PROVE  Captured'
<1> USE ConstantsAssumption DEF OwnerInv, LocalsInv, TypeOK, Calls, Captured
<1>1. ASSUME NEW o \in Obj, Construct(o)
      PROVE  Captured'
  BY <1>1 DEF Construct, members, locals, natives
<1>2. ASSUME NEW o \in Obj, ConnectFails(o)
      PROVE  Captured'
  BY <1>2 DEF ConnectFails, members, locals, natives
<1>3. ASSUME NEW o \in Obj, ResetConn(o)
      PROVE  Captured'
  <2>1. \A d \in Conn : native'[d] # "none" => native[d] # "none"
    BY <1>3, Releases DEF ResetConn
  <2>2. /\ pc[o] = "connected" /\ raw[o] \in Conn /\ raw' = [raw EXCEPT ![o] = None]
        /\ deleter' = [deleter EXCEPT ![raw[o]] = handlers[o]]
        /\ UNCHANGED <<closure, handlers>>
    BY <1>3 DEF ResetConn
  <2>3. ASSUME NEW d \in Conn, native[d] # "none"
        PROVE  /\ closure[d] # None
               /\ \/ deleter'[d] = closure[d]
                  \/ \E u \in Obj : raw'[u] = d
    <3>1. CASE d = raw[o]
      BY <2>2, <2>3, <3>1
    <3>2. CASE d # raw[o]
      BY <2>2, <2>3, <3>2
    <3> QED
      BY <3>1, <3>2
  <2> QED
    BY <2>1, <2>2, <2>3
<1>4. ASSUME NEW o \in Obj, StoreHandlers(o)
      PROVE  Captured'
  BY <1>4 DEF StoreHandlers, members, locals, natives
<1>5. ASSUME NEW o \in Obj, AssignRest(o)
      PROVE  Captured'
  BY <1>5 DEF AssignRest, members, locals, natives
<1>6. ASSUME NEW o \in Obj, DestroyHandlers(o)
      PROVE  Captured'
  BY <1>6 DEF DestroyHandlers, Idle, members, locals, natives
<1>7. ASSUME NEW o \in Obj, DestroyConn(o)
      PROVE  Captured'
  <2>1. \A d \in Conn : native'[d] # "none" => native[d] # "none"
    BY <1>7, Releases DEF DestroyConn
  <2>2. UNCHANGED <<closure, deleter, raw, handlers>>
    BY <1>7 DEF DestroyConn, locals
  <2> QED
    BY <2>1, <2>2
<1>8. ASSUME NEW o \in Obj, NEW h \in Handlers, ConnectStarts(o, h)
      PROVE  Captured'
  BY <1>8 DEF ConnectStarts, Idle, members, locals, natives
<1>9. ASSUME NEW o \in Obj, NEW c \in Conn, ConnectSucceeds(o, c)
      PROVE  Captured'
  <2>1. \A u \in Obj : raw[u] # c
    BY <1>9 DEF ConnectSucceeds, Unshared, LiveIfOwned, Owned
  <2> QED
    BY <1>9, <2>1 DEF ConnectSucceeds
<1>10. ASSUME NEW o \in Obj, NEW p \in Obj, MoveConstruct(o, p)
      PROVE  Captured'
  BY <1>10 DEF MoveConstruct, Idle, members, locals, natives
<1>11. ASSUME NEW o \in Obj, NEW p \in Obj, AssignConn(o, p)
      PROVE  Captured'
  <2>1. \A d \in Conn : native'[d] # "none" => native[d] # "none"
    BY <1>11, Releases DEF AssignConn
  <2>2. UNCHANGED <<closure, deleter, raw, handlers>>
    BY <1>11 DEF AssignConn, locals
  <2> QED
    BY <2>1, <2>2
<1>12. ASSUME NEW o \in Obj, NEW r \in Req, RequestStarts(o, r)
      PROVE  Captured'
  BY <1>12 DEF RequestStarts, Idle, members, locals, natives
<1>13. ASSUME NEW r \in Req, RequestEnds(r)
      PROVE  Captured'
  <2>1. \A d \in Conn : native'[d] # "none" => native[d] # "none"
    BY <1>13, Releases DEF RequestEnds
  <2>2. UNCHANGED <<closure, deleter, raw, handlers>>
    BY <1>13 DEF RequestEnds, locals
  <2> QED
    BY <2>1, <2>2
<1>14. ASSUME NEW c \in Conn, EnterLifecycle(c)
      PROVE  Captured'
  BY <1>14 DEF EnterLifecycle, members, locals, natives
<1>15. ASSUME NEW c \in Conn, LeaveLifecycle(c)
      PROVE  Captured'
  BY <1>15 DEF LeaveLifecycle, members, locals, natives
<1>16. ASSUME NEW c \in Conn, DestroyReturns(c)
      PROVE  Captured'
  <2>1. \A u \in Obj : raw[u] # c
    BY <1>16 DEF DestroyReturns, LiveIfOwned, Owned
  <2> QED
    BY <1>16, <2>1 DEF DestroyReturns
<1>17. CASE UNCHANGED vars
  BY <1>17 DEF vars, members, locals, natives
<1> QED
  BY <1>1, <1>2, <1>3, <1>4, <1>5, <1>6, <1>7, <1>8, <1>9,
     <1>10, <1>11, <1>12, <1>13, <1>14, <1>15, <1>16, <1>17
  DEF Next

\* natsConnection_Destroy waits for running handlers.
LEMMA CalledAliveStep ==
  ASSUME TypeOK, CalledAlive, DestroyWaits, [Next]_vars
  PROVE  CalledAlive'
<1> USE ConstantsAssumption DEF TypeOK, CalledAlive
<1>1. ASSUME NEW o \in Obj, Construct(o)
      PROVE  CalledAlive'
  BY <1>1 DEF Construct, members, locals, natives
<1>2. ASSUME NEW o \in Obj, ConnectFails(o)
      PROVE  CalledAlive'
  BY <1>2 DEF ConnectFails, members, locals, natives
<1>3. ASSUME NEW o \in Obj, ResetConn(o)
      PROVE  CalledAlive'
  BY <1>3 DEF ResetConn, Release, Destroying, members, locals, natives
<1>4. ASSUME NEW o \in Obj, StoreHandlers(o)
      PROVE  CalledAlive'
  BY <1>4 DEF StoreHandlers, members, locals, natives
<1>5. ASSUME NEW o \in Obj, AssignRest(o)
      PROVE  CalledAlive'
  BY <1>5 DEF AssignRest, members, locals, natives
<1>6. ASSUME NEW o \in Obj, DestroyHandlers(o)
      PROVE  CalledAlive'
  BY <1>6 DEF DestroyHandlers, Idle, members, locals, natives
<1>7. ASSUME NEW o \in Obj, DestroyConn(o)
      PROVE  CalledAlive'
  BY <1>7 DEF DestroyConn, Release, members, locals, natives
<1>8. ASSUME NEW o \in Obj, NEW h \in Handlers, ConnectStarts(o, h)
      PROVE  CalledAlive'
  BY <1>8 DEF ConnectStarts, Idle, members, locals, natives
<1>9. ASSUME NEW o \in Obj, NEW c \in Conn, ConnectSucceeds(o, c)
      PROVE  CalledAlive'
  BY <1>9 DEF ConnectSucceeds, members, locals, natives
<1>10. ASSUME NEW o \in Obj, NEW p \in Obj, MoveConstruct(o, p)
      PROVE  CalledAlive'
  BY <1>10 DEF MoveConstruct, Idle, members, locals, natives
<1>11. ASSUME NEW o \in Obj, NEW p \in Obj, AssignConn(o, p)
      PROVE  CalledAlive'
  BY <1>11 DEF AssignConn, Idle, Release, Destroying, members, locals, natives
<1>12. ASSUME NEW o \in Obj, NEW r \in Req, RequestStarts(o, r)
      PROVE  CalledAlive'
  BY <1>12 DEF RequestStarts, Idle, members, locals, natives
<1>13. ASSUME NEW r \in Req, RequestEnds(r)
      PROVE  CalledAlive'
  BY <1>13 DEF RequestEnds, Release, members, locals, natives
<1>14. ASSUME NEW c \in Conn, EnterLifecycle(c)
      PROVE  CalledAlive'
  BY <1>14 DEF EnterLifecycle, members, locals, natives
<1>15. ASSUME NEW c \in Conn, LeaveLifecycle(c)
      PROVE  CalledAlive'
  BY <1>15 DEF LeaveLifecycle, members, locals, natives
<1>16. ASSUME NEW c \in Conn, DestroyReturns(c)
      PROVE  CalledAlive'
  BY <1>16 DEF DestroyReturns, members, locals, natives
<1>17. CASE UNCHANGED vars
  BY <1>17 DEF vars, members, locals, natives
<1> QED
  BY <1>1, <1>2, <1>3, <1>4, <1>5, <1>6, <1>7, <1>8, <1>9,
     <1>10, <1>11, <1>12, <1>13, <1>14, <1>15, <1>16, <1>17
  DEF Next

\* Connection, registry and handlers change hands together.
LEMMA TogetherStep ==
  ASSUME OwnerInv, Captured, Together, ~ReuseMovedFrom, [Next]_vars
  PROVE  Together'
<1> USE ConstantsAssumption DEF OwnerInv, Captured, LocalsInv, TypeOK, Calls, Unshared, LiveIfOwned, Owned, Together, Agrees
<1>1. ASSUME NEW o \in Obj, Construct(o)
      PROVE  Together'
  BY <1>1 DEF Construct, members, locals, natives
<1>2. ASSUME NEW o \in Obj, ConnectFails(o)
      PROVE  Together'
  BY <1>2 DEF ConnectFails, members, locals, natives
<1>3. ASSUME NEW o \in Obj, ResetConn(o)
      PROVE  Together'
  BY <1>3 DEF ResetConn, Release, Destroying, members, locals, natives
<1>4. ASSUME NEW o \in Obj, StoreHandlers(o)
      PROVE  Together'
  BY <1>4 DEF StoreHandlers, members, locals, natives
<1>5. ASSUME NEW o \in Obj, AssignRest(o)
      PROVE  Together'
  BY <1>5 DEF AssignRest, members, locals, natives
<1>6. ASSUME NEW o \in Obj, DestroyHandlers(o)
      PROVE  Together'
  BY <1>6 DEF DestroyHandlers, Idle, members, locals, natives
<1>7. ASSUME NEW o \in Obj, DestroyConn(o)
      PROVE  Together'
  BY <1>7 DEF DestroyConn, Release, members, locals, natives
<1>8. ASSUME NEW o \in Obj, NEW h \in Handlers, ConnectStarts(o, h)
      PROVE  Together'
  BY <1>8 DEF ConnectStarts, Idle, members, locals, natives
<1>9. ASSUME NEW o \in Obj, NEW c \in Conn, ConnectSucceeds(o, c)
      PROVE  Together'
  BY <1>9 DEF ConnectSucceeds, members, locals, natives
<1>10. ASSUME NEW o \in Obj, NEW p \in Obj, MoveConstruct(o, p)
      PROVE  Together'
  BY <1>10 DEF MoveConstruct, Idle, members, locals, natives
<1>11. ASSUME NEW o \in Obj, NEW p \in Obj, AssignConn(o, p)
      PROVE  Together'
  BY <1>11 DEF AssignConn, Idle, Release, Destroying, members, locals, natives
<1>12. ASSUME NEW o \in Obj, NEW r \in Req, RequestStarts(o, r)
      PROVE  Together'
  BY <1>12 DEF RequestStarts, Idle, members, locals, natives
<1>13. ASSUME NEW r \in Req, RequestEnds(r)
      PROVE  Together'
  BY <1>13 DEF RequestEnds, Release, members, locals, natives
<1>14. ASSUME NEW c \in Conn, EnterLifecycle(c)
      PROVE  Together'
  BY <1>14 DEF EnterLifecycle, members, locals, natives
<1>15. ASSUME NEW c \in Conn, LeaveLifecycle(c)
      PROVE  Together'
  BY <1>15 DEF LeaveLifecycle, members, locals, natives
<1>16. ASSUME NEW c \in Conn, DestroyReturns(c)
      PROVE  Together'
  BY <1>16 DEF DestroyReturns, members, locals, natives
<1>17. CASE UNCHANGED vars
  BY <1>17 DEF vars, members, locals, natives
<1> QED
  BY <1>1, <1>2, <1>3, <1>4, <1>5, <1>6, <1>7, <1>8, <1>9,
     <1>10, <1>11, <1>12, <1>13, <1>14, <1>15, <1>16, <1>17
  DEF Next

-----------------------------------------------------------------------------
\* It holds before anything is connected.
LEMMA InitInv == Init => IInv
<1> SUFFICES ASSUME Init PROVE IInv
  OBVIOUS
<1> USE ConstantsAssumption DEF Init
<1>1. LocalsInv /\ Unshared
  BY DEF LocalsInv, TypeOK, Calls, Unshared
<1>2. LiveIfOwned
  BY DEF LiveIfOwned, Owned
<1>3. Captured /\ CalledAlive /\ Together
  BY DEF Captured, CalledAlive, Together, Agrees
<1> QED
  BY <1>1, <1>2, <1>3 DEF IInv, OwnerInv

\* Ownership of connections needs no assumption on the program or on nats.c.
LEMMA OwnerInvariance == Spec => [](OwnerInv /\ Captured)
<1>1. Init => OwnerInv /\ Captured
  BY InitInv DEF IInv
<1>2. OwnerInv /\ Captured /\ [Next]_vars => (OwnerInv /\ Captured)'
  <2> SUFFICES ASSUME OwnerInv, Captured, [Next]_vars PROVE OwnerInv' /\ Captured'
    OBVIOUS
  <2>1. LocalsInv'
    BY TypeStep DEF OwnerInv
  <2> QED
    BY <2>1, UnsharedStep, LiveStep, CapturedStep DEF OwnerInv
<1> QED
  BY <1>1, <1>2, PTL DEF Spec

\* A natsConnection is live exactly as long as an object, a connect() or a
\* request task owns it, for any number of them and any sequence of moves,
\* assignments, second connects and requests that outlive the object.
THEOREM ConnectionOwnership == Spec => []OwnedIffLive
<1>1. OwnerInv => OwnedIffLive
  BY LastOwner DEF OwnerInv, LiveIfOwned, OwnedIffLive
<1> QED
  BY <1>1, OwnerInvariance, PTL

\* If natsConnection_Destroy waits for running handlers, the handlers nats.c
\* knows outlive the connection and every callback it runs.
THEOREM HandlerSafety ==
  ASSUME DestroyWaits
  PROVE  Spec => []HandlersOutlive
<1>1. Init => CalledAlive
  BY InitInv DEF IInv
<1>2. OwnerInv /\ CalledAlive /\ [Next]_vars => CalledAlive'
  BY CalledAliveStep DEF OwnerInv, LocalsInv
<1>3. OwnerInv /\ Captured /\ CalledAlive => HandlersOutlive
  <2> SUFFICES ASSUME OwnerInv, Captured, CalledAlive, NEW c \in Conn,
                      native[c] # "none" \/ c \in calling
               PROVE  closure[c] # None /\ HandlersAlive(closure[c])
    BY DEF HandlersOutlive
  <2>1. native[c] # "none"
    BY DEF CalledAlive
  <2>2. CASE deleter[c] = closure[c]
    BY <2>1, <2>2 DEF Captured, HandlersAlive
  <2>3. CASE \E o \in Obj : raw[o] = c
    BY <2>1, <2>3, ConstantsAssumption DEF Captured, HandlersAlive
  <2> QED
    BY <2>1, <2>2, <2>3 DEF Captured
<1> QED
  BY <1>1, <1>2, <1>3, OwnerInvariance, PTL DEF Spec

\* If no program connects a moved-from object, an object has the registry and
\* the handlers of the connection it has.
THEOREM MembersTogether ==
  ASSUME ~ReuseMovedFrom
  PROVE  Spec => []MembersAgree
<1>1. Init => Together
  BY InitInv DEF IInv
<1>2. OwnerInv /\ Captured /\ Together /\ [Next]_vars => Together'
  BY TogetherStep
<1>3. Together => MembersAgree
  BY DEF Together, Agrees, MembersAgree
<1> QED
  BY <1>1, <1>2, <1>3, OwnerInvariance, PTL DEF Spec
-----------------------------------------------------------------------------
(* Lifecycle handlers under the contract of all handlers                   *)

\* No two natsConnections, nor one and a connect() under way, know the same
\* handlers; one that is gone knows none.
Distinct ==
  /\ \A o, p \in Obj : handlers[o] = handlers[p] => handlers[o] = None \/ o = p
  /\ \A o \in Obj, c \in Conn : pc[o] = "connecting" => closure[c] # handlers[o]
  /\ \A c \in Conn : native[c] = "none" => closure[c] = None
  /\ \A c, d \in Conn : closure[c] = closure[d] => closure[c] = None \/ c = d

\* Handlers that a connection knows are alive.
LEMMA KnownAlive ==
  ASSUME Captured, NEW c \in Conn, native[c] # "none"
  PROVE  closure[c] # None /\ HandlersAlive(closure[c])
<1>1. CASE deleter[c] = closure[c]
  BY <1>1 DEF Captured, HandlersAlive
<1>2. CASE \E o \in Obj : raw[o] = c
  BY <1>2, ConstantsAssumption DEF Captured, HandlersAlive
<1> QED
  BY <1>1, <1>2 DEF Captured

\* New handlers are built where none are.
LEMMA DistinctStep ==
  ASSUME OwnerInv, Captured, Distinct, [Next]_vars
  PROVE  Distinct'
<1>0. TypeOK /\ Calls
  BY DEF OwnerInv, LocalsInv
<1>1. CASE /\ UNCHANGED <<handlers, closure>>
           /\ \A o \in Obj : pc'[o] = "connecting" => pc[o] = "connecting"
           /\ \A c \in Conn : native'[c] = "none" => native[c] = "none"
  BY <1>1 DEF Distinct
<1>2. ASSUME NEW o \in Obj, ConnectFails(o) \/ StoreHandlers(o)
      PROVE  Distinct'
  <2>1. /\ UNCHANGED <<closure, native>>
        /\ handlers' = [handlers EXCEPT ![o] = None] /\ pc' = [pc EXCEPT ![o] = "idle"]
    BY <1>2 DEF ConnectFails, StoreHandlers, natives
  <2> QED
    BY <1>0, <2>1 DEF Distinct, TypeOK
<1>3. ASSUME NEW o \in Obj, NEW h \in Handlers, ConnectStarts(o, h)
      PROVE  Distinct'
  <2>1. /\ UNCHANGED <<closure, native>> /\ ~HandlersAlive(h)
        /\ handlers' = [handlers EXCEPT ![o] = h] /\ pc' = [pc EXCEPT ![o] = "connecting"]
    BY <1>3 DEF ConnectStarts, natives
  <2>2. \A c \in Conn : closure[c] # h
    <3> SUFFICES ASSUME NEW c \in Conn, closure[c] = h PROVE FALSE
      OBVIOUS
    <3>1. native[c] = "none"
      BY <2>1, KnownAlive
    <3> QED
      BY <3>1, ConstantsAssumption DEF Distinct
  <2>3. \A p \in Obj : handlers[p] # h
    BY <2>1 DEF HandlersAlive
  <2> QED
    BY <1>0, <2>1, <2>2, <2>3 DEF Distinct, TypeOK
<1>4. ASSUME NEW o \in Obj, NEW c \in Conn, ConnectSucceeds(o, c)
      PROVE  Distinct'
  <2>1. /\ pc[o] = "connecting" /\ UNCHANGED handlers
        /\ closure' = [closure EXCEPT ![c] = handlers[o]]
        /\ native' = [native EXCEPT ![c] = "live"]
        /\ pc' = [pc EXCEPT ![o] = "connected"]
    BY <1>4 DEF ConnectSucceeds
  <2>2. \A p \in Obj : pc'[p] = "connecting" => p # o /\ pc[p] = "connecting"
    BY <1>0, <2>1 DEF TypeOK
  <2>3. handlers[o] # None
    BY <1>0, <2>1 DEF Calls
  <2>4. \A d \in Conn : closure'[d] = IF d = c THEN handlers[o] ELSE closure[d]
    BY <1>0, <2>1 DEF TypeOK
  <2>5. \A d \in Conn : native'[d] = "none" => d # c /\ native[d] = "none"
    BY <1>0, <2>1 DEF TypeOK
  <2> QED
    BY <2>1, <2>2, <2>3, <2>4, <2>5 DEF Distinct
<1>5. ASSUME NEW c \in Conn, DestroyReturns(c)
      PROVE  Distinct'
  <2>1. /\ closure' = [closure EXCEPT ![c] = None] /\ native' = [native EXCEPT ![c] = "none"]
        /\ UNCHANGED <<handlers, pc>>
    BY <1>5 DEF DestroyReturns
  <2>2. \A o \in Obj : pc[o] = "connecting" => handlers[o] # None
    BY <1>0 DEF Calls
  <2> QED
    BY <1>0, <2>1, <2>2 DEF Distinct, TypeOK
<1>6. ASSUME NEW o \in Obj, Construct(o) \/ DestroyHandlers(o)
      PROVE  /\ UNCHANGED <<handlers, closure>>
             /\ \A p \in Obj : pc'[p] = "connecting" => pc[p] = "connecting"
             /\ \A c \in Conn : native'[c] = "none" => native[c] = "none"
  BY <1>0, <1>6 DEF Construct, DestroyHandlers, locals, natives, TypeOK
<1>7. ASSUME NEW o \in Obj, ResetConn(o) \/ DestroyConn(o)
      PROVE  /\ UNCHANGED <<handlers, closure>>
             /\ \A p \in Obj : pc'[p] = "connecting" => pc[p] = "connecting"
             /\ \A c \in Conn : native'[c] = "none" => native[c] = "none"
  BY <1>0, <1>7 DEF ResetConn, DestroyConn, Release, TypeOK
<1>8. ASSUME NEW o \in Obj, AssignRest(o)
      PROVE  /\ UNCHANGED <<handlers, closure>>
             /\ \A p \in Obj : pc'[p] = "connecting" => pc[p] = "connecting"
             /\ \A c \in Conn : native'[c] = "none" => native[c] = "none"
  BY <1>0, <1>8 DEF AssignRest, natives, TypeOK
<1>9. ASSUME NEW o \in Obj, NEW p \in Obj, MoveConstruct(o, p) \/ AssignConn(o, p)
      PROVE  /\ UNCHANGED <<handlers, closure>>
             /\ \A q \in Obj : pc'[q] = "connecting" => pc[q] = "connecting"
             /\ \A c \in Conn : native'[c] = "none" => native[c] = "none"
  <2>1. CASE MoveConstruct(o, p)
    BY <2>1 DEF MoveConstruct, locals, natives
  <2>2. CASE AssignConn(o, p)
    <3>1. /\ UNCHANGED <<handlers, closure>> /\ Release(conn_[o], o)
          /\ pc' = [pc EXCEPT ![o] = "assigning", ![p] = "source"]
      BY <2>2 DEF AssignConn
    <3>2. \A q \in Obj : pc'[q] = "connecting" => pc[q] = "connecting"
      BY <1>0, <3>1 DEF TypeOK
    <3>3. \A c \in Conn : native'[c] = "none" => native[c] = "none"
      BY <3>1 DEF Release
    <3> QED
      BY <3>1, <3>2, <3>3
  <2> QED
    BY <1>9, <2>1, <2>2
<1>10. ASSUME NEW r \in Req, RequestEnds(r) \/ \E o \in Obj : RequestStarts(o, r)
       PROVE  /\ UNCHANGED <<handlers, closure>>
              /\ \A p \in Obj : pc'[p] = "connecting" => pc[p] = "connecting"
              /\ \A c \in Conn : native'[c] = "none" => native[c] = "none"
  BY <1>0, <1>10 DEF RequestEnds, RequestStarts, Release, locals, natives, TypeOK
<1>11. ASSUME NEW c \in Conn, EnterLifecycle(c) \/ LeaveLifecycle(c)
       PROVE  UNCHANGED <<handlers, closure, pc, native>>
  BY <1>11 DEF EnterLifecycle, LeaveLifecycle, locals, natives
<1>12. CASE UNCHANGED vars
  BY <1>1, <1>12 DEF vars
<1> QED
  BY <1>1, <1>2, <1>3, <1>4, <1>5, <1>6, <1>7, <1>8, <1>9, <1>10, <1>11, <1>12 DEF Next

\* A step that starts or ends no callback, and after which at most the handlers h
\* are gone, frees h, or nothing.
LEMMA Frees ==
  ASSUME HandlersOutlive', calling' = calling,
         \A c \in calling : closure'[c] = closure[c],
         calling \subseteq Conn, NEW h,
         \A k \in Handlers : k # h => (HandlersAlive(k)' <=> HandlersAlive(k)),
         HandlersAlive(h)' => HandlersAlive(h)
  PROVE  [Contract!Next]_(Contract!vars)
<1> DEFINE held == {k \in Handlers : HandlersAlive(k)}
           inside == {k \in Handlers : \E c \in calling : closure[c] = k}
<1>1. inside' = inside
  OBVIOUS
<1>2. \A k \in inside : HandlersAlive(k)'
  <2> SUFFICES ASSUME NEW k \in Handlers, NEW c \in calling, closure[c] = k
               PROVE  HandlersAlive(k)'
    OBVIOUS
  <2>1. closure'[c] = k /\ c \in Conn /\ c \in calling'
    OBVIOUS
  <2> QED
    BY <2>1 DEF HandlersOutlive, HandlersAlive
<1>3. CASE h \in held /\ ~HandlersAlive(h)'
  <2>1. held' = held \ {h} /\ h \notin inside
    BY <1>2, <1>3
  <2> HIDE DEF held, inside
  <2>2. Contract!Free(h)
    BY <1>1, <1>3, <2>1 DEF Contract!Free, held, inside
  <2> QED
    BY <1>3, <2>2 DEF Contract!Next, held
<1>4. CASE h \notin held \/ HandlersAlive(h)'
  <2>1. held' = held
    BY <1>4
  <2> QED
    BY <1>1, <2>1 DEF Contract!vars
<1> QED
  BY <1>3, <1>4

\* ConnectStarts holds handlers, lifecycle callbacks enter and leave them, and every
\* other step lets one go at most.
LEMMA ContractStep ==
  ASSUME DestroyWaits, OwnerInv, Captured, CalledAlive, Distinct, HandlersOutlive',
         [Next]_vars
  PROVE  [Contract!Next]_(Contract!vars)
<1> DEFINE held == {k \in Handlers : HandlersAlive(k)}
           inside == {k \in Handlers : \E c \in calling : closure[c] = k}
           Same == \A k \in Handlers : HandlersAlive(k)' <=> HandlersAlive(k)
           Except(h) == /\ \A k \in Handlers :
                             k # h => (HandlersAlive(k)' <=> HandlersAlive(k))
                        /\ HandlersAlive(h)' => HandlersAlive(h)
           Quiet == calling' = calling /\ \A c \in calling : closure'[c] = closure[c]
<1>0. TypeOK /\ Calls /\ calling \subseteq Conn
  BY DEF OwnerInv, LocalsInv, TypeOK
<1>1. \A h : Quiet /\ Except(h) => [Contract!Next]_(Contract!vars)
  BY <1>0, Frees
<1>2. Quiet /\ Same => [Contract!Next]_(Contract!vars)
  <2>1. Same => \A h \in Handlers : Except(h)
    OBVIOUS
  <2>2. CASE Handlers = {}
    BY <2>2 DEF Contract!vars, Contract!Next
  <2> QED
    BY <1>1, <2>1, <2>2
<1> HIDE DEF Same, Except, Quiet
<1>3. ASSUME NEW o \in Obj,
             \/ Construct(o) \/ DestroyConn(o) \/ \E p \in Obj : AssignConn(o, p)
             \/ \E r \in Req : RequestStarts(o, r)
      PROVE  Quiet /\ Same
  BY <1>3 DEF Construct, DestroyConn, AssignConn, RequestStarts, members, locals,
     natives, HandlersAlive, Quiet, Same
<1>4. ASSUME NEW r \in Req, RequestEnds(r)
      PROVE  Quiet /\ Same
  BY <1>4 DEF RequestEnds, members, locals, HandlersAlive, Quiet, Same
<1>5. ASSUME NEW o \in Obj, ConnectFails(o)
      PROVE  Quiet /\ Except(handlers[o])
  <2>1. /\ handlers' = [handlers EXCEPT ![o] = None]
        /\ UNCHANGED <<callback_handlers_, deleter, closure, calling>>
    BY <1>5 DEF ConnectFails, members, natives
  <2>2. \A p \in Obj : handlers'[p] = IF p = o THEN None ELSE handlers[p]
    BY <1>0, <2>1 DEF TypeOK
  <2> QED
    BY <2>1, <2>2, ConstantsAssumption DEF HandlersAlive, Quiet, Except
<1>6. ASSUME NEW o \in Obj, NEW c \in Conn, ConnectSucceeds(o, c)
      PROVE  Quiet /\ Same
  <2>1. /\ native[c] = "none" /\ closure' = [closure EXCEPT ![c] = handlers[o]]
        /\ UNCHANGED <<handlers, callback_handlers_, deleter, calling>>
    BY <1>6 DEF ConnectSucceeds, members
  <2>2. c \notin calling
    BY <2>1 DEF CalledAlive
  <2> QED
    BY <1>0, <2>1, <2>2 DEF HandlersAlive, Quiet, Same, TypeOK
<1>7. ASSUME NEW o \in Obj, ResetConn(o)
      PROVE  Quiet /\ Except(deleter[raw[o]])
  <2>1. /\ raw[o] \in Conn /\ deleter' = [deleter EXCEPT ![raw[o]] = handlers[o]]
        /\ UNCHANGED <<handlers, callback_handlers_, closure, calling>>
    BY <1>0, <1>7 DEF ResetConn, Calls, TypeOK
  <2>2. \A c \in Conn : deleter'[c] = IF c = raw[o] THEN handlers[o] ELSE deleter[c]
    BY <1>0, <2>1 DEF TypeOK
  <2> QED
    BY <2>1, <2>2 DEF HandlersAlive, Quiet, Except
<1>8. ASSUME NEW o \in Obj, StoreHandlers(o)
      PROVE  Quiet /\ Except(callback_handlers_[o])
  <2>1. /\ callback_handlers_' = [callback_handlers_ EXCEPT ![o] = handlers[o]]
        /\ handlers' = [handlers EXCEPT ![o] = None]
        /\ UNCHANGED <<deleter, closure, calling>>
    BY <1>8 DEF StoreHandlers, natives
  <2>2. \A p \in Obj :
          /\ handlers'[p] = IF p = o THEN None ELSE handlers[p]
          /\ callback_handlers_'[p] = IF p = o THEN handlers[o] ELSE callback_handlers_[p]
    BY <1>0, <2>1 DEF TypeOK
  <2> QED
    BY <2>1, <2>2, ConstantsAssumption DEF HandlersAlive, Quiet, Except
<1>9. ASSUME NEW o \in Obj, AssignRest(o)
      PROVE  Quiet /\ Except(callback_handlers_[o])
  <2> DEFINE p == from[o]
  <2>1. /\ callback_handlers_' = [callback_handlers_ EXCEPT ![o] = callback_handlers_[p],
                                                            ![p] = None]
        /\ UNCHANGED <<handlers, deleter, closure, calling>>
    BY <1>9 DEF AssignRest, natives
  <2>2. p \in Obj /\ p # o
    BY <1>0, <1>9 DEF AssignRest, Calls, TypeOK
  <2> HIDE DEF p
  <2>3. \A q \in Obj :
          callback_handlers_'[q] = IF q = p THEN None
                                   ELSE IF q = o THEN callback_handlers_[p]
                                   ELSE callback_handlers_[q]
    BY <1>0, <2>1, <2>2 DEF TypeOK
  <2> QED
    BY <2>1, <2>2, <2>3, ConstantsAssumption DEF HandlersAlive, Quiet, Except
<1>10. ASSUME NEW o \in Obj, DestroyHandlers(o)
       PROVE  Quiet /\ Except(callback_handlers_[o])
  <2>1. /\ callback_handlers_' = [callback_handlers_ EXCEPT ![o] = None]
        /\ UNCHANGED <<handlers, deleter, closure, calling>>
    BY <1>10 DEF DestroyHandlers, natives
  <2>2. \A p \in Obj : callback_handlers_'[p] = IF p = o THEN None ELSE callback_handlers_[p]
    BY <1>0, <2>1 DEF TypeOK
  <2> QED
    BY <2>1, <2>2, ConstantsAssumption DEF HandlersAlive, Quiet, Except
<1>11. ASSUME NEW o \in Obj, NEW p \in Obj, MoveConstruct(o, p)
       PROVE  Quiet /\ Same
  <2>1. /\ callback_handlers_' = [callback_handlers_ EXCEPT ![o] = callback_handlers_[p],
                                                            ![p] = None]
        /\ UNCHANGED <<handlers, deleter, closure, calling>>
    BY <1>11 DEF MoveConstruct, locals, natives
  <2>2. p # o /\ callback_handlers_[o] = None
    BY <1>0, <1>11 DEF MoveConstruct, Idle, TypeOK
  <2>3. \A q \in Obj :
          callback_handlers_'[q] = IF q = p THEN None
                                   ELSE IF q = o THEN callback_handlers_[p]
                                   ELSE callback_handlers_[q]
    BY <1>0, <2>1, <2>2 DEF TypeOK
  <2> QED
    BY <2>1, <2>2, <2>3, ConstantsAssumption DEF HandlersAlive, Quiet, Same
<1>12. ASSUME NEW c \in Conn, DestroyReturns(c)
       PROVE  Quiet /\ Except(deleter[c])
  <2>1. /\ c \notin calling /\ deleter' = [deleter EXCEPT ![c] = None]
        /\ closure' = [closure EXCEPT ![c] = None]
        /\ UNCHANGED <<handlers, callback_handlers_, calling>>
    BY <1>12 DEF DestroyReturns, members
  <2>2. \A d \in Conn : deleter'[d] = IF d = c THEN None ELSE deleter[d]
    BY <1>0, <2>1 DEF TypeOK
  <2>3. Quiet
    BY <1>0, <2>1 DEF Quiet, TypeOK
  <2> QED
    BY <2>1, <2>2, <2>3, ConstantsAssumption DEF HandlersAlive, Except
<1>13. ASSUME NEW o \in Obj, NEW h \in Handlers, ConnectStarts(o, h)
       PROVE  Contract!Next
  <2>1. /\ ~HandlersAlive(h) /\ handlers' = [handlers EXCEPT ![o] = h] /\ handlers[o] = None
        /\ UNCHANGED <<callback_handlers_, deleter, closure, calling>>
    BY <1>0, <1>13 DEF ConnectStarts, Idle, members, natives, Calls
  <2>2. \A p \in Obj : handlers'[p] = IF p = o THEN h ELSE handlers[p]
    BY <1>0, <2>1 DEF TypeOK
  <2>3. \A k \in Handlers : HandlersAlive(k)' <=> HandlersAlive(k) \/ k = h
    BY <2>1, <2>2, ConstantsAssumption DEF HandlersAlive
  <2> HIDE DEF held
  <2>4. h \notin held /\ held' = held \cup {h}
    BY <2>1, <2>3 DEF held
  <2>5. inside' = inside
    BY <2>1
  <2>6. Contract!Hold(h)
    BY <2>4, <2>5 DEF Contract!Hold, held
  <2> QED
    BY <2>6 DEF Contract!Next
<1>14. ASSUME NEW c \in Conn, EnterLifecycle(c)
       PROVE  Contract!Next
  <2>0. PICK h \in Handlers : h = closure[c]
    BY <1>0, <1>14, KnownAlive DEF EnterLifecycle, TypeOK
  <2>1. /\ native[c] # "none" /\ c \notin calling /\ calling' = calling \cup {c}
        /\ UNCHANGED <<handlers, callback_handlers_, deleter, closure>>
    BY <1>14 DEF EnterLifecycle, members, locals, natives
  <2>2. h # None /\ HandlersAlive(h)
    BY <2>0, <2>1, KnownAlive
  <2>3. held' = held
    BY <2>1 DEF HandlersAlive
  <2>4. \A d \in calling : closure[d] # h
    BY <1>0, <2>0, <2>1, <2>2 DEF Distinct
  <2>5. h \notin inside /\ inside' = inside \cup {h}
    BY <2>0, <2>1, <2>4
  <2>6. Contract!Enter(h)
    BY <2>2, <2>3, <2>5 DEF Contract!Enter
  <2> QED
    BY <2>6 DEF Contract!Next
<1>15. ASSUME NEW c \in Conn, LeaveLifecycle(c)
       PROVE  Contract!Next
  <2>0. PICK h \in Handlers : h = closure[c]
    BY <1>0, <1>15, KnownAlive DEF LeaveLifecycle, CalledAlive, TypeOK
  <2>1. /\ c \in calling /\ calling' = calling \ {c}
        /\ UNCHANGED <<handlers, callback_handlers_, deleter, closure>>
    BY <1>15 DEF LeaveLifecycle, members, locals, natives
  <2>2. h # None
    BY <2>0, ConstantsAssumption
  <2>3. held' = held
    BY <2>1 DEF HandlersAlive
  <2>4. \A d \in calling : closure[d] = h => d = c
    BY <1>0, <2>0, <2>1, <2>2 DEF Distinct
  <2>5. h \in inside /\ inside' = inside \ {h}
    BY <2>0, <2>1, <2>4
  <2>6. Contract!Return(h)
    BY <2>2, <2>3, <2>5 DEF Contract!Return
  <2> QED
    BY <2>6 DEF Contract!Next
<1>16. CASE UNCHANGED vars
  BY <1>16 DEF vars, HandlersAlive, Contract!vars
<1> HIDE DEF held, inside
<1>17. ASSUME NEW o \in Obj,
              \/ Construct(o) \/ ConnectFails(o) \/ ResetConn(o) \/ StoreHandlers(o)
              \/ AssignRest(o) \/ DestroyHandlers(o) \/ DestroyConn(o)
       PROVE  Quiet /\ (Same \/ \E h : Except(h))
  BY <1>3, <1>5, <1>7, <1>8, <1>9, <1>10, <1>17
<1>18. ASSUME NEW o \in Obj, NEW c \in Conn, ConnectSucceeds(o, c)
       PROVE  Quiet /\ (Same \/ \E h : Except(h))
  BY <1>6, <1>18
<1>19. ASSUME NEW o \in Obj, NEW p \in Obj, MoveConstruct(o, p) \/ AssignConn(o, p)
       PROVE  Quiet /\ (Same \/ \E h : Except(h))
  BY <1>3, <1>11, <1>19
<1>20. ASSUME NEW r \in Req, RequestEnds(r) \/ \E o \in Obj : RequestStarts(o, r)
       PROVE  Quiet /\ (Same \/ \E h : Except(h))
  BY <1>3, <1>4, <1>20
<1>21. ASSUME NEW c \in Conn, DestroyReturns(c)
       PROVE  Quiet /\ (Same \/ \E h : Except(h))
  BY <1>12, <1>21
<1>22. Quiet /\ (Same \/ \E h : Except(h)) => [Contract!Next]_(Contract!vars)
  BY <1>1, <1>2
<1> QED
  BY <1>13, <1>14, <1>15, <1>16, <1>17, <1>18, <1>19, <1>20, <1>21, <1>22 DEF Next

\* Under the assumption of HandlerSafety lifecycle handlers are kept by the same
\* contract as those of subscriptions.
THEOREM Refinement ==
  ASSUME DestroyWaits
  PROVE  Spec => KeepsContract
<1>1. Init => CalledAlive /\ Distinct /\ Contract!Init
  <2> SUFFICES ASSUME Init PROVE CalledAlive /\ Distinct /\ Contract!Init
    OBVIOUS
  <2>1. \A h \in Handlers : ~HandlersAlive(h)
    BY ConstantsAssumption DEF Init, HandlersAlive
  <2>2. CalledAlive /\ Distinct
    BY DEF Init, CalledAlive, Distinct
  <2>3. Contract!Init
    BY <2>1 DEF Init, Contract!Init
  <2> QED
    BY <2>2, <2>3
<1>2. OwnerInv /\ Captured /\ CalledAlive /\ Distinct /\ [Next]_vars
      => CalledAlive' /\ Distinct'
  BY CalledAliveStep, DistinctStep DEF OwnerInv, LocalsInv
<1>3. OwnerInv /\ Captured /\ CalledAlive /\ Distinct /\ [Next]_vars /\ HandlersOutlive'
      => [Contract!Next]_(Contract!vars)
  BY ContractStep
<1> QED
  BY <1>1, <1>2, <1>3, OwnerInvariance, HandlerSafety, PTL
  DEF Spec, KeepsContract, Contract!Spec
-----------------------------------------------------------------------------
(* What calls wait for                                                     *)

\* A connect() or operator= that does not go on waits for natsConnection_Destroy,
\* which has begun, and an object that is moved from for the assignment that
\* moves it: no call waits for another that waits for it, or for nothing.
WaitsForDestroy ==
  \A o \in Obj :
    /\ old[o] # None => /\ pc[o] \in {"storing", "assigning"}
                        /\ old[o] \in Conn /\ native[old[o]] = "dying"
    /\ pc[o] = "source" =>
         \E p \in Obj : from[p] = o /\ p # o /\ pc[p] = "assigning"

\* The connection that connect() or operator= lets go, if it was the last owner.
LEMMA LetGo ==
  ASSUME TypeOK, NEW o \in Obj, NEW c, Release(c, o)
  PROVE  /\ Destroying(c, o) # None =>
              Destroying(c, o) \in Conn /\ native'[Destroying(c, o)] = "dying"
         /\ \A d \in Conn : native[d] = "dying" => native'[d] = "dying"
<1>1. \A d \in Conn : native'[d] = IF d = c /\ Owners(c) = {o} THEN "dying" ELSE native[d]
  BY DEF Release
<1> QED
  BY <1>1 DEF Destroying

LEMMA WaitStep ==
  ASSUME TypeOK, Calls, WaitsForDestroy, [Next]_vars
  PROVE  WaitsForDestroy'
<1> DEFINE Waits(o) == old[o] # None => /\ pc[o] \in {"storing", "assigning"}
                                        /\ old[o] \in Conn /\ native[old[o]] = "dying"
           Moved(o) == pc[o] = "source" =>
                         \E p \in Obj : from[p] = o /\ p # o /\ pc[p] = "assigning"
           Stay == \A d \in Conn : native[d] = "dying" => native'[d] = "dying"
<1> SUFFICES ASSUME NEW o \in Obj PROVE Waits(o)' /\ Moved(o)'
  BY DEF WaitsForDestroy
<1>1. CASE UNCHANGED <<old, pc, from>> /\ Stay
  BY <1>1 DEF WaitsForDestroy
<1>2. ASSUME NEW u \in Obj, NEW a, pc' = [pc EXCEPT ![u] = a], UNCHANGED <<old, from>>,
             Stay, pc[u] \notin {"source", "assigning"}, a # "source", old[u] = None
      PROVE  Waits(o)' /\ Moved(o)'
  <2>1. \A p \in Obj : pc'[p] = IF p = u THEN a ELSE pc[p]
    BY <1>2 DEF TypeOK
  <2>2. Waits(o)'
    BY <1>2, <2>1 DEF WaitsForDestroy
  <2>3. Moved(o)'
    BY <1>2, <2>1 DEF WaitsForDestroy
  <2> QED
    BY <2>2, <2>3
<1>3. ASSUME NEW u \in Obj, ResetConn(u)
      PROVE  Waits(o)' /\ Moved(o)'
  <2>1. /\ pc[u] = "connected" /\ Release(conn_[u], u)
        /\ old' = [old EXCEPT ![u] = Destroying(conn_[u], u)]
        /\ pc' = [pc EXCEPT ![u] = "storing"] /\ UNCHANGED from
    BY <1>3 DEF ResetConn
  <2>2. Stay /\ (Destroying(conn_[u], u) # None =>
                   /\ Destroying(conn_[u], u) \in Conn
                   /\ native'[Destroying(conn_[u], u)] = "dying")
    BY <2>1, LetGo
  <2>3. \A p \in Obj : /\ pc'[p] = IF p = u THEN "storing" ELSE pc[p]
                       /\ old'[p] = IF p = u THEN Destroying(conn_[u], u) ELSE old[p]
    BY <2>1 DEF TypeOK
  <2>4. Waits(o)'
    BY <2>1, <2>2, <2>3 DEF WaitsForDestroy
  <2>5. Moved(o)'
    BY <2>1, <2>3 DEF WaitsForDestroy
  <2> QED
    BY <2>4, <2>5
<1>4. ASSUME NEW u \in Obj, NEW s \in Obj, AssignConn(u, s)
      PROVE  Waits(o)' /\ Moved(o)'
  <2>1. /\ pc[u] = "idle" /\ pc[s] = "idle" /\ u # s /\ Release(conn_[u], u)
        /\ old' = [old EXCEPT ![u] = Destroying(conn_[u], u)]
        /\ from' = [from EXCEPT ![u] = s]
        /\ pc' = [pc EXCEPT ![u] = "assigning", ![s] = "source"]
    BY <1>4 DEF AssignConn, Idle
  <2>2. Stay /\ (Destroying(conn_[u], u) # None =>
                   /\ Destroying(conn_[u], u) \in Conn
                   /\ native'[Destroying(conn_[u], u)] = "dying")
    BY <2>1, LetGo
  <2>3. /\ old'[u] = Destroying(conn_[u], u) /\ pc'[u] = "assigning" /\ from'[u] = s
        /\ pc'[s] = "source" /\ old'[s] = old[s]
        /\ \A p \in Obj \ {u, s} : pc'[p] = pc[p] /\ old'[p] = old[p] /\ from'[p] = from[p]
    BY <2>1 DEF TypeOK
  <2>4. old[s] = None /\ from[u] = None
    BY <2>1 DEF WaitsForDestroy, Calls
  <2>5. Waits(o)'
    <3>1. CASE o = u
      BY <2>2, <2>3, <3>1
    <3>2. CASE o = s
      BY <2>3, <2>4, <3>2
    <3>3. CASE o \notin {u, s}
      BY <2>2, <2>3, <3>3 DEF WaitsForDestroy
    <3> QED
      BY <3>1, <3>2, <3>3
  <2>6. Moved(o)'
    <3>1. CASE o = u
      BY <2>3, <3>1
    <3>2. CASE o = s
      BY <2>1, <2>3, <3>2
    <3>3. ASSUME o \notin {u, s}, pc'[o] = "source"
          PROVE  \E p \in Obj : from'[p] = o /\ p # o /\ pc'[p] = "assigning"
      <4>1. PICK p \in Obj : from[p] = o /\ p # o /\ pc[p] = "assigning"
        BY <2>3, <3>3 DEF WaitsForDestroy
      <4>2. p \notin {u, s}
        BY <2>1, <4>1
      <4> QED
        BY <2>3, <4>1, <4>2
    <3> QED
      BY <3>1, <3>2, <3>3
  <2> QED
    BY <2>5, <2>6
<1>5. ASSUME NEW u \in Obj, AssignRest(u)
      PROVE  Waits(o)' /\ Moved(o)'
  <2>1. /\ pc[u] = "assigning" /\ old[u] = None /\ UNCHANGED <<old, native>>
        /\ from' = [from EXCEPT ![u] = None]
        /\ pc' = [pc EXCEPT ![u] = "idle", ![from[u]] = "idle"]
    BY <1>5 DEF AssignRest, natives
  <2>2. PICK s \in Obj : s = from[u] /\ s # u /\ pc[s] = "source"
    BY <2>1 DEF Calls, TypeOK
  <2>3. /\ pc'[u] = "idle" /\ pc'[s] = "idle"
        /\ \A p \in Obj \ {u, s} : pc'[p] = pc[p] /\ from'[p] = from[p]
    BY <2>1, <2>2 DEF TypeOK
  <2>4. old[s] = None
    BY <2>2 DEF WaitsForDestroy
  <2>5. Waits(o)'
    <3>1. CASE o \in {u, s}
      BY <2>1, <2>4, <3>1
    <3>2. CASE o \notin {u, s}
      BY <2>1, <2>3, <3>2 DEF WaitsForDestroy
    <3> QED
      BY <3>1, <3>2
  <2>6. ASSUME pc'[o] = "source"
        PROVE  \E p \in Obj : from'[p] = o /\ p # o /\ pc'[p] = "assigning"
    <3>1. o \notin {u, s}
      BY <2>3, <2>6
    <3>2. PICK p \in Obj : from[p] = o /\ p # o /\ pc[p] = "assigning"
      BY <2>3, <2>6, <3>1 DEF WaitsForDestroy
    <3>3. p \notin {u, s}
      BY <2>2, <3>1, <3>2
    <3> QED
      BY <2>3, <3>2, <3>3
  <2> QED
    BY <2>5, <2>6
<1>6. ASSUME NEW c \in Conn, DestroyReturns(c)
      PROVE  Waits(o)' /\ Moved(o)'
  <2>1. /\ UNCHANGED <<pc, from>> /\ native' = [native EXCEPT ![c] = "none"]
        /\ old' = [p \in Obj |-> IF old[p] = c THEN None ELSE old[p]]
    BY <1>6 DEF DestroyReturns
  <2> QED
    BY <2>1 DEF WaitsForDestroy, TypeOK
<1>7. ASSUME NEW u \in Obj, ConnectFails(u) \/ StoreHandlers(u) \/ DestroyHandlers(u)
      PROVE  Waits(o)' /\ Moved(o)'
  <2>1. /\ UNCHANGED <<old, from, native>> /\ pc[u] \notin {"source", "assigning"}
        /\ pc' = [pc EXCEPT ![u] = "idle"] \/ pc' = [pc EXCEPT ![u] = "destroying"]
    BY <1>7 DEF ConnectFails, StoreHandlers, DestroyHandlers, Idle, natives
  <2>2. old[u] = None
    BY <1>7 DEF ConnectFails, StoreHandlers, DestroyHandlers, Idle, WaitsForDestroy
  <2> QED
    BY <1>2, <2>1, <2>2
<1>8. ASSUME NEW u \in Obj, NEW h \in Handlers, ConnectStarts(u, h)
      PROVE  Waits(o)' /\ Moved(o)'
  <2>1. old[u] = None
    BY <1>8 DEF ConnectStarts, Idle, WaitsForDestroy
  <2> QED
    BY <1>2, <1>8, <2>1 DEF ConnectStarts, Idle, natives
<1>9. ASSUME NEW u \in Obj, NEW c \in Conn, ConnectSucceeds(u, c)
      PROVE  Waits(o)' /\ Moved(o)'
  <2>1. old[u] = None
    BY <1>9 DEF ConnectSucceeds, WaitsForDestroy
  <2>2. /\ Stay /\ UNCHANGED <<old, from>> /\ pc[u] = "connecting"
        /\ pc' = [pc EXCEPT ![u] = "connected"]
    BY <1>9 DEF ConnectSucceeds, TypeOK
  <2> QED
    BY <1>2, <2>1, <2>2
<1>10. ASSUME NEW u \in Obj, DestroyConn(u)
       PROVE  Waits(o)' /\ Moved(o)'
  <2>1. old[u] = None
    BY <1>10 DEF DestroyConn, WaitsForDestroy
  <2>2. Stay
    BY <1>10, LetGo DEF DestroyConn
  <2> QED
    BY <1>2, <1>10, <2>1, <2>2 DEF DestroyConn
<1>11. ASSUME NEW r \in Req, RequestEnds(r)
       PROVE  UNCHANGED <<old, pc, from>> /\ Stay
  BY <1>11 DEF RequestEnds, Release, locals
<1>12. ASSUME NEW u \in Obj, \/ Construct(u) \/ \E p \in Obj : MoveConstruct(u, p)
                             \/ \E r \in Req : RequestStarts(u, r)
       PROVE  UNCHANGED <<old, pc, from>> /\ Stay
  BY <1>12 DEF Construct, MoveConstruct, RequestStarts, locals, natives
<1>13. ASSUME NEW c \in Conn, EnterLifecycle(c) \/ LeaveLifecycle(c)
       PROVE  UNCHANGED <<old, pc, from>> /\ Stay
  BY <1>13 DEF EnterLifecycle, LeaveLifecycle, locals, natives
<1>14. CASE UNCHANGED vars
  BY <1>1, <1>14 DEF vars
<1> HIDE DEF Waits, Moved, Stay
<1> QED
  BY <1>1, <1>3, <1>4, <1>5, <1>6, <1>7, <1>8, <1>9, <1>10, <1>11, <1>12, <1>13, <1>14
  DEF Next

\* In every state of any program each call that has not returned is at a step of
\* its own, or waits for natsConnection_Destroy, directly or through the assignment
\* its object is the source of.
THEOREM NoCircularWait == Spec => []WaitsForDestroy
<1>1. Init => WaitsForDestroy
  BY DEF Init, WaitsForDestroy
<1>2. TypeOK /\ Calls /\ WaitsForDestroy /\ [Next]_vars => WaitsForDestroy'
  BY WaitStep
<1>3. OwnerInv => TypeOK /\ Calls
  BY DEF OwnerInv, LocalsInv
<1> QED
  BY <1>1, <1>2, <1>3, OwnerInvariance, PTL DEF Spec
=============================================================================
