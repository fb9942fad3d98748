----------------------- MODULE CallbackRegistryProofs -----------------------
(***************************************************************************)
(* Who owns a native subscription and the token of its handler, and why    *)
(* the dispatcher never finds the handler gone: proofs for any number of   *)
(* subscription objects, registrations and requests.                       *)
(***************************************************************************)
EXTENDS CallbackRegistry, TLAPS

\* What the locals of a call under way stand for.  A registration has inserted
\* its token and owns it alone; a destruction in progress still holds the key
\* of the handle it destroyed; only it keeps a key without a handle.
CallLocals ==
  /\ \A v \in Var : pc[v] \in Registering =>
       /\ sub[v] = None /\ on_release[v] = None
       /\ pc[v] = "subscribed" <=> nsub[local[v]] # "none"
       /\ local[v] \in callbacks /\ object = "alive"
  /\ \A v \in Var : pc[v] = "reset" =>
       /\ sub[v] = None /\ nsub[local[v]] = "none"
       /\ on_release[v] \in {None, local[v]}
  /\ \A v \in Var : pc[v] = "unsubscribed" => sub[v] # None
  /\ \A v \in Var : pc[v] = "assigning" => on_release[v] = None
  /\ \A v \in Var : pc[v] # "reset" /\ sub[v] = None => on_release[v] = None
  /\ \A v, w \in Var : v # w /\ local[v] # None =>
       /\ local[v] # local[w] /\ local[v] # sub[w]
       /\ local[v] # on_release[w]

OwnershipInv == TypeOK /\ CallLocals /\ OneOwner /\ NoTokenLeak

\* A delivering subscription is paired with the key of its own token; ...
Paired ==
  \A v \in Var : sub[v] # None /\ CanDeliver(sub[v]) => on_release[v] = sub[v]

\* ... a key held by an object, and an abandoned one, is in the registry while
\* there is one; ...
KeysHeld ==
  object = "alive" => /\ \A v \in Var : on_release[v] \in callbacks \cup {None}
                      /\ abandoned \subseteq callbacks

\* ... no object holds anything of a connection that is gone; ...
GoneEmpty ==
  object # "alive" => \A v \in Var : sub[v] = None /\ on_release[v] = None

\* ... and the token of a running handler has an owner that did not release it,
\* is about to have one, or is abandoned.
RunningHeld ==
  DestroyWaits => \A k \in running :
    \/ k \in abandoned
    \/ \E v \in Var : on_release[v] = k \/ (pc[v] = "subscribed" /\ local[v] = k)

AssignsQuiet == \A v \in Var : pc[v] = "assigning" => Quiet(v)

DeliveryInv == Paired /\ KeysHeld /\ GoneEmpty /\ RunningHeld /\ AssignsQuiet

-----------------------------------------------------------------------------
\* Every step keeps the types, and the locks of a move-assignment: no two
\* assignments under way name the same source.
LEMMA TypeStep == TypeOK /\ [Next]_vars => TypeOK'
<1> SUFFICES ASSUME TypeOK, [Next]_vars PROVE TypeOK'
  OBVIOUS
<1> USE ConstantsAssumption DEF TypeOK, Registering, objectVars, connVars
<1>1. ASSUME NEW v \in Var, NEW k \in Id, Insert(v, k)
      PROVE  TypeOK'
  BY <1>1 DEF Insert, Fresh, Empty
<1>2. ASSUME NEW v \in Var, NEW k \in Id, SubscribeSync(v, k)
      PROVE  TypeOK'
  BY <1>2 DEF SubscribeSync, Fresh, Empty
<1>3. ASSUME NEW v \in Var, SubscribeSucceeds(v)
      PROVE  TypeOK'
  BY <1>3 DEF SubscribeSucceeds
<1>3a. ASSUME NEW v \in Var, ReturnSubscription(v)
      PROVE  TypeOK'
  BY <1>3a DEF ReturnSubscription
<1>3b. ASSUME NEW v \in Var, ReturnThrows(v)
      PROVE  TypeOK'
  BY <1>3b DEF ReturnThrows
<1>4. ASSUME NEW v \in Var, SubscribeFails(v)
      PROVE  TypeOK'
  BY <1>4 DEF SubscribeFails
<1>5. ASSUME NEW v \in Var, EraseFailed(v)
      PROVE  TypeOK'
  BY <1>5 DEF EraseFailed
<1>6. ASSUME NEW v \in Var, Unsubscribe(v)
      PROVE  TypeOK'
  BY <1>6 DEF Unsubscribe
<1>7. ASSUME NEW v \in Var, ResetHandle(v)
      PROVE  TypeOK'
  BY <1>7 DEF ResetHandle
<1>8. ASSUME NEW v \in Var, ReleaseCallback(v)
      PROVE  TypeOK'
  BY <1>8 DEF ReleaseCallback
<1>9. ASSUME NEW v \in Var, AssignHandle(v)
      PROVE  TypeOK'
  BY <1>9 DEF AssignHandle
<1>10. ASSUME NEW v \in Var, Drain(v)
      PROVE  TypeOK'
  BY <1>10 DEF Drain
<1>11. ASSUME NEW v \in Var, NEW w \in Var, MoveConstruct(v, w)
      PROVE  TypeOK'
  BY <1>11 DEF MoveConstruct, Empty
<1>12. ASSUME NEW v \in Var, NEW w \in Var, AssignRelease(v, w)
      PROVE  TypeOK'
  BY <1>12 DEF AssignRelease
<1>13. ASSUME NEW k \in Id, EnterHandler(k)
      PROVE  TypeOK'
  BY <1>13 DEF EnterHandler, CanDeliver, Delivering
<1>14. ASSUME NEW k \in Id, LeaveHandler(k)
      PROVE  TypeOK'
  BY <1>14 DEF LeaveHandler
<1>15. ASSUME NEW k \in Id, FinishDrain(k)
      PROVE  TypeOK'
  BY <1>15 DEF FinishDrain
<1>16. ASSUME NEW r \in Req, RequestStarts(r)
      PROVE  TypeOK'
  BY <1>16 DEF RequestStarts
<1>17. ASSUME NEW r \in Req, RequestEnds(r)
      PROVE  TypeOK'
  BY <1>17 DEF RequestEnds, DropRef, CloseAll
<1>18. CASE Close
  BY <1>18 DEF Close, CloseAll
<1>19. CASE DrainConnection
  BY <1>19 DEF DrainConnection
<1>20. CASE ConnectionDrained
  BY <1>20 DEF ConnectionDrained, CloseAll
<1>21. CASE DropCallbackState
  BY <1>21 DEF DropCallbackState
<1>22. CASE DropConnection
  BY <1>22 DEF DropConnection, DropRef, CloseAll
<1>23. CASE UNCHANGED vars
  BY <1>23 DEF vars, objectVars, connVars
<1> QED
  BY <1>1, <1>2, <1>3, <1>3a, <1>3b, <1>4, <1>5, <1>6, <1>7, <1>8, <1>9, <1>10, <1>11,
     <1>12, <1>13, <1>14, <1>15, <1>16, <1>17, <1>18, <1>19, <1>20, <1>21, <1>22, <1>23
    DEF Next

\* Type correctness of the registry, the objects and the native state.
THEOREM TypeCorrect == Spec => []TypeOK
<1>1. Init => TypeOK
  BY ConstantsAssumption DEF Init, TypeOK, Registering
<1> QED
  BY <1>1, TypeStep, PTL DEF Spec

\* The locals of a call mean the same after every step.
LEMMA CallLocalsStep == OwnershipInv /\ [Next]_vars => CallLocals'
<1> SUFFICES ASSUME OwnershipInv, [Next]_vars PROVE CallLocals'
  OBVIOUS
<1> USE ConstantsAssumption DEF OwnershipInv, TypeOK, CallLocals, OneOwner,
      NoTokenLeak, Registering, Delivering, objectVars, connVars
<1>1. ASSUME NEW v \in Var, NEW k \in Id, Insert(v, k)
      PROVE  CallLocals'
  BY <1>1 DEF Insert, Fresh, Empty
<1>2. ASSUME NEW v \in Var, NEW k \in Id, SubscribeSync(v, k)
      PROVE  CallLocals'
  BY <1>2 DEF SubscribeSync, Fresh, Empty
<1>3. ASSUME NEW v \in Var, SubscribeSucceeds(v)
      PROVE  CallLocals'
  BY <1>3 DEF SubscribeSucceeds
<1>3a. ASSUME NEW v \in Var, ReturnSubscription(v)
      PROVE  CallLocals'
  BY <1>3a DEF ReturnSubscription
<1>3b. ASSUME NEW v \in Var, ReturnThrows(v)
      PROVE  CallLocals'
  BY <1>3b DEF ReturnThrows
<1>4. ASSUME NEW v \in Var, SubscribeFails(v)
      PROVE  CallLocals'
  BY <1>4 DEF SubscribeFails
<1>5. ASSUME NEW v \in Var, EraseFailed(v)
      PROVE  CallLocals'
  BY <1>5 DEF EraseFailed
<1>6. ASSUME NEW v \in Var, Unsubscribe(v)
      PROVE  CallLocals'
  BY <1>6 DEF Unsubscribe
<1>7. ASSUME NEW v \in Var, ResetHandle(v)
      PROVE  CallLocals'
  BY <1>7 DEF ResetHandle
<1>8. ASSUME NEW v \in Var, ReleaseCallback(v)
      PROVE  CallLocals'
  BY <1>8 DEF ReleaseCallback
<1>9. ASSUME NEW v \in Var, AssignHandle(v)
      PROVE  CallLocals'
  <2>1. /\ pc[v] = "assigning" /\ v # from[v] /\ on_release[v] = None
        /\ UNCHANGED <<local, callbacks, connVars>>
        /\ nsub' = [k \in Id |-> IF k = sub[v] THEN "none" ELSE nsub[k]]
    BY <1>9 DEF AssignHandle
  <2>2. PICK w \in Var : w = from[v] /\ v # w /\ pc[w] = "source"
    BY <1>9 DEF AssignHandle
  <2>3. \A u \in Var \ {v, w} : /\ sub'[u] = sub[u] /\ on_release'[u] = on_release[u]
                                /\ pc'[u] = pc[u]
    BY <1>9, <2>2 DEF AssignHandle
  <2>4. /\ sub'[v] = sub[w] /\ on_release'[v] = on_release[w] /\ pc'[v] = "idle"
        /\ sub'[w] = None /\ on_release'[w] = None /\ pc'[w] = "idle"
    BY <1>9, <2>2 DEF AssignHandle
  <2>5. \A u \in Var : local[u] # None /\ u # v => nsub'[local[u]] = nsub[local[u]]
    BY <2>1
  <2> QED
    BY <2>1, <2>2, <2>3, <2>4, <2>5
<1>10. ASSUME NEW v \in Var, Drain(v)
      PROVE  CallLocals'
  BY <1>10 DEF Drain
<1>11. ASSUME NEW v \in Var, NEW w \in Var, MoveConstruct(v, w)
      PROVE  CallLocals'
  BY <1>11 DEF MoveConstruct, Empty
<1>12. ASSUME NEW v \in Var, NEW w \in Var, AssignRelease(v, w)
      PROVE  CallLocals'
  BY <1>12 DEF AssignRelease
<1>13. ASSUME NEW k \in Id, EnterHandler(k)
      PROVE  CallLocals'
  BY <1>13 DEF EnterHandler, CanDeliver
<1>14. ASSUME NEW k \in Id, LeaveHandler(k)
      PROVE  CallLocals'
  BY <1>14 DEF LeaveHandler
<1>15. ASSUME NEW k \in Id, FinishDrain(k)
      PROVE  CallLocals'
  BY <1>15 DEF FinishDrain
<1>16. ASSUME NEW r \in Req, RequestStarts(r)
      PROVE  CallLocals'
  BY <1>16 DEF RequestStarts
<1>17. ASSUME NEW r \in Req, RequestEnds(r)
      PROVE  CallLocals'
  BY <1>17 DEF RequestEnds, DropRef, CloseAll
<1>18. CASE Close
  BY <1>18 DEF Close, CloseAll
<1>19. CASE DrainConnection
  BY <1>19 DEF DrainConnection
<1>20. CASE ConnectionDrained
  BY <1>20 DEF ConnectionDrained, CloseAll
<1>21. CASE DropCallbackState
  BY <1>21 DEF DropCallbackState
<1>22. CASE DropConnection
  BY <1>22 DEF DropConnection, DropRef, CloseAll
<1>23. CASE UNCHANGED vars
  BY <1>23 DEF vars, objectVars, connVars
<1> QED
  BY <1>1, <1>2, <1>3, <1>3a, <1>3b, <1>4, <1>5, <1>6, <1>7, <1>8, <1>9, <1>10, <1>11,
     <1>12, <1>13, <1>14, <1>15, <1>16, <1>17, <1>18, <1>19, <1>20, <1>21, <1>22, <1>23
    DEF Next

\* Every step keeps one owner per native subscription and per token.
LEMMA OneOwnerStep == OwnershipInv /\ [Next]_vars => OneOwner'
<1> SUFFICES ASSUME OwnershipInv, [Next]_vars PROVE OneOwner'
  OBVIOUS
<1> USE ConstantsAssumption DEF OwnershipInv, TypeOK, CallLocals, OneOwner,
      NoTokenLeak, Registering, Delivering, objectVars, connVars
<1>1. ASSUME NEW v \in Var, NEW k \in Id, Insert(v, k)
      PROVE  OneOwner'
  BY <1>1 DEF Insert, Fresh, Empty
<1>2. ASSUME NEW v \in Var, NEW k \in Id, SubscribeSync(v, k)
      PROVE  OneOwner'
  BY <1>2 DEF SubscribeSync, Fresh, Empty
<1>3. ASSUME NEW v \in Var, SubscribeSucceeds(v)
      PROVE  OneOwner'
  BY <1>3 DEF SubscribeSucceeds
<1>3a. ASSUME NEW v \in Var, ReturnSubscription(v)
      PROVE  OneOwner'
  BY <1>3a DEF ReturnSubscription
<1>3b. ASSUME NEW v \in Var, ReturnThrows(v)
      PROVE  OneOwner'
  BY <1>3b DEF ReturnThrows
<1>4. ASSUME NEW v \in Var, SubscribeFails(v)
      PROVE  OneOwner'
  BY <1>4 DEF SubscribeFails
<1>5. ASSUME NEW v \in Var, EraseFailed(v)
      PROVE  OneOwner'
  BY <1>5 DEF EraseFailed
<1>6. ASSUME NEW v \in Var, Unsubscribe(v)
      PROVE  OneOwner'
  BY <1>6 DEF Unsubscribe
<1>7. ASSUME NEW v \in Var, ResetHandle(v)
      PROVE  OneOwner'
  BY <1>7 DEF ResetHandle
<1>8. ASSUME NEW v \in Var, ReleaseCallback(v)
      PROVE  OneOwner'
  BY <1>8 DEF ReleaseCallback
<1>9. ASSUME NEW v \in Var, AssignHandle(v)
      PROVE  OneOwner'
  <2> DEFINE w == from[v]
  <2>1. /\ pc[v] = "assigning" /\ w \in Var /\ w # v /\ pc[w] = "source"
        /\ UNCHANGED <<local, abandoned>>
        /\ \A u \in Var \ {v, w} : pc'[u] = pc[u]
        /\ sub' = [sub EXCEPT ![v] = sub[w], ![w] = None]
        /\ on_release' = [on_release EXCEPT ![v] = on_release[w], ![w] = None]
        /\ nsub' = [k \in Id |-> IF k = sub[v] THEN "none" ELSE nsub[k]]
    BY <1>9 DEF AssignHandle
  <2> HIDE DEF w
  <2>2. \A j \in Id : nsub'[j] # "none" =>
          \/ j \in abandoned'
          \/ \E u \in Var : sub'[u] = j \/ (pc'[u] = "subscribed" /\ local'[u] = j)
    <3> SUFFICES ASSUME NEW j \in Id, nsub[j] # "none", j # sub[v], j \notin abandoned
                 PROVE  \E u \in Var :
                          sub'[u] = j \/ (pc'[u] = "subscribed" /\ local'[u] = j)
      BY <2>1
    <3>1. CASE \E u \in Var : pc[u] = "subscribed" /\ local[u] = j
      BY <2>1, <3>1
    <3>2. CASE \E u \in Var : sub[u] = j
      BY <2>1, <3>2
    <3> QED
      BY <3>1, <3>2
  <2>2a. \A j \in abandoned' :
           /\ nsub'[j] # "none"
           /\ \A u \in Var : j \notin {sub'[u], on_release'[u], local'[u]}
    BY <2>1
  <2>3. \A u \in Var : sub'[u] # None => nsub'[sub'[u]] # "none"
    BY <2>1
  <2>4. \A u, x \in Var :
         u # x => /\ sub'[u] = None \/ sub'[u] # sub'[x]
                  /\ on_release'[u] = None \/ on_release'[u] # on_release'[x]
    BY <2>1
  <2>5. \A u \in Var : on_release'[u] \in {None, sub'[u]} \/ sub'[u] = None
    BY <2>1
  <2> QED
    BY <2>2, <2>2a, <2>3, <2>4, <2>5
<1>10. ASSUME NEW v \in Var, Drain(v)
      PROVE  OneOwner'
  BY <1>10 DEF Drain
<1>11. ASSUME NEW v \in Var, NEW w \in Var, MoveConstruct(v, w)
      PROVE  OneOwner'
  <2>1. /\ w # v /\ Empty(v) /\ sub[w] # None
        /\ UNCHANGED <<nsub, pc, local, abandoned>>
        /\ sub' = [sub EXCEPT ![v] = sub[w], ![w] = None]
        /\ on_release' = [on_release EXCEPT ![v] = on_release[w], ![w] = None]
    BY <1>11 DEF MoveConstruct, Empty
  <2>2. \A j \in Id : nsub'[j] # "none" =>
          \/ j \in abandoned'
          \/ \E u \in Var : sub'[u] = j \/ (pc'[u] = "subscribed" /\ local'[u] = j)
    BY <2>1 DEF Empty
  <2>2a. \A j \in abandoned' :
           /\ nsub'[j] # "none"
           /\ \A u \in Var : j \notin {sub'[u], on_release'[u], local'[u]}
    BY <2>1 DEF Empty
  <2>3. \A u \in Var : sub'[u] # None => nsub'[sub'[u]] # "none"
    BY <2>1 DEF Empty
  <2>4. \A u, x \in Var :
         u # x => /\ sub'[u] = None \/ sub'[u] # sub'[x]
                  /\ on_release'[u] = None \/ on_release'[u] # on_release'[x]
    BY <2>1 DEF Empty
  <2>5. \A u \in Var : on_release'[u] \in {None, sub'[u]} \/ sub'[u] = None
    BY <2>1 DEF Empty
  <2> QED
    BY <2>2, <2>2a, <2>3, <2>4, <2>5
<1>12. ASSUME NEW v \in Var, NEW w \in Var, AssignRelease(v, w)
      PROVE  OneOwner'
  BY <1>12 DEF AssignRelease
<1>13. ASSUME NEW k \in Id, EnterHandler(k)
      PROVE  OneOwner'
  BY <1>13 DEF EnterHandler, CanDeliver
<1>14. ASSUME NEW k \in Id, LeaveHandler(k)
      PROVE  OneOwner'
  BY <1>14 DEF LeaveHandler
<1>15. ASSUME NEW k \in Id, FinishDrain(k)
      PROVE  OneOwner'
  BY <1>15 DEF FinishDrain
<1>16. ASSUME NEW r \in Req, RequestStarts(r)
      PROVE  OneOwner'
  BY <1>16 DEF RequestStarts
<1>17. ASSUME NEW r \in Req, RequestEnds(r)
      PROVE  OneOwner'
  BY <1>17 DEF RequestEnds, DropRef, CloseAll
<1>18. CASE Close
  BY <1>18 DEF Close, CloseAll
<1>19. CASE DrainConnection
  BY <1>19 DEF DrainConnection
<1>20. CASE ConnectionDrained
  BY <1>20 DEF ConnectionDrained, CloseAll
<1>21. CASE DropCallbackState
  BY <1>21 DEF DropCallbackState
<1>22. CASE DropConnection
  BY <1>22 DEF DropConnection, DropRef, CloseAll
<1>23. CASE UNCHANGED vars
  BY <1>23 DEF vars, objectVars, connVars
<1> QED
  BY <1>1, <1>2, <1>3, <1>3a, <1>3b, <1>4, <1>5, <1>6, <1>7, <1>8, <1>9, <1>10, <1>11,
     <1>12, <1>13, <1>14, <1>15, <1>16, <1>17, <1>18, <1>19, <1>20, <1>21, <1>22, <1>23
    DEF Next

\* Whoever gives up the key of a token erases it or hands it on.
LEMMA NoTokenLeakStep == OwnershipInv /\ [Next]_vars => NoTokenLeak'
<1> SUFFICES ASSUME OwnershipInv, [Next]_vars PROVE NoTokenLeak'
  OBVIOUS
<1> USE ConstantsAssumption DEF OwnershipInv, TypeOK, CallLocals, OneOwner,
      NoTokenLeak, Registering, Delivering, objectVars, connVars
<1>1. ASSUME NEW v \in Var, NEW k \in Id, Insert(v, k)
      PROVE  NoTokenLeak'
  BY <1>1 DEF Insert, Fresh, Empty
<1>2. ASSUME NEW v \in Var, NEW k \in Id, SubscribeSync(v, k)
      PROVE  NoTokenLeak'
  BY <1>2 DEF SubscribeSync, Fresh, Empty
<1>3. ASSUME NEW v \in Var, SubscribeSucceeds(v)
      PROVE  NoTokenLeak'
  BY <1>3 DEF SubscribeSucceeds
<1>3a. ASSUME NEW v \in Var, ReturnSubscription(v)
      PROVE  NoTokenLeak'
  BY <1>3a DEF ReturnSubscription
<1>3b. ASSUME NEW v \in Var, ReturnThrows(v)
      PROVE  NoTokenLeak'
  BY <1>3b DEF ReturnThrows
<1>4. ASSUME NEW v \in Var, SubscribeFails(v)
      PROVE  NoTokenLeak'
  BY <1>4 DEF SubscribeFails
<1>5. ASSUME NEW v \in Var, EraseFailed(v)
      PROVE  NoTokenLeak'
  BY <1>5 DEF EraseFailed
<1>6. ASSUME NEW v \in Var, Unsubscribe(v)
      PROVE  NoTokenLeak'
  BY <1>6 DEF Unsubscribe
<1>7. ASSUME NEW v \in Var, ResetHandle(v)
      PROVE  NoTokenLeak'
  BY <1>7 DEF ResetHandle
<1>8. ASSUME NEW v \in Var, ReleaseCallback(v)
      PROVE  NoTokenLeak'
  BY <1>8 DEF ReleaseCallback
<1>9. ASSUME NEW v \in Var, AssignHandle(v)
      PROVE  NoTokenLeak'
  BY <1>9 DEF AssignHandle
<1>10. ASSUME NEW v \in Var, Drain(v)
      PROVE  NoTokenLeak'
  BY <1>10 DEF Drain
<1>11. ASSUME NEW v \in Var, NEW w \in Var, MoveConstruct(v, w)
      PROVE  NoTokenLeak'
  BY <1>11 DEF MoveConstruct, Empty
<1>12. ASSUME NEW v \in Var, NEW w \in Var, AssignRelease(v, w)
      PROVE  NoTokenLeak'
  BY <1>12 DEF AssignRelease
<1>13. ASSUME NEW k \in Id, EnterHandler(k)
      PROVE  NoTokenLeak'
  BY <1>13 DEF EnterHandler, CanDeliver
<1>14. ASSUME NEW k \in Id, LeaveHandler(k)
      PROVE  NoTokenLeak'
  BY <1>14 DEF LeaveHandler
<1>15. ASSUME NEW k \in Id, FinishDrain(k)
      PROVE  NoTokenLeak'
  BY <1>15 DEF FinishDrain
<1>16. ASSUME NEW r \in Req, RequestStarts(r)
      PROVE  NoTokenLeak'
  BY <1>16 DEF RequestStarts
<1>17. ASSUME NEW r \in Req, RequestEnds(r)
      PROVE  NoTokenLeak'
  BY <1>17 DEF RequestEnds, DropRef, CloseAll
<1>18. CASE Close
  BY <1>18 DEF Close, CloseAll
<1>19. CASE DrainConnection
  BY <1>19 DEF DrainConnection
<1>20. CASE ConnectionDrained
  BY <1>20 DEF ConnectionDrained, CloseAll
<1>21. CASE DropCallbackState
  BY <1>21 DEF DropCallbackState
<1>22. CASE DropConnection
  BY <1>22 DEF DropConnection, DropRef, CloseAll
<1>23. CASE UNCHANGED vars
  BY <1>23 DEF vars, objectVars, connVars
<1> QED
  BY <1>1, <1>2, <1>3, <1>3a, <1>3b, <1>4, <1>5, <1>6, <1>7, <1>8, <1>9, <1>10, <1>11,
     <1>12, <1>13, <1>14, <1>15, <1>16, <1>17, <1>18, <1>19, <1>20, <1>21, <1>22, <1>23
    DEF Next

\* One owner for every native subscription and every token, and no token
\* without one, whatever a program does with its objects.
THEOREM Ownership == Spec => []OwnedOnce
<1>1. Init => OwnershipInv
  BY ConstantsAssumption DEF Init, OwnershipInv, TypeOK, CallLocals, OneOwner,
     NoTokenLeak, Registering
<1>2. OwnershipInv /\ [Next]_vars => OwnershipInv'
  BY TypeStep, CallLocalsStep, OneOwnerStep, NoTokenLeakStep DEF OwnershipInv
<1>3. OwnershipInv => OwnedOnce
  BY DEF OwnershipInv, OwnedOnce
<1> QED
  BY <1>1, <1>2, <1>3, PTL DEF Spec

\* An object never comes to hold a delivering subscription with another key than
\* that subscription's own token.
LEMMA PairedStep ==
  ASSUME OwnershipInv, DeliveryInv, [Next]_vars, ~AssignOverLive, ~ConnectionFirst
  PROVE  Paired'
<1> USE ConstantsAssumption DEF OwnershipInv, TypeOK, CallLocals, OneOwner,
      DeliveryInv, Paired, KeysHeld, GoneEmpty, RunningHeld, AssignsQuiet,
      Quiet, CanDeliver, Registering, Delivering, objectVars, connVars
<1>1. ASSUME NEW v \in Var, NEW k \in Id, Insert(v, k)
      PROVE  Paired'
  BY <1>1 DEF Insert, Fresh, Empty
<1>2. ASSUME NEW v \in Var, NEW k \in Id, SubscribeSync(v, k)
      PROVE  Paired'
  BY <1>2 DEF SubscribeSync, Fresh, Empty
<1>3. ASSUME NEW v \in Var, SubscribeSucceeds(v)
      PROVE  Paired'
  BY <1>3 DEF SubscribeSucceeds
<1>3a. ASSUME NEW v \in Var, ReturnSubscription(v)
      PROVE  Paired'
  BY <1>3a DEF ReturnSubscription
<1>3b. ASSUME NEW v \in Var, ReturnThrows(v)
      PROVE  Paired'
  BY <1>3b DEF ReturnThrows
<1>4. ASSUME NEW v \in Var, SubscribeFails(v)
      PROVE  Paired'
  BY <1>4 DEF SubscribeFails
<1>5. ASSUME NEW v \in Var, EraseFailed(v)
      PROVE  Paired'
  BY <1>5 DEF EraseFailed
<1>6. ASSUME NEW v \in Var, Unsubscribe(v)
      PROVE  Paired'
  BY <1>6 DEF Unsubscribe
<1>7. ASSUME NEW v \in Var, ResetHandle(v)
      PROVE  Paired'
  BY <1>7 DEF ResetHandle
<1>8. ASSUME NEW v \in Var, ReleaseCallback(v)
      PROVE  Paired'
  BY <1>8 DEF ReleaseCallback, DestroyReturned
<1>9. ASSUME NEW v \in Var, AssignHandle(v)
      PROVE  Paired'
  BY <1>9 DEF AssignHandle
<1>10. ASSUME NEW v \in Var, Drain(v)
      PROVE  Paired'
  BY <1>10 DEF Drain
<1>11. ASSUME NEW v \in Var, NEW w \in Var, MoveConstruct(v, w)
      PROVE  Paired'
  BY <1>11 DEF MoveConstruct, Empty
<1>12. ASSUME NEW v \in Var, NEW w \in Var, AssignRelease(v, w)
      PROVE  Paired'
  BY <1>12 DEF AssignRelease
<1>13. ASSUME NEW k \in Id, EnterHandler(k)
      PROVE  Paired'
  BY <1>13 DEF EnterHandler
<1>14. ASSUME NEW k \in Id, LeaveHandler(k)
      PROVE  Paired'
  BY <1>14 DEF LeaveHandler
<1>15. ASSUME NEW k \in Id, FinishDrain(k)
      PROVE  Paired'
  BY <1>15 DEF FinishDrain
<1>16. ASSUME NEW r \in Req, RequestStarts(r)
      PROVE  Paired'
  BY <1>16 DEF RequestStarts
<1>17. ASSUME NEW r \in Req, RequestEnds(r)
      PROVE  Paired'
  BY <1>17 DEF RequestEnds, DropRef, CloseAll
<1>18. CASE Close
  BY <1>18 DEF Close, CloseAll
<1>19. CASE DrainConnection
  BY <1>19 DEF DrainConnection
<1>20. CASE ConnectionDrained
  BY <1>20 DEF ConnectionDrained, CloseAll
<1>21. CASE DropCallbackState
  BY <1>21 DEF DropCallbackState, Empty
<1>22. CASE DropConnection
  BY <1>22 DEF DropConnection, DropRef, CloseAll
<1>23. CASE UNCHANGED vars
  BY <1>23 DEF vars, objectVars, connVars
<1> QED
  BY <1>1, <1>2, <1>3, <1>3a, <1>3b, <1>4, <1>5, <1>6, <1>7, <1>8, <1>9, <1>10, <1>11,
     <1>12, <1>13, <1>14, <1>15, <1>16, <1>17, <1>18, <1>19, <1>20, <1>21, <1>22, <1>23
    DEF Next

\* A token is erased only by the object that gives up its key in the same step.
LEMMA KeysHeldStep ==
  ASSUME OwnershipInv, DeliveryInv, [Next]_vars, ~AssignOverLive, ~ConnectionFirst
  PROVE  KeysHeld'
<1> USE ConstantsAssumption DEF OwnershipInv, TypeOK, CallLocals, OneOwner,
      DeliveryInv, Paired, KeysHeld, GoneEmpty, RunningHeld, AssignsQuiet,
      Quiet, CanDeliver, Registering, Delivering, objectVars, connVars
<1>1. ASSUME NEW v \in Var, NEW k \in Id, Insert(v, k)
      PROVE  KeysHeld'
  BY <1>1 DEF Insert, Fresh, Empty
<1>2. ASSUME NEW v \in Var, NEW k \in Id, SubscribeSync(v, k)
      PROVE  KeysHeld'
  BY <1>2 DEF SubscribeSync, Fresh, Empty
<1>3. ASSUME NEW v \in Var, SubscribeSucceeds(v)
      PROVE  KeysHeld'
  BY <1>3 DEF SubscribeSucceeds
<1>3a. ASSUME NEW v \in Var, ReturnSubscription(v)
      PROVE  KeysHeld'
  BY <1>3a DEF ReturnSubscription
<1>3b. ASSUME NEW v \in Var, ReturnThrows(v)
      PROVE  KeysHeld'
  BY <1>3b DEF ReturnThrows
<1>4. ASSUME NEW v \in Var, SubscribeFails(v)
      PROVE  KeysHeld'
  BY <1>4 DEF SubscribeFails
<1>5. ASSUME NEW v \in Var, EraseFailed(v)
      PROVE  KeysHeld'
  BY <1>5 DEF EraseFailed
<1>6. ASSUME NEW v \in Var, Unsubscribe(v)
      PROVE  KeysHeld'
  BY <1>6 DEF Unsubscribe
<1>7. ASSUME NEW v \in Var, ResetHandle(v)
      PROVE  KeysHeld'
  BY <1>7 DEF ResetHandle
<1>8. ASSUME NEW v \in Var, ReleaseCallback(v)
      PROVE  KeysHeld'
  BY <1>8 DEF ReleaseCallback, DestroyReturned
<1>9. ASSUME NEW v \in Var, AssignHandle(v)
      PROVE  KeysHeld'
  BY <1>9 DEF AssignHandle
<1>10. ASSUME NEW v \in Var, Drain(v)
      PROVE  KeysHeld'
  BY <1>10 DEF Drain
<1>11. ASSUME NEW v \in Var, NEW w \in Var, MoveConstruct(v, w)
      PROVE  KeysHeld'
  BY <1>11 DEF MoveConstruct, Empty
<1>12. ASSUME NEW v \in Var, NEW w \in Var, AssignRelease(v, w)
      PROVE  KeysHeld'
  BY <1>12 DEF AssignRelease
<1>13. ASSUME NEW k \in Id, EnterHandler(k)
      PROVE  KeysHeld'
  BY <1>13 DEF EnterHandler
<1>14. ASSUME NEW k \in Id, LeaveHandler(k)
      PROVE  KeysHeld'
  BY <1>14 DEF LeaveHandler
<1>15. ASSUME NEW k \in Id, FinishDrain(k)
      PROVE  KeysHeld'
  BY <1>15 DEF FinishDrain
<1>16. ASSUME NEW r \in Req, RequestStarts(r)
      PROVE  KeysHeld'
  BY <1>16 DEF RequestStarts
<1>17. ASSUME NEW r \in Req, RequestEnds(r)
      PROVE  KeysHeld'
  BY <1>17 DEF RequestEnds, DropRef, CloseAll
<1>18. CASE Close
  BY <1>18 DEF Close, CloseAll
<1>19. CASE DrainConnection
  BY <1>19 DEF DrainConnection
<1>20. CASE ConnectionDrained
  BY <1>20 DEF ConnectionDrained, CloseAll
<1>21. CASE DropCallbackState
  BY <1>21 DEF DropCallbackState, Empty
<1>22. CASE DropConnection
  BY <1>22 DEF DropConnection, DropRef, CloseAll
<1>23. CASE UNCHANGED vars
  BY <1>23 DEF vars, objectVars, connVars
<1> QED
  BY <1>1, <1>2, <1>3, <1>3a, <1>3b, <1>4, <1>5, <1>6, <1>7, <1>8, <1>9, <1>10, <1>11,
     <1>12, <1>13, <1>14, <1>15, <1>16, <1>17, <1>18, <1>19, <1>20, <1>21, <1>22, <1>23
    DEF Next

\* ~connection() starts when no subscription made from it is left, and none is
\* made afterwards.
LEMMA GoneEmptyStep ==
  ASSUME OwnershipInv, DeliveryInv, [Next]_vars, ~AssignOverLive, ~ConnectionFirst
  PROVE  GoneEmpty'
<1> USE ConstantsAssumption DEF OwnershipInv, TypeOK, CallLocals, OneOwner,
      DeliveryInv, Paired, KeysHeld, GoneEmpty, RunningHeld, AssignsQuiet,
      Quiet, CanDeliver, Registering, Delivering, objectVars, connVars
<1>1. ASSUME NEW v \in Var, NEW k \in Id, Insert(v, k)
      PROVE  GoneEmpty'
  BY <1>1 DEF Insert, Fresh, Empty
<1>2. ASSUME NEW v \in Var, NEW k \in Id, SubscribeSync(v, k)
      PROVE  GoneEmpty'
  BY <1>2 DEF SubscribeSync, Fresh, Empty
<1>3. ASSUME NEW v \in Var, SubscribeSucceeds(v)
      PROVE  GoneEmpty'
  BY <1>3 DEF SubscribeSucceeds
<1>3a. ASSUME NEW v \in Var, ReturnSubscription(v)
      PROVE  GoneEmpty'
  BY <1>3a DEF ReturnSubscription
<1>3b. ASSUME NEW v \in Var, ReturnThrows(v)
      PROVE  GoneEmpty'
  BY <1>3b DEF ReturnThrows
<1>4. ASSUME NEW v \in Var, SubscribeFails(v)
      PROVE  GoneEmpty'
  BY <1>4 DEF SubscribeFails
<1>5. ASSUME NEW v \in Var, EraseFailed(v)
      PROVE  GoneEmpty'
  BY <1>5 DEF EraseFailed
<1>6. ASSUME NEW v \in Var, Unsubscribe(v)
      PROVE  GoneEmpty'
  BY <1>6 DEF Unsubscribe
<1>7. ASSUME NEW v \in Var, ResetHandle(v)
      PROVE  GoneEmpty'
  BY <1>7 DEF ResetHandle
<1>8. ASSUME NEW v \in Var, ReleaseCallback(v)
      PROVE  GoneEmpty'
  BY <1>8 DEF ReleaseCallback, DestroyReturned
<1>9. ASSUME NEW v \in Var, AssignHandle(v)
      PROVE  GoneEmpty'
  BY <1>9 DEF AssignHandle
<1>10. ASSUME NEW v \in Var, Drain(v)
      PROVE  GoneEmpty'
  BY <1>10 DEF Drain
<1>11. ASSUME NEW v \in Var, NEW w \in Var, MoveConstruct(v, w)
      PROVE  GoneEmpty'
  BY <1>11 DEF MoveConstruct, Empty
<1>12. ASSUME NEW v \in Var, NEW w \in Var, AssignRelease(v, w)
      PROVE  GoneEmpty'
  BY <1>12 DEF AssignRelease
<1>13. ASSUME NEW k \in Id, EnterHandler(k)
      PROVE  GoneEmpty'
  BY <1>13 DEF EnterHandler
<1>14. ASSUME NEW k \in Id, LeaveHandler(k)
      PROVE  GoneEmpty'
  BY <1>14 DEF LeaveHandler
<1>15. ASSUME NEW k \in Id, FinishDrain(k)
      PROVE  GoneEmpty'
  BY <1>15 DEF FinishDrain
<1>16. ASSUME NEW r \in Req, RequestStarts(r)
      PROVE  GoneEmpty'
  BY <1>16 DEF RequestStarts
<1>17. ASSUME NEW r \in Req, RequestEnds(r)
      PROVE  GoneEmpty'
  BY <1>17 DEF RequestEnds, DropRef, CloseAll
<1>18. CASE Close
  BY <1>18 DEF Close, CloseAll
<1>19. CASE DrainConnection
  BY <1>19 DEF DrainConnection
<1>20. CASE ConnectionDrained
  BY <1>20 DEF ConnectionDrained, CloseAll
<1>21. CASE DropCallbackState
  BY <1>21 DEF DropCallbackState, Empty
<1>22. CASE DropConnection
  BY <1>22 DEF DropConnection, DropRef, CloseAll
<1>23. CASE UNCHANGED vars
  BY <1>23 DEF vars, objectVars, connVars
<1> QED
  BY <1>1, <1>2, <1>3, <1>3a, <1>3b, <1>4, <1>5, <1>6, <1>7, <1>8, <1>9, <1>10, <1>11,
     <1>12, <1>13, <1>14, <1>15, <1>16, <1>17, <1>18, <1>19, <1>20, <1>21, <1>22, <1>23
    DEF Next

\* Moves hand the key of a running handler on; only release_callback() drops a
\* key, after natsSubscription_Destroy has waited for the handler.
LEMMA RunningHeldStep ==
  ASSUME OwnershipInv, DeliveryInv, [Next]_vars, ~AssignOverLive, ~ConnectionFirst
  PROVE  RunningHeld'
<1> USE ConstantsAssumption DEF OwnershipInv, TypeOK, CallLocals, OneOwner,
      DeliveryInv, Paired, KeysHeld, GoneEmpty, RunningHeld, AssignsQuiet,
      Quiet, CanDeliver, Registering, Delivering, objectVars, connVars
<1>1. ASSUME NEW v \in Var, NEW k \in Id, Insert(v, k)
      PROVE  RunningHeld'
  BY <1>1 DEF Insert, Fresh, Empty
<1>2. ASSUME NEW v \in Var, NEW k \in Id, SubscribeSync(v, k)
      PROVE  RunningHeld'
  BY <1>2 DEF SubscribeSync, Fresh, Empty
<1>3. ASSUME NEW v \in Var, SubscribeSucceeds(v)
      PROVE  RunningHeld'
  BY <1>3 DEF SubscribeSucceeds
<1>3a. ASSUME NEW v \in Var, ReturnSubscription(v)
      PROVE  RunningHeld'
  BY <1>3a DEF ReturnSubscription
<1>3b. ASSUME NEW v \in Var, ReturnThrows(v)
      PROVE  RunningHeld'
  BY <1>3b DEF ReturnThrows
<1>4. ASSUME NEW v \in Var, SubscribeFails(v)
      PROVE  RunningHeld'
  BY <1>4 DEF SubscribeFails
<1>5. ASSUME NEW v \in Var, EraseFailed(v)
      PROVE  RunningHeld'
  BY <1>5 DEF EraseFailed
<1>6. ASSUME NEW v \in Var, Unsubscribe(v)
      PROVE  RunningHeld'
  BY <1>6 DEF Unsubscribe
<1>7. ASSUME NEW v \in Var, ResetHandle(v)
      PROVE  RunningHeld'
  BY <1>7 DEF ResetHandle
<1>8. ASSUME NEW v \in Var, ReleaseCallback(v)
      PROVE  RunningHeld'
  BY <1>8 DEF ReleaseCallback, DestroyReturned
<1>9. ASSUME NEW v \in Var, AssignHandle(v)
      PROVE  RunningHeld'
  BY <1>9 DEF AssignHandle
<1>10. ASSUME NEW v \in Var, Drain(v)
      PROVE  RunningHeld'
  BY <1>10 DEF Drain
<1>11. ASSUME NEW v \in Var, NEW w \in Var, MoveConstruct(v, w)
      PROVE  RunningHeld'
  BY <1>11 DEF MoveConstruct, Empty
<1>12. ASSUME NEW v \in Var, NEW w \in Var, AssignRelease(v, w)
      PROVE  RunningHeld'
  BY <1>12 DEF AssignRelease
<1>13. ASSUME NEW k \in Id, EnterHandler(k)
      PROVE  RunningHeld'
  BY <1>13 DEF EnterHandler
<1>14. ASSUME NEW k \in Id, LeaveHandler(k)
      PROVE  RunningHeld'
  BY <1>14 DEF LeaveHandler
<1>15. ASSUME NEW k \in Id, FinishDrain(k)
      PROVE  RunningHeld'
  BY <1>15 DEF FinishDrain
<1>16. ASSUME NEW r \in Req, RequestStarts(r)
      PROVE  RunningHeld'
  BY <1>16 DEF RequestStarts
<1>17. ASSUME NEW r \in Req, RequestEnds(r)
      PROVE  RunningHeld'
  BY <1>17 DEF RequestEnds, DropRef, CloseAll
<1>18. CASE Close
  BY <1>18 DEF Close, CloseAll
<1>19. CASE DrainConnection
  BY <1>19 DEF DrainConnection
<1>20. CASE ConnectionDrained
  BY <1>20 DEF ConnectionDrained, CloseAll
<1>21. CASE DropCallbackState
  BY <1>21 DEF DropCallbackState, Empty
<1>22. CASE DropConnection
  BY <1>22 DEF DropConnection, DropRef, CloseAll
<1>23. CASE UNCHANGED vars
  BY <1>23 DEF vars, objectVars, connVars
<1> QED
  BY <1>1, <1>2, <1>3, <1>3a, <1>3b, <1>4, <1>5, <1>6, <1>7, <1>8, <1>9, <1>10, <1>11,
     <1>12, <1>13, <1>14, <1>15, <1>16, <1>17, <1>18, <1>19, <1>20, <1>21, <1>22, <1>23
    DEF Next

\* What operator= overwrites stays quiet until it is overwritten: nobody can
\* subscribe or dispatch through that object meanwhile.
LEMMA AssignsQuietStep ==
  ASSUME OwnershipInv, DeliveryInv, [Next]_vars, ~AssignOverLive, ~ConnectionFirst
  PROVE  AssignsQuiet'
<1> USE ConstantsAssumption DEF OwnershipInv, TypeOK, CallLocals, OneOwner,
      DeliveryInv, Paired, KeysHeld, GoneEmpty, RunningHeld, AssignsQuiet,
      Quiet, CanDeliver, Registering, Delivering, objectVars, connVars
<1>1. ASSUME NEW v \in Var, NEW k \in Id, Insert(v, k)
      PROVE  AssignsQuiet'
  BY <1>1 DEF Insert, Fresh, Empty
<1>2. ASSUME NEW v \in Var, NEW k \in Id, SubscribeSync(v, k)
      PROVE  AssignsQuiet'
  BY <1>2 DEF SubscribeSync, Fresh, Empty
<1>3. ASSUME NEW v \in Var, SubscribeSucceeds(v)
      PROVE  AssignsQuiet'
  BY <1>3 DEF SubscribeSucceeds
<1>3a. ASSUME NEW v \in Var, ReturnSubscription(v)
      PROVE  AssignsQuiet'
  BY <1>3a DEF ReturnSubscription
<1>3b. ASSUME NEW v \in Var, ReturnThrows(v)
      PROVE  AssignsQuiet'
  BY <1>3b DEF ReturnThrows
<1>4. ASSUME NEW v \in Var, SubscribeFails(v)
      PROVE  AssignsQuiet'
  BY <1>4 DEF SubscribeFails
<1>5. ASSUME NEW v \in Var, EraseFailed(v)
      PROVE  AssignsQuiet'
  BY <1>5 DEF EraseFailed
<1>6. ASSUME NEW v \in Var, Unsubscribe(v)
      PROVE  AssignsQuiet'
  BY <1>6 DEF Unsubscribe
<1>7. ASSUME NEW v \in Var, ResetHandle(v)
      PROVE  AssignsQuiet'
  BY <1>7 DEF ResetHandle
<1>8. ASSUME NEW v \in Var, ReleaseCallback(v)
      PROVE  AssignsQuiet'
  BY <1>8 DEF ReleaseCallback, DestroyReturned
<1>9. ASSUME NEW v \in Var, AssignHandle(v)
      PROVE  AssignsQuiet'
  BY <1>9 DEF AssignHandle
<1>10. ASSUME NEW v \in Var, Drain(v)
      PROVE  AssignsQuiet'
  BY <1>10 DEF Drain
<1>11. ASSUME NEW v \in Var, NEW w \in Var, MoveConstruct(v, w)
      PROVE  AssignsQuiet'
  BY <1>11 DEF MoveConstruct, Empty
<1>12. ASSUME NEW v \in Var, NEW w \in Var, AssignRelease(v, w)
      PROVE  AssignsQuiet'
  BY <1>12 DEF AssignRelease
<1>13. ASSUME NEW k \in Id, EnterHandler(k)
      PROVE  AssignsQuiet'
  BY <1>13 DEF EnterHandler
<1>14. ASSUME NEW k \in Id, LeaveHandler(k)
      PROVE  AssignsQuiet'
  BY <1>14 DEF LeaveHandler
<1>15. ASSUME NEW k \in Id, FinishDrain(k)
      PROVE  AssignsQuiet'
  BY <1>15 DEF FinishDrain
<1>16. ASSUME NEW r \in Req, RequestStarts(r)
      PROVE  AssignsQuiet'
  BY <1>16 DEF RequestStarts
<1>17. ASSUME NEW r \in Req, RequestEnds(r)
      PROVE  AssignsQuiet'
  BY <1>17 DEF RequestEnds, DropRef, CloseAll
<1>18. CASE Close
  BY <1>18 DEF Close, CloseAll
<1>19. CASE DrainConnection
  BY <1>19 DEF DrainConnection
<1>20. CASE ConnectionDrained
  BY <1>20 DEF ConnectionDrained, CloseAll
<1>21. CASE DropCallbackState
  BY <1>21 DEF DropCallbackState, Empty
<1>22. CASE DropConnection
  BY <1>22 DEF DropConnection, DropRef, CloseAll
<1>23. CASE UNCHANGED vars
  BY <1>23 DEF vars, objectVars, connVars
<1> QED
  BY <1>1, <1>2, <1>3, <1>3a, <1>3b, <1>4, <1>5, <1>6, <1>7, <1>8, <1>9, <1>10, <1>11,
     <1>12, <1>13, <1>14, <1>15, <1>16, <1>17, <1>18, <1>19, <1>20, <1>21, <1>22, <1>23
    DEF Next

\* Under the two rules for programs, both invariants hold in every state.
LEMMA Invariance ==
  ASSUME ~AssignOverLive, ~ConnectionFirst
  PROVE  Spec => [](OwnershipInv /\ DeliveryInv)
<1>1. Init => OwnershipInv /\ DeliveryInv
  BY ConstantsAssumption DEF Init, OwnershipInv, TypeOK, CallLocals, OneOwner,
     NoTokenLeak, Registering, DeliveryInv, Paired, KeysHeld, GoneEmpty,
     RunningHeld, AssignsQuiet
<1>2. OwnershipInv /\ DeliveryInv /\ [Next]_vars => (OwnershipInv /\ DeliveryInv)'
  <2> SUFFICES ASSUME OwnershipInv, DeliveryInv, [Next]_vars
               PROVE  OwnershipInv' /\ DeliveryInv'
    OBVIOUS
  <2>1. OwnershipInv'
    BY TypeStep, CallLocalsStep, OneOwnerStep, NoTokenLeakStep DEF OwnershipInv
  <2>2. DeliveryInv'
    BY PairedStep, KeysHeldStep, GoneEmptyStep, RunningHeldStep, AssignsQuietStep
       DEF DeliveryInv
  <2> QED
    BY <2>1, <2>2
<1> QED
  BY <1>1, <1>2, PTL DEF Spec

\* A subscription that can deliver finds its token in callback_state::callbacks.
LEMMA InvEntrySafe ==
  ASSUME OwnershipInv, DeliveryInv
  PROVE  EntrySafe
<1> SUFFICES ASSUME NEW k \in Id, CanDeliver(k)
             PROVE  Alive(k) \/ (k \in abandoned /\ object # "alive")
  BY DEF EntrySafe
<1>1. CASE k \in abandoned
  BY <1>1 DEF DeliveryInv, KeysHeld, Alive
<1>2. CASE \E v \in Var : pc[v] = "subscribed" /\ local[v] = k
  BY <1>2 DEF Alive, Registering
<1>3. ASSUME NEW v \in Var, sub[v] = k
      PROVE  Alive(k)
  <2>1. on_release[v] = k /\ k # None
    BY <1>3, ConstantsAssumption DEF DeliveryInv, Paired
  <2> QED
    BY <1>3, <2>1 DEF DeliveryInv, KeysHeld, GoneEmpty, Alive
<1> QED
  BY <1>1, <1>2, <1>3 DEF OwnershipInv, OneOwner, CanDeliver, Delivering

\* No handler is freed while a dispatcher thread is inside it, except by
\* ~connection() one whose registration is abandoned.
UseSafe == \A k \in running : Alive(k) \/ (k \in abandoned /\ object # "alive")

\* The token of a running handler is in callback_state::callbacks.
LEMMA InvUseSafe ==
  ASSUME OwnershipInv, DeliveryInv, DestroyWaits
  PROVE  UseSafe
<1> SUFFICES ASSUME NEW k \in running
             PROVE  Alive(k) \/ (k \in abandoned /\ object # "alive")
  BY DEF UseSafe
<1>1. CASE k \in abandoned
  BY <1>1 DEF DeliveryInv, KeysHeld, Alive
<1>2. CASE \E v \in Var : pc[v] = "subscribed" /\ local[v] = k
  BY <1>2 DEF Alive, Registering
<1>3. ASSUME NEW v \in Var, on_release[v] = k
      PROVE  Alive(k)
  BY <1>3, ConstantsAssumption DEF OwnershipInv, TypeOK, DeliveryInv, KeysHeld,
     GoneEmpty, Alive
<1> QED
  BY <1>1, <1>2, <1>3 DEF DeliveryInv, RunningHeld

\* The dispatcher never calls through a freed closure, provided no program
\* assigns over a delivering subscription or destroys a connection before the
\* subscriptions made from it; whether natsSubscription_Destroy waits for a
\* running handler does not matter.  A registration abandoned by an exception
\* is safe until the connection object is destroyed.
THEOREM EntrySafety ==
  ASSUME ~AssignOverLive, ~ConnectionFirst
  PROVE  Spec => []EntrySafe
<1>1. OwnershipInv /\ DeliveryInv => EntrySafe
  BY InvEntrySafe
<1> QED
  BY <1>1, Invariance, PTL

\* No handler is freed while it runs if, besides, natsSubscription_Destroy
\* waits for it.
THEOREM UseSafety ==
  ASSUME ~AssignOverLive, ~ConnectionFirst, DestroyWaits
  PROVE  Spec => []UseSafe
<1>1. OwnershipInv /\ DeliveryInv => UseSafe
  BY InvUseSafe
<1> QED
  BY <1>1, Invariance, PTL

-----------------------------------------------------------------------------
(* Refinement: every step is a step of HandlerContract or none of its.     *)

Held == {k \in Id : Alive(k) \/ k \in abandoned}

\* In every reachable state a living handler's token is in the registry.
LEMMA HeldIsRegistered ==
  /\ OwnershipInv => Held = callbacks \cup abandoned
  /\ OwnershipInv' => Held' = callbacks' \cup abandoned'
  BY DEF OwnershipInv, TypeOK, CallLocals, Held, Alive

\* A step that leaves the registry and the running handlers alone is invisible
\* to HandlerContract; inserting and erasing tokens is Hold and Free.
LEMMA ContractStep ==
  ASSUME OwnershipInv, OwnershipInv', DeliveryInv, [Next]_vars,
         ~AssignOverLive, ~ConnectionFirst, DestroyWaits
  PROVE  [Contract!Next]_(Contract!vars)
<1>1. Held = callbacks \cup abandoned /\ Held' = callbacks' \cup abandoned'
  BY HeldIsRegistered
<1>2. UNCHANGED <<callbacks, running, abandoned>> => UNCHANGED Contract!vars
  BY <1>1 DEF Contract!vars, Held
<1>3. ASSUME NEW k \in Id, k \notin callbacks \cup abandoned,
             UNCHANGED <<running, abandoned>>, callbacks' = callbacks \cup {k}
      PROVE  Contract!Hold(k)
  BY <1>1, <1>3 DEF Contract!Hold, Held
<1>4. ASSUME NEW k \in Id, k \in callbacks \ (running \cup abandoned),
             UNCHANGED <<running, abandoned>>, callbacks' = callbacks \ {k}
      PROVE  Contract!Free(k)
  BY <1>1, <1>4 DEF Contract!Free, Held
<1>5. ASSUME NEW v \in Var, NEW k \in Id, Insert(v, k)
      PROVE  [Contract!Next]_(Contract!vars)
  BY <1>3, <1>5 DEF Insert, Fresh, Contract!Next, OwnershipInv, OneOwner
<1>6. ASSUME NEW v \in Var, NEW k \in Id, SubscribeSync(v, k)
      PROVE  [Contract!Next]_(Contract!vars)
  BY <1>2, <1>6 DEF SubscribeSync, objectVars, connVars
<1>7. ASSUME NEW v \in Var, SubscribeSucceeds(v)
      PROVE  [Contract!Next]_(Contract!vars)
  BY <1>2, <1>7 DEF SubscribeSucceeds, objectVars, connVars
<1>7a. ASSUME NEW v \in Var, ReturnSubscription(v)
      PROVE  [Contract!Next]_(Contract!vars)
  BY <1>2, <1>7a DEF ReturnSubscription, objectVars, connVars
<1>7b. ASSUME NEW v \in Var, ReturnThrows(v)
      PROVE  [Contract!Next]_(Contract!vars)
  <2>1. local[v] \in callbacks
    BY <1>7b DEF ReturnThrows, OwnershipInv, CallLocals, Registering
  <2> QED
    BY <1>1, <1>7b, <2>1 DEF ReturnThrows, Contract!vars, Held
<1>8. ASSUME NEW v \in Var, SubscribeFails(v)
      PROVE  [Contract!Next]_(Contract!vars)
  BY <1>2, <1>8 DEF SubscribeFails, objectVars, connVars
<1>9. ASSUME NEW v \in Var, EraseFailed(v)
      PROVE  [Contract!Next]_(Contract!vars)
  <2>1. local[v] \in callbacks \ (running \cup abandoned) /\ local[v] \in Id
    BY <1>9, ConstantsAssumption DEF EraseFailed, OwnershipInv, TypeOK, CallLocals,
       OneOwner, Registering, DeliveryInv, RunningHeld, KeysHeld, GoneEmpty,
       AssignsQuiet
  <2> QED
    BY <1>4, <1>9, <2>1 DEF EraseFailed, Contract!Next
<1>10. ASSUME NEW v \in Var, Unsubscribe(v)
      PROVE  [Contract!Next]_(Contract!vars)
  BY <1>2, <1>10 DEF Unsubscribe, objectVars, connVars
<1>11. ASSUME NEW v \in Var, ResetHandle(v)
      PROVE  [Contract!Next]_(Contract!vars)
  BY <1>2, <1>11 DEF ResetHandle, objectVars, connVars
<1>12. ASSUME NEW v \in Var, ReleaseCallback(v)
      PROVE  [Contract!Next]_(Contract!vars)
  <2>1. CASE on_release[v] = None \/ on_release[v] \notin callbacks
    BY <1>2, <1>12, <2>1, ConstantsAssumption DEF ReleaseCallback, OwnershipInv,
       TypeOK, CallLocals, OneOwner, Registering
  <2>2. CASE on_release[v] \in callbacks
    <3>1. on_release[v] \in Id /\ on_release[v] \notin running \cup abandoned
      BY <1>12, <2>2, ConstantsAssumption DEF ReleaseCallback, DestroyReturned,
         OwnershipInv, TypeOK, CallLocals, OneOwner, Registering, DeliveryInv,
         RunningHeld, KeysHeld, GoneEmpty, AssignsQuiet
    <3> QED
      BY <1>4, <1>12, <2>2, <3>1 DEF ReleaseCallback, Contract!Next
  <2> QED
    BY <2>1, <2>2
<1>13. ASSUME NEW v \in Var, AssignHandle(v)
      PROVE  [Contract!Next]_(Contract!vars)
  BY <1>2, <1>13 DEF AssignHandle, objectVars, connVars
<1>14. ASSUME NEW v \in Var, Drain(v)
      PROVE  [Contract!Next]_(Contract!vars)
  BY <1>2, <1>14 DEF Drain, objectVars, connVars
<1>15. ASSUME NEW v \in Var, NEW w \in Var, MoveConstruct(v, w)
      PROVE  [Contract!Next]_(Contract!vars)
  BY <1>2, <1>15 DEF MoveConstruct, objectVars, connVars
<1>16. ASSUME NEW v \in Var, NEW w \in Var, AssignRelease(v, w)
      PROVE  [Contract!Next]_(Contract!vars)
  <2>1. CASE on_release[v] = None \/ on_release[v] \notin callbacks
    BY <1>2, <1>16, <2>1, ConstantsAssumption DEF AssignRelease, OwnershipInv,
       TypeOK, CallLocals, OneOwner, Registering
  <2>2. CASE on_release[v] \in callbacks
    <3>1. on_release[v] \in Id /\ on_release[v] \notin running \cup abandoned
      BY <1>16, <2>2, ConstantsAssumption DEF AssignRelease, Quiet, OwnershipInv,
         TypeOK, CallLocals, OneOwner, Registering, DeliveryInv, RunningHeld,
         KeysHeld, GoneEmpty, AssignsQuiet
    <3> QED
      BY <1>4, <1>16, <2>2, <3>1 DEF AssignRelease, Contract!Next
  <2> QED
    BY <2>1, <2>2
<1>17. ASSUME NEW k \in Id, EnterHandler(k)
      PROVE  [Contract!Next]_(Contract!vars)
  <2>1. k \in Held
    BY <1>17, InvEntrySafe DEF EnterHandler, EntrySafe, Held
  <2> QED
    BY <1>1, <1>17, <2>1 DEF EnterHandler, Contract!Next, Contract!Enter, Held
<1>18. ASSUME NEW k \in Id, LeaveHandler(k)
      PROVE  [Contract!Next]_(Contract!vars)
  BY <1>1, <1>18 DEF LeaveHandler, Contract!Next, Contract!Return, Held
<1>19. ASSUME NEW k \in Id, FinishDrain(k)
      PROVE  [Contract!Next]_(Contract!vars)
  BY <1>2, <1>19 DEF FinishDrain, objectVars, connVars
<1>20. ASSUME NEW r \in Req, RequestStarts(r)
      PROVE  [Contract!Next]_(Contract!vars)
  BY <1>2, <1>20 DEF RequestStarts, objectVars, connVars
<1>21. ASSUME NEW r \in Req, RequestEnds(r)
      PROVE  [Contract!Next]_(Contract!vars)
  BY <1>2, <1>21 DEF RequestEnds, objectVars, connVars, DropRef
<1>22. CASE Close
  BY <1>2, <1>22 DEF Close, objectVars, connVars
<1>23. CASE DrainConnection
  BY <1>2, <1>23 DEF DrainConnection, objectVars, connVars
<1>24. CASE ConnectionDrained
  BY <1>2, <1>24 DEF ConnectionDrained, objectVars, connVars
<1>25. CASE DropCallbackState
  <2>1. callbacks \subseteq abandoned /\ callbacks' = {}
    BY <1>25, ConstantsAssumption DEF DropCallbackState, Empty, OwnershipInv,
       TypeOK, NoTokenLeak, Registering
  <2> QED
    BY <1>1, <1>25, <2>1 DEF DropCallbackState, Contract!vars, Held
<1>26. CASE DropConnection
  BY <1>2, <1>26 DEF DropConnection, objectVars, connVars, DropRef
<1>27. CASE UNCHANGED vars
  BY <1>2, <1>27 DEF vars
<1> QED
  BY <1>5, <1>6, <1>7, <1>7a, <1>7b, <1>8, <1>9, <1>10, <1>11, <1>12, <1>13, <1>14, <1>15, <1>16,
     <1>17, <1>18, <1>19, <1>20, <1>21, <1>22, <1>23, <1>24, <1>25, <1>26, <1>27
    DEF Next

\* Registry, subscription objects and nats.c together implement the contract.
THEOREM Refinement ==
  ASSUME ~AssignOverLive, ~ConnectionFirst, DestroyWaits
  PROVE  Spec => KeepsContract
<1>1. Init => Contract!Init
  BY ConstantsAssumption DEF Init, Contract!Init, Alive, Registering
<1>2. OwnershipInv /\ DeliveryInv /\ (OwnershipInv /\ DeliveryInv)' /\ [Next]_vars
        => [Contract!Next]_(Contract!vars)
  BY ContractStep
<1> QED
  BY <1>1, <1>2, Invariance, PTL DEF Spec, KeepsContract, Contract!Spec
=============================================================================
