----------------------- MODULE CompletionCallbackProofs -----------------------
(***************************************************************************)
(* The on-complete callbacks of a subscription: proofs for any number of   *)
(* objects, native subscriptions, callbacks and threads.                   *)
(***************************************************************************)
EXTENDS CompletionCallback, TLAPS

\* Calls on one object exclude each other: no two threads have it as the
\* object or the source of their call.
Exclusive ==
  \A t, u \in Thread : t # u =>
    \A v \in Var : ~(v \in {obj[t], source[t]} /\ v \in {obj[u], source[u]})

\* A native subscription is in one object or in one call that destroys it.
Handles ==
  /\ \A v, w \in Var : sub[v] = sub[w] /\ sub[v] # None => v = w
  /\ \A v \in Var, t \in Thread : sub[v] = handle[t] => sub[v] = None
  /\ \A t \in Thread :
       /\ handle[t] # None => pc[t] \in {"unsubscribing", "destroying", "assigning"}
       /\ pc[t] \in {"unsubscribing", "destroying"} => sub[obj[t]] = None
       /\ pc[t] = "assigning" => sub[source[t]] = None
       /\ pc[t] \in Setting => sub[obj[t]] # None

\* One that has not completed is somewhere, and what nats.c calls is what it
\* stored.
Native ==
  \A k \in Id :
    /\ nsub[k] # "done" => \/ \E v \in Var : sub[v] = k
                           \/ \E t \in Thread : handle[t] = k
    /\ calling[k] = IF nsub[k] = "completing" THEN stored[k] ELSE None

\* What completion_callbacks_ holds between calls, and at each step of one.
Holds(v, k) == \A f \in Token : f \in tokens[v] <=> f = stored[k]
Exact == \A v \in Var : Unused(v) /\ sub[v] # None => Holds(v, sub[v])
Midway ==
  \A t \in Thread :
    /\ pc[t] \in {"inserted", "rejected"} =>
         /\ \A f \in Token : f \in tokens[obj[t]] <=> f \in {stored[sub[obj[t]]], token[t]}
         /\ token[t] # stored[sub[obj[t]]]
    /\ pc[t] = "accepted" =>
         stored[sub[obj[t]]] = token[t] /\ token[t] \in tokens[obj[t]]
    /\ pc[t] = "assigning" /\ sub[obj[t]] # None => Holds(source[t], sub[obj[t]])
    /\ handle[t] # None =>
         stored[handle[t]] = None \/ stored[handle[t]] \in tokens[obj[t]]

\* An object on which no callback is being set has one at most ...
Few ==
  \A v \in Var : (\A t \in Thread : obj[t] = v => pc[t] \notin Setting)
                  => \A f, g \in tokens[v] : f = g

\* ... and pruning erases one at most.
Replaced ==
  \A t \in Thread : pc[t] = "accepted" =>
    \A f, g \in tokens[obj[t]] : f # token[t] /\ g # token[t] => f = g

\* No callback is stored for two native subscriptions, and none is new to two
\* calls or stored before its call registers it.
Distinct ==
  /\ \A j, k \in Id :
       nsub[j] # "done" /\ nsub[k] # "done" /\ stored[j] = stored[k] =>
         stored[j] = None \/ j = k
  /\ \A t \in Thread, k \in Id :
       pc[t] \in {"inserted", "rejected"} /\ nsub[k] # "done" => stored[k] # token[t]
  /\ \A t, u \in Thread : token[t] = token[u] /\ token[t] # None => t = u

IInv == /\ TypeOK /\ Exclusive /\ Handles /\ Native /\ Exact /\ Midway /\ Few
        /\ Replaced /\ Distinct

-----------------------------------------------------------------------------
\* Every step keeps the types and the locals of each step of a call.
LEMMA TypeStep ==
  ASSUME TypeOK, [Next]_vars
  PROVE  TypeOK'
<1> USE ConstantsAssumption DEF TypeOK, Setting
<1>1. ASSUME NEW t \in Thread, SetAccepted(t)
      PROVE  TypeOK'
  BY <1>1 DEF SetAccepted, callVars, nativeVars
<1>2. ASSUME NEW t \in Thread, SetRejected(t)
      PROVE  TypeOK'
  BY <1>2 DEF SetRejected, callVars, nativeVars
<1>3. ASSUME NEW t \in Thread, EraseRejected(t)
      PROVE  TypeOK'
  BY <1>3 DEF EraseRejected, Return, callVars, nativeVars
<1>4. ASSUME NEW t \in Thread, Prune(t)
      PROVE  TypeOK'
  BY <1>4 DEF Prune, Return, callVars, nativeVars
<1>5. ASSUME NEW t \in Thread, Unsubscribed(t)
      PROVE  TypeOK'
  BY <1>5 DEF Unsubscribed, Return, DestroyReturned, callVars, nativeVars
<1>6. ASSUME NEW t \in Thread, DestroyTokens(t)
      PROVE  TypeOK'
  BY <1>6 DEF DestroyTokens, Return, DestroyReturned, callVars, nativeVars
<1>7. ASSUME NEW t \in Thread, AssignTokens(t)
      PROVE  TypeOK'
  BY <1>7 DEF AssignTokens, Return, DestroyReturned, callVars, nativeVars
<1>8. ASSUME NEW t \in Thread, NEW v \in Var, Unsubscribe(t, v)
      PROVE  TypeOK'
  BY <1>8 DEF Unsubscribe, End, Unused, callVars, nativeVars
<1>9. ASSUME NEW t \in Thread, NEW v \in Var, Destruct(t, v)
      PROVE  TypeOK'
  BY <1>9 DEF Destruct, End, Unused, callVars, nativeVars
<1>10. ASSUME NEW t \in Thread, NEW v \in Var, NEW f \in Token, Insert(t, v, f)
      PROVE  TypeOK'
  BY <1>10 DEF Insert, MaySet, Alive, Unused, callVars, nativeVars
<1>11. ASSUME NEW t \in Thread, NEW v \in Var, NEW w \in Var, AssignHandle(t, v, w)
      PROVE  TypeOK'
  BY <1>11 DEF AssignHandle, End, Unused, callVars, nativeVars
<1>12. ASSUME NEW v \in Var, NEW w \in Var, MoveConstruct(v, w)
      PROVE  TypeOK'
  BY <1>12 DEF MoveConstruct, Unused, callVars, nativeVars
<1>13. ASSUME NEW v \in Var, NEW k \in Id, Subscribe(v, k)
      PROVE  TypeOK'
  BY <1>13 DEF Subscribe, Unused, FreshId, callVars, nativeVars
<1>14. ASSUME NEW v \in Var, Drain(v)
      PROVE  TypeOK'
  BY <1>14 DEF Drain, End, callVars, nativeVars
<1>15. ASSUME NEW k \in Id, CompletionStarts(k)
      PROVE  TypeOK'
  BY <1>15 DEF CompletionStarts, callVars, nativeVars
<1>16. ASSUME NEW k \in Id, CompletionEnds(k)
      PROVE  TypeOK'
  BY <1>16 DEF CompletionEnds, callVars, nativeVars
<1>17. CASE ConnectionCloses
  BY <1>17 DEF ConnectionCloses, callVars, nativeVars
<1>18. CASE UNCHANGED vars
  BY <1>18 DEF vars, callVars, nativeVars
<1> QED
  BY <1>1, <1>2, <1>3, <1>4, <1>5, <1>6, <1>7, <1>8, <1>9,
     <1>10, <1>11, <1>12, <1>13, <1>14, <1>15, <1>16, <1>17, <1>18
  DEF Next

\* Types, and no self-assignment past the test in operator=, for every value of
\* the constants.
THEOREM TypeCorrect == Spec => []TypeOK
<1>1. Init => TypeOK
  BY ConstantsAssumption DEF Init, TypeOK, Setting
<1>2. TypeOK /\ [Next]_vars => TypeOK'
  BY TypeStep
<1> QED
  BY <1>1, <1>2, PTL DEF Spec

\* A call begins only on objects no other call uses.
LEMMA ExclusiveStep ==
  ASSUME TypeOK, TypeOK', Exclusive, ~SharedSetters, [Next]_vars
  PROVE  Exclusive'
<1> USE ConstantsAssumption DEF TypeOK, Exclusive, Setting
<1>1. ASSUME NEW t \in Thread, SetAccepted(t)
      PROVE  Exclusive'
  BY <1>1 DEF SetAccepted, callVars, nativeVars
<1>2. ASSUME NEW t \in Thread, SetRejected(t)
      PROVE  Exclusive'
  BY <1>2 DEF SetRejected, callVars, nativeVars
<1>3. ASSUME NEW t \in Thread, EraseRejected(t)
      PROVE  Exclusive'
  BY <1>3 DEF EraseRejected, Return, callVars, nativeVars
<1>4. ASSUME NEW t \in Thread, Prune(t)
      PROVE  Exclusive'
  BY <1>4 DEF Prune, Return, callVars, nativeVars
<1>5. ASSUME NEW t \in Thread, Unsubscribed(t)
      PROVE  Exclusive'
  BY <1>5 DEF Unsubscribed, Return, DestroyReturned, callVars, nativeVars
<1>6. ASSUME NEW t \in Thread, DestroyTokens(t)
      PROVE  Exclusive'
  BY <1>6 DEF DestroyTokens, Return, DestroyReturned, callVars, nativeVars
<1>7. ASSUME NEW t \in Thread, AssignTokens(t)
      PROVE  Exclusive'
  BY <1>7 DEF AssignTokens, Return, DestroyReturned, callVars, nativeVars
<1>8. ASSUME NEW t \in Thread, NEW v \in Var, Unsubscribe(t, v)
      PROVE  Exclusive'
  BY <1>8 DEF Unsubscribe, End, Unused, callVars, nativeVars
<1>9. ASSUME NEW t \in Thread, NEW v \in Var, Destruct(t, v)
      PROVE  Exclusive'
  BY <1>9 DEF Destruct, End, Unused, callVars, nativeVars
<1>10. ASSUME NEW t \in Thread, NEW v \in Var, NEW f \in Token, Insert(t, v, f)
      PROVE  Exclusive'
  BY <1>10 DEF Insert, MaySet, Alive, Unused, callVars, nativeVars
<1>11. ASSUME NEW t \in Thread, NEW v \in Var, NEW w \in Var, AssignHandle(t, v, w)
      PROVE  Exclusive'
  BY <1>11 DEF AssignHandle, End, Unused, callVars, nativeVars
<1>12. ASSUME NEW v \in Var, NEW w \in Var, MoveConstruct(v, w)
      PROVE  Exclusive'
  BY <1>12 DEF MoveConstruct, Unused, callVars, nativeVars
<1>13. ASSUME NEW v \in Var, NEW k \in Id, Subscribe(v, k)
      PROVE  Exclusive'
  BY <1>13 DEF Subscribe, Unused, FreshId, callVars, nativeVars
<1>14. ASSUME NEW v \in Var, Drain(v)
      PROVE  Exclusive'
  BY <1>14 DEF Drain, End, callVars, nativeVars
<1>15. ASSUME NEW k \in Id, CompletionStarts(k)
      PROVE  Exclusive'
  BY <1>15 DEF CompletionStarts, callVars, nativeVars
<1>16. ASSUME NEW k \in Id, CompletionEnds(k)
      PROVE  Exclusive'
  BY <1>16 DEF CompletionEnds, callVars, nativeVars
<1>17. CASE ConnectionCloses
  BY <1>17 DEF ConnectionCloses, callVars, nativeVars
<1>18. CASE UNCHANGED vars
  BY <1>18 DEF vars, callVars, nativeVars
<1> QED
  BY <1>1, <1>2, <1>3, <1>4, <1>5, <1>6, <1>7, <1>8, <1>9,
     <1>10, <1>11, <1>12, <1>13, <1>14, <1>15, <1>16, <1>17, <1>18
  DEF Next

\* A handle moves; it is never copied.
LEMMA HandlesStep ==
  ASSUME TypeOK, Exclusive, Handles, ~SharedSetters, [Next]_vars
  PROVE  Handles'
<1> USE ConstantsAssumption DEF TypeOK, Exclusive, Handles, Setting
<1>1. ASSUME NEW t \in Thread, SetAccepted(t)
      PROVE  Handles'
  BY <1>1 DEF SetAccepted, callVars, nativeVars
<1>2. ASSUME NEW t \in Thread, SetRejected(t)
      PROVE  Handles'
  BY <1>2 DEF SetRejected, callVars, nativeVars
<1>3. ASSUME NEW t \in Thread, EraseRejected(t)
      PROVE  Handles'
  BY <1>3 DEF EraseRejected, Return, callVars, nativeVars
<1>4. ASSUME NEW t \in Thread, Prune(t)
      PROVE  Handles'
  BY <1>4 DEF Prune, Return, callVars, nativeVars
<1>5. ASSUME NEW t \in Thread, Unsubscribed(t)
      PROVE  Handles'
  BY <1>5 DEF Unsubscribed, Return, DestroyReturned, callVars, nativeVars
<1>6. ASSUME NEW t \in Thread, DestroyTokens(t)
      PROVE  Handles'
  BY <1>6 DEF DestroyTokens, Return, DestroyReturned, callVars, nativeVars
<1>7. ASSUME NEW t \in Thread, AssignTokens(t)
      PROVE  Handles'
  BY <1>7 DEF AssignTokens, Return, DestroyReturned, callVars, nativeVars
<1>8. ASSUME NEW t \in Thread, NEW v \in Var, Unsubscribe(t, v)
      PROVE  Handles'
  BY <1>8 DEF Unsubscribe, End, Unused, callVars, nativeVars
<1>9. ASSUME NEW t \in Thread, NEW v \in Var, Destruct(t, v)
      PROVE  Handles'
  BY <1>9 DEF Destruct, End, Unused, callVars, nativeVars
<1>10. ASSUME NEW t \in Thread, NEW v \in Var, NEW f \in Token, Insert(t, v, f)
      PROVE  Handles'
  BY <1>10 DEF Insert, MaySet, Alive, Unused, callVars, nativeVars
<1>11. ASSUME NEW t \in Thread, NEW v \in Var, NEW w \in Var, AssignHandle(t, v, w)
      PROVE  Handles'
  BY <1>11 DEF AssignHandle, End, Unused, callVars, nativeVars
<1>12. ASSUME NEW v \in Var, NEW w \in Var, MoveConstruct(v, w)
      PROVE  Handles'
  BY <1>12 DEF MoveConstruct, Unused, callVars, nativeVars
<1>13. ASSUME NEW v \in Var, NEW k \in Id, Subscribe(v, k)
      PROVE  Handles'
  BY <1>13 DEF Subscribe, Unused, FreshId, callVars, nativeVars
<1>14. ASSUME NEW v \in Var, Drain(v)
      PROVE  Handles'
  BY <1>14 DEF Drain, End, callVars, nativeVars
<1>15. ASSUME NEW k \in Id, CompletionStarts(k)
      PROVE  Handles'
  BY <1>15 DEF CompletionStarts, callVars, nativeVars
<1>16. ASSUME NEW k \in Id, CompletionEnds(k)
      PROVE  Handles'
  BY <1>16 DEF CompletionEnds, callVars, nativeVars
<1>17. CASE ConnectionCloses
  BY <1>17 DEF ConnectionCloses, callVars, nativeVars
<1>18. CASE UNCHANGED vars
  BY <1>18 DEF vars, callVars, nativeVars
<1> QED
  BY <1>1, <1>2, <1>3, <1>4, <1>5, <1>6, <1>7, <1>8, <1>9,
     <1>10, <1>11, <1>12, <1>13, <1>14, <1>15, <1>16, <1>17, <1>18
  DEF Next

\* A handle is given up only when its subscription has completed.
LEMMA NativeStep ==
  ASSUME TypeOK, Handles, Native, DestroyWaits, [Next]_vars
  PROVE  Native'
<1> USE ConstantsAssumption DEF TypeOK, Handles, Native, Setting
<1>1. ASSUME NEW t \in Thread, SetAccepted(t)
      PROVE  Native'
  BY <1>1 DEF SetAccepted, callVars, nativeVars
<1>2. ASSUME NEW t \in Thread, SetRejected(t)
      PROVE  Native'
  BY <1>2 DEF SetRejected, callVars, nativeVars
<1>3. ASSUME NEW t \in Thread, EraseRejected(t)
      PROVE  Native'
  BY <1>3 DEF EraseRejected, Return, callVars, nativeVars
<1>4. ASSUME NEW t \in Thread, Prune(t)
      PROVE  Native'
  BY <1>4 DEF Prune, Return, callVars, nativeVars
<1>5. ASSUME NEW t \in Thread, Unsubscribed(t)
      PROVE  Native'
  BY <1>5 DEF Unsubscribed, Return, DestroyReturned, callVars, nativeVars
<1>6. ASSUME NEW t \in Thread, DestroyTokens(t)
      PROVE  Native'
  BY <1>6 DEF DestroyTokens, Return, DestroyReturned, callVars, nativeVars
<1>7. ASSUME NEW t \in Thread, AssignTokens(t)
      PROVE  Native'
  BY <1>7 DEF AssignTokens, Return, DestroyReturned, callVars, nativeVars
<1>8. ASSUME NEW t \in Thread, NEW v \in Var, Unsubscribe(t, v)
      PROVE  Native'
  BY <1>8 DEF Unsubscribe, End, Unused, callVars, nativeVars
<1>9. ASSUME NEW t \in Thread, NEW v \in Var, Destruct(t, v)
      PROVE  Native'
  BY <1>9 DEF Destruct, End, Unused, callVars, nativeVars
<1>10. ASSUME NEW t \in Thread, NEW v \in Var, NEW f \in Token, Insert(t, v, f)
      PROVE  Native'
  BY <1>10 DEF Insert, MaySet, Alive, Unused, callVars, nativeVars
<1>11. ASSUME NEW t \in Thread, NEW v \in Var, NEW w \in Var, AssignHandle(t, v, w)
      PROVE  Native'
  BY <1>11 DEF AssignHandle, End, Unused, callVars, nativeVars
<1>12. ASSUME NEW v \in Var, NEW w \in Var, MoveConstruct(v, w)
      PROVE  Native'
  BY <1>12 DEF MoveConstruct, Unused, callVars, nativeVars
<1>13. ASSUME NEW v \in Var, NEW k \in Id, Subscribe(v, k)
      PROVE  Native'
  BY <1>13 DEF Subscribe, Unused, FreshId, callVars, nativeVars
<1>14. ASSUME NEW v \in Var, Drain(v)
      PROVE  Native'
  BY <1>14 DEF Drain, End, callVars, nativeVars
<1>15. ASSUME NEW k \in Id, CompletionStarts(k)
      PROVE  Native'
  BY <1>15 DEF CompletionStarts, callVars, nativeVars
<1>16. ASSUME NEW k \in Id, CompletionEnds(k)
      PROVE  Native'
  BY <1>16 DEF CompletionEnds, callVars, nativeVars
<1>17. CASE ConnectionCloses
  BY <1>17 DEF ConnectionCloses, callVars, nativeVars
<1>18. CASE UNCHANGED vars
  BY <1>18 DEF vars, callVars, nativeVars
<1> QED
  BY <1>1, <1>2, <1>3, <1>4, <1>5, <1>6, <1>7, <1>8, <1>9,
     <1>10, <1>11, <1>12, <1>13, <1>14, <1>15, <1>16, <1>17, <1>18
  DEF Next

\* completion_callbacks_ between calls.
LEMMA ExactStep ==
  ASSUME IInv, ~SharedSetters, DestroyWaits, [Next]_vars
  PROVE  Exact'
<1> USE ConstantsAssumption DEF IInv, TypeOK, Exclusive, Handles, Exact, Midway, Holds, Unused, Setting
<1>1. ASSUME NEW t \in Thread, SetAccepted(t)
      PROVE  Exact'
  BY <1>1 DEF SetAccepted, callVars, nativeVars
<1>2. ASSUME NEW t \in Thread, SetRejected(t)
      PROVE  Exact'
  BY <1>2 DEF SetRejected, callVars, nativeVars
<1>3. ASSUME NEW t \in Thread, EraseRejected(t)
      PROVE  Exact'
  BY <1>3 DEF EraseRejected, Return, callVars, nativeVars
<1>4. ASSUME NEW t \in Thread, Prune(t)
      PROVE  Exact'
  BY <1>4 DEF Prune, Return, callVars, nativeVars
<1>5. ASSUME NEW t \in Thread, Unsubscribed(t)
      PROVE  Exact'
  BY <1>5 DEF Unsubscribed, Return, DestroyReturned, callVars, nativeVars
<1>6. ASSUME NEW t \in Thread, DestroyTokens(t)
      PROVE  Exact'
  BY <1>6 DEF DestroyTokens, Return, DestroyReturned, callVars, nativeVars
<1>7. ASSUME NEW t \in Thread, AssignTokens(t)
      PROVE  Exact'
  BY <1>7 DEF AssignTokens, Return, DestroyReturned, callVars, nativeVars
<1>8. ASSUME NEW t \in Thread, NEW v \in Var, Unsubscribe(t, v)
      PROVE  Exact'
  BY <1>8 DEF Unsubscribe, End, Unused, callVars, nativeVars
<1>9. ASSUME NEW t \in Thread, NEW v \in Var, Destruct(t, v)
      PROVE  Exact'
  BY <1>9 DEF Destruct, End, Unused, callVars, nativeVars
<1>10. ASSUME NEW t \in Thread, NEW v \in Var, NEW f \in Token, Insert(t, v, f)
      PROVE  Exact'
  BY <1>10 DEF Insert, MaySet, Alive, Unused, callVars, nativeVars
<1>11. ASSUME NEW t \in Thread, NEW v \in Var, NEW w \in Var, AssignHandle(t, v, w)
      PROVE  Exact'
  BY <1>11 DEF AssignHandle, End, Unused, callVars, nativeVars
<1>12. ASSUME NEW v \in Var, NEW w \in Var, MoveConstruct(v, w)
      PROVE  Exact'
  BY <1>12 DEF MoveConstruct, Unused, callVars, nativeVars
<1>13. ASSUME NEW v \in Var, NEW k \in Id, Subscribe(v, k)
      PROVE  Exact'
  BY <1>13 DEF Subscribe, Unused, FreshId, callVars, nativeVars
<1>14. ASSUME NEW v \in Var, Drain(v)
      PROVE  Exact'
  BY <1>14 DEF Drain, End, callVars, nativeVars
<1>15. ASSUME NEW k \in Id, CompletionStarts(k)
      PROVE  Exact'
  BY <1>15 DEF CompletionStarts, callVars, nativeVars
<1>16. ASSUME NEW k \in Id, CompletionEnds(k)
      PROVE  Exact'
  BY <1>16 DEF CompletionEnds, callVars, nativeVars
<1>17. CASE ConnectionCloses
  BY <1>17 DEF ConnectionCloses, callVars, nativeVars
<1>18. CASE UNCHANGED vars
  BY <1>18 DEF vars, callVars, nativeVars
<1> QED
  BY <1>1, <1>2, <1>3, <1>4, <1>5, <1>6, <1>7, <1>8, <1>9,
     <1>10, <1>11, <1>12, <1>13, <1>14, <1>15, <1>16, <1>17, <1>18
  DEF Next

\* completion_callbacks_ during calls.
LEMMA MidwayStep ==
  ASSUME IInv, ~SharedSetters, DestroyWaits, [Next]_vars
  PROVE  Midway'
<1> USE ConstantsAssumption DEF IInv, TypeOK, Exclusive, Handles, Exact, Midway, Holds, Unused, Setting
<1>1. ASSUME NEW t \in Thread, SetAccepted(t)
      PROVE  Midway'
  BY <1>1 DEF SetAccepted, callVars, nativeVars
<1>2. ASSUME NEW t \in Thread, SetRejected(t)
      PROVE  Midway'
  BY <1>2 DEF SetRejected, callVars, nativeVars
<1>3. ASSUME NEW t \in Thread, EraseRejected(t)
      PROVE  Midway'
  BY <1>3 DEF EraseRejected, Return, callVars, nativeVars
<1>4. ASSUME NEW t \in Thread, Prune(t)
      PROVE  Midway'
  BY <1>4 DEF Prune, Return, callVars, nativeVars
<1>5. ASSUME NEW t \in Thread, Unsubscribed(t)
      PROVE  Midway'
  BY <1>5 DEF Unsubscribed, Return, DestroyReturned, callVars, nativeVars
<1>6. ASSUME NEW t \in Thread, DestroyTokens(t)
      PROVE  Midway'
  BY <1>6 DEF DestroyTokens, Return, DestroyReturned, callVars, nativeVars
<1>7. ASSUME NEW t \in Thread, AssignTokens(t)
      PROVE  Midway'
  BY <1>7 DEF AssignTokens, Return, DestroyReturned, callVars, nativeVars
<1>8. ASSUME NEW t \in Thread, NEW v \in Var, Unsubscribe(t, v)
      PROVE  Midway'
  BY <1>8 DEF Unsubscribe, End, Unused, callVars, nativeVars
<1>9. ASSUME NEW t \in Thread, NEW v \in Var, Destruct(t, v)
      PROVE  Midway'
  BY <1>9 DEF Destruct, End, Unused, callVars, nativeVars
<1>10. ASSUME NEW t \in Thread, NEW v \in Var, NEW f \in Token, Insert(t, v, f)
      PROVE  Midway'
  BY <1>10 DEF Insert, MaySet, Alive, Unused, callVars, nativeVars
<1>11. ASSUME NEW t \in Thread, NEW v \in Var, NEW w \in Var, AssignHandle(t, v, w)
      PROVE  Midway'
  BY <1>11 DEF AssignHandle, End, Unused, callVars, nativeVars
<1>12. ASSUME NEW v \in Var, NEW w \in Var, MoveConstruct(v, w)
      PROVE  Midway'
  BY <1>12 DEF MoveConstruct, Unused, callVars, nativeVars
<1>13. ASSUME NEW v \in Var, NEW k \in Id, Subscribe(v, k)
      PROVE  Midway'
  BY <1>13 DEF Subscribe, Unused, FreshId, callVars, nativeVars
<1>14. ASSUME NEW v \in Var, Drain(v)
      PROVE  Midway'
  BY <1>14 DEF Drain, End, callVars, nativeVars
<1>15. ASSUME NEW k \in Id, CompletionStarts(k)
      PROVE  Midway'
  BY <1>15 DEF CompletionStarts, callVars, nativeVars
<1>16. ASSUME NEW k \in Id, CompletionEnds(k)
      PROVE  Midway'
  BY <1>16 DEF CompletionEnds, callVars, nativeVars
<1>17. CASE ConnectionCloses
  BY <1>17 DEF ConnectionCloses, callVars, nativeVars
<1>18. CASE UNCHANGED vars
  BY <1>18 DEF vars, callVars, nativeVars
<1> QED
  BY <1>1, <1>2, <1>3, <1>4, <1>5, <1>6, <1>7, <1>8, <1>9,
     <1>10, <1>11, <1>12, <1>13, <1>14, <1>15, <1>16, <1>17, <1>18
  DEF Next

\* Callbacks do not pile up.
LEMMA FewStep ==
  ASSUME IInv, ~SharedSetters, DestroyWaits, [Next]_vars
  PROVE  Few'
<1> USE ConstantsAssumption DEF IInv, TypeOK, Exclusive, Handles, Exact, Midway, Few, Holds, Unused, Setting
<1>1. ASSUME NEW t \in Thread, SetAccepted(t)
      PROVE  Few'
  BY <1>1 DEF SetAccepted, callVars, nativeVars
<1>2. ASSUME NEW t \in Thread, SetRejected(t)
      PROVE  Few'
  BY <1>2 DEF SetRejected, callVars, nativeVars
<1>3. ASSUME NEW t \in Thread, EraseRejected(t)
      PROVE  Few'
  BY <1>3 DEF EraseRejected, Return, callVars, nativeVars
<1>4. ASSUME NEW t \in Thread, Prune(t)
      PROVE  Few'
  BY <1>4 DEF Prune, Return, callVars, nativeVars
<1>5. ASSUME NEW t \in Thread, Unsubscribed(t)
      PROVE  Few'
  BY <1>5 DEF Unsubscribed, Return, DestroyReturned, callVars, nativeVars
<1>6. ASSUME NEW t \in Thread, DestroyTokens(t)
      PROVE  Few'
  BY <1>6 DEF DestroyTokens, Return, DestroyReturned, callVars, nativeVars
<1>7. ASSUME NEW t \in Thread, AssignTokens(t)
      PROVE  Few'
  BY <1>7 DEF AssignTokens, Return, DestroyReturned, callVars, nativeVars
<1>8. ASSUME NEW t \in Thread, NEW v \in Var, Unsubscribe(t, v)
      PROVE  Few'
  BY <1>8 DEF Unsubscribe, End, Unused, callVars, nativeVars
<1>9. ASSUME NEW t \in Thread, NEW v \in Var, Destruct(t, v)
      PROVE  Few'
  BY <1>9 DEF Destruct, End, Unused, callVars, nativeVars
<1>10. ASSUME NEW t \in Thread, NEW v \in Var, NEW f \in Token, Insert(t, v, f)
      PROVE  Few'
  BY <1>10 DEF Insert, MaySet, Alive, Unused, callVars, nativeVars
<1>11. ASSUME NEW t \in Thread, NEW v \in Var, NEW w \in Var, AssignHandle(t, v, w)
      PROVE  Few'
  BY <1>11 DEF AssignHandle, End, Unused, callVars, nativeVars
<1>12. ASSUME NEW v \in Var, NEW w \in Var, MoveConstruct(v, w)
      PROVE  Few'
  BY <1>12 DEF MoveConstruct, Unused, callVars, nativeVars
<1>13. ASSUME NEW v \in Var, NEW k \in Id, Subscribe(v, k)
      PROVE  Few'
  BY <1>13 DEF Subscribe, Unused, FreshId, callVars, nativeVars
<1>14. ASSUME NEW v \in Var, Drain(v)
      PROVE  Few'
  BY <1>14 DEF Drain, End, callVars, nativeVars
<1>15. ASSUME NEW k \in Id, CompletionStarts(k)
      PROVE  Few'
  BY <1>15 DEF CompletionStarts, callVars, nativeVars
<1>16. ASSUME NEW k \in Id, CompletionEnds(k)
      PROVE  Few'
  BY <1>16 DEF CompletionEnds, callVars, nativeVars
<1>17. CASE ConnectionCloses
  BY <1>17 DEF ConnectionCloses, callVars, nativeVars
<1>18. CASE UNCHANGED vars
  BY <1>18 DEF vars, callVars, nativeVars
<1> QED
  BY <1>1, <1>2, <1>3, <1>4, <1>5, <1>6, <1>7, <1>8, <1>9,
     <1>10, <1>11, <1>12, <1>13, <1>14, <1>15, <1>16, <1>17, <1>18
  DEF Next

\* A replacement leaves one callback to prune.
LEMMA ReplacedStep ==
  ASSUME IInv, ~SharedSetters, [Next]_vars
  PROVE  Replaced'
<1> USE ConstantsAssumption DEF IInv, TypeOK, Exclusive, Midway, Replaced, Setting
<1>1. ASSUME NEW t \in Thread, SetAccepted(t)
      PROVE  Replaced'
  BY <1>1 DEF SetAccepted, callVars, nativeVars
<1>2. ASSUME NEW t \in Thread, SetRejected(t)
      PROVE  Replaced'
  BY <1>2 DEF SetRejected, callVars, nativeVars
<1>3. ASSUME NEW t \in Thread, EraseRejected(t)
      PROVE  Replaced'
  BY <1>3 DEF EraseRejected, Return, callVars, nativeVars
<1>4. ASSUME NEW t \in Thread, Prune(t)
      PROVE  Replaced'
  BY <1>4 DEF Prune, Return, callVars, nativeVars
<1>5. ASSUME NEW t \in Thread, Unsubscribed(t)
      PROVE  Replaced'
  BY <1>5 DEF Unsubscribed, Return, DestroyReturned, callVars, nativeVars
<1>6. ASSUME NEW t \in Thread, DestroyTokens(t)
      PROVE  Replaced'
  BY <1>6 DEF DestroyTokens, Return, DestroyReturned, callVars, nativeVars
<1>7. ASSUME NEW t \in Thread, AssignTokens(t)
      PROVE  Replaced'
  BY <1>7 DEF AssignTokens, Return, DestroyReturned, callVars, nativeVars
<1>8. ASSUME NEW t \in Thread, NEW v \in Var, Unsubscribe(t, v)
      PROVE  Replaced'
  BY <1>8 DEF Unsubscribe, End, Unused, callVars, nativeVars
<1>9. ASSUME NEW t \in Thread, NEW v \in Var, Destruct(t, v)
      PROVE  Replaced'
  BY <1>9 DEF Destruct, End, Unused, callVars, nativeVars
<1>10. ASSUME NEW t \in Thread, NEW v \in Var, NEW f \in Token, Insert(t, v, f)
      PROVE  Replaced'
  BY <1>10 DEF Insert, MaySet, Alive, Unused, callVars, nativeVars
<1>11. ASSUME NEW t \in Thread, NEW v \in Var, NEW w \in Var, AssignHandle(t, v, w)
      PROVE  Replaced'
  BY <1>11 DEF AssignHandle, End, Unused, callVars, nativeVars
<1>12. ASSUME NEW v \in Var, NEW w \in Var, MoveConstruct(v, w)
      PROVE  Replaced'
  BY <1>12 DEF MoveConstruct, Unused, callVars, nativeVars
<1>13. ASSUME NEW v \in Var, NEW k \in Id, Subscribe(v, k)
      PROVE  Replaced'
  BY <1>13 DEF Subscribe, Unused, FreshId, callVars, nativeVars
<1>14. ASSUME NEW v \in Var, Drain(v)
      PROVE  Replaced'
  BY <1>14 DEF Drain, End, callVars, nativeVars
<1>15. ASSUME NEW k \in Id, CompletionStarts(k)
      PROVE  Replaced'
  BY <1>15 DEF CompletionStarts, callVars, nativeVars
<1>16. ASSUME NEW k \in Id, CompletionEnds(k)
      PROVE  Replaced'
  BY <1>16 DEF CompletionEnds, callVars, nativeVars
<1>17. CASE ConnectionCloses
  BY <1>17 DEF ConnectionCloses, callVars, nativeVars
<1>18. CASE UNCHANGED vars
  BY <1>18 DEF vars, callVars, nativeVars
<1> QED
  BY <1>1, <1>2, <1>3, <1>4, <1>5, <1>6, <1>7, <1>8, <1>9,
     <1>10, <1>11, <1>12, <1>13, <1>14, <1>15, <1>16, <1>17, <1>18
  DEF Next

\* Whoever holds a native subscription, object or call, holds its callback.
LEMMA StoredAlive ==
  ASSUME IInv, NEW k \in Id, nsub[k] # "done", stored[k] # None
  PROVE  Alive(stored[k])
<1> USE ConstantsAssumption DEF IInv, TypeOK
<1>1. stored[k] \in Token
  OBVIOUS
<1>2. CASE \E t \in Thread : handle[t] = k
  <2>1. PICK t \in Thread : handle[t] = k
    BY <1>2
  <2>2. obj[t] \in Var /\ stored[k] \in tokens[obj[t]]
    BY <2>1 DEF Midway, Handles
  <2> QED
    BY <2>2 DEF Alive
<1>3. CASE \E v \in Var : sub[v] = k
  <2>1. PICK v \in Var : sub[v] = k
    BY <1>3
  <2>2. CASE Unused(v)
    BY <1>1, <2>1, <2>2 DEF Exact, Holds, Alive
  <2>3. CASE ~Unused(v)
    <3>1. PICK t \in Thread : v \in {obj[t], source[t]}
      BY <2>3 DEF Unused
    <3>2. v = obj[t] /\ (pc[t] \in Setting \/ pc[t] = "assigning")
      BY <2>1, <3>1 DEF Handles, Setting
    <3>3. CASE pc[t] \in Setting
      BY <1>1, <2>1, <3>2, <3>3 DEF Midway, Setting, Alive
    <3>4. CASE pc[t] = "assigning"
      <4>1. source[t] \in Var /\ stored[k] \in tokens[source[t]]
        BY <1>1, <2>1, <3>2, <3>4 DEF Midway, Holds
      <4> QED
        BY <4>1 DEF Alive
    <3> QED
      BY <3>2, <3>3, <3>4
  <2> QED
    BY <2>2, <2>3
<1> QED
  BY <1>2, <1>3 DEF Native

\* A callback that is new is stored nowhere.
LEMMA DistinctStep ==
  ASSUME IInv, ~SharedSetters, DestroyWaits, [Next]_vars
  PROVE  Distinct'
<1> USE ConstantsAssumption DEF TypeOK, Distinct, Setting
<1>0. TypeOK /\ Distinct
  BY DEF IInv
<1>1. ASSUME NEW t \in Thread, SetAccepted(t)
      PROVE  Distinct'
  BY <1>0, <1>1 DEF SetAccepted, callVars, nativeVars
<1>2. ASSUME NEW t \in Thread, SetRejected(t)
      PROVE  Distinct'
  BY <1>0, <1>2 DEF SetRejected, callVars, nativeVars
<1>3. ASSUME NEW t \in Thread, EraseRejected(t)
      PROVE  Distinct'
  BY <1>0, <1>3 DEF EraseRejected, Return, callVars, nativeVars
<1>4. ASSUME NEW t \in Thread, Prune(t)
      PROVE  Distinct'
  BY <1>0, <1>4 DEF Prune, Return, callVars, nativeVars
<1>5. ASSUME NEW t \in Thread, Unsubscribed(t)
      PROVE  Distinct'
  BY <1>0, <1>5 DEF Unsubscribed, Return, DestroyReturned, callVars, nativeVars
<1>6. ASSUME NEW t \in Thread, DestroyTokens(t)
      PROVE  Distinct'
  BY <1>0, <1>6 DEF DestroyTokens, Return, DestroyReturned, callVars, nativeVars
<1>7. ASSUME NEW t \in Thread, AssignTokens(t)
      PROVE  Distinct'
  BY <1>0, <1>7 DEF AssignTokens, Return, DestroyReturned, callVars, nativeVars
<1>8. ASSUME NEW t \in Thread, NEW v \in Var, Unsubscribe(t, v)
      PROVE  Distinct'
  BY <1>0, <1>8 DEF Unsubscribe, End, Unused, callVars, nativeVars
<1>9. ASSUME NEW t \in Thread, NEW v \in Var, Destruct(t, v)
      PROVE  Distinct'
  BY <1>0, <1>9 DEF Destruct, End, Unused, callVars, nativeVars
<1>10. ASSUME NEW t \in Thread, NEW v \in Var, NEW f \in Token, Insert(t, v, f)
      PROVE  Distinct'
  <2>1. \A k \in Id : nsub[k] # "done" => stored[k] # f
    BY <1>10, StoredAlive DEF Insert
  <2> QED
    BY <1>0, <1>10, <2>1 DEF Insert, Alive, nativeVars
<1>11. ASSUME NEW t \in Thread, NEW v \in Var, NEW w \in Var, AssignHandle(t, v, w)
      PROVE  Distinct'
  BY <1>0, <1>11 DEF AssignHandle, End, Unused, callVars, nativeVars
<1>12. ASSUME NEW v \in Var, NEW w \in Var, MoveConstruct(v, w)
      PROVE  Distinct'
  BY <1>0, <1>12 DEF MoveConstruct, Unused, callVars, nativeVars
<1>13. ASSUME NEW v \in Var, NEW k \in Id, Subscribe(v, k)
      PROVE  Distinct'
  BY <1>0, <1>13 DEF Subscribe, Unused, FreshId, callVars, nativeVars
<1>14. ASSUME NEW v \in Var, Drain(v)
      PROVE  Distinct'
  BY <1>0, <1>14 DEF Drain, End, callVars, nativeVars
<1>15. ASSUME NEW k \in Id, CompletionStarts(k)
      PROVE  Distinct'
  BY <1>0, <1>15 DEF CompletionStarts, callVars, nativeVars
<1>16. ASSUME NEW k \in Id, CompletionEnds(k)
      PROVE  Distinct'
  <2>1. /\ UNCHANGED <<stored, pc, token>>
        /\ \A j \in Id : nsub'[j] # "done" => nsub[j] # "done"
    BY <1>0, <1>16 DEF CompletionEnds, callVars
  <2>2. \A j, i \in Id :
          nsub'[j] # "done" /\ nsub'[i] # "done" /\ stored[j] = stored[i] =>
            stored[j] = None \/ j = i
    BY <2>1, <1>0 DEF Distinct
  <2>3. \A t \in Thread, j \in Id :
          pc[t] \in {"inserted", "rejected"} /\ nsub'[j] # "done" => stored[j] # token[t]
    BY <2>1, <1>0 DEF Distinct
  <2>4. \A t, u \in Thread : token[t] = token[u] /\ token[t] # None => t = u
    BY <1>0, <1>0 DEF Distinct
  <2> HIDE DEF Setting
  <2> QED
    BY <2>1, <2>2, <2>3, <2>4 DEF Distinct
<1>17. CASE ConnectionCloses
  BY <1>0, <1>17 DEF ConnectionCloses, callVars, nativeVars
<1>18. CASE UNCHANGED vars
  BY <1>0, <1>18 DEF vars, callVars, nativeVars
<1> QED
  BY <1>1, <1>2, <1>3, <1>4, <1>5, <1>6, <1>7, <1>8, <1>9,
     <1>10, <1>11, <1>12, <1>13, <1>14, <1>15, <1>16, <1>17, <1>18
  DEF Next

-----------------------------------------------------------------------------
\* The inductive invariant, for programs in which one thread at a time sets
\* callbacks on an object and a natsSubscription_Destroy that waits.
LEMMA Invariance ==
  ASSUME ~SharedSetters, DestroyWaits
  PROVE  Spec => [](IInv /\ TypeOK)
<1>1. Init => IInv
  <2> SUFFICES ASSUME Init PROVE IInv
    OBVIOUS
  <2> USE ConstantsAssumption DEF Init
  <2>1. TypeOK
    BY DEF TypeOK, Setting
  <2>2. Exclusive /\ Handles
    BY DEF Exclusive, Handles, Setting
  <2>3. Native
    BY DEF Native
  <2>4. Exact /\ Midway
    BY DEF Exact, Midway
  <2>5. Few /\ Replaced
    BY DEF Few, Replaced
  <2>6. Distinct
    BY DEF Distinct
  <2> QED
    BY <2>1, <2>2, <2>3, <2>4, <2>5, <2>6 DEF IInv
<1>2. IInv /\ [Next]_vars => IInv'
  <2> SUFFICES ASSUME IInv, [Next]_vars PROVE IInv'
    OBVIOUS
  <2>1. TypeOK'
    BY TypeStep DEF IInv
  <2>2. Exclusive'
    BY <2>1, ExclusiveStep DEF IInv
  <2>3. Handles'
    BY <2>1, HandlesStep DEF IInv
  <2>4. Native'
    BY <2>1, NativeStep DEF IInv
  <2> QED
    BY <2>1, <2>2, <2>3, <2>4, ExactStep, MidwayStep, FewStep, ReplacedStep,
       DistinctStep DEF IInv
<1>3. IInv => TypeOK
  BY DEF IInv
<1> QED
  BY <1>1, <1>2, <1>3, PTL DEF Spec

\* What the invariant says of nats.c's closures.
LEMMA InvSafe == IInv => CompletionSafe
<1> SUFFICES ASSUME IInv, NEW k \in Id
             PROVE  /\ nsub[k] \in {"open", "ending"} => stored[k] = None \/ Alive(stored[k])
                    /\ calling[k] = None \/ Alive(calling[k])
  BY DEF CompletionSafe
<1>1. nsub[k] # "done" => stored[k] = None \/ Alive(stored[k])
  BY StoredAlive
<1>2. calling[k] = None \/ (nsub[k] = "completing" /\ calling[k] = stored[k])
  BY DEF IInv, Native
<1> QED
  BY <1>1, <1>2

\* Neither pruning nor a failed replacement, a move, unsubscribe or destruction
\* frees the callback that nats.c is calling or may still call, for any number
\* of subscriptions, callbacks and threads.
THEOREM CallbackSafety ==
  ASSUME ~SharedSetters, DestroyWaits
  PROVE  Spec => []CompletionSafe
BY Invariance, InvSafe, PTL

\* completion_callbacks_ of an object with a subscription is what nats.c stores.
THEOREM NothingPilesUp ==
  ASSUME ~SharedSetters, DestroyWaits
  PROVE  Spec => []ExactToken
<1>1. IInv => ExactToken
  BY ConstantsAssumption DEF IInv, TypeOK, Exact, Holds, ExactToken
<1> QED
  BY <1>1, Invariance, PTL

-----------------------------------------------------------------------------
(* Refinement: every step is a step of HandlerContract or none of its.     *)

Held == {f \in Token : Alive(f)}
Inside == {f \in Token : \E k \in Id : calling[k] = f}

\* A step of a call frees one callback at most, and none that is being called.
LEMMA FreeOrNone ==
  ASSUME IInv', Held' \subseteq Held, \A f, g \in Held \ Held' : f = g,
         UNCHANGED calling
  PROVE  [Contract!Next]_(Contract!vars)
<1>1. Inside' = Inside
  BY DEF Inside
<1>2. CASE Held' = Held
  BY <1>1, <1>2 DEF Contract!vars, Held, Inside
<1>3. CASE Held' # Held
  <2>1. PICK f \in Held : f \notin Held'
    BY <1>3
  <2>2. f \in Token /\ Held' = Held \ {f}
    BY <2>1 DEF Held
  <2>3. f \notin Inside
    <3>1. CompletionSafe'
      <4>1. (IInv => CompletionSafe)'
        BY InvSafe, PTL
      <4> QED
        BY <4>1
    <3>2. \A k \in Id : calling'[k] # f
      BY <2>1, <2>2, <3>1, ConstantsAssumption DEF CompletionSafe, Held
    <3> QED
      BY <3>2 DEF Inside
  <2>4. Contract!Free(f)
    BY <1>1, <2>1, <2>2, <2>3 DEF Contract!Free, Held, Inside
  <2> QED
    BY <2>2, <2>4 DEF Contract!Next
<1> QED
  BY <1>2, <1>3

\* Seen from the contract, setting a callback is Hold, giving one up is Free,
\* and the on-complete callback is Enter and Return.
LEMMA ContractStep ==
  ASSUME IInv, IInv', [Next]_vars, ~SharedSetters
  PROVE  [Contract!Next]_(Contract!vars)
<1> USE ConstantsAssumption DEF IInv, TypeOK
<1>0. UNCHANGED <<tokens, token, calling>> => [Contract!Next]_(Contract!vars)
  BY DEF Contract!vars, Alive
<1>1. ASSUME NEW t \in Thread, SetAccepted(t) \/ SetRejected(t)
      PROVE  [Contract!Next]_(Contract!vars)
  BY <1>0, <1>1 DEF SetAccepted, SetRejected, nativeVars
<1>2. ASSUME NEW t \in Thread, EraseRejected(t)
      PROVE  [Contract!Next]_(Contract!vars)
  <2>1. \A f \in Token : Alive(f)' => Alive(f)
    BY <1>2 DEF EraseRejected, Return, Alive
  <2>2. \A f \in Token : Alive(f) /\ ~Alive(f)' => f = token[t]
    BY <1>2 DEF EraseRejected, Return, Alive, Setting
  <2>3. Held' \subseteq Held /\ \A f \in Held \ Held' : f = token[t]
    BY <2>1, <2>2 DEF Held
  <2> QED
    BY <1>2, <2>3, FreeOrNone DEF EraseRejected, nativeVars
<1>3. ASSUME NEW t \in Thread, Prune(t)
      PROVE  [Contract!Next]_(Contract!vars)
  <2>1. obj[t] \in Var /\ token[t] \in tokens[obj[t]]
    BY <1>3 DEF Prune, Midway, Setting
  <2>2. \A f \in Token : Alive(f)' => Alive(f)
    BY <1>3 DEF Prune, Return, Alive
  <2>3. \A f \in Token : Alive(f) /\ ~Alive(f)' => f \in tokens[obj[t]] /\ f # token[t]
    BY <1>3, <2>1 DEF Prune, Return, Alive
  <2> QED
    BY <1>3, <2>2, <2>3, FreeOrNone DEF Prune, Replaced, nativeVars, Held
<1>4. ASSUME NEW t \in Thread, Unsubscribed(t)
      PROVE  [Contract!Next]_(Contract!vars)
  BY <1>0, <1>4 DEF Unsubscribed, Return, Setting, nativeVars
<1>5. ASSUME NEW t \in Thread, DestroyTokens(t)
      PROVE  [Contract!Next]_(Contract!vars)
  <2>0. obj[t] \in Var /\ \A u \in Thread : obj[u] = obj[t] => pc[u] = "destroying"
    BY <1>5 DEF DestroyTokens, Exclusive
  <2>1. obj[t] \in Var /\ \A f, g \in tokens[obj[t]] : f = g
    BY <2>0 DEF Few, Setting
  <2>2. \A f \in Token : Alive(f)' => Alive(f)
    BY <1>5 DEF DestroyTokens, Return, Alive
  <2>3. \A f \in Token : Alive(f) /\ ~Alive(f)' => f \in tokens[obj[t]]
    BY <1>5, <2>1 DEF DestroyTokens, Return, Alive, Setting
  <2> QED
    BY <1>5, <2>1, <2>2, <2>3, FreeOrNone DEF DestroyTokens, nativeVars, Held
<1>6. ASSUME NEW t \in Thread, AssignTokens(t)
      PROVE  [Contract!Next]_(Contract!vars)
  <2>1. /\ obj[t] \in Var /\ source[t] \in Var /\ obj[t] # source[t]
        /\ \A f, g \in tokens[obj[t]] : f = g
    <3>1. /\ obj[t] \in Var /\ source[t] \in Var /\ obj[t] # source[t]
          /\ \A u \in Thread : obj[u] = obj[t] => pc[u] = "assigning"
      BY <1>6 DEF AssignTokens, Exclusive
    <3> QED
      BY <3>1 DEF Few, Setting
  <2>2. \A f \in Token : Alive(f)' => Alive(f)
    BY <1>6, <2>1 DEF AssignTokens, Return, Alive
  <2>3. \A f \in Token : Alive(f) /\ ~Alive(f)' => f \in tokens[obj[t]]
    BY <1>6, <2>1 DEF AssignTokens, Return, Alive, Setting
  <2> QED
    BY <1>6, <2>1, <2>2, <2>3, FreeOrNone DEF AssignTokens, nativeVars, Held
<1>7. ASSUME NEW t \in Thread, NEW v \in Var, Unsubscribe(t, v) \/ Destruct(t, v)
      PROVE  [Contract!Next]_(Contract!vars)
  BY <1>0, <1>7 DEF Unsubscribe, Destruct
<1>8. ASSUME NEW t \in Thread, NEW v \in Var, NEW f \in Token, Insert(t, v, f)
      PROVE  [Contract!Next]_(Contract!vars)
  <2>1. f \notin Held /\ Held' = Held \cup {f}
    <3>1. ~Alive(f) /\ Alive(f)'
      BY <1>8 DEF Insert, Alive
    <3>2. token[t] = None
      BY <1>8 DEF Insert, Setting
    <3>3. \A g \in Token : g # f => (Alive(g)' <=> Alive(g))
      BY <1>8, <3>2 DEF Insert, Alive
    <3> QED
      BY <3>1, <3>3 DEF Held
  <2>2. Contract!Hold(f)
    BY <1>8, <2>1 DEF Insert, nativeVars, Contract!Hold, Held
  <2> QED
    BY <2>2 DEF Contract!Next
<1>9. ASSUME NEW t \in Thread, NEW v \in Var, NEW w \in Var, AssignHandle(t, v, w)
      PROVE  [Contract!Next]_(Contract!vars)
  BY <1>0, <1>9 DEF AssignHandle
<1>10. ASSUME NEW v \in Var, NEW w \in Var, MoveConstruct(v, w)
      PROVE  [Contract!Next]_(Contract!vars)
  <2>1. \A f \in Token : Alive(f)' <=> Alive(f)
    BY <1>10 DEF MoveConstruct, callVars, Alive
  <2> QED
    BY <1>10, <2>1 DEF MoveConstruct, nativeVars, Contract!vars
<1>11. ASSUME NEW v \in Var, NEW k \in Id, Subscribe(v, k)
      PROVE  [Contract!Next]_(Contract!vars)
  BY <1>0, <1>11 DEF Subscribe, callVars
<1>12. ASSUME NEW v \in Var, Drain(v)
      PROVE  [Contract!Next]_(Contract!vars)
  BY <1>0, <1>12 DEF Drain, callVars
<1>13. ASSUME NEW k \in Id, CompletionStarts(k)
      PROVE  [Contract!Next]_(Contract!vars)
  <2>1. Held' = Held
    BY <1>13 DEF CompletionStarts, callVars, Held, Alive
  <2>2. CASE stored[k] = None
    <3>1. calling' = calling
      BY <1>13, <2>2 DEF CompletionStarts, Native
    <3> QED
      BY <1>0, <1>13, <3>1 DEF CompletionStarts, callVars
  <2>3. CASE stored[k] # None
    <3>1. stored[k] \in Held
      BY <1>13, <2>3, StoredAlive DEF CompletionStarts, Held
    <3>2. stored[k] \notin Inside
      BY <1>13, <2>3 DEF CompletionStarts, Inside, Native, Distinct
    <3>3. Inside' = Inside \cup {stored[k]}
      BY <1>13, <2>3 DEF CompletionStarts, Inside, Native
    <3>4. PICK f \in Token : f = stored[k]
      BY <2>3
    <3>5. Contract!Enter(f)
      BY <2>1, <3>1, <3>2, <3>3, <3>4 DEF Contract!Enter, Held, Inside
    <3> QED
      BY <3>5 DEF Contract!Next
  <2> QED
    BY <2>2, <2>3
<1>14. ASSUME NEW k \in Id, CompletionEnds(k)
      PROVE  [Contract!Next]_(Contract!vars)
  <2>1. Held' = Held /\ calling[k] = stored[k]
    BY <1>14 DEF CompletionEnds, callVars, Held, Alive, Native
  <2>2. CASE stored[k] = None
    <3>1. calling' = calling
      BY <1>14, <2>1, <2>2 DEF CompletionEnds
    <3> QED
      BY <1>0, <1>14, <3>1 DEF CompletionEnds, callVars
  <2>3. CASE stored[k] # None
    <3>1. stored[k] \in Inside
      BY <2>1, <2>3 DEF Inside
    <3>2. \A j \in Id : j # k => calling[j] # stored[k]
      BY <1>14, <2>3 DEF CompletionEnds, Native, Distinct
    <3>3. Inside' = Inside \ {stored[k]}
      <4>1. calling' = [calling EXCEPT ![k] = None]
        BY <1>14 DEF CompletionEnds
      <4>2. \A f \in Token : (\E j \in Id : calling'[j] = f)
                              <=> f # stored[k] /\ \E j \in Id : calling[j] = f
        BY <2>1, <3>2, <4>1
      <4> QED
        BY <4>2 DEF Inside
    <3>4. PICK f \in Token : f = stored[k]
      BY <2>3
    <3>5. Contract!Return(f)
      BY <2>1, <3>1, <3>3, <3>4 DEF Contract!Return, Held, Inside
    <3> QED
      BY <3>5 DEF Contract!Next
  <2> QED
    BY <2>2, <2>3
<1>15. CASE ConnectionCloses
  BY <1>0, <1>15 DEF ConnectionCloses, callVars
<1>16. CASE UNCHANGED vars
  BY <1>0, <1>16 DEF vars, callVars, nativeVars
<1> QED
  BY <1>1, <1>2, <1>3, <1>4, <1>5, <1>6, <1>7, <1>8, <1>9, <1>10, <1>11, <1>12,
     <1>13, <1>14, <1>15, <1>16
  DEF Next

\* On-complete callbacks are given the promise message handlers are given.
THEOREM Refinement ==
  ASSUME ~SharedSetters, DestroyWaits
  PROVE  Spec => KeepsContract
<1>1. Init => Contract!Init
  BY ConstantsAssumption DEF Init, Contract!Init, Alive
<1>2. IInv /\ IInv' /\ [Next]_vars => [Contract!Next]_(Contract!vars)
  BY ContractStep
<1> QED
  BY <1>1, <1>2, Invariance, PTL DEF Spec, KeepsContract, Contract!Spec
=============================================================================
