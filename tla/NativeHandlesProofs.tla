------------------------- MODULE NativeHandlesProofs -------------------------
(***************************************************************************)
(* Why every native handle that is not leaked by upsert_consumer_group()   *)
(* is destroyed exactly once and a store never outlives its context:       *)
(* proofs for any number of objects, wrappers, calls and handles.          *)
(* Contexts, stores and the handles of the wrappers have different types,  *)
(* so each has an invariant of its own.                                    *)
(***************************************************************************)
EXTENDS NativeHandles, FiniteSetTheorems, TLAPS

\* A context that exists is in one key_value or in one delete_bucket().
Contexts ==
  /\ \A c \in Ctx \cap live : (\E o \in Obj : ctx_[o] = c) \/ (\E d \in Task : temp[d] = c)
  /\ \A o \in Obj : ctx_[o] # None => ctx_[o] \in live
  /\ \A o \in Obj : pc[o] \in {"create", "construct"} => ctx_[o] # None
  /\ \A d \in Task : temp[d] # None => temp[d] \in live
  /\ \A o, p \in Obj : o # p /\ ctx_[o] # None => ctx_[o] # ctx_[p]
  /\ \A d, e \in Task : d # e /\ temp[d] # None => temp[d] # temp[e]
  /\ \A o \in Obj, d \in Task : ctx_[o] # None => ctx_[o] # temp[d]

\* A store that exists is in one key_value.
Stores ==
  /\ \A s \in Store \cap live : \E o \in Obj : kv_[o] = s
  /\ \A o \in Obj : kv_[o] # None => kv_[o] \in live
  /\ \A o, p \in Obj : o # p /\ kv_[o] # None => kv_[o] # kv_[p]

\* Any other handle that exists is in one wrapper, or with one call: as its
\* result, in its list or in its vector; or it is abandoned, and nobody has it.
Handles ==
  /\ \A h \in Handle \cap live :
       \/ h \in abandoned
       \/ \E w \in Wrapper : ptr[w] = h
       \/ \E d \in Task : result[d] = h \/ h \in list[d] \/ h \in entries[d]
  /\ \A w \in Wrapper : ptr[w] # None => ptr[w] \in live
  /\ \A d \in Task : /\ result[d] # None => result[d] \in live
                     /\ list[d] \subseteq live /\ entries[d] \subseteq live
                     /\ result[d] \notin list[d] \cup entries[d]
                     /\ list[d] \cap entries[d] = {}
  /\ \A w, x \in Wrapper : w # x /\ ptr[w] # None => ptr[w] # ptr[x]
  /\ \A w \in Wrapper, d \in Task : ptr[w] # None =>
       ptr[w] # result[d] /\ ptr[w] \notin list[d] \cup entries[d]
  /\ \A d, e \in Task : d # e =>
       /\ result[d] # None => result[d] # result[e]
       /\ result[d] \notin list[e] \cup entries[e]
       /\ (list[d] \cup entries[d]) \cap (list[e] \cup entries[e]) = {}
  /\ abandoned \subseteq live
  /\ \A w \in Wrapper : ptr[w] \notin abandoned
  /\ \A d \in Task : /\ result[d] \notin abandoned
                     /\ (list[d] \cup entries[d]) \cap abandoned = {}

IInv == TypeOK /\ Contexts /\ Stores /\ Handles /\ StoreWithContext

-----------------------------------------------------------------------------
\* The calls that guard their native result at once are alike.
LEMMA NextIsReceive ==
  ASSUME NEW d \in Task, NEW h \in Handle
  PROVE  /\ header_values(d, h) \/ get_metadata(d, h) \/ extract_pub_ack(d, h)
            \/ create_stream(d, h) \/ get_stream_info(d, h) \/ list_streams(d, h)
            => Receive(d, h)
         /\ get_consumer_group(d, h) \/ list_consumer_groups(d, h) \/ get_account_info(d, h)
            \/ keys(d, h) \/ status(d, h)
            => Receive(d, h)
BY DEF header_values, get_metadata, extract_pub_ack, create_stream, get_stream_info,
       list_streams, get_consumer_group, list_consumer_groups,
       get_account_info, keys, status

\* Every step keeps the types; a move leaves its source without a store.
LEMMA TypeStep == IInv /\ [Next]_vars => TypeOK'
<1> SUFFICES ASSUME IInv, [Next]_vars PROVE TypeOK'
  OBVIOUS
<1> USE ConstantsAssumption DEF IInv, TypeOK, StoreWithContext
<1>1. ASSUME NEW o \in Obj, NEW c \in Ctx, BeginCreate(o, c) \/ BeginConstruct(o, c)
      PROVE  TypeOK'
  BY <1>1 DEF BeginCreate, BeginConstruct, CreateContext, callVars
<1>2. ASSUME NEW o \in Obj, NEW s \in Store, OpenStore(o, s)
      PROVE  TypeOK'
  BY <1>2 DEF OpenStore, callVars
<1>3. ASSUME NEW o \in Obj, CreateFails(o) \/ Unwind(o) \/ Destruct(o)
      PROVE  TypeOK'
  BY <1>3 DEF CreateFails, Unwind, Destruct, DestroySelf, callVars
<1>4. ASSUME NEW o \in Obj, ConfigFails(o)
      PROVE  TypeOK'
  BY <1>4 DEF ConfigFails, callVars
<1>5. ASSUME NEW o \in Obj, ConstructFails(o)
      PROVE  TypeOK'
  BY <1>5 DEF ConstructFails, callVars
<1>6. ASSUME NEW o \in Obj, NEW p \in Obj, MoveConstruct(o, p)
      PROVE  TypeOK'
  BY <1>6 DEF MoveConstruct, callVars
<1>7. ASSUME NEW o \in Obj, NEW p \in Obj, MoveAssign(o, p)
      PROVE  TypeOK'
  BY <1>7 DEF MoveAssign, callVars
<1>8. ASSUME NEW d \in Task, NEW c \in Ctx, DeleteBucket(d, c)
      PROVE  TypeOK'
  BY <1>8 DEF DeleteBucket, callVars
<1>9. ASSUME NEW d \in Task, BucketDeleted(d)
      PROVE  TypeOK'
  BY <1>9 DEF BucketDeleted, callVars
<1>10. ASSUME NEW w \in Wrapper, NEW h \in Handle, Wrap(w, h)
      PROVE  TypeOK'
  BY <1>10 DEF Wrap, kvVars, callVars
<1>11. ASSUME NEW w \in Wrapper, NEW x \in Wrapper, AssignWrapper(w, x)
      PROVE  TypeOK'
  BY <1>11 DEF AssignWrapper, kvVars, callVars
<1>12. ASSUME NEW w \in Wrapper, DestroyWrapper(w)
      PROVE  TypeOK'
  BY <1>12 DEF DestroyWrapper, kvVars, callVars
<1>13. ASSUME NEW d \in Task, NEW h \in Handle, Receive(d, h)
      PROVE  TypeOK'
  BY <1>13 DEF Receive, Fill, kvVars
<1>14. ASSUME NEW d \in Task, ResultEnds(d)
      PROVE  TypeOK'
  BY <1>14 DEF ResultEnds, kvVars
<1>15. ASSUME NEW d \in Task, NEW H \in SUBSET Handle, history(d, H)
      PROVE  TypeOK'
  BY <1>15 DEF history, kvVars
<1>16. ASSUME NEW d \in Task, NEW h \in Handle, TakeEntry(d, h)
      PROVE  TypeOK'
  BY <1>16 DEF TakeEntry, kvVars
<1>17. ASSUME NEW d \in Task, HistoryThrows(d) \/ DropHistory(d)
      PROVE  TypeOK'
  BY <1>17 DEF HistoryThrows, DropHistory, kvVars
<1>18. ASSUME NEW d \in Task, NEW h \in Handle, upsert_consumer_group(d, h)
      PROVE  TypeOK'
  BY <1>18 DEF upsert_consumer_group, Fill, kvVars
<1>19. ASSUME NEW d \in Task, GuardResult(d)
      PROVE  TypeOK'
  BY <1>19 DEF GuardResult, kvVars
<1>20. ASSUME NEW d \in Task, CopyThrows(d)
      PROVE  TypeOK'
  BY <1>20 DEF CopyThrows, kvVars
<1>21. CASE UNCHANGED vars
  BY <1>21 DEF vars
<1> QED
  BY <1>1, <1>2, <1>3, <1>4, <1>5, <1>6, <1>7, <1>8, <1>9, <1>10, <1>11, <1>12,
     <1>13, <1>14, <1>15, <1>16, <1>17, <1>18, <1>19, <1>20, <1>21,
     NextIsReceive DEF Next

\* A context is taken over or destroyed, never forgotten or shared.
LEMMA ContextsStep == IInv /\ [Next]_vars => Contexts'
<1> SUFFICES ASSUME IInv, [Next]_vars PROVE Contexts'
  OBVIOUS
<1> USE ConstantsAssumption DEF IInv, TypeOK, Contexts, Stores
<1>1. ASSUME NEW o \in Obj, NEW c \in Ctx, BeginCreate(o, c) \/ BeginConstruct(o, c)
      PROVE  Contexts'
  BY <1>1 DEF BeginCreate, BeginConstruct, CreateContext, callVars
<1>2. ASSUME NEW o \in Obj, NEW s \in Store, OpenStore(o, s)
      PROVE  Contexts'
  BY <1>2 DEF OpenStore, callVars
<1>3. ASSUME NEW o \in Obj, CreateFails(o) \/ Unwind(o) \/ Destruct(o)
      PROVE  Contexts'
  <2>1. /\ live' = live \ {kv_[o], ctx_[o]} /\ UNCHANGED temp
        /\ ctx_' = [ctx_ EXCEPT ![o] = None]
        /\ pc'[o] \in {"unwinding", "none"} /\ \A q \in Obj \ {o} : pc'[q] = pc[q]
    BY <1>3 DEF CreateFails, Unwind, Destruct, DestroySelf
  <2>2. kv_[o] \notin Ctx
    OBVIOUS
  <2> QED
    BY <2>1, <2>2
<1>4. ASSUME NEW o \in Obj, ConfigFails(o)
      PROVE  Contexts'
  BY <1>4 DEF ConfigFails, callVars
<1>5. ASSUME NEW o \in Obj, ConstructFails(o)
      PROVE  Contexts'
  BY <1>5 DEF ConstructFails, callVars
<1>6. ASSUME NEW o \in Obj, NEW p \in Obj, MoveConstruct(o, p)
      PROVE  Contexts'
  <2>1. /\ o # p /\ ctx_[o] = None /\ UNCHANGED <<temp, live>>
        /\ ctx_'[o] = ctx_[p] /\ ctx_'[p] = None
        /\ pc'[o] = "alive" /\ pc'[p] = "alive"
    BY <1>6 DEF MoveConstruct
  <2>2. \A q \in Obj \ {o, p} : ctx_'[q] = ctx_[q] /\ pc'[q] = pc[q]
    BY <1>6 DEF MoveConstruct
  <2> QED
    BY <2>1, <2>2
<1>7. ASSUME NEW o \in Obj, NEW p \in Obj, MoveAssign(o, p)
      PROVE  Contexts'
  <2>1. /\ o # p /\ live' = live \ {kv_[o], ctx_[o]} /\ UNCHANGED <<pc, temp>>
        /\ ctx_'[o] = ctx_[p] /\ ctx_'[p] = None /\ pc[o] = "alive" /\ pc[p] = "alive"
    BY <1>7 DEF MoveAssign, callVars
  <2>2. \A q \in Obj \ {o, p} : ctx_'[q] = ctx_[q]
    BY <1>7 DEF MoveAssign
  <2>3. kv_[o] \notin Ctx
    OBVIOUS
  <2> QED
    BY <2>1, <2>2, <2>3
<1>8. ASSUME NEW d \in Task, NEW c \in Ctx, DeleteBucket(d, c)
      PROVE  Contexts'
  BY <1>8 DEF DeleteBucket, callVars
<1>9. ASSUME NEW d \in Task, BucketDeleted(d)
      PROVE  Contexts'
  BY <1>9 DEF BucketDeleted, callVars
<1>10. ASSUME NEW w \in Wrapper, NEW h \in Handle, Wrap(w, h)
      PROVE  Contexts'
  BY <1>10 DEF Wrap, kvVars, callVars
<1>11. ASSUME NEW w \in Wrapper, NEW x \in Wrapper, AssignWrapper(w, x)
      PROVE  Contexts'
  BY <1>11 DEF AssignWrapper, kvVars, callVars
<1>12. ASSUME NEW w \in Wrapper, DestroyWrapper(w)
      PROVE  Contexts'
  BY <1>12 DEF DestroyWrapper, kvVars, callVars
<1>13. ASSUME NEW d \in Task, NEW h \in Handle, Receive(d, h)
      PROVE  Contexts'
  BY <1>13 DEF Receive, Fill, kvVars
<1>14. ASSUME NEW d \in Task, ResultEnds(d)
      PROVE  Contexts'
  BY <1>14 DEF ResultEnds, kvVars
<1>15. ASSUME NEW d \in Task, NEW H \in SUBSET Handle, history(d, H)
      PROVE  Contexts'
  BY <1>15 DEF history, kvVars
<1>16. ASSUME NEW d \in Task, NEW h \in Handle, TakeEntry(d, h)
      PROVE  Contexts'
  BY <1>16 DEF TakeEntry, kvVars
<1>17. ASSUME NEW d \in Task, HistoryThrows(d) \/ DropHistory(d)
      PROVE  Contexts'
  BY <1>17 DEF HistoryThrows, DropHistory, kvVars
<1>18. ASSUME NEW d \in Task, NEW h \in Handle, upsert_consumer_group(d, h)
      PROVE  Contexts'
  BY <1>18 DEF upsert_consumer_group, Fill, kvVars
<1>19. ASSUME NEW d \in Task, GuardResult(d)
      PROVE  Contexts'
  BY <1>19 DEF GuardResult, kvVars
<1>20. ASSUME NEW d \in Task, CopyThrows(d)
      PROVE  Contexts'
  BY <1>20 DEF CopyThrows, kvVars
<1>21. CASE UNCHANGED vars
  BY <1>21 DEF vars
<1> QED
  BY <1>1, <1>2, <1>3, <1>4, <1>5, <1>6, <1>7, <1>8, <1>9, <1>10, <1>11, <1>12,
     <1>13, <1>14, <1>15, <1>16, <1>17, <1>18, <1>19, <1>20, <1>21,
     NextIsReceive DEF Next

\* So is a store, ...
LEMMA StoresStep == IInv /\ [Next]_vars => Stores'
<1> SUFFICES ASSUME IInv, [Next]_vars PROVE Stores'
  OBVIOUS
<1> USE ConstantsAssumption DEF IInv, TypeOK, Contexts, Stores, StoreWithContext
<1>1. ASSUME NEW o \in Obj, NEW c \in Ctx, BeginCreate(o, c) \/ BeginConstruct(o, c)
      PROVE  Stores'
  BY <1>1 DEF BeginCreate, BeginConstruct, CreateContext, callVars
<1>2. ASSUME NEW o \in Obj, NEW s \in Store, OpenStore(o, s)
      PROVE  Stores'
  BY <1>2 DEF OpenStore, callVars
<1>3. ASSUME NEW o \in Obj, CreateFails(o) \/ Unwind(o) \/ Destruct(o)
      PROVE  Stores'
  BY <1>3 DEF CreateFails, Unwind, Destruct, DestroySelf, callVars
<1>4. ASSUME NEW o \in Obj, ConfigFails(o)
      PROVE  Stores'
  BY <1>4 DEF ConfigFails, callVars
<1>5. ASSUME NEW o \in Obj, ConstructFails(o)
      PROVE  Stores'
  BY <1>5 DEF ConstructFails, callVars
<1>6. ASSUME NEW o \in Obj, NEW p \in Obj, MoveConstruct(o, p)
      PROVE  Stores'
  BY <1>6 DEF MoveConstruct, callVars
<1>7. ASSUME NEW o \in Obj, NEW p \in Obj, MoveAssign(o, p)
      PROVE  Stores'
  BY <1>7 DEF MoveAssign, callVars
<1>8. ASSUME NEW d \in Task, NEW c \in Ctx, DeleteBucket(d, c)
      PROVE  Stores'
  BY <1>8 DEF DeleteBucket, callVars
<1>9. ASSUME NEW d \in Task, BucketDeleted(d)
      PROVE  Stores'
  BY <1>9 DEF BucketDeleted, callVars
<1>10. ASSUME NEW w \in Wrapper, NEW h \in Handle, Wrap(w, h)
      PROVE  Stores'
  BY <1>10 DEF Wrap, kvVars, callVars
<1>11. ASSUME NEW w \in Wrapper, NEW x \in Wrapper, AssignWrapper(w, x)
      PROVE  Stores'
  BY <1>11 DEF AssignWrapper, kvVars, callVars
<1>12. ASSUME NEW w \in Wrapper, DestroyWrapper(w)
      PROVE  Stores'
  BY <1>12 DEF DestroyWrapper, kvVars, callVars
<1>13. ASSUME NEW d \in Task, NEW h \in Handle, Receive(d, h)
      PROVE  Stores'
  BY <1>13 DEF Receive, Fill, kvVars
<1>14. ASSUME NEW d \in Task, ResultEnds(d)
      PROVE  Stores'
  BY <1>14 DEF ResultEnds, kvVars
<1>15. ASSUME NEW d \in Task, NEW H \in SUBSET Handle, history(d, H)
      PROVE  Stores'
  BY <1>15 DEF history, kvVars
<1>16. ASSUME NEW d \in Task, NEW h \in Handle, TakeEntry(d, h)
      PROVE  Stores'
  BY <1>16 DEF TakeEntry, kvVars
<1>17. ASSUME NEW d \in Task, HistoryThrows(d) \/ DropHistory(d)
      PROVE  Stores'
  BY <1>17 DEF HistoryThrows, DropHistory, kvVars
<1>18. ASSUME NEW d \in Task, NEW h \in Handle, upsert_consumer_group(d, h)
      PROVE  Stores'
  BY <1>18 DEF upsert_consumer_group, Fill, kvVars
<1>19. ASSUME NEW d \in Task, GuardResult(d)
      PROVE  Stores'
  BY <1>19 DEF GuardResult, kvVars
<1>20. ASSUME NEW d \in Task, CopyThrows(d)
      PROVE  Stores'
  BY <1>20 DEF CopyThrows, kvVars
<1>21. CASE UNCHANGED vars
  BY <1>21 DEF vars
<1> QED
  BY <1>1, <1>2, <1>3, <1>4, <1>5, <1>6, <1>7, <1>8, <1>9, <1>10, <1>11, <1>12,
     <1>13, <1>14, <1>15, <1>16, <1>17, <1>18, <1>19, <1>20, <1>21,
     NextIsReceive DEF Next

\* ... and a handle of a wrapper, of a result, a list or a vector.
LEMMA HandlesStep == IInv /\ [Next]_vars => Handles'
<1> SUFFICES ASSUME IInv, [Next]_vars PROVE Handles'
  OBVIOUS
<1> USE ConstantsAssumption DEF IInv, TypeOK, Handles
<1>1. ASSUME NEW o \in Obj, NEW c \in Ctx, BeginCreate(o, c) \/ BeginConstruct(o, c)
      PROVE  Handles'
  BY <1>1 DEF BeginCreate, BeginConstruct, CreateContext, callVars
<1>2. ASSUME NEW o \in Obj, NEW s \in Store, OpenStore(o, s)
      PROVE  Handles'
  BY <1>2 DEF OpenStore, callVars
<1>3. ASSUME NEW o \in Obj, CreateFails(o) \/ Unwind(o) \/ Destruct(o)
      PROVE  Handles'
  <2>1. /\ live' = live \ {kv_[o], ctx_[o]}
        /\ UNCHANGED <<ptr, result, list, entries, abandoned>>
    BY <1>3 DEF CreateFails, Unwind, Destruct, DestroySelf, callVars
  <2>2. kv_[o] \notin Handle /\ ctx_[o] \notin Handle
    OBVIOUS
  <2> QED
    BY <2>1, <2>2
<1>4. ASSUME NEW o \in Obj, ConfigFails(o)
      PROVE  Handles'
  BY <1>4 DEF ConfigFails, callVars
<1>5. ASSUME NEW o \in Obj, ConstructFails(o)
      PROVE  Handles'
  BY <1>5 DEF ConstructFails, callVars
<1>6. ASSUME NEW o \in Obj, NEW p \in Obj, MoveConstruct(o, p)
      PROVE  Handles'
  BY <1>6 DEF MoveConstruct, callVars
<1>7. ASSUME NEW o \in Obj, NEW p \in Obj, MoveAssign(o, p)
      PROVE  Handles'
  BY <1>7 DEF MoveAssign, callVars
<1>8. ASSUME NEW d \in Task, NEW c \in Ctx, DeleteBucket(d, c)
      PROVE  Handles'
  BY <1>8 DEF DeleteBucket, callVars
<1>9. ASSUME NEW d \in Task, BucketDeleted(d)
      PROVE  Handles'
  BY <1>9 DEF BucketDeleted, callVars
<1>10. ASSUME NEW w \in Wrapper, NEW h \in Handle, Wrap(w, h)
      PROVE  Handles'
  BY <1>10 DEF Wrap, kvVars, callVars
<1>11. ASSUME NEW w \in Wrapper, NEW x \in Wrapper, AssignWrapper(w, x)
      PROVE  Handles'
  <2>1. /\ live' = live \ {ptr[w]} /\ w # x
        /\ \A y \in Wrapper :
             ptr'[y] = IF y = w THEN ptr[x] ELSE IF y = x THEN None ELSE ptr[y]
        /\ UNCHANGED <<result, list, entries, abandoned>>
    BY <1>11 DEF AssignWrapper, callVars
  <2>2. \A h \in Handle \cap live' :
          \/ h \in abandoned'
          \/ \E y \in Wrapper : ptr'[y] = h
          \/ \E d \in Task : result'[d] = h \/ h \in list'[d] \/ h \in entries'[d]
    BY <2>1
  <2>3. \A y \in Wrapper : ptr'[y] # None => ptr'[y] \in live'
    BY <2>1
  <2>4. \A d \in Task : /\ result'[d] # None => result'[d] \in live'
                       /\ list'[d] \subseteq live' /\ entries'[d] \subseteq live'
    BY <2>1
  <2>5. \A y, z \in Wrapper : y # z /\ ptr'[y] # None => ptr'[y] # ptr'[z]
    BY <2>1
  <2>6. abandoned' \subseteq live' /\ \A y \in Wrapper : ptr'[y] \notin abandoned'
    BY <2>1
  <2> QED
    BY <2>1, <2>2, <2>3, <2>4, <2>5, <2>6
<1>12. ASSUME NEW w \in Wrapper, DestroyWrapper(w)
      PROVE  Handles'
  BY <1>12 DEF DestroyWrapper, kvVars, callVars
<1>13. ASSUME NEW d \in Task, NEW h \in Handle, Receive(d, h)
      PROVE  Handles'
  BY <1>13 DEF Receive, Fill, kvVars
<1>14. ASSUME NEW d \in Task, ResultEnds(d)
      PROVE  Handles'
  BY <1>14 DEF ResultEnds, kvVars
<1>15. ASSUME NEW d \in Task, NEW H \in SUBSET Handle, history(d, H)
      PROVE  Handles'
  BY <1>15 DEF history, kvVars
<1>16. ASSUME NEW d \in Task, NEW h \in Handle, TakeEntry(d, h)
      PROVE  Handles'
  BY <1>16 DEF TakeEntry, kvVars
<1>17. ASSUME NEW d \in Task, HistoryThrows(d) \/ DropHistory(d)
      PROVE  Handles'
  BY <1>17 DEF HistoryThrows, DropHistory, kvVars
<1>18. ASSUME NEW d \in Task, NEW h \in Handle, upsert_consumer_group(d, h)
      PROVE  Handles'
  BY <1>18 DEF upsert_consumer_group, Fill, kvVars
<1>19. ASSUME NEW d \in Task, GuardResult(d)
      PROVE  Handles'
  BY <1>19 DEF GuardResult, kvVars
<1>20. ASSUME NEW d \in Task, CopyThrows(d)
      PROVE  Handles'
  BY <1>20 DEF CopyThrows, kvVars
<1>21. CASE UNCHANGED vars
  BY <1>21 DEF vars
<1> QED
  BY <1>1, <1>2, <1>3, <1>4, <1>5, <1>6, <1>7, <1>8, <1>9, <1>10, <1>11, <1>12,
     <1>13, <1>14, <1>15, <1>16, <1>17, <1>18, <1>19, <1>20, <1>21,
     NextIsReceive DEF Next

\* A move takes the context with the store; no context goes before its store.
LEMMA PairStep == IInv /\ [Next]_vars => StoreWithContext'
<1> SUFFICES ASSUME IInv, [Next]_vars PROVE StoreWithContext'
  OBVIOUS
<1> USE ConstantsAssumption DEF IInv, TypeOK, Contexts, Stores, StoreWithContext
<1>1. ASSUME NEW o \in Obj, NEW c \in Ctx, BeginCreate(o, c) \/ BeginConstruct(o, c)
      PROVE  StoreWithContext'
  BY <1>1 DEF BeginCreate, BeginConstruct, CreateContext, callVars
<1>2. ASSUME NEW o \in Obj, NEW s \in Store, OpenStore(o, s)
      PROVE  StoreWithContext'
  BY <1>2 DEF OpenStore, callVars
<1>3. ASSUME NEW o \in Obj, CreateFails(o) \/ Unwind(o) \/ Destruct(o)
      PROVE  StoreWithContext'
  BY <1>3 DEF CreateFails, Unwind, Destruct, DestroySelf, callVars
<1>4. ASSUME NEW o \in Obj, ConfigFails(o)
      PROVE  StoreWithContext'
  BY <1>4 DEF ConfigFails, callVars
<1>5. ASSUME NEW o \in Obj, ConstructFails(o)
      PROVE  StoreWithContext'
  BY <1>5 DEF ConstructFails, callVars
<1>6. ASSUME NEW o \in Obj, NEW p \in Obj, MoveConstruct(o, p)
      PROVE  StoreWithContext'
  BY <1>6 DEF MoveConstruct, callVars
<1>7. ASSUME NEW o \in Obj, NEW p \in Obj, MoveAssign(o, p)
      PROVE  StoreWithContext'
  BY <1>7 DEF MoveAssign, callVars
<1>8. ASSUME NEW d \in Task, NEW c \in Ctx, DeleteBucket(d, c)
      PROVE  StoreWithContext'
  BY <1>8 DEF DeleteBucket, callVars
<1>9. ASSUME NEW d \in Task, BucketDeleted(d)
      PROVE  StoreWithContext'
  BY <1>9 DEF BucketDeleted, callVars
<1>10. ASSUME NEW w \in Wrapper, NEW h \in Handle, Wrap(w, h)
      PROVE  StoreWithContext'
  BY <1>10 DEF Wrap, kvVars, callVars
<1>11. ASSUME NEW w \in Wrapper, NEW x \in Wrapper, AssignWrapper(w, x)
      PROVE  StoreWithContext'
  BY <1>11 DEF AssignWrapper, kvVars, callVars
<1>12. ASSUME NEW w \in Wrapper, DestroyWrapper(w)
      PROVE  StoreWithContext'
  BY <1>12 DEF DestroyWrapper, kvVars, callVars
<1>13. ASSUME NEW d \in Task, NEW h \in Handle, Receive(d, h)
      PROVE  StoreWithContext'
  BY <1>13 DEF Receive, Fill, kvVars
<1>14. ASSUME NEW d \in Task, ResultEnds(d)
      PROVE  StoreWithContext'
  BY <1>14 DEF ResultEnds, kvVars
<1>15. ASSUME NEW d \in Task, NEW H \in SUBSET Handle, history(d, H)
      PROVE  StoreWithContext'
  BY <1>15 DEF history, kvVars
<1>16. ASSUME NEW d \in Task, NEW h \in Handle, TakeEntry(d, h)
      PROVE  StoreWithContext'
  BY <1>16 DEF TakeEntry, kvVars
<1>17. ASSUME NEW d \in Task, HistoryThrows(d) \/ DropHistory(d)
      PROVE  StoreWithContext'
  BY <1>17 DEF HistoryThrows, DropHistory, kvVars
<1>18. ASSUME NEW d \in Task, NEW h \in Handle, upsert_consumer_group(d, h)
      PROVE  StoreWithContext'
  BY <1>18 DEF upsert_consumer_group, Fill, kvVars
<1>19. ASSUME NEW d \in Task, GuardResult(d)
      PROVE  StoreWithContext'
  BY <1>19 DEF GuardResult, kvVars
<1>20. ASSUME NEW d \in Task, CopyThrows(d)
      PROVE  StoreWithContext'
  BY <1>20 DEF CopyThrows, kvVars
<1>21. CASE UNCHANGED vars
  BY <1>21 DEF vars
<1> QED
  BY <1>1, <1>2, <1>3, <1>4, <1>5, <1>6, <1>7, <1>8, <1>9, <1>10, <1>11, <1>12,
     <1>13, <1>14, <1>15, <1>16, <1>17, <1>18, <1>19, <1>20, <1>21,
     NextIsReceive DEF Next

\* The invariant holds in every behaviour.
LEMMA Invariance == Spec => []IInv
<1>1. Init => IInv
  BY ConstantsAssumption DEF Init, IInv, TypeOK, Contexts, Stores, Handles,
     StoreWithContext
<1>2. IInv /\ [Next]_vars => IInv'
  BY TypeStep, ContextsStep, StoresStep, HandlesStep, PairStep DEF IInv
<1> QED
  BY <1>1, <1>2, PTL DEF Spec

\* Types hold in every behaviour, and an object that does not exist holds nothing.
THEOREM TypeCorrect == Spec => []TypeOK
<1>1. IInv => TypeOK
  BY DEF IInv
<1> QED
  BY <1>1, Invariance, PTL

\* A key_value never has a store without the context it was made in.
THEOREM StorePaired == Spec => []StoreWithContext
<1>1. IInv => StoreWithContext
  BY DEF IInv
<1> QED
  BY <1>1, Invariance, PTL

-----------------------------------------------------------------------------
\* A set with at most one element, which has one exactly if P.
LEMMA Single ==
  ASSUME NEW S, NEW P \in BOOLEAN,
         \A x, y \in S : x = y, (S # {}) <=> P
  PROVE  Cardinality(S) = IF P THEN 1 ELSE 0
<1>1. CASE S = {}
  BY <1>1, FS_EmptySet
<1>2. ASSUME NEW x \in S
      PROVE  Cardinality(S) = 1
  <2>1. S = {x}
    BY <1>2
  <2> QED
    BY <2>1, FS_Singleton
<1> QED
  BY <1>1, <1>2

\* Every native handle has one owner while it exists, and none after; the one
\* exception is a result that upsert_consumer_group() leaked when it threw
\* before its guard, which nothing points to.
THEOREM DestroyedOnce == Spec => []OneOwner
<1>1. IInv => OneOwner
  <2> SUFFICES ASSUME IInv, NEW h \in Ctx \cup Store \cup Handle
               PROVE  Cardinality(Owners(h)) = IF h \in live \ abandoned THEN 1 ELSE 0
    BY DEF OneOwner
  <2> USE ConstantsAssumption DEF IInv, TypeOK
  <2>1. ASSUME h \in Ctx
        PROVE  /\ \A x, y \in Owners(h) : x = y
               /\ (Owners(h) # {}) <=> h \in live \ abandoned
    <3>1. Owners(h) = {o \in Obj : ctx_[o] = h} \cup {d \in Task : temp[d] = h}
      BY <2>1 DEF Owners
    <3> QED
      BY <2>1, <3>1 DEF Contexts
  <2>2. ASSUME h \in Store
        PROVE  /\ \A x, y \in Owners(h) : x = y
               /\ (Owners(h) # {}) <=> h \in live \ abandoned
    <3>1. Owners(h) = {o \in Obj : kv_[o] = h}
      BY <2>2 DEF Owners
    <3> QED
      BY <2>2, <3>1 DEF Stores
  <2>3. ASSUME h \in Handle
        PROVE  /\ \A x, y \in Owners(h) : x = y
               /\ (Owners(h) # {}) <=> h \in live \ abandoned
    <3>1. Owners(h) = {w \in Wrapper : ptr[w] = h}
                      \cup {<<d, "result">> : d \in {e \in Task : result[e] = h}}
                      \cup {<<d, "list">> : d \in {e \in Task : h \in list[e]}}
                      \cup {<<d, "entries">> : d \in {e \in Task : h \in entries[e]}}
      BY <2>3 DEF Owners
    <3>2. \A w, x \in Wrapper : ptr[w] = h /\ ptr[x] = h => w = x
      BY <2>3 DEF Handles
    <3>3. \A w \in Wrapper, d \in Task :
            ptr[w] = h => result[d] # h /\ h \notin list[d] /\ h \notin entries[d]
      BY <2>3 DEF Handles
    <3>4. \A d, e \in Task :
            /\ result[d] = h => h \notin list[e] /\ h \notin entries[e]
            /\ h \in list[d] => h \notin entries[e]
      BY <2>3 DEF Handles
    <3>5. \A d, e \in Task :
            /\ result[d] = h /\ result[e] = h => d = e
            /\ h \in list[d] /\ h \in list[e] => d = e
            /\ h \in entries[d] /\ h \in entries[e] => d = e
      BY <2>3 DEF Handles
    <3>6. \A x, y \in Owners(h) : x = y
      BY <3>1, <3>2, <3>3, <3>4, <3>5
    <3>7. h \in live \ abandoned => Owners(h) # {}
      <4> SUFFICES ASSUME h \in live \ abandoned PROVE \E x : x \in Owners(h)
        OBVIOUS
      <4>1. \/ \E w \in Wrapper : ptr[w] = h
            \/ \E d \in Task : result[d] = h
            \/ \E d \in Task : h \in list[d]
            \/ \E d \in Task : h \in entries[d]
        BY <2>3 DEF Handles
      <4> HIDE DEF IInv, TypeOK
      <4>2. CASE \E w \in Wrapper : ptr[w] = h
        BY <3>1, <4>2
      <4>3. ASSUME NEW d \in Task, result[d] = h
            PROVE  <<d, "result">> \in Owners(h)
        BY <3>1, <4>3
      <4>4. ASSUME NEW d \in Task, h \in list[d]
            PROVE  <<d, "list">> \in Owners(h)
        BY <3>1, <4>4
      <4>5. ASSUME NEW d \in Task, h \in entries[d]
            PROVE  <<d, "entries">> \in Owners(h)
        BY <3>1, <4>5
      <4> QED
        BY <4>1, <4>2, <4>3, <4>4, <4>5
    <3>8. Owners(h) # {} => h \in live \ abandoned
      BY <2>3, <3>1 DEF Handles
    <3> QED
      BY <3>6, <3>7, <3>8
  <2> QED
    BY <2>1, <2>2, <2>3, Single
<1> QED
  BY <1>1, Invariance, PTL
=============================================================================
