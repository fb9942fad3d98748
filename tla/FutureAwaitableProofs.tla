------------------------ MODULE FutureAwaitableProofs ------------------------
(***************************************************************************)
(* Why a worker never resumes a coroutine that is gone, provided the owner *)
(* destroys it only while the future it waits for is not ready, and why no *)
(* request is left without an owner of its future: proofs for any number   *)
(* of co_await expressions.                                                *)
(***************************************************************************)
EXTENDS FutureAwaitable, FiniteSetTheorems, TLAPS

\* Nothing was done yet for co_await i, ...
Untouched(i) ==
  task[i] = "none" /\ ~alive[i] /\ holders[i] = {} /\ worker[i] = "none"
Fresh ==
  \A i \in Await : i > place \/ (i = place /\ at \in {"body", "returned"})
                   => Untouched(i)

\* ... or it is over: its awaitable is gone, and its worker on its way out.
Past ==
  \A i \in Await : i < place =>
    /\ ~alive[i] /\ "awaitable" \notin holders[i]
    /\ worker[i] \in {"none", "resuming", "done"}

\* Or it is the one reached.
Current ==
  at \notin {"body", "returned"} =>
    /\ task[place] # "none"
    /\ frame # "freed" => "awaitable" \in holders[place]
    /\ at \in {"awaiting", "suspending", "abandoned"} => worker[place] = "none" /\ alive[place]
    /\ at = "resumed" => worker[place] \in {"none", "resuming"} /\ task[place] = "ready"
    /\ at = "suspended" => worker[place] \in {"waiting", "won", "done"}

\* The worker's copy of state_ lives as long as its thread, which has waited for
\* the task before it does anything else; the last owner waits for it too.
SharedState ==
  \A i \in Await :
    /\ "worker" \in holders[i] <=> worker[i] \in {"waiting", "won", "resuming"}
    /\ worker[i] \in {"won", "resuming", "done"} => task[i] = "ready"
    /\ holders[i] = {} => task[i] # "running"

\* The flag tells which of worker and owner was first.
Race ==
  /\ frame # "alive" => at = "suspended" /\ ~alive[place]
                        /\ worker[place] \in {"waiting", "done"}
  /\ at = "suspended" /\ frame = "alive" =>
       \/ worker[place] = "waiting" /\ alive[place]
       \/ worker[place] = "won" /\ ~alive[place]

\* One thread runs the body, unless nobody does.
Running ==
  /\ at \in {"suspended", "returned"} => runners = {}
  /\ at \notin {"suspended", "returned"} => \E t \in Thread : runners = {t}
  /\ at = "resumed" /\ worker[place] = "resuming" => runners = {place}

IInv == TypeOK /\ Fresh /\ Past /\ Current /\ SharedState /\ Race /\ Running

-----------------------------------------------------------------------------
\* The last suspension's worker is the only one that can have won.
LEMMA WonIsValid == IInv => ResumeValid
<1> SUFFICES ASSUME IInv, NEW i \in Await, worker[i] = "won"
             PROVE  at = "suspended" /\ place = i /\ frame = "alive"
  BY DEF ResumeValid
<1>0. place \in Nat /\ i \in Nat
  BY DEF IInv, TypeOK, Await
<1>1. i = place /\ at \notin {"body", "returned"}
  BY <1>0 DEF IInv, Fresh, Untouched, Past
<1>2. at = "suspended"
  BY <1>1 DEF IInv, TypeOK, Current
<1> QED
  BY <1>1, <1>2 DEF IInv, Race

\* Every action, under the assumption on the owner, preserves the invariant.
LEMMA Inductive ==
  ASSUME DestroyWhen # "anytime"
  PROVE  IInv /\ [Next]_vars => IInv'
<1> SUFFICES ASSUME IInv, [Next]_vars PROVE IInv'
  OBVIOUS
<1> USE NAssumption DEF Await, Thread, Caller, IInv, TypeOK, Fresh, Untouched, Past,
      Current, SharedState, Race, Running
<1>0. place \in Nat /\ N \in Nat
  OBVIOUS
<1>1. CASE Request
  <2>1. TypeOK'
    BY <1>0, <1>1 DEF Request
  <2>2. Fresh'
    BY <1>0, <1>1 DEF Request
  <2>3. Past'
    BY <1>0, <1>1 DEF Request
  <2>4. Current'
    BY <1>0, <1>1 DEF Request
  <2>5. SharedState'
    BY <1>0, <1>1 DEF Request
  <2>6. Race'
    BY <1>0, <1>1 DEF Request
  <2>7. Running'
    BY <1>0, <1>1 DEF Request
  <2> QED
    BY <2>1, <2>2, <2>3, <2>4, <2>5, <2>6, <2>7
<1>2. CASE Ready
  BY <1>0, <1>2 DEF Ready
<1>3. CASE NotReady
  BY <1>0, <1>3 DEF NotReady
<1>4. CASE Suspend
  <2>1. TypeOK'
    BY <1>0, <1>4 DEF Suspend
  <2>2. Fresh'
    BY <1>0, <1>4 DEF Suspend
  <2>3. Past'
    BY <1>0, <1>4 DEF Suspend
  <2>4. Current'
    BY <1>0, <1>4 DEF Suspend
  <2>5. SharedState'
    BY <1>0, <1>4 DEF Suspend
  <2>6. Race'
    BY <1>0, <1>4 DEF Suspend
  <2>7. Running'
    BY <1>0, <1>4 DEF Suspend
  <2> QED
    BY <2>1, <2>2, <2>3, <2>4, <2>5, <2>6, <2>7
<1>5. CASE Abandon
  BY <1>0, <1>5 DEF Abandon
<1>6. CASE Resume \/ Unwind
  <2>1. TypeOK'
    <3>1. place \in Await /\ place + 1 \in 1..(N + 1)
      BY <1>0, <1>6 DEF Resume, Unwind
    <3>2. /\ alive' = [alive EXCEPT ![place] = FALSE]
          /\ holders' = [holders EXCEPT ![place] = @ \ {"awaitable"}]
          /\ at' = "body" /\ place' = place + 1
          /\ UNCHANGED <<frame, runners, task, worker>>
      BY <1>6 DEF Resume, Unwind, AwaitableGone
    <3>3. holders' \in [Await -> SUBSET {"awaitable", "worker"}] /\ alive' \in [Await -> BOOLEAN]
      BY <3>2
    <3>4. \A i \in Await : alive'[i] => "awaitable" \in holders'[i]
      BY <3>2
    <3> QED
      BY <3>1, <3>2, <3>3, <3>4
  <2>2. Fresh'
    BY <1>0, <1>6 DEF Resume, Unwind, AwaitableGone
  <2>3. Past'
    BY <1>0, <1>6 DEF Resume, Unwind, AwaitableGone
  <2>4. Current'
    BY <1>0, <1>6 DEF Resume, Unwind, AwaitableGone
  <2>5. SharedState'
    BY <1>0, <1>6 DEF Resume, Unwind, AwaitableGone
  <2>6. Race'
    BY <1>0, <1>6 DEF Resume, Unwind, AwaitableGone
  <2>7. Running'
    BY <1>0, <1>6 DEF Resume, Unwind, AwaitableGone
  <2> QED
    BY <2>1, <2>2, <2>3, <2>4, <2>5, <2>6, <2>7
<1>7. CASE Return
  BY <1>0, <1>7 DEF Return
<1>8. ASSUME NEW i \in Await, TaskCompletes(i)
      PROVE  IInv'
  BY <1>0, <1>8 DEF TaskCompletes
<1>9. ASSUME NEW i \in Await, Claim(i)
      PROVE  IInv'
  BY <1>0, <1>9 DEF Claim
<1>10. ASSUME NEW i \in Await, LoseClaim(i)
      PROVE  IInv'
  BY <1>0, <1>10 DEF LoseClaim
<1>11. ASSUME NEW i \in Await, WorkerResumes(i)
      PROVE  IInv'
  <2>1. TypeOK'
    BY <1>0, <1>11 DEF WorkerResumes
  <2>2. Fresh'
    BY <1>0, <1>11 DEF WorkerResumes
  <2>3. Past'
    BY <1>0, <1>11 DEF WorkerResumes
  <2>4. Current'
    BY <1>0, <1>11 DEF WorkerResumes
  <2>5. SharedState'
    BY <1>0, <1>11 DEF WorkerResumes
  <2>6. Race'
    BY <1>0, <1>11 DEF WorkerResumes
  <2>7. Running'
    <3>1. i = place /\ at = "suspended"
      BY <1>11, WonIsValid DEF WorkerResumes, ResumeValid
    <3>2. runners' = {i} /\ i \in Thread
      BY <1>11, <3>1 DEF WorkerResumes
    <3> QED
      BY <1>0, <1>11, <3>1, <3>2 DEF WorkerResumes
  <2> QED
    BY <2>1, <2>2, <2>3, <2>4, <2>5, <2>6, <2>7
<1>12. ASSUME NEW i \in Await, WorkerEnds(i)
      PROVE  IInv'
  <2>1. TypeOK'
    BY <1>0, <1>12 DEF WorkerEnds
  <2>2. Fresh'
    BY <1>0, <1>12 DEF WorkerEnds
  <2>3. Past'
    BY <1>0, <1>12 DEF WorkerEnds
  <2>4. Current'
    BY <1>0, <1>12 DEF WorkerEnds
  <2>5. SharedState'
    BY <1>0, <1>12 DEF WorkerEnds
  <2>6. Race'
    BY <1>0, <1>12 DEF WorkerEnds
  <2>7. Running'
    BY <1>0, <1>12 DEF WorkerEnds
  <2> QED
    BY <2>1, <2>2, <2>3, <2>4, <2>5, <2>6, <2>7
<1>13. CASE Destroy
  BY <1>0, <1>13 DEF Destroy, MayDestroy
<1>14. CASE FreeFrame
  BY <1>0, <1>14 DEF FreeFrame, AwaitableGone
<1>15. CASE UNCHANGED vars
  BY <1>15 DEF vars
<1> QED
  BY <1>1, <1>2, <1>3, <1>4, <1>5, <1>6, <1>7, <1>8, <1>9, <1>10, <1>11, <1>12,
     <1>13, <1>14, <1>15 DEF Next, Body, Worker
\* The invariant holds in every behaviour.
LEMMA Invariance ==
  ASSUME DestroyWhen # "anytime"
  PROVE  Spec => []IInv
<1>1. Init => IInv
  BY NAssumption DEF Init, IInv, TypeOK, Fresh, Untouched, Past, Current, SharedState,
     Race, Running, Await, Thread, Caller
<1>2. IInv /\ [Next]_vars => IInv'
  BY Inductive
<1> QED
  BY <1>1, <1>2, PTL DEF Spec

\* The types hold in every behaviour, and a flag that is true has its awaitable.
THEOREM TypeCorrect ==
  ASSUME DestroyWhen # "anytime"
  PROVE  Spec => []TypeOK
<1>1. IInv => TypeOK
  BY DEF IInv
<1> QED
  BY <1>1, Invariance, PTL

\* A worker resumes only a coroutine that is suspended and alive.
THEOREM Resumption ==
  ASSUME DestroyWhen # "anytime"
  PROVE  Spec => []ResumeValid
BY WonIsValid, Invariance, PTL

\* The body runs on one thread at a time, on none once it is being destroyed,
\* and past a suspension it does so with the result at hand.
THEOREM Execution ==
  ASSUME DestroyWhen # "anytime"
  PROVE  Spec => []RunsAlone
<1>1. IInv => RunsAlone
  <2> SUFFICES ASSUME IInv PROVE OneRunner /\ ResultReady
    BY DEF RunsAlone
  <2>1. Cardinality(runners) <= 1
    <3>1. CASE runners = {}
      BY <3>1, FS_EmptySet
    <3>2. ASSUME NEW t \in Thread, runners = {t}
          PROVE  Cardinality(runners) <= 1
      BY <3>2, FS_Singleton
    <3> QED
      BY <3>1, <3>2 DEF IInv, Running
  <2>2. runners # {} => frame = "alive"
    BY DEF IInv, Running, Race, TypeOK
  <2>3. ResultReady
    BY DEF IInv, Current, ResultReady
  <2> QED
    BY <2>1, <2>2, <2>3 DEF OneRunner
<1> QED
  BY <1>1, Invariance, PTL

-----------------------------------------------------------------------------
(* Refinement: every step ends one suspension, starts one or does neither. *)

\* Outcome, case by case.
LEMMA OutcomeCases ==
  ASSUME NEW i \in Await
  PROVE  /\ worker[i] = "none" => Outcome(i) = "none"
         /\ worker[i] # "none" /\ place = i /\ at = "suspended" =>
              Outcome(i) = IF frame = "alive" THEN "suspended" ELSE "cancelled"
         /\ worker[i] # "none" /\ (place # i \/ at # "suspended") => Outcome(i) = "resumed"
BY DEF Outcome

\* The other suspensions keep their outcome.
LEMMA ContractStep ==
  ASSUME DestroyWhen # "anytime", IInv, [Next]_vars
  PROVE  [Contract!Next]_[i \in Await |-> Outcome(i)]
<1> USE NAssumption DEF IInv, TypeOK
<1> DEFINE Same(i) == Outcome(i)' = Outcome(i)
<1>1. ASSUME \A i \in Await : Same(i)
      PROVE  [Contract!Next]_[i \in Await |-> Outcome(i)]
  BY <1>1
<1>2. ASSUME NEW p \in Await, NEW a, NEW b, Outcome(p) = a, Outcome(p)' = b,
             \A i \in Await \ {p} : Same(i),
             <<a, b>> \in {<<"none", "suspended">>, <<"suspended", "resumed">>,
                           <<"suspended", "cancelled">>}
      PROVE  [Contract!Next]_[i \in Await |-> Outcome(i)]
  <2> DEFINE o == [i \in Await |-> Outcome(i)]
  <2>1. o[p] = a /\ o' = [o EXCEPT ![p] = b]
    BY <1>2
  <2> QED
    BY <1>2, <2>1 DEF Contract!Next, Contract!Becomes
<1>3. CASE Suspend
  <2>1. /\ place \in Await /\ worker[place] = "none" /\ frame = "alive" /\ at = "suspending"
        /\ worker'[place] = "waiting" /\ at' = "suspended" /\ place' = place /\ frame' = frame
    BY <1>3 DEF Suspend, Current, Race
  <2>2. Outcome(place) = "none" /\ Outcome(place)' = "suspended"
    BY <2>1 DEF Outcome
  <2>3. \A i \in Await \ {place} : Same(i)
    BY <1>3 DEF Suspend, Outcome
  <2> QED
    BY <1>2, <2>1, <2>2, <2>3
<1>4. ASSUME NEW i \in Await, WorkerResumes(i)
      PROVE  [Contract!Next]_[j \in Await |-> Outcome(j)]
  <2>1. i = place /\ at = "suspended" /\ frame = "alive"
    BY <1>4, WonIsValid DEF WorkerResumes, ResumeValid
  <2>2. worker[i] = "won" /\ worker'[i] = "resuming" /\ at' = "resumed"
    BY <1>4 DEF WorkerResumes
  <2>3. Outcome(i) = "suspended" /\ Outcome(i)' = "resumed"
    BY <2>1, <2>2 DEF Outcome
  <2>4. \A j \in Await \ {i} : Same(j)
    BY <1>4, <2>1 DEF WorkerResumes, Outcome
  <2> QED
    BY <1>2, <2>3, <2>4
<1>5. CASE Destroy
  <2>1. /\ place \in Await /\ at = "suspended" /\ worker[place] # "none" /\ frame = "alive"
        /\ at' = at /\ place' = place /\ worker' = worker /\ frame' = "destroying"
    BY <1>5 DEF Destroy, Current
  <2>2. Outcome(place) = "suspended" /\ Outcome(place)' = "cancelled"
    BY <2>1 DEF Outcome
  <2>3. \A i \in Await \ {place} : Same(i)
    BY <2>1 DEF Outcome
  <2> QED
    BY <1>2, <2>1, <2>2, <2>3
<1>6. CASE Resume \/ Unwind
  <2>1. /\ at \in {"resumed", "abandoned"} /\ at' = "body" /\ place' = place + 1
        /\ UNCHANGED <<worker, frame>>
    BY <1>6 DEF Resume, Unwind
  <2>2. \A i \in Await : Same(i)
    <3> SUFFICES ASSUME NEW i \in Await PROVE Same(i)
      OBVIOUS
    <3>1. CASE worker[i] = "none"
      BY <2>1, <3>1 DEF Outcome
    <3>2. CASE worker[i] # "none"
      BY <2>1, <3>2, OutcomeCases DEF Outcome
    <3> QED
      BY <3>1, <3>2
  <2> QED
    BY <1>1, <2>2
<1>7. CASE Request \/ Ready \/ NotReady \/ Abandon \/ Return
  <2>1. /\ at # "suspended" /\ at' # "suspended"
        /\ UNCHANGED <<worker, frame, place>>
    BY <1>7 DEF Request, Ready, NotReady, Abandon, Return
  <2>2. \A i \in Await : Same(i)
    BY <2>1 DEF Outcome
  <2> QED
    BY <1>1, <2>2
<1>8. ASSUME NEW i \in Await, TaskCompletes(i) \/ Claim(i) \/ LoseClaim(i) \/ WorkerEnds(i)
      PROVE  [Contract!Next]_[j \in Await |-> Outcome(j)]
  <2>1. /\ UNCHANGED <<at, frame, place>>
        /\ worker' = worker \/ \E b \in {"won", "done"} :
             worker[i] # "none" /\ worker' = [worker EXCEPT ![i] = b]
    BY <1>8 DEF TaskCompletes, Claim, LoseClaim, WorkerEnds
  <2>2. \A j \in Await : (worker[j] = "none") <=> (worker'[j] = "none")
    BY <2>1
  <2>3. \A j \in Await : Same(j)
    BY <2>1, <2>2 DEF Outcome
  <2> QED
    BY <1>1, <2>3
<1>9. CASE FreeFrame
  <2>1. UNCHANGED <<at, place, worker>> /\ frame # "alive" /\ frame' # "alive"
    BY <1>9 DEF FreeFrame
  <2>2. \A i \in Await : Same(i)
    BY <2>1 DEF Outcome
  <2> QED
    BY <1>1, <2>2
<1>10. CASE UNCHANGED vars
  BY <1>1, <1>10 DEF vars, Outcome
<1> QED
  BY <1>3, <1>4, <1>5, <1>6, <1>7, <1>8, <1>9, <1>10 DEF Next, Body, Worker

\* Every suspension ends at most once, by the worker or by the owner.
THEOREM Refinement ==
  ASSUME DestroyWhen # "anytime"
  PROVE  Spec => KeepsContract
<1>1. Init => Contract!Init
  BY DEF Init, Contract!Init, Outcome
<1>2. IInv /\ [Next]_vars => [Contract!Next]_[i \in Await |-> Outcome(i)]
  BY ContractStep
<1> QED
  BY <1>1, <1>2, Invariance, PTL DEF Spec, KeepsContract, Contract!Spec
=============================================================================
