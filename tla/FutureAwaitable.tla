--------------------------- MODULE FutureAwaitable ---------------------------
(***************************************************************************)
(* A coroutine that co_awaits the future_awaitables of request_awaitable   *)
(* one after another: the request's task (request_async), the detached     *)
(* worker thread of each suspension, the flag alive that the worker and    *)
(* ~future_awaitable() race for, and the owner of the coroutine, which may *)
(* destroy the frame while the coroutine is suspended.                     *)
(*                                                                         *)
(* The body of the coroutine runs on the thread that started it until the  *)
(* first suspension, then on the worker that resumed it.                   *)
(***************************************************************************)
EXTENDS Naturals, FiniteSets

CONSTANTS N,           \* co_await expressions the coroutine evaluates at most
          DestroyWhen  \* when the owner may destroy the suspended coroutine:
                       \* "never", "before_ready" (while the future it waits
                       \* for is not ready) or "anytime"

ASSUME NAssumption == N \in Nat
ASSUME DestroyAssumption == DestroyWhen \in {"never", "before_ready", "anytime"}

Await  == 1 .. N
Caller == 0                 \* the thread that calls the coroutine
Thread == Await \cup {Caller}   \* worker i is the thread of suspension i

VARIABLES place,    \* number of the co_await reached
          at,       \* where the coroutine is
          frame,    \* its frame
          runners,  \* threads executing its body
          task,     \* [Await -> state of the request's task]
          alive,    \* [Await -> BOOLEAN]  shared_state::alive
          holders,  \* [Await -> owners of the shared_ptr to shared_state]
          worker    \* [Await -> state of the worker thread]

vars == <<place, at, frame, runners, task, alive, holders, worker>>

Init ==
  /\ place = 1
  /\ at = "body"
  /\ frame = "alive"
  /\ runners = {Caller}
  /\ task = [i \in Await |-> "none"]
  /\ alive = [i \in Await |-> FALSE]
  /\ holders = [i \in Await |-> {}]
  /\ worker = [i \in Await |-> "none"]

-----------------------------------------------------------------------------
(* The coroutine                                                           *)

\* request_awaitable: request_async starts the task, the awaitable holds its
\* future.
Request ==
  /\ at = "body" /\ frame = "alive" /\ runners # {} /\ place \in Await
  /\ task' = [task EXCEPT ![place] = "running"]
  /\ alive' = [alive EXCEPT ![place] = TRUE]
  /\ holders' = [holders EXCEPT ![place] = {"awaitable"}]
  /\ at' = "awaiting"
  /\ UNCHANGED <<place, frame, runners, worker>>

\* await_ready() is true: await_resume() follows at once.
Ready ==
  /\ at = "awaiting" /\ task[place] = "ready"
  /\ at' = "resumed"
  /\ UNCHANGED <<place, frame, runners, task, alive, holders, worker>>

\* await_ready() is false.  The future may become ready before await_suspend.
NotReady ==
  /\ at = "awaiting" /\ task[place] = "running"
  /\ at' = "suspending"
  /\ UNCHANGED <<place, frame, runners, task, alive, holders, worker>>

\* Mutant: a worker that does not wait for the future.
SuspendWithoutWait ==
  /\ at = "suspending"
  /\ worker' = [worker EXCEPT ![place] = "won"]
  /\ holders' = [holders EXCEPT ![place] = @ \cup {"worker"}]
  /\ at' = "suspended"
  /\ runners' = {}
  /\ UNCHANGED <<place, frame, task, alive>>

\* await_suspend starts the detached worker, which owns a copy of state_, and
\* the thread that ran the body returns to its caller.
Suspend ==
  /\ at = "suspending"
  /\ worker' = [worker EXCEPT ![place] = "waiting"]
  /\ holders' = [holders EXCEPT ![place] = @ \cup {"worker"}]
  /\ at' = "suspended"
  /\ runners' = {}
  /\ UNCHANGED <<place, frame, task, alive>>

\* The awaitable goes without a worker: std::thread's constructor throws in
\* await_suspend, or the program drops the awaitable before awaiting it.
Abandon ==
  /\ at \in {"awaiting", "suspending"}
  /\ at' = "abandoned"
  /\ UNCHANGED <<place, frame, runners, task, alive, holders, worker>>

\* Mutant: a defaulted destructor.
AwaitableGoneSilently ==
  /\ holders[place] = {"awaitable"} => task[place] = "ready"
  /\ holders' = [holders EXCEPT ![place] = @ \ {"awaitable"}]
  /\ UNCHANGED alive

\* ~future_awaitable() and the release of state_.  The last owner of a future
\* from std::async blocks until the task is done.
AwaitableGone ==
  /\ holders[place] = {"awaitable"} => task[place] = "ready"
  /\ alive' = [alive EXCEPT ![place] = FALSE]
  /\ holders' = [holders EXCEPT ![place] = @ \ {"awaitable"}]

\* await_resume() takes the result or rethrows the error; the awaitable, a
\* temporary, dies at the end of the full expression.
Resume ==
  /\ at = "resumed" /\ task[place] = "ready"
  /\ AwaitableGone
  /\ at' = "body"
  /\ place' = place + 1
  /\ UNCHANGED <<frame, runners, task, worker>>

Unwind ==
  /\ at = "abandoned"
  /\ AwaitableGone
  /\ at' = "body"
  /\ place' = place + 1
  /\ UNCHANGED <<frame, runners, task, worker>>

\* The coroutine reaches its end.
Return ==
  /\ at = "body" /\ runners # {}
  /\ at' = "returned"
  /\ runners' = {}
  /\ UNCHANGED <<place, frame, task, alive, holders, worker>>

-----------------------------------------------------------------------------
(* The request's task and the worker thread                                *)

\* natsConnection_Request has returned, with a reply, an error or a timeout.
TaskCompletes(i) ==
  /\ task[i] = "running"
  /\ task' = [task EXCEPT ![i] = "ready"]
  /\ UNCHANGED <<place, at, frame, runners, alive, holders, worker>>

\* Mutant: the flag is tested and set in the wrong order, so that a lost race
\* looks like a won one.
ClaimAlways(i) ==
  /\ worker[i] = "waiting" /\ task[i] = "ready"
  /\ alive' = [alive EXCEPT ![i] = FALSE]
  /\ worker' = [worker EXCEPT ![i] = "won"]
  /\ UNCHANGED <<place, at, frame, runners, task, holders>>

\* Mutant: the worker gives up without resuming.
ClaimNever(i) ==
  /\ worker[i] = "waiting" /\ task[i] = "ready"
  /\ worker' = [worker EXCEPT ![i] = "done"]
  /\ holders' = [holders EXCEPT ![i] = @ \ {"worker"}]
  /\ UNCHANGED <<place, at, frame, runners, task, alive>>

\* fut.wait() returns and the compare_exchange finds alive true ...
Claim(i) ==
  /\ worker[i] = "waiting" /\ task[i] = "ready" /\ alive[i]
  /\ alive' = [alive EXCEPT ![i] = FALSE]
  /\ worker' = [worker EXCEPT ![i] = "won"]
  /\ UNCHANGED <<place, at, frame, runners, task, holders>>

\* Mutant: the worker retries the exchange until it wins.
LoseClaimSpins(i) ==
  /\ worker[i] = "waiting" /\ task[i] = "ready" /\ ~alive[i]
  /\ UNCHANGED vars

\* ... or false: the coroutine was destroyed first.
LoseClaim(i) ==
  /\ worker[i] = "waiting" /\ task[i] = "ready" /\ ~alive[i]
  /\ worker' = [worker EXCEPT ![i] = "done"]
  /\ holders' = [holders EXCEPT ![i] = @ \ {"worker"}]
  /\ UNCHANGED <<place, at, frame, runners, task, alive>>

\* h.resume(): the body goes on, on the worker's thread.
WorkerResumes(i) ==
  /\ worker[i] = "won"
  /\ worker' = [worker EXCEPT ![i] = "resuming"]
  /\ runners' = runners \cup {i}
  /\ at' = "resumed"
  /\ UNCHANGED <<place, frame, task, alive, holders>>

\* h.resume() returns because the coroutine suspended again or ended; the
\* worker's copy of state_ dies with its thread.
WorkerEnds(i) ==
  /\ worker[i] = "resuming" /\ i \notin runners
  /\ worker' = [worker EXCEPT ![i] = "done"]
  /\ holders' = [holders EXCEPT ![i] = @ \ {"worker"}]
  /\ UNCHANGED <<place, at, frame, runners, task, alive>>

-----------------------------------------------------------------------------
(* The owner of the coroutine                                              *)

MayDestroy == \/ DestroyWhen = "anytime"
              \/ DestroyWhen = "before_ready" /\ task[place] = "running"

\* Mutant: a destructor that does not race for the flag.
DestroyWithoutExchange ==
  /\ at = "suspended" /\ frame = "alive" /\ MayDestroy
  /\ frame' = "destroying"
  /\ UNCHANGED <<place, at, runners, task, alive, holders, worker>>

\* h.destroy() of the suspended coroutine runs ~future_awaitable() ...
Destroy ==
  /\ at = "suspended" /\ frame = "alive" /\ MayDestroy
  /\ alive' = [alive EXCEPT ![place] = FALSE]
  /\ frame' = "destroying"
  /\ UNCHANGED <<place, at, runners, task, holders, worker>>

\* ... and then frees the frame, the awaitable's state_ with it.
FreeFrame ==
  /\ frame = "destroying"
  /\ AwaitableGone
  /\ frame' = "freed"
  /\ UNCHANGED <<place, at, runners, task, worker>>

-----------------------------------------------------------------------------
Body == Request \/ Ready \/ NotReady \/ Suspend \/ Resume \/ Unwind \/ Return

Worker(i) == Claim(i) \/ LoseClaim(i) \/ WorkerResumes(i) \/ WorkerEnds(i)

Next == \/ Body \/ Abandon
        \/ \E i \in Await : TaskCompletes(i) \/ Worker(i)
        \/ Destroy \/ FreeFrame

Spec == Init /\ [][Next]_vars

\* Threads run, and natsConnection_Request ends because it has a timeout.  The
\* owner need not destroy anything.
FairSpec ==
  /\ Spec
  /\ WF_vars(Body) /\ WF_vars(FreeFrame)
  /\ \A i \in Await : WF_vars(TaskCompletes(i)) /\ WF_vars(Worker(i))

-----------------------------------------------------------------------------
(* Properties                                                              *)

\* Types; alive is true only while the awaitable exists.
TypeOK ==
  /\ place \in 1 .. N + 1
  /\ at \in {"body", "awaiting", "suspending", "suspended", "resumed",
             "abandoned", "returned"}
  /\ at \notin {"body", "returned"} => place \in Await
  /\ frame \in {"alive", "destroying", "freed"}
  /\ runners \subseteq Thread
  /\ task \in [Await -> {"none", "running", "ready"}]
  /\ alive \in [Await -> BOOLEAN]
  /\ holders \in [Await -> SUBSET {"awaitable", "worker"}]
  /\ worker \in [Await -> {"none", "waiting", "won", "resuming", "done"}]
  /\ \A i \in Await : alive[i] => "awaitable" \in holders[i]

\* A worker that won the race for the flag holds a valid handle: the coroutine
\* is still suspended at the co_await the worker belongs to, in a living frame
\* (awaitable.hpp, comment in await_suspend).
ResumeValid ==
  \A i \in Await : worker[i] = "won" =>
    at = "suspended" /\ place = i /\ frame = "alive"

\* At most one thread executes the coroutine, and none once it is destroyed: a
\* worker that resumes never overlaps the thread that suspended, nor a
\* destruction.
OneRunner ==
  /\ Cardinality(runners) <= 1
  /\ runners # {} => frame = "alive"

\* A coroutine that runs past its suspension finds its result: get() in
\* await_resume() does not block the worker thread.
ResultReady == at = "resumed" => task[place] = "ready"

\* So the body of the coroutine runs as if one thread ran it, up to its end or
\* its destruction.
RunsAlone == OneRunner /\ ResultReady

\* What became of suspension i.
Outcome(i) ==
  CASE worker[i] = "none" -> "none"
    [] worker[i] # "none" /\ place = i /\ at = "suspended" /\ frame = "alive" -> "suspended"
    [] worker[i] # "none" /\ place = i /\ at = "suspended" /\ frame # "alive" -> "cancelled"
    [] OTHER -> "resumed"

\* Every suspension is ended by exactly one of worker and owner.
Contract == INSTANCE AwaitContract
              WITH outcome <- [i \in Await |-> Outcome(i)]
KeepsContract == Contract!Spec

\* A suspended coroutine is resumed, unless its owner destroys it.
SuspensionEnds ==
  \A i \in Await :
    at = "suspended" /\ place = i ~> at # "suspended" \/ place # i \/ frame # "alive"

\* Detached threads do not linger: every worker ends, also when it lost the
\* race, and the last owner of its shared state goes with it.
WorkersEnd ==
  \A i \in Await : worker[i] = "waiting" ~> worker[i] = "done" /\ holders[i] = {}
=============================================================================
