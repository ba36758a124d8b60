------------------------------ MODULE AsyncTask ------------------------------
(***************************************************************************)
(* The suspension and wake-up protocol of Wio coroutines                   *)
(* (runtime/include/std_async.h).                                          *)
(*                                                                         *)
(* Each coroutine of Coro has an AsyncTaskState (cancelled, completed, the *)
(* list of continuations, the list of cancellation callbacks).  Its k-th   *)
(* await owns the registration <<c, k>>, an atomic phase                   *)
(*   0  await_suspend is still assembling it,                              *)
(*   1  armed: the coroutine is suspended and may be resumed,              *)
(*   2  claimed: somebody resumes it, or it must not suspend at all.       *)
(* Who may claim it: the child that completes, the timer, the main         *)
(* executor, the offloaded job, and the coroutine's own cancellation.      *)
(*                                                                         *)
(* Every critical section of a task's mutex and every atomic access is one *)
(* step; body[c] is where the frame of c stands between two of them.       *)
(***************************************************************************)
EXTENDS Naturals

CONSTANTS Coro,       \* the coroutines
          NoCoro,     \* the child of an await that waits for no task
          Awaits,     \* <<parent, child>>: the handles a coroutine may await
          Code,       \* Code[c]: the awaiters that the source of c contains
          MaxAwaits,  \* bound: awaits one coroutine performs
          MayStop     \* is ShutdownAsyncRuntime called?

Reg == Coro \X (1 .. MaxAwaits)

Bodies == { "absent", "running", "adding", "linking", "invoking", "arming", "suspended",
            "resuming", "unwinding", "completing", "waking", "done", "doubled" }

Awaiters == { "task", "delay", "main", "schedule", "offload" }
Kinds == Awaiters \cup {"none"}

ASSUME CoroAssumption ==
  /\ NoCoro \notin Coro
  /\ Awaits \subseteq Coro \X Coro
  /\ Code \in [Coro -> SUBSET Awaiters]
  /\ MaxAwaits \in Nat
  /\ MayStop \in BOOLEAN

VARIABLES
  body,          \* where the coroutine frame stands
  onMain,        \* does the thread running the frame own the main executor?
  published,     \* has the eager call returned, so that others hold the handle?
  at,            \* awaits begun so far; the current registration is <<c, at[c]>>
  kind, child,   \* per registration: the awaiter, and the task it awaits
  phase,         \* per registration: AsyncContinuationRegistration::phase
  active,        \* cancellation callbacks whose AsyncCancellationRegistration is active
  cancelled, completed, result,      \* AsyncTaskStateBase, value/failure
  conts, callbacks,                  \* its two lists
  toInvoke, toDeactivate, toResume,  \* snapshots that Cancel / Complete walk
  posting,       \* armed, but not yet handed to the executor (schedule, main)
  posted,        \* continuation pool: queued handle.resume()
  work,          \* continuation pool: queued timers and schedule requests
  mainQueue,     \* main executor queue
  jobs,          \* blocking and I/O executors: accepted jobs
  offloadStopped, poolStopped

taskVars  == <<cancelled, completed, result, conts, callbacks>>
walkVars  == <<toInvoke, toDeactivate, toResume>>
queueVars == <<posting, posted, work, mainQueue, jobs>>
stopVars  == <<offloadStopped, poolStopped>>
awaitVars == <<at, kind, child>>
vars == <<body, onMain, published, awaitVars, phase, active, taskVars, walkVars,
          queueVars, stopVars>>

Current(c) == <<c, at[c]>>

\* What RethrowFailure and the value make of a completed state: the
\* cancellation flag is looked at before the failure and before the value.
Outcome(c) == IF cancelled[c] THEN "cancelled" ELSE result[c]

-----------------------------------------------------------------------------
Init ==
  /\ body = [c \in Coro |-> "absent"]
  /\ onMain = [c \in Coro |-> FALSE]
  /\ published = [c \in Coro |-> FALSE]
  /\ at = [c \in Coro |-> 0]
  /\ kind = [r \in Reg |-> "none"]
  /\ child = [r \in Reg |-> NoCoro]
  /\ phase = [r \in Reg |-> 0]
  /\ active = {}
  /\ cancelled = [c \in Coro |-> FALSE]
  /\ completed = [c \in Coro |-> FALSE]
  /\ result = [c \in Coro |-> "none"]
  /\ conts = [c \in Coro |-> {}]
  /\ callbacks = [c \in Coro |-> {}]
  /\ toInvoke = [c \in Coro |-> {}]
  /\ toDeactivate = [c \in Coro |-> {}]
  /\ toResume = [c \in Coro |-> {}]
  /\ posting = {} /\ posted = {} /\ work = {} /\ mainQueue = {} /\ jobs = {}
  /\ offloadStopped = FALSE /\ poolStopped = FALSE

-----------------------------------------------------------------------------
(* Resumption.                                                             *)

\* continuation.resume() for registration r by a thread that does (m) or does
\* not own the main executor.  Resuming a frame that is not suspended at r is
\* undefined behaviour; "doubled" stands for it and nothing leaves it.
Resume(r, m) ==
  /\ body' = [body EXCEPT ![r[1]] =
                IF @ = "suspended" /\ at[r[1]] = r[2] THEN "resuming" ELSE "doubled"]
  /\ onMain' = [onMain EXCEPT ![r[1]] = m]

\* phase.exchange(2); the mutant counts the claims instead.
FetchAdd(r) == phase' = [phase EXCEPT ![r] = @ + 1]
Claim(r) == phase' = [phase EXCEPT ![r] = 2]

\* What the exchange must have found; the mutant only looks for an earlier claim.
Unclaimed(r) == phase[r] # 2
Armed(r) == phase[r] = 1

\* AsyncContinuationRegistration posts the resumption to the pool and falls back
\* to resuming in place once the pool is stopped; AsyncInlineContinuationRegistration
\* (await main) always resumes in place.  The mutant posts every resumption.
FallbackOnly(r) == poolStopped
InPlace(r) == kind[r] = "main" \/ poolStopped

ResumeOnce(r, m) ==
  /\ Claim(r)
  /\ \/ ~ Armed(r) /\ UNCHANGED <<body, onMain, posted>>
     \/ Armed(r) /\ InPlace(r) /\ Resume(r, m) /\ UNCHANGED posted
     \/ /\ Armed(r) /\ ~ InPlace(r)
        /\ posted' = posted \cup {r}
        /\ UNCHANGED <<body, onMain>>

-----------------------------------------------------------------------------
(* The coroutine: the eager call, awaits, the end.                         *)

\* An async function is called: the frame starts at once on its caller.
Create(c) ==
  /\ body[c] = "absent"
  /\ body' = [body EXCEPT ![c] = "running"]
  /\ \E m \in BOOLEAN : onMain' = [onMain EXCEPT ![c] = m]
  /\ UNCHANGED <<published, awaitVars, phase, active, taskVars, walkVars, queueVars, stopVars>>

\* The schedule and offload awaiters appear only in the library coroutines
\* AsyncYield, RunAsync, RunBlockingAsync and RunIoAsync, which await nothing else.
Wrapper(c) == at[c] > 0 /\ kind[<<c, 1>>] \in {"schedule", "offload"}

BeginAwait(c, k, t) ==
  /\ body[c] = "running"
  /\ k \in Code[c]
  /\ at[c] < MaxAwaits
  /\ ~ Wrapper(c)
  /\ at' = [at EXCEPT ![c] = @ + 1]
  /\ kind' = [kind EXCEPT ![<<c, at[c] + 1>>] = k]
  /\ child' = [child EXCEPT ![<<c, at[c] + 1>>] = t]

\* co_await task. When await_ready finds the child completed, await_suspend is not
\* called and leaves no awaitingState: await_resume takes the child's outcome and
\* does not look at the awaiter's own cancellation.
AwaitTask(c, t) ==
  /\ <<c, t>> \in Awaits
  /\ published[t]
  /\ BeginAwait(c, "task", t)
  /\ body' = [body EXCEPT ![c] = IF ~ completed[t] THEN "adding"
                                ELSE IF Outcome(t) = "value" THEN "running" ELSE "unwinding"]
  /\ UNCHANGED <<onMain, published, phase, active, taskVars, walkVars, queueVars, stopVars>>

\* await_suspend sets awaitingState and adds itself to the child's continuations,
\* unless the child has completed since await_ready.
AddContinuation(c) ==
  LET t == child[Current(c)] IN
  /\ body[c] = "adding"
  /\ IF completed[t]
     THEN body' = [body EXCEPT ![c] = "resuming"] /\ UNCHANGED conts
     ELSE /\ body' = [body EXCEPT ![c] = "linking"]
          /\ conts' = [conts EXCEPT ![t] = @ \cup {Current(c)}]
  /\ UNCHANGED <<onMain, published, awaitVars, phase, active, cancelled, completed, result,
                 callbacks, walkVars, queueVars, stopVars>>

\* co_await AsyncDelayAwaiter: a delay of zero is ready; any other queues its timer
\* before anything else.
AwaitDelay(c) ==
  /\ BeginAwait(c, "delay", NoCoro)
  /\ \/ UNCHANGED <<body, work>>
     \/ poolStopped /\ body' = [body EXCEPT ![c] = "unwinding"] /\ UNCHANGED work
     \/ /\ ~ poolStopped
        /\ body' = [body EXCEPT ![c] = "linking"]
        /\ work' = work \cup {<<c, at[c] + 1>>}
  /\ UNCHANGED <<onMain, published, phase, active, taskVars, walkVars, posting, posted,
                 mainQueue, jobs, stopVars>>

\* co_await AsyncScheduleAwaiter, the first await of AsyncYield and RunAsync.
AwaitSchedule(c) ==
  /\ at[c] = 0
  /\ BeginAwait(c, "schedule", NoCoro)
  /\ body' = [body EXCEPT ![c] = "linking"]
  /\ UNCHANGED <<onMain, published, phase, active, taskVars, walkVars, queueVars, stopVars>>

\* await main is ready on the owner thread, and then passes a cancellation by.
AwaitMain(c) ==
  /\ BeginAwait(c, "main", NoCoro)
  /\ body' = [body EXCEPT ![c] = IF onMain[c] THEN "running" ELSE "linking"]
  /\ UNCHANGED <<onMain, published, phase, active, taskVars, walkVars, queueVars, stopVars>>

\* co_await AsyncBlockingAwaiter / AsyncIoAwaiter: Arm, then Submit.  No other
\* thread knows the registration before Submit, so the two are one step.  Submit
\* refuses a stopped executor and a full queue; await_suspend then throws.
AwaitOffload(c) ==
  /\ at[c] = 0
  /\ BeginAwait(c, "offload", NoCoro)
  /\ \/ /\ ~ offloadStopped
        /\ phase' = [phase EXCEPT ![<<c, 1>>] = 1]
        /\ jobs' = jobs \cup {<<c, 1>>}
        /\ body' = [body EXCEPT ![c] = "suspended"]
        /\ published' = [published EXCEPT ![c] = TRUE]
     \/ /\ body' = [body EXCEPT ![c] = "unwinding"]
        /\ UNCHANGED <<phase, jobs, published>>
  /\ UNCHANGED <<onMain, active, taskVars, walkVars, posting, posted, work, mainQueue, stopVars>>

\* invokeImmediately of AddCancellationCallback; the mutant misses an earlier Cancel.
NeverImmediately(c) == FALSE
InvokesImmediately(c) == cancelled[c]

\* AddCancellationCallback on the coroutine's own state.
Link(c) ==
  /\ body[c] = "linking"
  /\ active' = active \cup {Current(c)}
  /\ callbacks' = [callbacks EXCEPT ![c] = @ \cup {Current(c)}]
  /\ body' = [body EXCEPT ![c] = IF InvokesImmediately(c) THEN "invoking" ELSE "arming"]
  /\ UNCHANGED <<onMain, published, awaitVars, phase, cancelled, completed, result, conts,
                 walkVars, queueVars, stopVars>>

\* AsyncCancellationRegistration::InvokeOnce on the callback of r.  A delay's
\* callback also flags the timer, which the workers then discard.
InvokeOnce(r, m) ==
  IF r \in active
  THEN /\ active' = active \ {r}
       /\ work' = IF kind[r] = "delay" THEN work \ {r} ELSE work
       /\ ResumeOnce(r, m)
  ELSE UNCHANGED <<active, work, phase, body, onMain, posted>>

\* invokeImmediately: the coroutine was cancelled before it linked its callback.
\* Its registration is not armed yet, so ResumeOnce only forbids the suspension.
InvokeImmediately(c) ==
  LET r == Current(c) IN
  /\ body[c] = "invoking"
  /\ active' = active \ {r}
  /\ work' = IF kind[r] = "delay" THEN work \ {r} ELSE work
  /\ Claim(r)
  /\ body' = [body EXCEPT ![c] = "arming"]
  /\ UNCHANGED <<onMain, published, awaitVars, taskVars, walkVars, posting, posted,
                 mainQueue, jobs, stopVars>>

\* Arm's compare_exchange; the mutant stores 1 over a claim.
StoreArmed(r) == TRUE
CanArm(r) == phase[r] = 0

\* Arm: from here on the frame belongs to whoever claims the registration.  A
\* task or delay await is complete; schedule and main still have to be posted.
\* A suspension in the eager part returns the handle to the caller.
Arm(c) ==
  LET r == Current(c) IN
  /\ body[c] = "arming"
  /\ IF CanArm(r)
     THEN /\ phase' = [phase EXCEPT ![r] = 1]
          /\ body' = [body EXCEPT ![c] = "suspended"]
          /\ IF kind[r] \in {"task", "delay"}
             THEN published' = [published EXCEPT ![c] = TRUE] /\ UNCHANGED posting
             ELSE posting' = posting \cup {r} /\ UNCHANGED published
     ELSE /\ body' = [body EXCEPT ![c] = "resuming"]
          /\ UNCHANGED <<phase, published, posting>>
  /\ UNCHANGED <<onMain, awaitVars, active, taskVars, walkVars, posted, work, mainQueue,
                 jobs, stopVars>>

\* The end of AsyncMainAwaiter::await_suspend.
PostMain(r) ==
  /\ r \in posting
  /\ kind[r] = "main"
  /\ posting' = posting \ {r}
  /\ mainQueue' = mainQueue \cup {r}
  /\ published' = [published EXCEPT ![r[1]] = TRUE]
  /\ UNCHANGED <<body, onMain, awaitVars, phase, active, taskVars, walkVars, posted, work,
                 jobs, stopVars>>

\* The end of AsyncScheduleAwaiter::await_suspend.  When the pool refuses, it
\* throws into the frame although the registration is armed.
PostSchedule(r) ==
  /\ r \in posting
  /\ kind[r] = "schedule"
  /\ posting' = posting \ {r}
  /\ IF poolStopped
     THEN /\ body' = [body EXCEPT ![r[1]] =
                        IF @ = "suspended" /\ at[r[1]] = r[2] THEN "unwinding" ELSE "doubled"]
          /\ UNCHANGED <<work, published>>
     ELSE /\ work' = work \cup {r}
          /\ published' = [published EXCEPT ![r[1]] = TRUE]
          /\ UNCHANGED body
  /\ UNCHANGED <<onMain, awaitVars, phase, active, taskVars, walkVars, posted, mainQueue,
                 jobs, stopVars>>

\* await_resume after await_suspend: every awaiter but the offload ones looks at the
\* coroutine's own cancellation first; a task await then takes the child's outcome,
\* an offload await the job's.  Wio source cannot catch, so a throw unwinds the frame.
AwaitResume(c) ==
  LET r == Current(c)
      throws == \/ cancelled[c]
                \/ kind[r] = "task" /\ Outcome(child[r]) # "value"
  IN
  /\ body[c] = "resuming"
  /\ \E next \in {"running", "unwinding"} :
       /\ kind[r] # "offload" => (next = "unwinding" <=> throws)
       /\ body' = [body EXCEPT ![c] = next]
  /\ UNCHANGED <<onMain, published, awaitVars, phase, active, taskVars, walkVars, queueVars,
                 stopVars>>

\* return_value / return_void, or unhandled_exception.
Return(c) ==
  /\ body[c] \in {"running", "unwinding"}
  /\ \E o \in {"value", "failed"} :
       /\ body[c] = "unwinding" => o = "failed"
       /\ result' = [result EXCEPT ![c] = o]
  /\ body' = [body EXCEPT ![c] = "completing"]
  /\ UNCHANGED <<onMain, published, awaitVars, phase, active, cancelled, completed, conts,
                 callbacks, walkVars, queueVars, stopVars>>

\* The critical section of AsyncTaskStateBase::Complete.
Complete(c) ==
  /\ body[c] = "completing"
  /\ completed' = [completed EXCEPT ![c] = TRUE]
  /\ toResume' = [toResume EXCEPT ![c] = conts[c]]
  /\ conts' = [conts EXCEPT ![c] = {}]
  /\ toDeactivate' = [toDeactivate EXCEPT ![c] = callbacks[c]]
  /\ callbacks' = [callbacks EXCEPT ![c] = {}]
  /\ body' = [body EXCEPT ![c] = "waking"]
  /\ UNCHANGED <<onMain, published, awaitVars, phase, active, cancelled, result, toInvoke,
                 queueVars, stopVars>>

Deactivate(c) ==
  /\ body[c] = "waking"
  /\ \E r \in toDeactivate[c] :
       /\ active' = active \ {r}
       /\ toDeactivate' = [toDeactivate EXCEPT ![c] = @ \ {r}]
  /\ UNCHANGED <<body, onMain, published, awaitVars, phase, taskVars, toInvoke, toResume,
                 queueVars, stopVars>>

\* Complete wakes the awaiters, each through ResumeOnce.
Wake(c) ==
  /\ body[c] = "waking"
  /\ toDeactivate[c] = {}
  /\ \E r \in toResume[c] :
       /\ toResume' = [toResume EXCEPT ![c] = @ \ {r}]
       /\ ResumeOnce(r, onMain[c])
  /\ UNCHANGED <<published, awaitVars, active, taskVars, toInvoke, toDeactivate, posting, work,
                 mainQueue, jobs, stopVars>>

\* final_suspend never suspends: the frame is gone, the state stays.
Finish(c) ==
  /\ body[c] = "waking"
  /\ toDeactivate[c] = {} /\ toResume[c] = {}
  /\ body' = [body EXCEPT ![c] = "done"]
  /\ published' = [published EXCEPT ![c] = TRUE]
  /\ UNCHANGED <<onMain, awaitVars, phase, active, taskVars, walkVars, queueVars, stopVars>>

-----------------------------------------------------------------------------
(* Cancellation by any holder of the handle.                               *)

\* Completion wins over a late Cancel; the mutant forgets that.
NotYetCancelled(c) == ~ cancelled[c]
Cancellable(c) == ~ completed[c] /\ ~ cancelled[c]

\* The critical section of AsyncTaskStateBase::Cancel.
Cancel(c) ==
  /\ published[c]
  /\ Cancellable(c)
  /\ cancelled' = [cancelled EXCEPT ![c] = TRUE]
  /\ toInvoke' = [toInvoke EXCEPT ![c] = callbacks[c]]
  /\ UNCHANGED <<body, onMain, published, awaitVars, phase, active, completed, result, conts,
                 callbacks, toDeactivate, toResume, queueVars, stopVars>>

\* Cancel invokes its snapshot in registration order, outside the lock, on a
\* thread that need not own the main executor.
InvokeNext(c) ==
  /\ \E r \in toInvoke[c] :
       /\ \A q \in toInvoke[c] : r[2] <= q[2]
       /\ toInvoke' = [toInvoke EXCEPT ![c] = @ \ {r}]
       /\ InvokeOnce(r, FALSE)
  /\ UNCHANGED <<published, awaitVars, taskVars, toDeactivate, toResume, posting, mainQueue,
                 jobs, stopVars>>

-----------------------------------------------------------------------------
(* The executors.                                                          *)

\* A pool worker runs a posted continuation.
RunPosted(r) ==
  /\ r \in posted
  /\ posted' = posted \ {r}
  /\ Resume(r, FALSE)
  /\ UNCHANGED <<published, awaitVars, phase, active, taskVars, walkVars, posting, work,
                 mainQueue, jobs, stopVars>>

\* A pool worker runs a due timer or a schedule request.  Timers fall due at any
\* time: nothing is assumed about the clock.
RunWork(r) ==
  /\ r \in work
  /\ work' = work \ {r}
  /\ ResumeOnce(r, FALSE)
  /\ UNCHANGED <<published, awaitVars, active, taskVars, walkVars, posting, mainQueue, jobs,
                 stopVars>>

\* The owner thread drains an entry of the main executor.
RunMain(r) ==
  /\ r \in mainQueue
  /\ mainQueue' = mainQueue \ {r}
  /\ ResumeOnce(r, TRUE)
  /\ UNCHANGED <<published, awaitVars, active, taskVars, walkVars, posting, work, jobs,
                 stopVars>>

\* A blocking or I/O worker finishes a job and publishes its continuation.
RunJob(r) ==
  /\ r \in jobs
  /\ jobs' = jobs \ {r}
  /\ ResumeOnce(r, FALSE)
  /\ UNCHANGED <<published, awaitVars, active, taskVars, walkVars, posting, work, mainQueue,
                 stopVars>>

\* ShutdownAsyncRuntime: the I/O and blocking executors refuse and drain first,
\* then the continuation pool refuses.  What the pool accepted still runs.
StopOffload ==
  /\ MayStop /\ ~ offloadStopped
  /\ offloadStopped' = TRUE
  /\ UNCHANGED <<body, onMain, published, awaitVars, phase, active, taskVars, walkVars,
                 queueVars, poolStopped>>

StopPool ==
  /\ offloadStopped /\ jobs = {} /\ ~ poolStopped
  /\ poolStopped' = TRUE
  /\ UNCHANGED <<body, onMain, published, awaitVars, phase, active, taskVars, walkVars,
                 queueVars, offloadStopped>>

-----------------------------------------------------------------------------
\* Everything that was created has ended and every executor is idle.
Quiescent ==
  /\ \A c \in Coro : body[c] \in {"absent", "done"} /\ toInvoke[c] = {}
  /\ posting \cup posted \cup work \cup mainQueue \cup jobs = {}
  /\ UNCHANGED vars

CoroStep(c) ==
  \/ AwaitDelay(c) \/ AwaitSchedule(c) \/ AwaitMain(c) \/ AwaitOffload(c)
  \/ \E t \in Coro : AwaitTask(c, t)
  \/ AddContinuation(c) \/ Link(c) \/ InvokeImmediately(c) \/ Arm(c) \/ AwaitResume(c)
  \/ Return(c) \/ Complete(c) \/ Deactivate(c) \/ Wake(c) \/ Finish(c)

PoolStep(r) == RunPosted(r) \/ RunWork(r)

Next ==
  \/ \E c \in Coro : Create(c) \/ CoroStep(c) \/ Cancel(c) \/ InvokeNext(c)
  \/ \E r \in Reg : PostMain(r) \/ PostSchedule(r) \/ PoolStep(r) \/ RunMain(r) \/ RunJob(r)
  \/ StopOffload \/ StopPool
  \/ Quiescent

Spec == Init /\ [][Next]_vars

\* Threads run (a coroutine that runs reaches its next await or its end, a Cancel
\* walks its snapshot), pool workers take some queued item as long as there is one,
\* and the owner thread drains its queue.  Nobody has to call an async function, to
\* cancel or to stop, and an offloaded job need not ever end.
Fairness ==
  /\ \A c \in Coro : WF_vars(CoroStep(c)) /\ WF_vars(InvokeNext(c))
  /\ WF_vars(\E r \in Reg : PostMain(r) \/ PostSchedule(r))
  /\ WF_vars(\E r \in Reg : PoolStep(r))
  /\ WF_vars(\E r \in Reg : RunMain(r))

FairSpec == Spec /\ Fairness

-----------------------------------------------------------------------------
(* Properties.                                                             *)

\* The variables keep their types.
TypeOK ==
  /\ body \in [Coro -> Bodies]
  /\ onMain \in [Coro -> BOOLEAN]
  /\ published \in [Coro -> BOOLEAN]
  /\ at \in [Coro -> 0 .. MaxAwaits]
  /\ kind \in [Reg -> Kinds]
  /\ child \in [Reg -> Coro \cup {NoCoro}]
  /\ phase \in [Reg -> 0 .. 2]
  /\ active \in SUBSET Reg
  /\ cancelled \in [Coro -> BOOLEAN]
  /\ completed \in [Coro -> BOOLEAN]
  /\ result \in [Coro -> {"none", "value", "failed"}]
  /\ conts \in [Coro -> SUBSET Reg]
  /\ callbacks \in [Coro -> SUBSET Reg]
  /\ toInvoke \in [Coro -> SUBSET Reg]
  /\ toDeactivate \in [Coro -> SUBSET Reg]
  /\ toResume \in [Coro -> SUBSET Reg]
  /\ posting \in SUBSET Reg
  /\ posted \in SUBSET Reg
  /\ work \in SUBSET Reg
  /\ mainQueue \in SUBSET Reg
  /\ jobs \in SUBSET Reg
  /\ offloadStopped \in BOOLEAN
  /\ poolStopped \in BOOLEAN

\* A frame is resumed at most once per suspension and never while it runs,
\* whatever completion, timer, main drain, job, cancellation and shutdown do
\* at the same time (ResumeOnce and Arm).
SingleRunner == \A c \in Coro : body[c] # "doubled"

\* User code that follows await main runs on the owner thread, and user code
\* that follows a Run/Yield boundary does not run on a main thread that asked
\* for it (the comments of AsyncMainAwaiter and AsyncScheduleAwaiter).
ExecutorBoundary ==
  \A c \in Coro : body[c] = "running" /\ at[c] > 0 =>
    /\ kind[Current(c)] = "main" => onMain[c]
    /\ kind[Current(c)] = "schedule" => ~ onMain[c]

\* A cancelled coroutine settles although whatever it awaits never does; only
\* the library coroutine around an offloaded call waits for that call. (The awaits
\* of its source are finitely many; those that are ready do not stop it.)
CancelSettles ==
  \A c \in Coro : cancelled[c] ~>
    completed[c] \/ (at[c] > 0 /\ kind[Current(c)] = "offload")

\* No wake-up is lost: if the offloaded calls return, every coroutine ends, with
\* or without cancellation and shutdown.
EveryCoroutineEnds ==
  []<>(jobs = {}) => \A c \in Coro : body[c] = "running" ~> body[c] = "done"

\* A cancellation makes a later await fail: a coroutine that begins an await after it
\* was cancelled does not run on behind it at once (docs/WIO_ASYNC_MODEL.md, 280-281).
LaterAwaitFails ==
  [][\A c \in Coro : cancelled[c] /\ at'[c] > at[c] => body'[c] # "running"]_vars

\* The abstract state of the handles.
AwaitedBy(c) ==
  IF body[c] \in {"adding", "linking", "invoking", "arming", "suspended", "resuming"}
  THEN child[Current(c)] ELSE NoCoro

Contract == INSTANCE TaskContract WITH
  life <- [c \in Coro |-> IF body[c] = "absent" THEN "absent"
                          ELSE IF completed[c] THEN "settled" ELSE "active"],
  asked <- cancelled,
  outcome <- [c \in Coro |-> IF completed[c] THEN Outcome(c) ELSE "none"],
  waitsFor <- [c \in Coro |-> AwaitedBy(c)]

\* Coroutines implement the task contract: one stable outcome per handle, and
\* no await is passed before the child settled or the awaiter was cancelled.
ImplementsContract == Contract!Spec
===============================================================================
