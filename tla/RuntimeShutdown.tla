---------------------------- MODULE RuntimeShutdown ----------------------------
(***************************************************************************)
(* ShutdownAsyncRuntime and the three pools it stops                       *)
(* (runtime/include/std_async.h). An offloaded job runs on the I/O or the  *)
(* blocking pool and then posts the continuation of its coroutine to the   *)
(* continuation pool; if that one refuses, the worker resumes the          *)
(* coroutine itself. Shutdown of a pool, thread by thread, is              *)
(* AsyncScheduler; here it is the flag, the mutex and the join.            *)
(***************************************************************************)
EXTENDS Naturals, Sequences, FiniteSets

CONSTANTS Job,     \* offloaded jobs with their coroutines
          Host,    \* outside threads that call ShutdownAsyncRuntime
          Workers  \* threads per pool

ASSUME ShutdownAssumption == Job \cap Host = {} /\ Workers \in Nat \ {0}

AsyncFirst == <<"async", "io", "blocking">>   \* a variant: continuations stop first
Order == <<"io", "blocking", "async">>
Offload == {"io", "blocking"}
Caller == Job \cup Host

VARIABLES
  poolOf,     \* the offload pool of each job
  jobState,   \* new, queued, running, posted, resumed, inline, refused, ended
  stopping,   \* pools whose Shutdown has begun
  calls       \* per caller: the pools it has shut down or is shutting down, and
              \* whether it holds the shutdownMutex of the last one

rtVars == <<poolOf, jobState, stopping, calls>>

RtInit ==
  /\ poolOf \in [Job -> Offload]
  /\ jobState = [j \in Job |-> "new"]
  /\ stopping = {}
  /\ calls = [c \in Caller |-> [stage |-> 0, holds |-> FALSE]]

Now(j, s) == jobState' = [jobState EXCEPT ![j] = s]

\* The jobs that occupy a worker of pool p.
Busy(p) == IF p = "async" THEN {j \in Job : jobState[j] = "resumed"}
           ELSE {j \in Job : poolOf[j] = p /\ jobState[j] \in {"running", "inline"}}
Pending(p) == IF p = "async" THEN {j \in Job : jobState[j] = "posted"}
              ELSE {j \in Job : poolOf[j] = p /\ jobState[j] = "queued"}

\* A caller is inside ShutdownAsyncRuntime.
Inside(c) == calls[c].stage \in 1 .. Len(Order)

Submit(j) ==
  /\ jobState[j] = "new"
  /\ Now(j, IF poolOf[j] \in stopping THEN "refused" ELSE "queued")
  /\ UNCHANGED <<poolOf, stopping, calls>>

\* A worker of either kind of pool takes the next item.
TakeItem(j) ==
  /\ \E p \in Offload \cup {"async"} :
       j \in Pending(p) /\ Cardinality(Busy(p)) < Workers
  /\ Now(j, IF jobState[j] = "queued" THEN "running" ELSE "resumed")
  /\ UNCHANGED <<poolOf, stopping, calls>>

\* The job is done: ResumeOnce.
PostContinuation(j) ==
  /\ jobState[j] = "running" /\ ~Inside(j)
  /\ Now(j, IF "async" \in stopping THEN "inline" ELSE "posted")
  /\ UNCHANGED <<poolOf, stopping, calls>>

EndOfCoroutine(j) ==
  /\ jobState[j] \in {"resumed", "inline"} /\ ~Inside(j)
  /\ Now(j, "ended")
  /\ UNCHANGED <<poolOf, stopping, calls>>

\* ShutdownAsyncRuntime, from a host, a job or a coroutine.
CallShutdownRuntime(c) ==
  /\ calls[c].stage = 0
  /\ c \in Job => jobState[c] \in {"running", "resumed", "inline"}
  /\ calls' = [calls EXCEPT ![c].stage = 1]
  /\ UNCHANGED <<poolOf, jobState, stopping>>

Pool(c) == Order[calls[c].stage]

LockAndStop(c) ==
  /\ Inside(c) /\ ~calls[c].holds
  /\ \A d \in Caller : ~(Inside(d) /\ calls[d].holds /\ Pool(d) = Pool(c))
  /\ calls' = [calls EXCEPT ![c].holds = TRUE]
  /\ stopping' = stopping \cup {Pool(c)}
  /\ UNCHANGED <<poolOf, jobState>>

\* Every worker is joined but the caller's own, whose queue the others have drained.
JoinedAndNext(c) ==
  /\ Inside(c) /\ calls[c].holds
  /\ Busy(Pool(c)) \subseteq {c}
  /\ Pending(Pool(c)) = {} \/ (Workers = 1 /\ c \in Busy(Pool(c)))
  /\ calls' = [calls EXCEPT ![c] = [stage |-> @.stage + 1, holds |-> FALSE]]
  /\ UNCHANGED <<poolOf, jobState, stopping>>

RtNext ==
  \/ \E j \in Job : Submit(j) \/ TakeItem(j) \/ PostContinuation(j) \/ EndOfCoroutine(j)
  \/ \E c \in Caller : CallShutdownRuntime(c) \/ LockAndStop(c) \/ JoinedAndNext(c)

RtSpec == RtInit /\ [][RtNext]_rtVars

\* What runs by itself once it has begun.
JobStep(j) == TakeItem(j) \/ PostContinuation(j) \/ EndOfCoroutine(j)
CallerStep(c) == LockAndStop(c) \/ JoinedAndNext(c)

-----------------------------------------------------------------------------
(* Properties.                                                             *)

RtTypeOK ==
  /\ poolOf \in [Job -> Offload]
  /\ jobState \in [Job -> {"new", "queued", "running", "posted", "resumed", "inline",
                           "refused", "ended"}]
  /\ stopping \in SUBSET (Offload \cup {"async"})
  /\ calls \in [Caller -> [stage : 0 .. Len(Order) + 1, holds : BOOLEAN]]

\* A shutdown from inside the runtime: it skips the join of its own worker.
FromInside == \E j \in Job : calls[j].stage > 0

\* The order of the pools: as long as only outside threads shut the runtime down, no
\* job meets a stopped continuation pool, so no coroutine continues on an offload
\* worker; and what is left when a call returns is only what was refused.
HostShutdownDrains ==
  ~FromInside =>
    /\ \A j \in Job : jobState[j] # "inline"
    /\ (\E c \in Host : calls[c].stage > Len(Order)) =>
         \A j \in Job : jobState[j] \in {"new", "refused", "ended"}

\* A shutdown that an outside thread began returns, as long as none comes from inside.
ShutdownReturns ==
  \A c \in Host : Inside(c) ~> calls[c].stage > Len(Order) \/ FromInside
===============================================================================
