---------------------------- MODULE AsyncScheduler ----------------------------
(***************************************************************************)
(* The worker pools of the async runtime, thread by thread:                *)
(* AsyncScheduler (continuations and timers) and, with no timers and a     *)
(* Capacity, AsyncBlockingScheduler (runtime/include/std_async.h).         *)
(*                                                                         *)
(* One mutex guards the queue; workers sleep on one condition variable,    *)
(* either for ever (the queue was empty) or until the first timer is due.  *)
(* Every critical section is one step.  A notification follows its         *)
(* critical section at once: between the two a worker can only go on       *)
(* looking at the queue, and SpuriousWake covers a notification that comes *)
(* too late to be needed.                                                  *)
(***************************************************************************)
EXTENDS Naturals, FiniteSets

CONSTANTS Worker,    \* the pool's threads
          Outside,   \* other threads that call Shutdown
          Item, NoItem,  \* the actions handed to the pool
          Delay,     \* Delay[i]: 0 for Post and Submit, the delay for PostAfter
          Awaits,    \* Awaits[i]: the action of i blocks until these have run
          Stoppers,  \* items whose action calls Shutdown
          Capacity,  \* queueCapacity_ of the blocking executor
          Horizon    \* bound: the clock stops there

Thread == Worker \cup Outside
Timer == {i \in Item : Delay[i] > 0}

ASSUME PoolAssumption ==
  /\ Worker # {} /\ Worker \cap Outside = {}
  /\ NoItem \notin Item
  /\ IsFiniteSet(Item)
  /\ Delay \in [Item -> Nat]
  /\ Awaits \in [Item -> SUBSET Item]
  /\ Stoppers \subseteq Item
  /\ Capacity \in Nat /\ Horizon \in Nat

VARIABLES
  now,        \* the steady clock
  queue,      \* work_: the items in it
  readyAt, ticket,  \* per item: Work::readyAt and Work::sequence
  nextSequence,
  flagged,    \* timers whose shared cancelled flag is set
  stopping,
  refused,    \* items the pool did not accept
  done,       \* items whose action has returned
  pc,         \* per worker: looking, waiting, waitingUntil, running, exited
  until,      \* per worker: the time its wait_until ends
  job,        \* per worker: the action it runs
  stage,      \* per thread: where its call of Shutdown stands
  dropped     \* flagged timers that were popped without being run

queueVars == <<queue, readyAt, ticket, nextSequence, refused, dropped>>
threadVars == <<pc, until, job>>
vars == <<now, queueVars, flagged, stopping, done, threadVars, stage>>

Init ==
  /\ now = 0
  /\ queue = {} /\ flagged = {} /\ refused = {} /\ done = {} /\ dropped = {}
  /\ readyAt = [i \in Item |-> 0]
  /\ ticket = [i \in Item |-> 0]
  /\ nextSequence = 0
  /\ stopping = FALSE
  /\ pc = [w \in Worker |-> "looking"]
  /\ until = [w \in Worker |-> 0]
  /\ job = [w \in Worker |-> NoItem]
  /\ stage = [t \in Thread |-> "idle"]

-----------------------------------------------------------------------------
(* Handing an action to the pool.                                          *)

Sleeping(w) == pc[w] \in {"waiting", "waitingUntil"}

\* notify_one wakes any one of the sleepers, timed or not; the mutant forgets it.
ForgetNotify == UNCHANGED pc
NotifyOne ==
  \/ \E w \in Worker : Sleeping(w) /\ pc' = [pc EXCEPT ![w] = "looking"]
  \/ (\A w \in Worker : ~ Sleeping(w)) /\ UNCHANGED pc

\* notify_all; the mutant is notify_one.
WakeOneOnly == NotifyOne
NotifyAll == pc' = [w \in Worker |-> IF Sleeping(w) THEN "looking" ELSE pc[w]]

New(i) == i \notin queue \cup refused \cup done \cup dropped /\ \A w \in Worker : job[w] # i

\* stopping_ || work_.size() >= queueCapacity_ (AsyncScheduler has no capacity);
\* the mutant accepts while the pool stops.
RefusesIfFull == Cardinality(queue) >= Capacity
Refuses == stopping \/ Cardinality(queue) >= Capacity

\* Post, PostAfter and Submit, by any thread; a worker's action may be the caller.
\* The caller reads the clock before it gets the mutex: it may be late.
Post(i) ==
  /\ New(i)
  /\ now + Delay[i] <= Horizon
  /\ IF Refuses
     THEN /\ refused' = refused \cup {i}
          /\ UNCHANGED <<queue, readyAt, ticket, nextSequence, pc>>
     ELSE /\ queue' = queue \cup {i}
          /\ \E called \in 0..now : readyAt' = [readyAt EXCEPT ![i] = called + Delay[i]]
          /\ ticket' = [ticket EXCEPT ![i] = nextSequence]
          /\ nextSequence' = nextSequence + 1
          /\ NotifyOne
          /\ UNCHANGED refused
  /\ UNCHANGED <<now, dropped, flagged, stopping, done, until, job, stage>>

\* The owner of a queued timer sets its flag; nobody is notified.
CancelTimer(i) ==
  /\ i \in queue \cap Timer
  /\ flagged' = flagged \cup {i}
  /\ UNCHANGED <<now, queueVars, stopping, done, threadVars, stage>>

Tick ==
  /\ now < Horizon
  /\ now' = now + 1
  /\ UNCHANGED <<queueVars, flagged, stopping, done, threadVars, stage>>

-----------------------------------------------------------------------------
(* RunWorker: one round of the loop under the mutex.                       *)

\* LaterWork: the order of the priority queue; the mutant takes the last of equals.
LastFirst(i, j) ==
  \/ readyAt[i] < readyAt[j]
  \/ readyAt[i] = readyAt[j] /\ ticket[i] > ticket[j]
Before(i, j) ==
  \/ readyAt[i] < readyAt[j]
  \/ readyAt[i] = readyAt[j] /\ ticket[i] < ticket[j]

\* Flagged timers at the top are popped until the top is not flagged.
Live == queue \ flagged
Popped == {i \in queue \cap flagged : \A j \in Live : Before(i, j)}
Top(i) == i \in Live /\ \A j \in Live : j = i \/ Before(i, j)

Due(i) == readyAt[i] <= now

\* A stopping pool does not wait for its timers; the mutant waits for none.
AnyTime(i) == TRUE
MayRun(i) == Due(i) \/ stopping

Discard == /\ queue' = queue \ Popped
           /\ dropped' = dropped \cup Popped

\* stopping_ && work_.empty(); the mutant leaves what is queued.
ExitsAtOnce == stopping
Exits == stopping /\ Live = {}

Exit(w) ==
  /\ pc[w] = "looking"
  /\ Exits
  /\ Discard
  /\ pc' = [pc EXCEPT ![w] = "exited"]
  /\ UNCHANGED <<now, readyAt, ticket, nextSequence, refused, flagged, stopping, done, until,
                 job, stage>>

Wait(w) ==
  /\ pc[w] = "looking"
  /\ ~ stopping /\ Live = {}
  /\ Discard
  /\ pc' = [pc EXCEPT ![w] = "waiting"]
  /\ UNCHANGED <<now, readyAt, ticket, nextSequence, refused, flagged, stopping, done, until,
                 job, stage>>

WaitUntil(w) ==
  /\ pc[w] = "looking"
  /\ \E i \in Live :
       /\ Top(i)
       /\ ~ MayRun(i)
       /\ until' = [until EXCEPT ![w] = readyAt[i]]
  /\ Discard
  /\ pc' = [pc EXCEPT ![w] = "waitingUntil"]
  /\ UNCHANGED <<now, readyAt, ticket, nextSequence, refused, flagged, stopping, done, job,
                 stage>>

Take(w) ==
  /\ pc[w] = "looking"
  /\ \E i \in Live :
       /\ Top(i)
       /\ MayRun(i)
       /\ queue' = queue \ (Popped \cup {i})
       /\ job' = [job EXCEPT ![w] = i]
  /\ dropped' = dropped \cup Popped
  /\ pc' = [pc EXCEPT ![w] = "running"]
  /\ UNCHANGED <<now, readyAt, ticket, nextSequence, refused, flagged, stopping, done, until,
                 stage>>

\* wait_until times out, or either wait returns for no reason.
TimeOut(w) ==
  /\ pc[w] = "waitingUntil" /\ until[w] <= now
  /\ pc' = [pc EXCEPT ![w] = "looking"]
  /\ UNCHANGED <<now, queueVars, flagged, stopping, done, until, job, stage>>

SpuriousWake(w) ==
  /\ Sleeping(w)
  /\ pc' = [pc EXCEPT ![w] = "looking"]
  /\ UNCHANGED <<now, queueVars, flagged, stopping, done, until, job, stage>>

\* The worker's action goes out of scope.
Release(w) == job' = [job EXCEPT ![w] = NoItem]

\* The action returns, outside the mutex.  It may have blocked on other actions,
\* or have called Shutdown.
Return(w) ==
  /\ pc[w] = "running"
  /\ Awaits[job[w]] \subseteq done
  /\ job[w] \in Stoppers => stage[w] = "returned"
  /\ done' = done \cup {job[w]}
  /\ Release(w)
  /\ pc' = [pc EXCEPT ![w] = "looking"]
  /\ UNCHANGED <<now, queueVars, flagged, stopping, until, stage>>

-----------------------------------------------------------------------------
(* Shutdown.                                                               *)

CallShutdown(t) ==
  /\ stage[t] = "idle"
  /\ t \in Worker => pc[t] = "running" /\ job[t] \in Stoppers
  /\ stage' = [stage EXCEPT ![t] = "calling"]
  /\ UNCHANGED <<now, queueVars, flagged, stopping, done, threadVars>>

\* shutdownMutex_ is free.
Enter(t) ==
  /\ stage[t] = "calling"
  /\ \A u \in Thread : stage[u] # "joining"
  /\ stage' = [stage EXCEPT ![t] = "joining"]
  /\ stopping' = TRUE
  /\ NotifyAll
  /\ UNCHANGED <<now, queueVars, flagged, done, until, job>>

\* The workers it joins: all but itself.
Joins(t) == Worker \ {t}

Leave(t) ==
  /\ stage[t] = "joining"
  /\ \A w \in Joins(t) : pc[w] = "exited"
  /\ stage' = [stage EXCEPT ![t] = "returned"]
  /\ UNCHANGED <<now, queueVars, flagged, stopping, done, threadVars>>

-----------------------------------------------------------------------------
\* Nothing is left to do, or nobody wants the pool to stop.
Quiescent ==
  /\ \A w \in Worker : pc[w] \in {"waiting", "exited"}
  /\ \A t \in Thread : stage[t] \in {"idle", "returned"}
  /\ UNCHANGED vars

Look(w) == Exit(w) \/ Wait(w) \/ WaitUntil(w) \/ Take(w)

Next ==
  \/ \E i \in Item : Post(i) \/ CancelTimer(i)
  \/ Tick
  \/ \E w \in Worker : Look(w) \/ TimeOut(w) \/ SpuriousWake(w) \/ Return(w)
  \/ \E t \in Thread : CallShutdown(t) \/ Enter(t) \/ Leave(t)
  \/ Quiescent

Spec == Init /\ [][Next]_vars

\* Time passes, threads run, a lock that is free for long enough is got, and an
\* action that calls Shutdown does so.  Nobody has to post, to cancel or to stop.
Fairness ==
  /\ WF_vars(Tick)
  /\ \A w \in Worker : WF_vars(Look(w)) /\ WF_vars(TimeOut(w)) /\ WF_vars(Return(w))
  /\ \A w \in Worker : WF_vars(CallShutdown(w))
  /\ \A t \in Thread : WF_vars(Enter(t)) /\ WF_vars(Leave(t))

FairSpec == Spec /\ Fairness

-----------------------------------------------------------------------------
(* Properties.                                                             *)

TypeOK ==
  /\ now \in Nat /\ nextSequence \in Nat
  /\ queue \in SUBSET Item /\ flagged \in SUBSET Item /\ refused \in SUBSET Item
  /\ done \in SUBSET Item /\ dropped \in SUBSET Item
  /\ readyAt \in [Item -> Nat] /\ ticket \in [Item -> Nat]
  /\ stopping \in BOOLEAN
  /\ pc \in [Worker -> {"looking", "waiting", "waitingUntil", "running", "exited"}]
  /\ until \in [Worker -> Nat]
  /\ job \in [Worker -> Item \cup {NoItem}]
  /\ stage \in [Thread -> {"idle", "calling", "joining", "returned"}]
  /\ \A w \in Worker : pc[w] = "running" <=> job[w] # NoItem

\* A timer is not run before its time unless the pool stops (Sleep).
NotEarly ==
  \A w \in Worker : job[w] # NoItem => readyAt[job[w]] <= now \/ stopping

\* No worker runs an action ahead of one that was accepted before it and is due no
\* later, unless that one was cancelled ("Equal-time work is ordered by an internal
\* monotonic sequence number").
NoneOvertakes ==
  \A w \in Worker : job[w] # NoItem =>
    \A i \in Live : ticket[i] < ticket[job[w]] => readyAt[job[w]] < readyAt[i]

\* Actions are started when they are due and in their order, while posts, timers,
\* cancellations and Shutdown interleave with several workers.
InTurn == NotEarly /\ NoneOvertakes

\* Whenever something is queued, a worker is on its way to the queue, or sleeps no
\* longer than the first timer: no notification is lost between Post, the timed and
\* the untimed waits and Shutdown, whichever of the sleepers it woke.
QueuedIsWatched ==
  Live # {} => \E w \in Worker :
    \/ pc[w] \in {"looking", "running"}
    \/ pc[w] = "waitingUntil" /\ \A i \in Live : until[w] <= readyAt[i]

\* When a Shutdown called from outside has returned, nothing is queued and no
\* thread of the pool is left, whatever was posted or cancelled meanwhile.
DrainedWhenReturned ==
  \A t \in Outside : stage[t] = "returned" =>
    queue = {} /\ \A w \in Worker : pc[w] = "exited"

\* Whatever the pool accepted is run or was cancelled: no wake-up is lost between
\* Post, the timed and the untimed waits and Shutdown.
AcceptedRuns == \A i \in Item : i \in queue ~> i \in done \/ i \in flagged

\* A timer that is due is started, although one action blocks: the other worker is
\* free ("a worker pool ... with a minimum of two workers").
DueTimersStart ==
  \A i \in Timer : i \in queue /\ Due(i) ~> i \notin queue \/ i \in flagged

\* Shutdown returns ("ShutdownRuntime is explicit and idempotent").
ShutdownReturns == \A t \in Thread : stage[t] = "calling" ~> stage[t] = "returned"

Status(i) == CASE i \in refused -> "refused"
               [] i \in queue -> "accepted"
               [] i \in done -> "done"
               [] i \in dropped -> "dropped"
               [] \E w \in Worker : job[w] = i -> "running"
               [] OTHER -> "new"

Contract == INSTANCE Executor WITH
  status <- [i \in Item |-> Status(i)],
  closed <- stopping,
  drained <- \E t \in Outside : stage[t] = "returned"

\* The pool implements the contract of an executor.
ImplementsExecutor == Contract!Spec
===============================================================================
