------------------------------ MODULE AsyncScope ------------------------------
(***************************************************************************)
(* Structured scopes (runtime/include/std_async.h, std/async.wio, and the  *)
(* lowering of `async scope` in the parser): every task runs the block of  *)
(* one scope, spawns its children into it, joins them when the block ends  *)
(* and destroys the scope however it is left.                              *)
(*                                                                         *)
(* How a suspended frame is found and woken is AsyncTask; here a cancelled *)
(* or fulfilled await makes its frame "ready", and a ready frame needs a   *)
(* worker of the continuation pool, for as long as it runs or blocks.      *)
(***************************************************************************)
EXTENDS Naturals, FiniteSets

CONSTANTS Task, NoTask,
          Parent,    \* Parent[c]: the task whose scope c is spawned into, or NoTask
          Rank,      \* Rank[c]: the place of c among the spawns of its parent
          Deadlines, \* the scopes that have a deadline
          Workers    \* threads of the continuation pool

Kids(o) == {c \in Task : Parent[c] = o}
Walkers == {"destroy", "join", "deadline"}

ASSUME ScopeAssumption ==
  /\ NoTask \notin Task
  /\ IsFiniteSet(Task)
  /\ Parent \in [Task -> Task \cup {NoTask}]
  /\ Rank \in [Task -> Nat]
  /\ Deadlines \subseteq Task
  /\ Workers \in Nat

Bodies == { "absent", "running", "calling", "adding", "suspended", "entering", "joining",
            "ready", "resuming", "leaving", "settled" }

VARIABLES
  body,        \* where the frame of a task stands
  onPool,      \* does a pool worker run it? (else the thread of the host)
  eager,       \* tasks whose eager call has not returned yet
  cancelled,   \* AsyncTaskStateBase::cancelled
  result,      \* how the frame leaves its block
  closed, children,  \* AsyncScopeState
  owned, refused,    \* tasks that Add accepted, and that it did not
  toCancel,    \* per scope and walker: children still to be cancelled
  toWait,      \* per scope: the snapshot CancelAndWait waits for
  join,        \* AsyncScopeJoin: none, looking, cancelling, waiting, ready, done
  joined, unseen,    \* its snapshot, and the children it has not awaited yet
  joinFailed,  \* its firstFailure
  deadline     \* the scope's timer: none, armed, cancelling, done

scopeVars == <<closed, children, owned, refused>>
joinVars == <<join, joined, unseen, joinFailed>>
vars == <<body, onPool, eager, cancelled, result, scopeVars, toCancel, toWait, joinVars, deadline>>

Settled(c) == body[c] = "settled"

\* What an observer of a settled task rethrows (RethrowFailure).
Fails(c) == cancelled[c] \/ result[c] = "failed"

Init ==
  /\ body = [t \in Task |-> "absent"]
  /\ onPool = [t \in Task |-> FALSE]
  /\ eager = {} /\ owned = {} /\ refused = {}
  /\ cancelled = [t \in Task |-> FALSE]
  /\ result = [t \in Task |-> "none"]
  /\ closed = [t \in Task |-> FALSE]
  /\ children = [t \in Task |-> {}]
  /\ toCancel = [t \in Task |-> [w \in Walkers |-> {}]]
  /\ toWait = [t \in Task |-> {}]
  /\ join = [t \in Task |-> "none"]
  /\ joined = [t \in Task |-> {}]
  /\ unseen = [t \in Task |-> {}]
  /\ joinFailed = [t \in Task |-> FALSE]
  /\ deadline = [t \in Task |-> "none"]

-----------------------------------------------------------------------------
(* Threads.                                                                *)

\* A frame that calls another one eagerly lends its thread; a join that was
\* started eagerly runs on its caller's thread.
BusyFrames == {t \in Task : onPool[t] /\
                 body[t] \in {"running", "adding", "entering", "resuming", "leaving"}}
BusyJoins == {o \in Task : join[o] \in {"looking", "cancelling"} /\ body[o] # "entering"}
BusyTimers == {o \in Task : deadline[o] = "cancelling"}
FreeWorker ==
  Cardinality(BusyFrames) + Cardinality(BusyJoins) + Cardinality(BusyTimers) < Workers

\* The frame of t suspends or ends as b; an eager call returns to its caller.
Yield(t, b) ==
  /\ body' = [s \in Task |-> IF s = t THEN b
                             ELSE IF t \in eager /\ s = Parent[t] THEN "adding"
                             ELSE body[s]]
  /\ eager' = eager \ {t}

-----------------------------------------------------------------------------
(* The block.                                                              *)

\* A task is called; its scope is created first, a deadline's timer with it.
Begin(t, host) ==
  /\ body[t] = "absent"
  /\ onPool' = [onPool EXCEPT ![t] = host]
  /\ eager' = eager \cup {t}
  /\ deadline' = [deadline EXCEPT ![t] = IF t \in Deadlines THEN "armed" ELSE "none"]
  /\ UNCHANGED <<cancelled, result, scopeVars, toCancel, toWait, joinVars>>

Call(t) ==
  /\ Parent[t] = NoTask
  /\ Begin(t, FALSE)
  /\ body' = [body EXCEPT ![t] = "running"]

\* spawn: the child's eager part runs before the scope hears of it.
Spawn(o, c) ==
  /\ body[o] = "running"
  /\ c \in Kids(o)
  /\ \A d \in Kids(o) : Rank[d] < Rank[c] => body[d] # "absent"
  /\ Begin(c, onPool[o])
  /\ body' = [body EXCEPT ![o] = "calling", ![c] = "running"]

\* Join is an async method: its frame keeps the scope object alive until it ends
\* (the self guard of object methods).
HeldByJoin(t) == join[t] \notin {"none", "done"}

\* The frame leaves its block and drops the scope object.  If that was the last
\* reference, the destructor runs CancelAndWait; its first part is CloseAndSnapshot.
Destroy(t, res) ==
  LET snapshot == IF HeldByJoin(t) THEN {} ELSE children[t] IN
  /\ result' = [result EXCEPT ![t] = res]
  /\ closed' = [closed EXCEPT ![t] = TRUE]
  /\ toCancel' = [toCancel EXCEPT ![t]["destroy"] = snapshot]
  /\ toWait' = [toWait EXCEPT ![t] = snapshot]
  /\ body' = [body EXCEPT ![t] = "leaving"]

\* Add's answer; the mutant forgets to ask.
NeverCloses(o) == TRUE
MayAdd(o) == ~ closed[o]

\* AsyncScopeSpawn: a closed scope throws, the started child is left alone.
Add(o) ==
  /\ body[o] = "adding"
  /\ \E c \in Kids(o) :
       /\ body[c] # "absent" /\ c \notin owned \cup refused \cup eager
       /\ IF MayAdd(o)
          THEN /\ children' = [children EXCEPT ![o] = @ \cup {c}]
               /\ owned' = owned \cup {c}
               /\ body' = [body EXCEPT ![o] = "running"]
               /\ UNCHANGED <<refused, result, closed, toCancel, toWait>>
          ELSE /\ refused' = refused \cup {c}
               /\ Destroy(o, "failed")
               /\ UNCHANGED <<children, owned>>
  /\ UNCHANGED <<onPool, eager, cancelled, joinVars, deadline>>

\* Any await in the block; it throws at once in a cancelled task.
Suspend(t) ==
  /\ body[t] = "running"
  /\ ~ cancelled[t]
  /\ Yield(t, "suspended")
  /\ UNCHANGED <<onPool, cancelled, result, scopeVars, toCancel, toWait, joinVars, deadline>>

\* Out of the block without its join: an exception, or a break, which the lowering
\* does not rewrite as it does a return.
LeaveEarly(t) ==
  /\ body[t] = "running"
  /\ \E res \in {"value", "failed"} : Destroy(t, res)
  /\ UNCHANGED <<onPool, eager, cancelled, children, owned, refused, joinVars, deadline>>

\* What is awaited happens.
Event(t) ==
  /\ body[t] = "suspended"
  /\ body' = [body EXCEPT ![t] = "ready"]
  /\ UNCHANGED <<onPool, eager, cancelled, result, scopeVars, toCancel, toWait, joinVars, deadline>>

\* A worker resumes the frame.
Resume(t) ==
  /\ body[t] = "ready"
  /\ FreeWorker
  /\ onPool' = [onPool EXCEPT ![t] = TRUE]
  /\ body' = [body EXCEPT ![t] = "resuming"]
  /\ UNCHANGED <<eager, cancelled, result, scopeVars, toCancel, toWait, joinVars, deadline>>

\* await_resume: back to the block, or out of it.  Once the block is joined the
\* frame can only leave, with the failure that Join rethrows.
AwaitResume(t) ==
  /\ body[t] = "resuming"
  /\ \/ /\ join[t] = "none" /\ ~ cancelled[t]
        /\ body' = [body EXCEPT ![t] = "running"]
        /\ UNCHANGED <<result, closed, toCancel, toWait>>
     \/ join[t] = "none" /\ Destroy(t, "failed")
     \/ join[t] # "none" /\ Destroy(t, IF cancelled[t] \/ joinFailed[t] THEN "failed" ELSE "value")
  /\ UNCHANGED <<onPool, eager, cancelled, children, owned, refused, joinVars, deadline>>

-----------------------------------------------------------------------------
(* Cancellation.                                                           *)

\* AsyncTaskStateBase::Cancel: a suspended frame becomes ready; the mutant leaves
\* it to find out by itself.
FlagOnly(c) ==
  /\ cancelled' = [cancelled EXCEPT ![c] = TRUE]
  /\ UNCHANGED body
CancelTask(c) ==
  IF Settled(c) \/ cancelled[c]
  THEN UNCHANGED <<cancelled, body>>
  ELSE /\ cancelled' = [cancelled EXCEPT ![c] = TRUE]
       /\ body' = [body EXCEPT ![c] = IF @ \in {"suspended", "joining"} THEN "ready" ELSE @]

\* Any holder of the handle.
Cancel(t) ==
  /\ body[t] # "absent" /\ t \notin eager
  /\ ~ Settled(t) /\ ~ cancelled[t]
  /\ CancelTask(t)
  /\ UNCHANGED <<onPool, eager, result, scopeVars, toCancel, toWait, joinVars, deadline>>

\* One child of a walk over a snapshot, outside the scope's lock.
CancelNext(o, w) ==
  /\ \E c \in toCancel[o][w] :
       /\ CancelTask(c)
       /\ toCancel' = [toCancel EXCEPT ![o][w] = @ \ {c}]
  /\ UNCHANGED <<onPool, eager, result, scopeVars, toWait, joinVars, deadline>>

\* AsyncScopeDeadline's timer: scope->Cancel() on a worker.
Expire(o) ==
  /\ deadline[o] = "armed"
  /\ FreeWorker
  /\ deadline' = [deadline EXCEPT ![o] = "cancelling"]
  /\ closed' = [closed EXCEPT ![o] = TRUE]
  /\ toCancel' = [toCancel EXCEPT ![o]["deadline"] = children[o]]
  /\ UNCHANGED <<body, onPool, eager, cancelled, result, children, owned, refused, toWait, joinVars>>

Expired(o) ==
  /\ deadline[o] = "cancelling" /\ toCancel[o]["deadline"] = {}
  /\ deadline' = [deadline EXCEPT ![o] = "done"]
  /\ UNCHANGED <<body, onPool, eager, cancelled, result, scopeVars, toCancel, toWait, joinVars>>

-----------------------------------------------------------------------------
(* The end of the task.                                                    *)

\* The last part of CancelAndWait; the mutant does not wait.
NoWait(t) == TRUE
AllWaited(t) == \A c \in toWait[t] : Settled(c)

\* What Clear leaves in the scope; the mutant clears nothing.
KeepAll(t) == children[t]
Cleared(t) == IF HeldByJoin(t) THEN children[t] ELSE {}

\* Does the join of o await t?  The mutant is not told when t completes.
NotTold(o, t) == FALSE
Awaits(o, t) ==
  o = Parent[t] /\ join[o] = "waiting" /\ t \in unseen[o] /\ \A c \in unseen[o] : Rank[t] <= Rank[c]

\* Clear, and the frame completes.  A join that waits for it is posted.
Leave(t) ==
  /\ body[t] = "leaving"
  /\ toCancel[t]["destroy"] = {}
  /\ AllWaited(t)
  /\ children' = [children EXCEPT ![t] = Cleared(t)]
  /\ Yield(t, "settled")
  /\ join' = [o \in Task |-> IF Awaits(o, t) THEN "ready" ELSE join[o]]
  /\ UNCHANGED <<onPool, cancelled, result, closed, owned, refused, toCancel, toWait, joined,
                 unseen, joinFailed, deadline>>

-----------------------------------------------------------------------------
(* Join: a coroutine of its own, which the joined task awaits.  Its awaits *)
(* have no cancellation callback.                                          *)

\* The block ends normally; a task without children has no scope.
EndOfBlock(o) ==
  /\ body[o] = "running"
  /\ \/ /\ Kids(o) = {}
        /\ Destroy(o, "value")
        /\ UNCHANGED <<join, joined, unseen>>
     \/ /\ Kids(o) # {}
        /\ body' = [body EXCEPT ![o] = "entering"]
        /\ join' = [join EXCEPT ![o] = "looking"]
        /\ closed' = [closed EXCEPT ![o] = TRUE]
        /\ joined' = [joined EXCEPT ![o] = children[o]]
        /\ unseen' = [unseen EXCEPT ![o] = children[o]]
        /\ UNCHANGED <<result, toCancel, toWait>>
  /\ UNCHANGED <<onPool, eager, cancelled, children, owned, refused, joinFailed, deadline>>

Next1(o, c) == c \in unseen[o] /\ \A d \in unseen[o] : Rank[c] <= Rank[d]

\* Does the child's outcome count as a failure?  The mutant only sees exceptions
\* of the child's own code.
OwnFailure(c) == result[c] = "failed"
Rethrows(c) == Fails(c)

\* The next child has settled: its first failure cancels all of them.
Observe(o) ==
  /\ join[o] = "looking"
  /\ \E c \in Task :
       /\ Next1(o, c) /\ Settled(c)
       /\ unseen' = [unseen EXCEPT ![o] = @ \ {c}]
       /\ IF Rethrows(c) /\ ~ joinFailed[o]
          THEN /\ joinFailed' = [joinFailed EXCEPT ![o] = TRUE]
               /\ join' = [join EXCEPT ![o] = "cancelling"]
               /\ toCancel' = [toCancel EXCEPT ![o]["join"] = joined[o]]
          ELSE UNCHANGED <<joinFailed, join, toCancel>>
  /\ UNCHANGED <<body, onPool, eager, cancelled, result, scopeVars, toWait, joined, deadline>>

SiblingsCancelled(o) ==
  /\ join[o] = "cancelling" /\ toCancel[o]["join"] = {}
  /\ join' = [join EXCEPT ![o] = "looking"]
  /\ UNCHANGED <<body, onPool, eager, cancelled, result, scopeVars, toCancel, toWait, joined,
                 unseen, joinFailed, deadline>>

\* The next child is still active.  If this is the eager part, the joined task
\* gets its handle and awaits it.
JoinSuspend(o) ==
  /\ join[o] = "looking"
  /\ \E c \in Task : Next1(o, c) /\ ~ Settled(c)
  /\ join' = [join EXCEPT ![o] = "waiting"]
  /\ IF body[o] # "entering" THEN UNCHANGED <<body, eager>>
     ELSE IF cancelled[o] THEN body' = [body EXCEPT ![o] = "resuming"] /\ UNCHANGED eager
     ELSE Yield(o, "joining")
  /\ UNCHANGED <<onPool, cancelled, result, scopeVars, toCancel, toWait, joined, unseen,
                 joinFailed, deadline>>

JoinResume(o) ==
  /\ join[o] = "ready"
  /\ FreeWorker
  /\ join' = [join EXCEPT ![o] = "looking"]
  /\ UNCHANGED <<body, onPool, eager, cancelled, result, scopeVars, toCancel, toWait, joined,
                 unseen, joinFailed, deadline>>

\* Everything observed: Clear, then the joined task goes on.
JoinEnd(o) ==
  /\ join[o] = "looking" /\ unseen[o] = {}
  /\ join' = [join EXCEPT ![o] = "done"]
  /\ children' = [children EXCEPT ![o] = {}]
  /\ body' = [body EXCEPT ![o] = CASE @ = "entering" -> "resuming"
                                   [] @ = "joining" -> "ready"
                                   [] OTHER -> @]
  /\ UNCHANGED <<onPool, eager, cancelled, result, closed, owned, refused, toCancel, toWait,
                 joined, unseen, joinFailed, deadline>>

-----------------------------------------------------------------------------
Quiescent ==
  /\ \A t \in Task : body[t] \in {"absent", "settled"} /\ join[t] \in {"none", "done"}
  /\ UNCHANGED vars

FrameStep(t) ==
  \/ \E c \in Task : Spawn(t, c)
  \/ Add(t) \/ Suspend(t) \/ LeaveEarly(t) \/ AwaitResume(t) \/ EndOfBlock(t) \/ Leave(t)

JoinStep(o) == Observe(o) \/ SiblingsCancelled(o) \/ JoinSuspend(o) \/ JoinEnd(o)

Next ==
  \/ \E t \in Task :
       \/ Call(t) \/ FrameStep(t) \/ Event(t) \/ Resume(t) \/ Cancel(t)
       \/ Expire(t) \/ Expired(t) \/ JoinStep(t) \/ JoinResume(t)
       \/ \E w \in Walkers : CancelNext(t, w)
  \/ Quiescent

Spec == Init /\ [][Next]_vars

\* Frames, joins and timers that have a thread run on, and the pool's queue is in
\* order: what is posted gets a worker unless all of them block.  Nothing that a
\* block awaits need ever happen, and nobody has to call or to cancel.
Fairness ==
  \A t \in Task :
    /\ WF_vars(Resume(t) \/ FrameStep(t) \/ CancelNext(t, "destroy"))
    /\ WF_vars(JoinResume(t) \/ JoinStep(t) \/ CancelNext(t, "join"))
    /\ WF_vars(Expire(t) \/ Expired(t) \/ CancelNext(t, "deadline"))

FairSpec == Spec /\ Fairness

-----------------------------------------------------------------------------
(* Properties.                                                             *)

\* The types, and that a finished scope lets go of its children's handles.
TypeOK ==
  /\ body \in [Task -> Bodies]
  /\ onPool \in [Task -> BOOLEAN]
  /\ eager \in SUBSET Task /\ owned \in SUBSET Task /\ refused \in SUBSET Task
  /\ cancelled \in [Task -> BOOLEAN]
  /\ result \in [Task -> {"none", "value", "failed"}]
  /\ closed \in [Task -> BOOLEAN]
  /\ children \in [Task -> SUBSET Task]
  /\ toCancel \in [Task -> [Walkers -> SUBSET Task]]
  /\ toWait \in [Task -> SUBSET Task]
  /\ join \in [Task -> {"none", "looking", "cancelling", "waiting", "ready", "done"}]
  /\ joined \in [Task -> SUBSET Task]
  /\ unseen \in [Task -> SUBSET Task]
  /\ joinFailed \in [Task -> BOOLEAN]
  /\ deadline \in [Task -> {"none", "armed", "cancelling", "done"}]
  /\ \A t \in Task : Settled(t) /\ ~ HeldByJoin(t) => children[t] = {}

\* When a task has settled and no join is left running, every child that its scope
\* accepted has settled too and its handle has been let go of, whichever way the block
\* was left and whoever joined or cancelled at the same time.
ChildrenSettleFirst ==
  \A c \in owned : Settled(Parent[c]) /\ ~ HeldByJoin(Parent[c]) =>
    Settled(c) /\ c \notin children[Parent[c]]

\* No child outlives the block that owns it ("error, cancellation, or abandoned exit
\* cancels unfinished children and waits for cleanup").
NoChildOutlivesScope == \A c \in owned : Settled(Parent[c]) => Settled(c)

\* A join that succeeds has seen every child succeed.
JoinReportsFailures ==
  \A o \in Task : join[o] = "done" /\ ~ joinFailed[o] =>
    \A c \in owned : Parent[c] = o => Settled(c) /\ ~ Fails(c)

OnThread == {"running", "calling", "adding", "entering", "resuming", "leaving"}

\* Whoever waits is waited for in turn: a suspended frame has not been cancelled; a
\* joining one has a join at work, which waits for an active child that will post it;
\* a frame that lent its thread has a call that runs; and a destructor waits only for
\* children that have been told to stop or are about to be.
NobodyWaitsInVain ==
  \A o \in Task :
    /\ body[o] \in {"suspended", "joining"} => ~ cancelled[o]
    /\ body[o] \in {"entering", "joining"} => HeldByJoin(o)
    /\ join[o] = "waiting" => \E c \in Task : Awaits(o, c) /\ ~ Settled(c)
    /\ body[o] = "calling" => \E c \in eager : Parent[c] = o /\ body[c] \in OnThread
    /\ body[o] = "leaving" =>
         \A c \in toWait[o] : Settled(c) \/ cancelled[c] \/ c \in toCancel[o]["destroy"]

\* When an expired deadline has done its walk, no child is left that it missed,
\* although others were spawning meanwhile.
DeadlineReachesAll ==
  \A c \in owned : deadline[Parent[c]] = "done" => Settled(c) \/ cancelled[c]

\* A cancelled task settles, although it has to clean its scope up and nothing that
\* the blocks of its children await ever happens ("destroy waits for prompt
\* cooperative cleanup").
CancelledTasksSettle == \A t \in Task : cancelled[t] ~> Settled(t)

\* A scope with a deadline does not wait for its children for ever.
DeadlineEndsJoin == \A o \in Deadlines : join[o] # "none" ~> Settled(o)

\* The children of a joined scope are cancelled after the first failure among them
\* ("cancels sibling work after the first failure").
FailureCancelsSiblings ==
  \A o, c, d \in Task :
    {c, d} \subseteq joined[o] /\ Settled(c) /\ Fails(c) ~> cancelled[d] \/ Settled(d)
===============================================================================
