------------------------------ MODULE Combinators ------------------------------
(***************************************************************************)
(* The task combinators: WhenAll, WhenAny, Race and WithTimeout            *)
(* (runtime/include/std_async.h) and Select (std/async.wio), each a        *)
(* coroutine over tasks that already run and may settle, or not, whenever  *)
(* they like. Awaiting, settling and cancelling a task are TaskContract's; *)
(* an await of a task that is ready does not look at the awaiter's own     *)
(* cancellation, an await that suspended does.                             *)
(***************************************************************************)
EXTENDS Naturals

CONSTANTS Tasks,    \* number of tasks handed over; WithTimeout looks at the first
          Deadline, \* of WithTimeout, in ticks
          MaxClock  \* bound on the clock

ASSUME CombinatorAssumption ==
  Tasks \in Nat \ {0} /\ Deadline \in Nat /\ MaxClock \in Nat /\ Deadline <= MaxClock

Index == 1 .. Tasks
Kinds == {"all", "any", "race", "select", "timeout"}
Outcomes == {"value", "failed", "cancelled"}

VARIABLES
  kind,        \* which combinator runs
  task,        \* per task: running, or its outcome
  toldToStop,  \* tasks whose cancellation was accepted while they ran
  place,       \* scanning, checking, sleeping, resuming, awaiting, suspended, ending, done
  slept,       \* did WhenAny suspend, and with it the await of Race and Select?
  index,       \* the task the loop looks at, or the winner
  verdict,     \* how the combinator leaves its body
  stop,        \* was the combinator itself cancelled?
  escaped,     \* did it leave where no handler cancels the tasks?
  clock

combVars == <<kind, task, toldToStop, place, slept, index, verdict, stop, escaped, clock>>

CombInit ==
  /\ kind \in Kinds
  /\ task = [i \in Index |-> "running"]
  /\ toldToStop = {}
  /\ place = IF kind = "all" THEN "awaiting" ELSE "scanning"
  /\ index = 1 /\ slept = FALSE
  /\ verdict = "none" /\ stop = FALSE /\ escaped = FALSE
  /\ clock = 0

Ready(i) == task[i] # "running"
NotFailed(i) == task[i] # "failed"   \* a variant: a cancelled task counts as a success
Succeeded(i) == task[i] = "value"

Scanned == IF kind = "timeout" THEN {1} ELSE Index

CancelNone(S) == UNCHANGED toldToStop   \* a variant: the losers are forgotten

\* Cancel on each of S: a settled task is past it.
CancelTasks(S) == toldToStop' = toldToStop \cup {i \in S : ~Ready(i)}

Leave(v) == place' = "ending" /\ verdict' = v

-----------------------------------------------------------------------------
(* WhenAny's loop, which Race and Select await, and WithTimeout's.         *)

StayAtLast == IF index < Tasks THEN index + 1 ELSE index   \* a variant: one round only
NextIndex == IF index + 1 \in Scanned THEN index + 1 ELSE 1

\* IsReady, task by task.
Scan ==
  /\ place = "scanning"
  /\ IF Ready(index)
       THEN /\ IF kind = "any" THEN Leave("value")
               ELSE /\ place' = IF kind # "timeout" /\ slept THEN "resuming" ELSE "awaiting"
                    /\ UNCHANGED verdict
            /\ UNCHANGED index
       ELSE /\ place' = IF kind = "timeout" THEN "checking"
                        ELSE IF index = Tasks THEN "sleeping" ELSE "scanning"
            /\ index' = NextIndex
            /\ UNCHANGED verdict
  /\ UNCHANGED <<kind, task, toldToStop, slept, stop, escaped, clock>>

\* WithTimeout looks at the clock after it has looked at the task.
CheckClock ==
  /\ place = "checking"
  /\ \/ /\ clock >= Deadline
        /\ CancelTasks({1})
        /\ Leave("timeout")
     \/ /\ clock < Deadline
        /\ place' = "sleeping"
        /\ UNCHANGED <<toldToStop, verdict>>
  /\ UNCHANGED <<kind, task, slept, index, stop, escaped, clock>>

\* The delay ends, by its timer or by the combinator's cancellation. WhenAny is a
\* task of its own below Race and Select: what is resumed, by WhenAny's end or by the
\* cancellation, is their await of it. No handler encloses either await.
WakeUp ==
  /\ place \in {"sleeping", "resuming"}
  /\ IF stop THEN Leave("cancelled") /\ escaped' = TRUE
     ELSE /\ place' = IF place = "sleeping" THEN "scanning" ELSE "awaiting"
          /\ UNCHANGED <<verdict, escaped>>
  /\ slept' = TRUE
  /\ UNCHANGED <<kind, task, toldToStop, index, stop, clock>>

-----------------------------------------------------------------------------
(* The await of one task: each in turn (WhenAll), or the winner.           *)

Suspend ==
  /\ place = "awaiting" /\ ~Ready(index)
  /\ place' = "suspended"
  /\ UNCHANGED <<kind, task, toldToStop, slept, index, verdict, stop, escaped, clock>>

\* A failed await: the handlers of WhenAll and Race cancel every task; Select has
\* none, and WithTimeout's task has settled.
Fail(v) ==
  /\ Leave(v)
  /\ CancelTasks(IF kind \in {"all", "race"} THEN Index ELSE {})
  /\ escaped' = (kind = "select")
  /\ UNCHANGED index

Proceed ==
  /\ \/ /\ kind = "all" /\ index < Tasks
        /\ place' = "awaiting"
        /\ index' = index + 1
        /\ UNCHANGED <<toldToStop, verdict>>
     \/ /\ kind # "all" \/ index = Tasks
        /\ Leave("value")
        /\ CancelTasks(IF kind \in {"race", "select"} THEN Index \ {index} ELSE {})
        /\ UNCHANGED index
  /\ UNCHANGED escaped

ResumeAwait ==
  /\ \/ place = "awaiting" /\ Ready(index)
     \/ place = "suspended" /\ (Ready(index) \/ stop)
  /\ IF place = "suspended" /\ stop THEN Fail("cancelled")
     ELSE IF Succeeded(index) THEN Proceed ELSE Fail(task[index])
  /\ UNCHANGED <<kind, task, slept, stop, clock>>

\* The frame ends: a cancellation accepted until now is what its awaiter sees.
Finish ==
  /\ place = "ending"
  /\ place' = "done"
  /\ verdict' = IF stop THEN "cancelled" ELSE verdict
  /\ UNCHANGED <<kind, task, toldToStop, slept, index, stop, escaped, clock>>

CombStep == Scan \/ CheckClock \/ WakeUp \/ Suspend \/ ResumeAwait \/ Finish

-----------------------------------------------------------------------------
(* The tasks, the caller and time.                                         *)

SettleTask(i, o) ==
  /\ ~Ready(i)
  /\ task' = [task EXCEPT ![i] = IF i \in toldToStop THEN "cancelled" ELSE o]
  /\ UNCHANGED <<kind, toldToStop, place, slept, index, verdict, stop, escaped, clock>>

CancelCombinator ==
  /\ place # "done" /\ ~stop
  /\ stop' = TRUE
  /\ UNCHANGED <<kind, task, toldToStop, place, slept, index, verdict, escaped, clock>>

Tick ==
  /\ clock < MaxClock
  /\ clock' = clock + 1
  /\ UNCHANGED <<kind, task, toldToStop, place, slept, index, verdict, stop, escaped>>

CombNext ==
  \/ CombStep \/ CancelCombinator \/ Tick
  \/ \E i \in Index, o \in Outcomes : SettleTask(i, o)

CombSpec == CombInit /\ [][CombNext]_combVars

-----------------------------------------------------------------------------
(* Properties.                                                             *)

CombTypeOK ==
  /\ kind \in Kinds
  /\ task \in [Index -> Outcomes \cup {"running"}]
  /\ toldToStop \in SUBSET Index
  /\ place \in {"scanning", "checking", "sleeping", "resuming",
               "awaiting", "suspended", "ending", "done"}
  /\ slept \in BOOLEAN
  /\ index \in Index
  /\ verdict \in Outcomes \cup {"none", "timeout"}
  /\ stop \in BOOLEAN /\ escaped \in BOOLEAN
  /\ clock \in 0 .. MaxClock

\* docs/WIO_ASYNC_MODEL.md: All, Race and Timeout leave no task running unasked. It
\* holds except when the combinator leaves through its own cancellation during a
\* poll, or a Select through the failure of its winner: no handler is there.
NoOrphans ==
  place = "done" /\ kind # "any" /\ ~escaped =>
    \A i \in Scanned : Ready(i) \/ i \in toldToStop

\* A value vouches for what it was made of, whatever was cancelled meanwhile: every
\* task of All succeeded, the winner of Race and Select and the task of Timeout did. A
\* timeout is told only past the deadline, and the task was told to stop or beat it
\* in the window between the last look at the task and the look at the clock.
VerdictJustified ==
  /\ verdict = "value" /\ kind = "all" => \A i \in Index : task[i] = "value"
  /\ verdict = "value" /\ kind \in {"race", "select", "timeout"} => task[index] = "value"
  /\ verdict = "timeout" => clock >= Deadline /\ (Ready(1) \/ 1 \in toldToStop)

\* Once what it waits for has happened, or it was cancelled, a combinator settles; a
\* Timeout settles even when its task never does.
Enough ==
  \/ stop
  \/ kind = "timeout"
  \/ kind \in {"any", "race", "select"} /\ \E i \in Index : Ready(i)
  \/ kind = "all" /\ \A i \in Index : Ready(i)
CombinatorSettles == Enough ~> place = "done"
===============================================================================
