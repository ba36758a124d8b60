----------------------------- MODULE AsyncTaskInv -----------------------------
(***************************************************************************)
(* The inductive invariant behind the safety properties of AsyncTask.      *)
(***************************************************************************)
EXTENDS AsyncTask

SuspendedAt(r) == body[r[1]] = "suspended" /\ at[r[1]] = r[2]

Ended == {"unwinding", "completing", "waking", "done"}

\* A schedule await that the stopped pool refused: its registration stays armed
\* for ever, but no thread that might still claim it can reach it.
Refused(r) ==
  /\ kind[r] = "schedule"
  /\ body[r[1]] \in Ended
  /\ r \notin work /\ r \notin posting /\ r \notin toInvoke[r[1]]
  /\ published[r[1]] => completed[r[1]]

\* An armed registration belongs to a suspended frame that nobody resumes yet.
ArmedIsSuspended ==
  \A r \in Reg : phase[r] = 1 => (SuspendedAt(r) /\ r \notin posted) \/ Refused(r)

\* A queued resumption was claimed and finds its frame suspended.
PostedIsSuspended == \A r \in posted : phase[r] = 2 /\ SuspendedAt(r)

\* An eager call that is still posting is private: the frame stays suspended until
\* the call returns.  A schedule await is posted by the eager call only.
PostingIsPrivate ==
  /\ \A r \in posting :
       /\ kind[r] \in {"main", "schedule"}
       /\ ~ published[r[1]] => phase[r] = 1 /\ SuspendedAt(r)
       /\ kind[r] = "schedule" => ~ published[r[1]] /\ r \notin work
  /\ \A r \in mainQueue : published[r[1]]

\* Which awaiter may sit in which list or queue.
QueuesByKind ==
  /\ \A t \in Coro : \A r \in conts[t] \cup toResume[t] : kind[r] = "task"
  /\ \A r \in work : kind[r] \in {"delay", "schedule"}
  /\ \A r \in mainQueue : kind[r] = "main"
  /\ \A r \in jobs : kind[r] = "offload"
  /\ \A c \in Coro : \A r \in callbacks[c] \cup toInvoke[c] : r[1] = c /\ kind[r] # "none"

\* Registrations of awaits to come are untouched.
FutureIsFresh == \A r \in Reg : r[2] > at[r[1]] => kind[r] = "none" /\ phase[r] = 0

\* Where the frame stands and who may hold the handle: nobody cancels a coroutine
\* whose eager call has not returned, and a schedule await that is not armed yet
\* is known to that call alone.
FrameAndHandle ==
  \A c \in Coro :
    /\ ~ published[c] => ~ cancelled[c] /\ toInvoke[c] = {}
    /\ published[c] => at[c] > 0 \/ body[c] = "done"
    /\ body[c] \in {"linking", "invoking", "arming"} =>
         /\ kind[Current(c)] \in {"task", "delay", "main", "schedule"}
         /\ kind[Current(c)] = "schedule" => ~ published[c] /\ Current(c) \notin work
    /\ body[c] \in {"waking", "done"} => completed[c]
    /\ body[c] = "adding" => kind[Current(c)] = "task"
    /\ body[c] \in {"adding", "linking", "invoking", "arming", "suspended", "resuming"} =>
         at[c] > 0
    /\ body[c] = "absent" => at[c] = 0

\* The induction hypothesis of SingleRunner.
IInv ==
  /\ TypeOK /\ SingleRunner /\ ArmedIsSuspended /\ PostedIsSuspended /\ PostingIsPrivate
  /\ QueuesByKind /\ FutureIsFresh /\ FrameAndHandle

-----------------------------------------------------------------------------
(* Why a frame may go on: the invariant behind ExecutorBoundary and the    *)
(* refinement of TaskContract, on top of IInv.                             *)

\* What allows the frame of r to pass its await on a thread that owns the main
\* executor (m) or does not.
Caused(r) == cancelled[r[1]] \/ (kind[r] = "task" /\ completed[child[r]])
Justified(r, m) ==
  \/ Caused(r)
  \/ kind[r] \in {"delay", "offload"}
  \/ kind[r] = "main" /\ m
  \/ kind[r] = "schedule" /\ ~ m

\* A walk of cancellation callbacks belongs to a cancelled coroutine.
WalksAreAsked ==
  \A c \in Coro : toInvoke[c] # {} \/ body[c] = "invoking" => cancelled[c]

\* A registration that is claimed before it is armed, so that the frame will not
\* suspend.
EarlyClaims ==
  \A c \in Coro : body[c] \in {"adding", "linking", "invoking", "arming"}
                 /\ phase[Current(c)] # 0 =>
    Caused(Current(c)) \/ kind[Current(c)] = "delay"

\* A resumption that is due.
ResumptionsAreJustified ==
  /\ \A c \in Coro : body[c] = "resuming" => Justified(Current(c), onMain[c])
  /\ \A r \in posted : Justified(r, FALSE)
  /\ \A r \in posting \cup mainQueue : phase[r] # 0

\* Who is in the lists of a task awaits that task, and awaits nothing otherwise.
ChildrenKnowTheirParents ==
  /\ \A t \in Coro : /\ \A r \in conts[t] : child[r] = t
                     /\ \A r \in toResume[t] : child[r] = t /\ completed[t]
  /\ \A r \in Reg : IF kind[r] = "task" THEN <<r[1], child[r]>> \in Awaits
                                        ELSE child[r] = NoCoro

\* The end of a frame and the completion of its task.
EndsAreOrdered ==
  \A c \in Coro : /\ completed[c] => body[c] \in {"waking", "done"}
                  /\ body[c] = "completing" => result[c] \in {"value", "failed"}

Causes == /\ WalksAreAsked /\ EarlyClaims /\ ResumptionsAreJustified
          /\ ChildrenKnowTheirParents /\ EndsAreOrdered /\ ExecutorBoundary

-----------------------------------------------------------------------------
(* Who will wake a frame: the safety half of EveryCoroutineEnds and of     *)
(* CancelSettles.                                                          *)

\* Somebody is on the way to claim r: an executor, or a child that has still to
\* complete or to walk the awaiters it found.
Awaited(r) ==
  \/ r \in posting \cup work \cup mainQueue \cup jobs
  \/ \E t \in Coro : \/ r \in conts[t] /\ ~ completed[t]
                     \/ r \in toResume[t] /\ body[t] = "waking"

\* A suspended frame is about to be resumed, or it is armed and whoever is to claim
\* it has not come yet: a completion, a timer or a job that came while the await was
\* being assembled is not lost. Once it has been cancelled, the walk of Cancel has
\* still to come to it, unless it waits for an offloaded call.
NoWakeUpIsLost ==
  \A c \in Coro : body[c] = "suspended" /\ Current(c) \notin posted =>
    /\ phase[Current(c)] = 1 /\ Awaited(Current(c))
    /\ cancelled[c] /\ kind[Current(c)] # "offload" => Current(c) \in toInvoke[c] \cap active

\* While the await is being assembled, the same of a registration nobody has claimed.
AssembledIsAwaited ==
  \A c \in Coro : body[c] \in {"linking", "invoking", "arming"} /\ phase[Current(c)] = 0
                 /\ kind[Current(c)] \in {"task", "delay"} => Awaited(Current(c))

\* A linked callback is where Cancel finds it, or on the walk of a Cancel that did.
CallbackIsLinked ==
  \A c \in Coro : body[c] \in {"arming", "suspended"} /\ kind[Current(c)] # "offload" =>
    /\ ~ cancelled[c] => Current(c) \in callbacks[c] \cap active
    /\ cancelled[c] => \/ phase[Current(c)] = 2
                       \/ Current(c) \in toInvoke[c] \cap active
WalksAreOwn == \A c \in Coro : \A r \in toDeactivate[c] : r[1] = c

WakeUps == NoWakeUpIsLost /\ AssembledIsAwaited /\ CallbackIsLinked /\ WalksAreOwn
===============================================================================
