------------------------------ MODULE ChildProcess ------------------------------
(***************************************************************************)
(* One child process (runtime/src/std_process.cpp): the owner of the Wio   *)
(* object waits, terminates, closes its stdin and closes it, while         *)
(* WaitAsync and ReadStdoutAsync poll it from continuation workers and     *)
(* WriteStdinAsync blocks an I/O worker (std_async_process.h).             *)
(*                                                                         *)
(* A process id is free again once waitpid has returned it: the operating  *)
(* system may give it to somebody else's process.                          *)
(***************************************************************************)
EXTENDS Naturals, FiniteSets

CONSTANTS Poller  \* asynchronous calls, each with a lease from its start to its end

ASSUME ChildAssumption == IsFiniteSet(Poller) /\ Poller \cap {"none", "owner"} = {}

VARIABLES
  calling,       \* per call: wait, read or write
  point,         \* idle, polling (between native calls), inside, reaped, writing, over
  child,         \* running, zombie, gone (its id is free) or reused
  waited,        \* ProcessHandle::waited
  procClosed,    \* ProcessHandle::closed
  waitHolder, stdinHolder,  \* of waitMutex and stdinMutex: "none", "owner" or a call
  stdinOpen, stdoutOpen,    \* the parent's ends of the pipes
  leases, deleted,
  ownerDoes,     \* the owner's call: none, wait, terminate, closeStdin, close
  ownerPoint,    \* and where it stands in it
  reaper, strayKill, strayWait   \* (history)

procVars == <<calling, point, child, waited, procClosed, waitHolder, stdinHolder, stdinOpen,
              stdoutOpen, leases, deleted, ownerDoes, ownerPoint, reaper, strayKill, strayWait>>
ownerVars == <<ownerDoes, ownerPoint>>
pipeVars == <<stdinHolder, stdinOpen, stdoutOpen>>
leaseVars == <<leases, deleted>>
historyVars == <<reaper, strayKill, strayWait>>

\* After Spawn.
ProcInit ==
  /\ calling \in [Poller -> {"wait", "read", "write"}]
  /\ point = [q \in Poller |-> "idle"]
  /\ child = "running" /\ waited = FALSE /\ procClosed = FALSE
  /\ waitHolder = "none" /\ stdinHolder = "none"
  /\ stdinOpen = TRUE /\ stdoutOpen = TRUE
  /\ leases = 1 /\ deleted = FALSE
  /\ ownerDoes = "none" /\ ownerPoint = "none"
  /\ reaper = "none" /\ strayKill = FALSE /\ strayWait = FALSE

NoMutex == TRUE   \* a variant: waitMutex is not taken
WaitMutexFree == waitHolder = "none"

At(q, p) == point' = [point EXCEPT ![q] = p]
UnleaseLate == leases' = leases - 1 /\ deleted' = (deleted \/ leases = 0)   \* a variant
Unlease == leases' = leases - 1 /\ deleted' = (deleted \/ leases = 1)

\* waitpid by w, which holds waitMutex and has found waited unset.
Reap(w) ==
  /\ strayWait' = (strayWait \/ child \in {"gone", "reused"})
  /\ child' = IF child = "zombie" THEN "gone" ELSE child
  /\ reaper' = w

-----------------------------------------------------------------------------
(* The asynchronous calls.                                                 *)

BeginCall(q) ==
  /\ point[q] = "idle" /\ ownerDoes = "none" /\ ~procClosed
  /\ leases' = leases + 1
  /\ At(q, "polling")
  /\ UNCHANGED <<calling, child, waited, procClosed, waitHolder, pipeVars, deleted, ownerVars,
                 historyVars>>

\* Every native call begins with Retain, which refuses a closed handle; what follows does
\* not look at closed again.
EnterCall(q) ==
  /\ point[q] = "polling"
  /\ IF procClosed THEN At(q, "over") /\ Unlease
                   ELSE At(q, "inside") /\ UNCHANGED leaseVars
  /\ UNCHANGED <<calling, child, waited, procClosed, waitHolder, pipeVars, ownerVars, historyVars>>

\* ProcessIsRunning: a look at a running child changes nothing. The flag is set after
\* waitpid has freed the id. A child somebody else reaped is only reported.
PollRunning(q) ==
  /\ calling[q] = "wait" /\ point[q] = "inside" /\ WaitMutexFree
  /\ \/ /\ waited
        /\ At(q, "over") /\ Unlease
        /\ UNCHANGED <<child, waitHolder, historyVars>>
     \/ /\ ~waited /\ child # "running"
        /\ Reap(q) /\ waitHolder' = q
        /\ At(q, "reaped")
        /\ UNCHANGED <<leaseVars, strayKill>>
     \/ /\ ~waited /\ child = "running"
        /\ At(q, "polling")
        /\ UNCHANGED <<child, waitHolder, leaseVars, historyVars>>
  /\ UNCHANGED <<calling, waited, procClosed, pipeVars, ownerVars>>

StoreWaited(q) ==
  /\ point[q] = "reaped"
  /\ waited' = TRUE /\ waitHolder' = "none"
  /\ At(q, "over") /\ Unlease
  /\ UNCHANGED <<calling, child, procClosed, pipeVars, ownerVars, historyVars>>

\* ProcessTryReadStdout: what has been written arrives any time, the end with the child.
PollStdout(q) ==
  /\ calling[q] = "read" /\ point[q] = "inside"
  /\ \/ At(q, "over") /\ Unlease
     \/ At(q, "polling") /\ UNCHANGED leaseVars
  /\ UNCHANGED <<calling, child, waited, procClosed, waitHolder, pipeVars, ownerVars, historyVars>>

\* A cancelled WaitAsync or ReadStdoutAsync leaves at its delay, and the lease with it.
LeaveCancelled(q) ==
  /\ calling[q] # "write" /\ point[q] = "polling"
  /\ At(q, "over") /\ Unlease
  /\ UNCHANGED <<calling, child, waited, procClosed, waitHolder, pipeVars, ownerVars, historyVars>>

\* ProcessWriteStdin holds stdinMutex as long as the pipe is full.
BeginWrite(q) ==
  /\ calling[q] = "write" /\ point[q] = "inside" /\ stdinHolder = "none"
  /\ IF stdinOpen THEN stdinHolder' = q /\ At(q, "writing") /\ UNCHANGED leaseVars
                  ELSE At(q, "over") /\ Unlease /\ UNCHANGED stdinHolder
  /\ UNCHANGED <<calling, child, waited, procClosed, waitHolder, stdinOpen, stdoutOpen, ownerVars,
                 historyVars>>

\* The child reads, or is dead and the write fails.
EndWrite(q) ==
  /\ point[q] = "writing"
  /\ stdinHolder' = "none"
  /\ At(q, "over") /\ Unlease
  /\ UNCHANGED <<calling, child, waited, procClosed, waitHolder, stdinOpen, stdoutOpen, ownerVars,
                 historyVars>>

-----------------------------------------------------------------------------
(* The owner: ProcessWait, ProcessTerminate, ProcessCloseStdin, and        *)
(* ProcessClose, which does all of it in turn.                             *)

WaitBeforeKill ==   \* a variant: Close waits for the child without killing it
  [wait |-> "locking", terminate |-> "looking", closeStdin |-> "stdin", close |-> "locking"]
FirstPoint == [wait |-> "locking", terminate |-> "looking", closeStdin |-> "stdin",
               close |-> "looking"]
OwnerGoes(p) == ownerPoint' = p /\ UNCHANGED ownerDoes
OwnerReturns == ownerDoes' = "none" /\ ownerPoint' = "none"
ThenOrReturn(p) == IF ownerDoes = "close" THEN OwnerGoes(p) ELSE OwnerReturns

CallOwner(op) ==
  /\ ownerDoes = "none" /\ ~procClosed
  /\ ownerDoes' = op /\ ownerPoint' = FirstPoint[op]
  /\ procClosed' = (op = "close")
  /\ UNCHANGED <<calling, point, child, waited, waitHolder, pipeVars, leaseVars, historyVars>>

\* terminateProcessState looks at waited, without the mutex ...
LookWaited ==
  /\ ownerPoint = "looking"
  /\ IF waited THEN ThenOrReturn("locking") ELSE OwnerGoes("killing")
  /\ UNCHANGED <<calling, point, child, waited, procClosed, waitHolder, pipeVars, leaseVars,
                 historyVars>>

\* ... and sends SIGKILL to the id, whoever has it now.
Kill ==
  /\ ownerPoint = "killing"
  /\ child' = IF child = "running" THEN "zombie" ELSE child
  /\ strayKill' = (strayKill \/ child = "reused")
  /\ ThenOrReturn("locking")
  /\ UNCHANGED <<calling, point, waited, procClosed, waitHolder, pipeVars, leaseVars, reaper,
                 strayWait>>

\* waitProcessState: waitpid blocks with the mutex held.
LockWait ==
  /\ ownerPoint = "locking" /\ WaitMutexFree
  /\ IF waited THEN ThenOrReturn("stdin") /\ UNCHANGED waitHolder
               ELSE OwnerGoes("waitpid") /\ waitHolder' = "owner"
  /\ UNCHANGED <<calling, point, child, waited, procClosed, pipeVars, leaseVars, historyVars>>

WaitPid ==
  /\ ownerPoint = "waitpid" /\ child # "running"
  /\ Reap("owner")
  /\ OwnerGoes("storing")
  /\ UNCHANGED <<calling, point, waited, procClosed, waitHolder, pipeVars, leaseVars, strayKill>>

OwnerStores ==
  /\ ownerPoint = "storing"
  /\ waited' = TRUE /\ waitHolder' = "none"
  /\ ThenOrReturn("stdin")
  /\ UNCHANGED <<calling, point, child, procClosed, pipeVars, leaseVars, historyVars>>

ClosePipeStdin ==
  /\ ownerPoint = "stdin" /\ stdinHolder = "none"
  /\ stdinOpen' = FALSE
  /\ ThenOrReturn("output")
  /\ UNCHANGED <<calling, point, child, waited, procClosed, waitHolder, stdinHolder, stdoutOpen,
                 leaseVars, historyVars>>

ClosePipesAndRelease ==
  /\ ownerPoint = "output"
  /\ stdoutOpen' = FALSE
  /\ Unlease
  /\ OwnerReturns
  /\ UNCHANGED <<calling, point, child, waited, procClosed, waitHolder, stdinHolder, stdinOpen,
                 historyVars>>

OwnerStep == LookWaited \/ Kill \/ LockWait \/ WaitPid \/ OwnerStores \/ ClosePipeStdin
               \/ ClosePipesAndRelease

-----------------------------------------------------------------------------
(* The child and the operating system.                                     *)

ChildExits ==
  /\ child = "running" /\ child' = "zombie"
  /\ UNCHANGED <<calling, point, waited, procClosed, waitHolder, pipeVars, leaseVars, ownerVars,
                 historyVars>>

ReuseId ==
  /\ child = "gone" /\ child' = "reused"
  /\ UNCHANGED <<calling, point, waited, procClosed, waitHolder, pipeVars, leaseVars, ownerVars,
                 historyVars>>

CallRuns(q) == EnterCall(q) \/ PollRunning(q) \/ StoreWaited(q) \/ PollStdout(q) \/ BeginWrite(q)

ProcNext ==
  \/ \E q \in Poller : BeginCall(q) \/ CallRuns(q) \/ LeaveCancelled(q) \/ EndWrite(q)
  \/ \E op \in DOMAIN FirstPoint : CallOwner(op)
  \/ OwnerStep \/ ChildExits \/ ReuseId

ProcSpec == ProcInit /\ [][ProcNext]_procVars

\* A write to a dead child fails; a write to a live one may block for ever, and a live
\* child may live for ever.
BrokenPipe(q) == child # "running" /\ EndWrite(q)

-----------------------------------------------------------------------------
(* Properties.                                                             *)

ProcTypeOK ==
  /\ calling \in [Poller -> {"wait", "read", "write"}]
  /\ point \in [Poller -> {"idle", "polling", "inside", "reaped", "writing", "over"}]
  /\ child \in {"running", "zombie", "gone", "reused"}
  /\ {waited, procClosed, stdinOpen, stdoutOpen, deleted, strayKill, strayWait} \subseteq BOOLEAN
  /\ waitHolder \in Poller \cup {"none", "owner"} /\ stdinHolder \in Poller \cup {"none"}
  /\ leases \in Nat
  /\ ownerDoes \in DOMAIN FirstPoint \cup {"none"}
  /\ reaper \in Poller \cup {"none", "owner"}

\* The child is reaped once: nobody waits for an id that has been given back, and who
\* finds waited set finds a child that is gone. A kill of an id that somebody else has
\* by now needs a WaitAsync that reaped it between the look at waited and the kill, or
\* that has reaped and not yet set waited: never a wait of the owner itself.
IdUsedSafely ==
  /\ ~strayWait
  /\ waited => child \in {"gone", "reused"}
  /\ strayKill => reaper \in Poller

\* The state and its pipes outlive every call in flight, and all is given back in the end:
\* no zombie, no open descriptor, no storage.
NothingLeftBehind ==
  deleted <=> /\ procClosed /\ ownerDoes = "none"
              /\ waited /\ ~stdinOpen /\ ~stdoutOpen
              /\ \A q \in Poller : point[q] \in {"idle", "over"}

\* What a Close waits for is at hand: the mutex of the wait is free or its holder has reaped
\* the child, waitpid finds it dead, a writer that holds the pipe meets a dead reader, and
\* what keeps the storage after Close has returned is a call that can go on.
CloseNotHeldUp ==
  LET Unblocked(q) == child # "running" /\ point[q] = "writing"
      Free(q) == CASE calling[q] = "wait" -> WaitMutexFree
                   [] calling[q] = "write" -> stdinHolder = "none"
                   [] OTHER -> TRUE
      CanGoOn(q) == \/ point[q] \in {"polling", "reaped"} \/ Unblocked(q)
                    \/ point[q] = "inside" /\ Free(q) IN
  procClosed =>
    /\ ownerPoint = "locking" =>
         waitHolder = "none" \/ \E q \in Poller : waitHolder = q /\ point[q] = "reaped"
    /\ ownerPoint = "waitpid" => child # "running"
    /\ ownerPoint = "stdin" =>
         stdinHolder = "none" \/ \E q \in Poller : stdinHolder = q /\ Unblocked(q)
    /\ ownerDoes = "none" /\ ~deleted =>
         \E q \in Poller : CanGoOn(q)

\* Close comes back with the child reaped, whatever holds the two mutexes: it kills
\* before it waits, and the death frees a writer before Close wants the stdin mutex.
CloseCompletes == procClosed ~> deleted
===============================================================================
