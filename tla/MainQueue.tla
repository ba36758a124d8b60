------------------------------- MODULE MainQueue -------------------------------
(***************************************************************************)
(* The two queues an application drains on a thread of its choice:         *)
(* AsyncMainExecutor (runtime/include/std_async.h), whose Drain takes the  *)
(* whole queue and belongs to one thread, and Dispatcher (std/async.wio),  *)
(* whose Drain takes one action at a time and may run on several threads.  *)
(* Taking out, under the queue's lock, and starting, outside of it, are    *)
(* two steps. An action may throw, post, or drain the queue it came from.  *)
(***************************************************************************)
EXTENDS Naturals, SequencesExt

CONSTANTS Entry,   \* actions, each posted at most once
          Drainer, \* threads that bind and drain
          MaxDepth \* bound on drains inside drains

ASSUME MainAssumption == "none" \notin Entry \cup Drainer

VARIABLES
  queueKind,  \* "main" or "dispatcher"
  owner,      \* of the main executor
  waiting,    \* work_ or actions
  drains,     \* per thread: its calls of Drain, the innermost last; each the action
              \* it runs, or "none", and those it has taken out and not started
  postedSeq, started, lost, thrown   \* (history)

mainVars == <<queueKind, owner, waiting, drains, postedSeq, started, lost, thrown>>

MainInit ==
  /\ queueKind \in {"main", "dispatcher"}
  /\ owner = "none"
  /\ waiting = <<>>
  /\ drains = [t \in Drainer |-> <<>>]
  /\ postedSeq = <<>>
  /\ started = {} /\ lost = {} /\ thrown = {}

Main == queueKind = "main"
Idle(t) == drains[t] = <<>>
Runs(t) == ~Idle(t) /\ Last(drains[t]).now # "none"
Between(t) == ~Idle(t) /\ Last(drains[t]).now = "none"
SetTop(t, d) == drains' = [drains EXCEPT ![t] = Append(Front(@), d)]

QueuedFirst(e) == <<e>> \o waiting   \* a variant: last in, first out
Queued(e) == Append(waiting, e)

PostEntry(e) ==
  /\ e \notin Range(postedSeq)
  /\ waiting' = Queued(e)
  /\ postedSeq' = Append(postedSeq, e)
  /\ UNCHANGED <<queueKind, owner, drains, started, lost, thrown>>

BindCurrentThread(t) ==
  /\ Main /\ owner = "none"
  /\ owner' = t
  /\ UNCHANGED <<queueKind, waiting, drains, postedSeq, started, lost, thrown>>

\* The first drain binds too. Any other thread than the owner gets an exception.
BeginDrain(t) ==
  /\ Idle(t) \/ Runs(t)
  /\ Len(drains[t]) < MaxDepth
  /\ Main => owner \in {"none", t}
  /\ owner' = IF Main THEN t ELSE owner
  /\ waiting' = IF Main THEN <<>> ELSE waiting
  /\ drains' = [drains EXCEPT ![t] =
       Append(@, [now |-> "none", batch |-> IF Main THEN waiting ELSE <<>>])]
  /\ UNCHANGED <<queueKind, postedSeq, started, lost, thrown>>

\* Dispatcher.Drain removes one action under the lock of the queue.
TakeEntry(t) ==
  /\ ~Main /\ Between(t) /\ Last(drains[t]).batch = <<>>
  /\ waiting # <<>>
  /\ SetTop(t, [now |-> "none", batch |-> <<Head(waiting)>>])
  /\ waiting' = Tail(waiting)
  /\ UNCHANGED <<queueKind, owner, postedSeq, started, lost, thrown>>

\* What was taken out is called without the lock.
RunEntry(t) ==
  /\ Between(t)
  /\ LET from == Last(drains[t]).batch
     IN /\ from # <<>>
        /\ SetTop(t, [now |-> Head(from), batch |-> Tail(from)])
        /\ started' = started \cup {Head(from)}
  /\ UNCHANGED <<queueKind, owner, waiting, postedSeq, lost, thrown>>

EntryReturns(t) ==
  /\ Runs(t)
  /\ SetTop(t, [Last(drains[t]) EXCEPT !.now = "none"])
  /\ UNCHANGED <<queueKind, owner, waiting, postedSeq, started, lost, thrown>>

\* The exception leaves this Drain, and what it had taken out goes with its frame. The
\* action around a drain inside a drain may catch it, or throw in its turn.
EntryThrows(t) ==
  /\ Runs(t)
  /\ thrown' = thrown \cup {Last(drains[t]).now}
  /\ lost' = lost \cup Range(Last(drains[t]).batch)
  /\ drains' = [drains EXCEPT ![t] = Front(@)]
  /\ UNCHANGED <<queueKind, owner, waiting, postedSeq, started>>

AnyTime(t) == TRUE   \* a variant: a drain may stop early
Drained(t) == Last(drains[t]).batch = <<>> /\ (Main \/ waiting = <<>>)

EndDrain(t) ==
  /\ Between(t)
  /\ Drained(t)
  /\ drains' = [drains EXCEPT ![t] = Front(@)]
  /\ UNCHANGED <<queueKind, owner, waiting, postedSeq, started, lost, thrown>>

MainNext ==
  \/ \E e \in Entry : PostEntry(e)
  \/ \E t \in Drainer : \/ BindCurrentThread(t) \/ BeginDrain(t) \/ EndDrain(t)
                        \/ TakeEntry(t) \/ RunEntry(t) \/ EntryReturns(t) \/ EntryThrows(t)

MainSpec == MainInit /\ [][MainNext]_mainVars

-----------------------------------------------------------------------------
(* Properties.                                                             *)

MainTypeOK ==
  /\ queueKind \in {"main", "dispatcher"}
  /\ owner \in Drainer \cup {"none"}
  /\ {waiting, postedSeq} \subseteq Seq(Entry)
  /\ \A t \in Drainer : \A i \in DOMAIN drains[t] :
       drains[t][i].now \in Entry \cup {"none"} /\ drains[t][i].batch \in Seq(Entry)
  /\ {started, lost, thrown} \subseteq SUBSET Entry

Position(e) == CHOOSE i \in DOMAIN postedSeq : postedSeq[i] = e

\* Every posted action is still queued, taken out by a drain that runs, started, or
\* lost. A Dispatcher loses none; Drain of the main executor loses only what it had
\* taken out behind an action that threw.
NoEntryVanishes ==
  /\ Range(postedSeq) = Range(waiting) \cup started \cup lost \cup
       UNION {UNION {Range(drains[t][i].batch) : i \in DOMAIN drains[t]} : t \in Drainer}
  /\ lost # {} => Main
  /\ \A e \in lost : \E f \in thrown : Position(f) < Position(e)

\* The drain of thread t starts e; what the other drains have taken out and not started.
Starts(t, e) == Between(t) /\ Len(drains'[t]) = Len(drains[t]) /\ Last(drains'[t]).now = e
Elsewhere(t) ==
  {e \in Entry : \E u \in Drainer : \E i \in DOMAIN drains[u] :
     ~(u = t /\ i = Len(drains[t])) /\ e \in Range(drains[u][i].batch)}

\* Actions start once, and what was posted before an action that starts has started or
\* is lost, unless another drain holds it: one on another thread that has taken it out
\* and not called it yet, or one inside whose action this drain runs.
StartedInOrder ==
  [][\A t \in Drainer : \A e \in Entry : Starts(t, e) =>
       /\ e \notin started
       /\ \A f \in Range(postedSeq) : Position(f) < Position(e) =>
            f \in started \cup lost \cup Elsewhere(t)]_mainVars
===============================================================================
