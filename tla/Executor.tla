-------------------------------- MODULE Executor --------------------------------
(***************************************************************************)
(* What the runtime's executors promise to those who hand them actions,    *)
(* without any word about threads, clocks, queues or condition variables:  *)
(*   - an action is refused only by a closed executor or by one whose queue *)
(*     is full;                                                            *)
(*   - an accepted action is run exactly once, unless it is a timer that    *)
(*     its owner cancelled before it was started;                          *)
(*   - a closed executor accepts nothing any more, but what it accepted     *)
(*     before still runs;                                                  *)
(*   - once a Shutdown called from outside the pool has returned, nothing   *)
(*     is left and nothing runs.                                           *)
(* AsyncScheduler is shown to implement this specification.                *)
(***************************************************************************)
EXTENDS Naturals, FiniteSets

CONSTANTS Item,     \* the actions
          Timer,    \* those that can be cancelled while they are queued
          Capacity  \* so many may be accepted and not yet started

VARIABLES status,  \* new, refused, accepted, running, done or dropped
          closed,  \* accepts no more
          drained  \* a Shutdown from outside has returned

executorVars == <<status, closed, drained>>

Init ==
  /\ status = [i \in Item |-> "new"]
  /\ closed = FALSE
  /\ drained = FALSE

Move(i, from, to) == status[i] = from /\ status' = [status EXCEPT ![i] = to]

Full == Cardinality({i \in Item : status[i] = "accepted"}) >= Capacity

Accept(i) == ~ (closed \/ Full) /\ Move(i, "new", "accepted") /\ UNCHANGED <<closed, drained>>
Refuse(i) == (closed \/ Full) /\ Move(i, "new", "refused") /\ UNCHANGED <<closed, drained>>
Finish(i) == Move(i, "running", "done") /\ UNCHANGED <<closed, drained>>

\* Cancelled timers are thrown away, several at a time.
Drop(I) ==
  /\ I \subseteq Timer
  /\ \A i \in I : status[i] = "accepted"
  /\ status' = [i \in Item |-> IF i \in I THEN "dropped" ELSE status[i]]
  /\ UNCHANGED <<closed, drained>>

\* A worker throws cancelled timers away on its way to the action it starts.
DropAndStart(I, i) ==
  /\ I \subseteq Timer \ {i}
  /\ \A j \in I \cup {i} : status[j] = "accepted"
  /\ status' = [j \in Item |-> IF j = i THEN "running"
                               ELSE IF j \in I THEN "dropped" ELSE status[j]]
  /\ UNCHANGED <<closed, drained>>

Close == closed' = TRUE /\ UNCHANGED <<status, drained>>

Drain ==
  /\ closed
  /\ \A i \in Item : status[i] \notin {"accepted", "running"}
  /\ drained' = TRUE
  /\ UNCHANGED <<status, closed>>

Next ==
  \/ \E i \in Item : Accept(i) \/ Refuse(i) \/ Finish(i)
  \/ \E i \in Item, I \in SUBSET Timer : DropAndStart(I, i)
  \/ \E I \in SUBSET Timer : Drop(I)
  \/ Close
  \/ Drain

Spec == Init /\ [][Next]_executorVars
===============================================================================
