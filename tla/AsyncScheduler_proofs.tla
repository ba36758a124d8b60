------------------------ MODULE AsyncScheduler_proofs ------------------------
(***************************************************************************)
(* Proofs about AsyncScheduler, for every number of workers and callers,   *)
(* every set of actions and every delay and capacity.                      *)
(***************************************************************************)
EXTENDS AsyncScheduler, FiniteSetTheorems, TLAPS

USE PoolAssumption DEF queueVars, threadVars

-----------------------------------------------------------------------------
(* The inductive invariant.                                                *)

\* Every item is in one place only.
OnePlace ==
  /\ queue \cap (refused \cup done \cup dropped) = {}
  /\ refused \cap (done \cup dropped) = {}
  /\ done \cap dropped = {}
  /\ \A w \in Worker : job[w] \notin queue \cup refused \cup done \cup dropped
  /\ \A w, v \in Worker : job[w] = job[v] /\ job[w] # NoItem => w = v
  /\ flagged \subseteq Timer

\* A worker leaves only when the pool is stopping and has nothing left, so the
\* queue stays empty; whoever called from outside waited for all of them.
ExitIsFinal ==
  /\ \A w \in Worker : pc[w] = "exited" => stopping /\ queue = {}
  /\ \A t \in Thread : stage[t] \in {"joining", "returned"} => stopping
  /\ \A t \in Outside : stage[t] = "returned" => \A w \in Worker : pc[w] = "exited"

IInv == TypeOK /\ OnePlace /\ NotEarly /\ ExitIsFinal

LEMMA InitInv == Init => IInv
<1>. SUFFICES ASSUME Init PROVE IInv
  OBVIOUS
<1>. USE DEF Init
<1>1. TypeOK
  BY DEF TypeOK
<1>2. OnePlace /\ NotEarly
  BY DEF OnePlace, NotEarly
<1>3. ExitIsFinal
  BY DEF ExitIsFinal, Thread
<1>. QED BY <1>1, <1>2, <1>3 DEF IInv

LEMMA PostInv ==
  ASSUME IInv, NEW i \in Item, Post(i)
  PROVE  IInv'
<1>. USE DEF IInv
<1>1. TypeOK' /\ UNCHANGED <<now, job, done, dropped, stopping, stage, flagged>>
      /\ (\A w \in Worker : pc[w] \in {"running", "exited"} => pc'[w] = pc[w])
  BY DEF Post, TypeOK, NotifyOne, Sleeping
<1>2. OnePlace'
  BY <1>1 DEF Post, OnePlace, New, TypeOK
<1>3. NotEarly'
  BY <1>1 DEF Post, NotEarly, New, TypeOK
<1>4. ExitIsFinal'
  BY <1>1 DEF Post, ExitIsFinal, Refuses, NotifyOne, Sleeping, TypeOK
<1>. QED BY <1>1, <1>2, <1>3, <1>4

LEMMA OutsideInv ==
  ASSUME IInv, Tick \/ \E i \in Item : CancelTimer(i)
  PROVE  IInv'
  BY DEF IInv, TypeOK, OnePlace, NotEarly, ExitIsFinal, Tick, CancelTimer

LEMMA SleepInv ==
  ASSUME IInv, NEW w \in Worker, Exit(w) \/ Wait(w) \/ WaitUntil(w) \/ TimeOut(w) \/ SpuriousWake(w)
  PROVE  IInv'
<1>. USE DEF IInv
<1>1. CASE Exit(w)
  <2>1. queue' = {}
    BY <1>1 DEF Exit, Discard, Exits, Live, Popped
  <2>. QED BY <1>1, <2>1 DEF Exit, Exits, Discard, Popped, TypeOK, OnePlace, NotEarly, ExitIsFinal
<1>2. CASE Wait(w)
  BY <1>2 DEF Wait, Discard, Popped, TypeOK, OnePlace, NotEarly, ExitIsFinal
<1>3. CASE WaitUntil(w)
  BY <1>3 DEF WaitUntil, Discard, Popped, Live, TypeOK, OnePlace, NotEarly, ExitIsFinal
<1>4. CASE TimeOut(w)
  BY <1>4 DEF TimeOut, TypeOK, OnePlace, NotEarly, ExitIsFinal
<1>5. CASE SpuriousWake(w)
  BY <1>5 DEF SpuriousWake, Sleeping, TypeOK, OnePlace, NotEarly, ExitIsFinal
<1>. QED BY <1>1, <1>2, <1>3, <1>4, <1>5

LEMMA TakeInv ==
  ASSUME IInv, NEW w \in Worker, Take(w)
  PROVE  IInv'
<1>. USE DEF IInv
<1>1. PICK i \in queue :
        /\ i \notin flagged /\ MayRun(i)
        /\ queue' = queue \ (Popped \cup {i})
        /\ job' = [job EXCEPT ![w] = i]
  BY DEF Take, Live
<1>2. i \in Item /\ i # NoItem /\ pc[w] = "looking"
  BY DEF TypeOK, Take
<1>3. TypeOK'
  BY <1>1, <1>2 DEF TypeOK, Take, Popped
<1>4. OnePlace'
  BY <1>1, <1>2 DEF OnePlace, TypeOK, Take, Popped
<1>5. NotEarly'
  BY <1>1, <1>2 DEF NotEarly, MayRun, Due, TypeOK, Take
<1>6. ExitIsFinal'
  BY <1>1, <1>2 DEF ExitIsFinal, TypeOK, Take
<1>. QED BY <1>3, <1>4, <1>5, <1>6

LEMMA ReturnInv ==
  ASSUME IInv, NEW w \in Worker, Return(w)
  PROVE  IInv'
<1>. USE DEF IInv, Return, Release
<1>1. job[w] \in Item
  BY DEF TypeOK
<1>2. TypeOK'
  BY <1>1 DEF TypeOK
<1>3. OnePlace'
  BY <1>1 DEF OnePlace, TypeOK
<1>4. NotEarly' /\ ExitIsFinal'
  BY <1>1 DEF NotEarly, ExitIsFinal, TypeOK
<1>. QED BY <1>2, <1>3, <1>4

LEMMA ShutdownInv ==
  ASSUME IInv, NEW t \in Thread, CallShutdown(t) \/ Enter(t) \/ Leave(t)
  PROVE  IInv'
<1>. USE DEF IInv
<1>1. CASE CallShutdown(t)
  BY <1>1 DEF CallShutdown, TypeOK, OnePlace, NotEarly, ExitIsFinal
<1>2. CASE Enter(t)
  BY <1>2 DEF Enter, NotifyAll, Sleeping, TypeOK, OnePlace, NotEarly, ExitIsFinal, Thread
<1>3. CASE Leave(t)
  BY <1>3 DEF Leave, Joins, TypeOK, OnePlace, NotEarly, ExitIsFinal, Thread
<1>. QED BY <1>1, <1>2, <1>3

LEMMA NextInv == IInv /\ [Next]_vars => IInv'
<1>. SUFFICES ASSUME IInv, [Next]_vars PROVE IInv'
  OBVIOUS
<1>1. CASE Quiescent \/ UNCHANGED vars
  BY <1>1 DEF Quiescent, vars, IInv, TypeOK, OnePlace, NotEarly, ExitIsFinal
<1>. QED
  BY <1>1, PostInv, OutsideInv, SleepInv, TakeInv, ReturnInv, ShutdownInv DEF Next, Look

LEMMA Invariance == Spec => []IInv
  BY InitInv, NextInv, PTL DEF Spec

\* The variables of every reachable state have their types, and a worker holds an
\* action exactly while it runs one.
THEOREM TypeCorrect == Spec => []TypeOK
<1>1. IInv => TypeOK
  BY DEF IInv
<1>. QED BY <1>1, Invariance, PTL

\* A Shutdown from outside returns only when nothing is queued and every worker
\* has left, so nothing runs afterwards.
THEOREM ShutdownDrains == Spec => []DrainedWhenReturned
<1>1. IInv => DrainedWhenReturned
  BY DEF IInv, ExitIsFinal, DrainedWhenReturned, TypeOK
<1>. QED BY <1>1, Invariance, PTL

-----------------------------------------------------------------------------
(* The order of the queue.                                                 *)

\* A nonempty set of natural numbers has a least one.
LEMMA LeastNat ==
  ASSUME NEW S \in SUBSET Nat, S # {}
  PROVE  \E x \in S : \A y \in S : x <= y
<1> DEFINE Initial == {0 .. x - 1 : x \in S}
<1>1. Initial \subseteq FiniteSubsetsOf(Nat) /\ Initial # {}
  <2>1. ASSUME NEW x \in S PROVE IsFiniteSet(0 .. x - 1) /\ 0 .. x - 1 \subseteq Nat
    BY FS_Interval
  <2>2. ASSUME NEW x \in S PROVE 0 .. x - 1 \in FiniteSubsetsOf(Nat)
    BY <2>1 DEF FiniteSubsetsOf
  <2>3. ASSUME NEW I \in Initial PROVE I \in FiniteSubsetsOf(Nat)
    BY <2>2
  <2>4. PICK x \in S : TRUE
    OBVIOUS
  <2>5. 0 .. x - 1 \in Initial
    OBVIOUS
  <2>. HIDE DEF Initial
  <2>. QED BY <2>3, <2>5
<1>2. PICK I \in Initial : \A J \in Initial : <<J, I>> \notin StrictSubsetOrdering(Nat)
  <2>. HIDE DEF Initial
  <2>. QED BY <1>1, FS_StrictSubsetOrderingWellFounded, WFMin
<1>3. PICK x \in S : I = 0 .. x - 1
  OBVIOUS
<1>4. ASSUME NEW y \in S, y < x PROVE FALSE
  <2>1. 0 .. y - 1 \subseteq 0 .. x - 1 /\ y \in 0 .. x - 1 /\ y \notin 0 .. y - 1
    BY <1>4
  <2>2. <<0 .. y - 1, I>> \in StrictSubsetOrdering(Nat)
    BY <2>1, <1>3 DEF StrictSubsetOrdering
  <2>. QED BY <2>2, <1>2
<1>. QED BY <1>4

\* Tickets are given out once.
Tickets ==
  /\ \A i \in Item : i \in queue \/ (\E w \in Worker : job[w] = i) => ticket[i] < nextSequence
  /\ \A i, j \in queue : ticket[i] = ticket[j] => i = j

\* The queue has exactly one first action, so that a worker that looks at it knows what
\* to do: leave, sleep, sleep until a time, or take this action.
FirstIsUnique ==
  Live # {} => \E i \in Live : Top(i) /\ \A j \in Live : Top(j) => j = i

LEMMA FirstExists == TypeOK /\ Tickets => FirstIsUnique
<1>. SUFFICES ASSUME TypeOK, Tickets, Live # {}
              PROVE  \E i \in Live : Top(i) /\ \A j \in Live : Top(j) => j = i
  BY DEF FirstIsUnique
<1>1. Live \subseteq queue /\ \A i \in Live : readyAt[i] \in Nat /\ ticket[i] \in Nat
  BY DEF Live, TypeOK
<1> DEFINE soonest(i) == \A j \in Live : readyAt[i] <= readyAt[j]
           Front == {i \in Live : soonest(i)}
<1>2. \E i \in Live : soonest(i)
  <2> DEFINE S == {readyAt[j] : j \in Live}
  <2>1. S \in SUBSET Nat /\ S # {}
    BY <1>1
  <2>. HIDE DEF S
  <2>2. PICK x \in S : \A y \in S : x <= y
    BY <2>1, LeastNat
  <2>. QED BY <2>2 DEF S
<1>3. \E i \in Front : \A j \in Front : ticket[i] <= ticket[j]
  <2> DEFINE S == {ticket[j] : j \in Front}
  <2>1. S \in SUBSET Nat /\ S # {}
    BY <1>1, <1>2
  <2>. HIDE DEF S
  <2>2. PICK x \in S : \A y \in S : x <= y
    BY <2>1, LeastNat
  <2>. QED BY <2>2 DEF S
<1>4. PICK i \in Front : \A j \in Front : ticket[i] <= ticket[j]
  BY <1>3
<1>5. ASSUME NEW j \in Live, j # i PROVE Before(i, j) /\ ~ Before(j, i)
  <2>1. readyAt[i] <= readyAt[j]
    BY <1>4
  <2>2. CASE readyAt[i] < readyAt[j]
    BY <2>2, <1>1, <1>4 DEF Before
  <2>3. CASE readyAt[i] = readyAt[j]
    <3>1. j \in Front
      BY <2>3, <1>4
    <3>2. ticket[i] # ticket[j]
      BY <1>1, <1>4, <1>5 DEF Tickets
    <3>. QED BY <2>3, <3>1, <3>2, <1>1, <1>4 DEF Before
  <2>. QED BY <2>1, <2>2, <2>3, <1>1, <1>4
<1>. QED BY <1>4, <1>5 DEF Top

Orderly == Tickets /\ NoneOvertakes /\ QueuedIsWatched

LEMMA InitOrderly == Init => Orderly
  BY DEF Init, Orderly, Tickets, NoneOvertakes, QueuedIsWatched, Live

\* A worker is left to look at what is queued, if any is not asleep or gone.
LEMMA PostOrderly ==
  ASSUME IInv, Orderly, NEW i \in Item, Post(i)
  PROVE  Orderly'
<1>. USE DEF Orderly, IInv, TypeOK
<1>1. CASE Refuses
  BY <1>1 DEF Post, Tickets, NoneOvertakes, QueuedIsWatched, Live
<1>2. CASE ~ Refuses
  <2>1. /\ queue' = queue \cup {i} /\ Live' \subseteq Live \cup {i}
        /\ UNCHANGED <<job, flagged, until>>
        /\ ticket' = [ticket EXCEPT ![i] = nextSequence] /\ nextSequence' = nextSequence + 1
        /\ \A j \in Item \ {i} : readyAt'[j] = readyAt[j]
        /\ i \notin queue /\ \A w \in Worker : job[w] # i
    BY <1>2 DEF Post, Live, New
  <2>2. Tickets'
    BY <2>1 DEF Tickets
  <2>3. NoneOvertakes'
    <3>. SUFFICES ASSUME NEW w \in Worker, job[w] # NoItem, NEW j \in Live',
                         ticket'[j] < ticket'[job[w]]
                  PROVE  readyAt'[job[w]] < readyAt'[j]
      BY <2>1 DEF NoneOvertakes
    <3>1. job[w] \in Item \ {i} /\ ticket[job[w]] < nextSequence
      BY <2>1 DEF Tickets
    <3>2. j # i /\ j \in Live /\ j \in Item
      BY <2>1, <3>1 DEF Live
    <3>. QED BY <2>1, <3>1, <3>2 DEF NoneOvertakes
  <2>4. QueuedIsWatched'
    <3>1. \A w \in Worker : pc[w] # "exited"
      BY <1>2 DEF Refuses, ExitIsFinal
    <3>2. \E w \in Worker : pc'[w] \in {"looking", "running"}
      <4>1. NotifyOne
        BY <1>2 DEF Post
      <4>. QED BY <4>1, <3>1, PoolAssumption DEF NotifyOne, Sleeping
    <3>. QED BY <3>2 DEF QueuedIsWatched
  <2>. QED BY <2>2, <2>3, <2>4
<1>. QED BY <1>1, <1>2

\* Steps that leave the order of the queue alone, and let no action start.
LEMMA StillOrderly ==
  ASSUME Tickets, NoneOvertakes, UNCHANGED <<readyAt, ticket, nextSequence>>,
         Live' \subseteq Live, queue' \subseteq queue,
         \A w \in Worker : job'[w] \in {job[w], NoItem}, NoItem \notin Item
  PROVE  Tickets' /\ NoneOvertakes'
  BY DEF Tickets, NoneOvertakes

LEMMA SleepOrderly ==
  ASSUME IInv, Orderly, NEW w \in Worker, Exit(w) \/ Wait(w) \/ WaitUntil(w)
  PROVE  Orderly'
<1>. USE DEF Orderly, IInv, TypeOK
<1>1. /\ queue' \subseteq queue /\ Live' = Live
      /\ UNCHANGED <<job, readyAt, ticket, nextSequence>>
  BY DEF Exit, Wait, WaitUntil, Discard, Live, Popped
<1>2. Tickets' /\ NoneOvertakes'
  BY <1>1, StillOrderly
<1>3. CASE Exit(w) \/ Wait(w)
  <2>1. Live = {}
    BY <1>3 DEF Exit, Wait, Exits
  <2>. QED BY <1>1, <1>2, <2>1 DEF QueuedIsWatched
<1>4. CASE WaitUntil(w)
  <2>1. PICK i \in Live : Top(i) /\ until' = [until EXCEPT ![w] = readyAt[i]]
    BY <1>4 DEF WaitUntil
  <2>2. \A j \in Live : readyAt[i] <= readyAt[j]
    BY <2>1 DEF Top, Before, Live
  <2>3. pc'[w] = "waitingUntil" /\ \A j \in Live' : until'[w] <= readyAt'[j]
    BY <1>1, <1>4, <2>1, <2>2 DEF WaitUntil
  <2>. QED BY <1>2, <2>3 DEF QueuedIsWatched
<1>. QED BY <1>3, <1>4

LEMMA TakeOrderly ==
  ASSUME IInv, Orderly, NEW w \in Worker, Take(w)
  PROVE  Orderly'
<1>. USE DEF Orderly, IInv, TypeOK
<1>1. PICK i \in Live : /\ Top(i)
                        /\ queue' = queue \ (Popped \cup {i})
                        /\ job' = [job EXCEPT ![w] = i]
  BY DEF Take
<1>2. /\ Live' = Live \ {i} /\ i \in queue
      /\ UNCHANGED <<readyAt, ticket, nextSequence>> /\ pc'[w] = "running"
  BY <1>1 DEF Take, Live, Popped
<1>3. Tickets'
  BY <1>1, <1>2 DEF Tickets, Live
<1>4. NoneOvertakes'
  <2>. SUFFICES ASSUME NEW v \in Worker, job'[v] # NoItem, NEW j \in Live', j \in Item,
                       ticket[j] < ticket[job'[v]]
                PROVE  readyAt[job'[v]] < readyAt[j]
    BY <1>2 DEF NoneOvertakes, Live
  <2>1. CASE v = w
    <3>1. Before(i, j)
      BY <1>1, <1>2 DEF Top
    <3>. QED BY <1>1, <1>2, <2>1, <3>1 DEF Before
  <2>2. CASE v # w
    BY <1>1, <1>2, <2>2 DEF NoneOvertakes
  <2>. QED BY <2>1, <2>2
<1>5. QueuedIsWatched'
  BY <1>2 DEF QueuedIsWatched
<1>. QED BY <1>3, <1>4, <1>5

\* A worker that wakes up or is done goes back to the queue; Shutdown wakes them all.
LEMMA WakeOrderly ==
  ASSUME IInv, Orderly,
         \/ \E w \in Worker : TimeOut(w) \/ SpuriousWake(w) \/ Return(w)
         \/ \E t \in Thread : Enter(t)
  PROVE  Orderly'
<1>. USE DEF Orderly, IInv, TypeOK
<1>1. /\ UNCHANGED <<queue, flagged, readyAt, ticket, nextSequence, until>>
      /\ \A w \in Worker : job'[w] \in {job[w], NoItem}
      /\ \A w \in Worker : pc'[w] = pc[w] \/ pc'[w] = "looking"
  BY DEF TimeOut, SpuriousWake, Return, Enter, NotifyAll, Release
<1>2. Tickets' /\ NoneOvertakes'
  BY <1>1, StillOrderly, PoolAssumption DEF Live
<1>3. QueuedIsWatched'
  BY <1>1 DEF QueuedIsWatched, Live
<1>. QED BY <1>2, <1>3

LEMMA NextOrderly == IInv /\ Orderly /\ [Next]_vars => Orderly'
<1>. SUFFICES ASSUME IInv, Orderly, [Next]_vars PROVE Orderly'
  OBVIOUS
<1>1. CASE \/ \E i \in Item : CancelTimer(i)
           \/ Tick \/ Quiescent \/ UNCHANGED vars
           \/ \E t \in Thread : CallShutdown(t) \/ Leave(t)
  <2>1. /\ UNCHANGED <<queue, readyAt, ticket, nextSequence, until, job, pc>>
        /\ Live' \subseteq Live
    BY <1>1 DEF CancelTimer, Tick, Quiescent, CallShutdown, Leave, Live, vars
  <2>2. Tickets' /\ NoneOvertakes'
    BY <2>1, StillOrderly, PoolAssumption DEF Orderly
  <2>. QED BY <2>1, <2>2 DEF Orderly, QueuedIsWatched
<1>2. CASE \E w \in Worker : Look(w)
  BY <1>2, SleepOrderly, TakeOrderly DEF Look
<1>3. CASE \/ \E w \in Worker : TimeOut(w) \/ SpuriousWake(w) \/ Return(w)
           \/ \E t \in Thread : Enter(t)
  BY <1>3, WakeOrderly
<1>. QED BY <1>1, <1>2, <1>3, PostOrderly DEF Next

LEMMA StaysOrderly == Spec => []Orderly
  BY InitOrderly, NextOrderly, Invariance, PTL DEF Spec

\* Whatever is queued, some worker is on its way to it or sleeps no longer than until
\* the first timer is due.
THEOREM NobodySleepsThrough == Spec => []QueuedIsWatched
<1>1. Orderly => QueuedIsWatched
  BY DEF Orderly
<1>. QED BY <1>1, StaysOrderly, PTL

\* No action is started before its time or ahead of one that was accepted earlier and
\* is due no later.
THEOREM StartedInTurn == Spec => []InTurn
<1>1. IInv /\ Orderly => InTurn
  BY DEF IInv, Orderly, InTurn
<1>. QED BY <1>1, Invariance, StaysOrderly, PTL

\* A worker that looks at the queue is never at a loss: equal times and equal tickets
\* do not occur together.
THEOREM QueueHasAFirst == Spec => []FirstIsUnique
<1>1. IInv /\ Orderly => FirstIsUnique
  BY FirstExists DEF IInv, Orderly
<1>. QED BY <1>1, Invariance, StaysOrderly, PTL

-----------------------------------------------------------------------------
(* The pool implements the contract of an executor.                        *)

LEMMA InitRefines == Init => Contract!Init
<1>. SUFFICES ASSUME Init PROVE Contract!Init
  OBVIOUS
<1>1. \A i \in Item : Status(i) = "new"
  BY DEF Init, Status
<1>. QED BY <1>1 DEF Init, Contract!Init, Thread

\* Steps that move no item are stutters, or close or drain the executor.
LEMMA StillRefines ==
  ASSUME IInv, IInv', UNCHANGED <<queue, refused, done, dropped, job>>
  PROVE  [i \in Item |-> Status(i)]' = [i \in Item |-> Status(i)]
  BY DEF Status

LEMMA PostRefines ==
  ASSUME IInv, NEW i \in Item, Post(i)
  PROVE  Contract!Accept(i) \/ Contract!Refuse(i)
<1>. USE DEF IInv
<1>1. Status(i) = "new" /\ UNCHANGED <<stopping, stage, done, dropped, job>>
  BY DEF Post, New, Status
<1>0. Refuses <=> stopping \/ Contract!Full
  <2>1. {j \in Item : Status(j) = "accepted"} = queue
    BY DEF Status, OnePlace, TypeOK
  <2>2. {j \in Item : [k \in Item |-> Status(k)][j] = "accepted"} = queue
    BY <2>1
  <2>3. Contract!Full <=> Cardinality(queue) >= Capacity
    BY <2>2, Zenon DEF Contract!Full, Contract!Cardinality, Cardinality
  <2>. QED BY <2>3 DEF Refuses
<1>2. CASE Refuses
  <2>1. refused' = refused \cup {i} /\ UNCHANGED queue
    BY <1>2 DEF Post
  <2>2. [j \in Item |-> Status(j)]' = [[j \in Item |-> Status(j)] EXCEPT ![i] = "refused"]
    <3>1. ASSUME NEW j \in Item
          PROVE  Status(j)' = IF j = i THEN "refused" ELSE Status(j)
      BY <1>1, <2>1 DEF Status
    <3>. QED BY <3>1, Zenon
  <2>. QED BY <1>0, <1>1, <1>2, <2>2 DEF Contract!Refuse, Contract!Move
<1>3. CASE ~ Refuses
  <2>1. queue' = queue \cup {i} /\ UNCHANGED refused /\ ~ stopping
    BY <1>3 DEF Post, Refuses
  <2>2. [j \in Item |-> Status(j)]' = [[j \in Item |-> Status(j)] EXCEPT ![i] = "accepted"]
    <3>1. i \notin refused /\ i \notin done /\ i \notin dropped /\ i \notin queue
      BY DEF Post, New
    <3>2. ASSUME NEW j \in Item
          PROVE  Status(j)' = IF j = i THEN "accepted" ELSE Status(j)
      BY <1>1, <2>1, <3>1 DEF Status
    <3>. QED BY <3>2, Zenon
  <2>. QED BY <1>0, <1>1, <1>3, <2>1, <2>2 DEF Contract!Accept, Contract!Move
<1>. QED BY <1>2, <1>3

LEMMA DiscardRefines ==
  ASSUME IInv, Discard, UNCHANGED <<refused, done, job, stopping, stage>>
  PROVE  Contract!Drop(Popped)
<1>. USE DEF IInv
<1>1. Popped \subseteq Timer /\ Popped \subseteq queue
  BY DEF Popped, OnePlace
<1>2. \A i \in Popped : i \in Item /\ Status(i) = "accepted"
  BY <1>1 DEF Status, OnePlace, TypeOK
<1>3. [i \in Item |-> Status(i)]' = [i \in Item |-> IF i \in Popped THEN "dropped" ELSE Status(i)]
  BY <1>1 DEF Discard, Status, OnePlace, TypeOK
<1>. QED BY <1>1, <1>2, <1>3 DEF Contract!Drop

LEMMA TakeRefines ==
  ASSUME IInv, NEW w \in Worker, Take(w)
  PROVE  \E i \in Item, I \in SUBSET Timer : Contract!DropAndStart(I, i)
<1>. USE DEF IInv
<1>1. PICK i \in queue :
        /\ i \notin flagged
        /\ queue' = queue \ (Popped \cup {i})
        /\ job' = [job EXCEPT ![w] = i]
  BY DEF Take, Live
<1>2. /\ i \in Item /\ job[w] = NoItem /\ dropped' = dropped \cup Popped
      /\ UNCHANGED <<refused, done, stopping, stage>>
  BY DEF TypeOK, Take
<1>3. Popped \subseteq Timer \ {i} /\ Popped \subseteq queue
  BY <1>1 DEF Popped, OnePlace
<1>4. \A j \in Popped \cup {i} : j \in Item /\ Status(j) = "accepted"
  BY <1>1, <1>2, <1>3 DEF Status, OnePlace, TypeOK
<1>5. ASSUME NEW j \in Item
      PROVE  (\E v \in Worker : job'[v] = j) <=> j = i \/ \E v \in Worker : job[v] = j
  BY <1>1, <1>2 DEF TypeOK
<1>6. [j \in Item |-> Status(j)]' =
        [j \in Item |-> IF j = i THEN "running" ELSE IF j \in Popped THEN "dropped" ELSE Status(j)]
  BY <1>1, <1>2, <1>3, <1>5 DEF Status, OnePlace, TypeOK
<1>7. Contract!DropAndStart(Popped, i)
  BY <1>2, <1>3, <1>4, <1>6 DEF Contract!DropAndStart
<1>. QED BY <1>2, <1>3, <1>7

LEMMA ReturnRefines ==
  ASSUME IInv, NEW w \in Worker, Return(w)
  PROVE  \E i \in Item : Contract!Finish(i)
<1>. USE DEF IInv
<1>1. PICK i \in Item : i = job[w]
  BY DEF TypeOK, Return
<1>2. /\ done' = done \cup {i} /\ job' = [job EXCEPT ![w] = NoItem]
      /\ UNCHANGED <<queue, refused, dropped, stopping, stage>>
  BY <1>1 DEF Return, Release
<1>3. Status(i) = "running"
  BY <1>1 DEF Status, OnePlace
<1>4. ASSUME NEW j \in Item
      PROVE  (\E v \in Worker : job'[v] = j) <=> j # i /\ \E v \in Worker : job[v] = j
  BY <1>1, <1>2 DEF TypeOK, OnePlace
<1>5. [j \in Item |-> Status(j)]' = [[j \in Item |-> Status(j)] EXCEPT ![i] = "done"]
  <2>1. i \notin refused /\ i \notin queue /\ i \notin dropped
    BY <1>1 DEF OnePlace
  <2>2. ASSUME NEW j \in Item
        PROVE  Status(j)' = IF j = i THEN "done" ELSE Status(j)
    BY <1>2, <1>4, <2>1 DEF Status
  <2>. QED BY <2>2, Zenon
<1>. QED BY <1>2, <1>3, <1>5 DEF Contract!Finish, Contract!Move

LEMMA StepRefines ==
  IInv /\ IInv' /\ [Next]_vars => [Contract!Next]_(Contract!executorVars)
<1>. SUFFICES ASSUME IInv, IInv', [Next]_vars
              PROVE  [Contract!Next]_(Contract!executorVars)
  OBVIOUS
<1>. USE DEF Contract!Next, Contract!executorVars
<1>1. ASSUME NEW i \in Item, Post(i) PROVE Contract!Next
  BY <1>1, PostRefines
<1>2. ASSUME NEW w \in Worker, Take(w) \/ Return(w) PROVE Contract!Next
  BY <1>2, TakeRefines, ReturnRefines
<1>3. ASSUME NEW w \in Worker, Exit(w) \/ Wait(w) \/ WaitUntil(w) PROVE Contract!Next
  <2>1. Discard /\ UNCHANGED <<refused, done, job, stopping, stage>>
    BY <1>3 DEF Exit, Wait, WaitUntil
  <2>2. Popped \in SUBSET Timer
    BY DEF Popped, IInv, OnePlace
  <2>. QED BY <2>1, <2>2, DiscardRefines
<1>4. ASSUME UNCHANGED <<queue, refused, done, dropped, job, stopping, stage>>
      PROVE  UNCHANGED Contract!executorVars
  BY <1>4, StillRefines
<1>5. ASSUME NEW t \in Thread, CallShutdown(t) \/ Enter(t) \/ Leave(t)
      PROVE  [Contract!Next]_(Contract!executorVars)
  <2>1. [i \in Item |-> Status(i)]' = [i \in Item |-> Status(i)]
    BY <1>5, StillRefines DEF CallShutdown, Enter, Leave
  <2>2. CASE CallShutdown(t)
    <3>1. UNCHANGED stopping
      BY <2>2 DEF CallShutdown
    <3>2. (\E u \in Outside : stage[u] = "returned")' <=> \E u \in Outside : stage[u] = "returned"
      BY <2>2 DEF CallShutdown, IInv, TypeOK, Thread
    <3>. QED BY <2>1, <3>1, <3>2
  <2>3. CASE Enter(t)
    <3>1. stopping' = TRUE
      BY <2>3 DEF Enter
    <3>2. (\E u \in Outside : stage[u] = "returned")' <=> \E u \in Outside : stage[u] = "returned"
      BY <2>3 DEF Enter, IInv, TypeOK, Thread
    <3>. QED BY <2>1, <3>1, <3>2 DEF Contract!Close
  <2>4. CASE Leave(t) /\ t \in Worker
    <3>1. UNCHANGED stopping
      BY <2>4 DEF Leave
    <3>2. (\E u \in Outside : stage[u] = "returned")' <=> \E u \in Outside : stage[u] = "returned"
      BY <2>4 DEF Leave, IInv, TypeOK, Thread
    <3>. QED BY <2>1, <3>1, <3>2
  <2>5. CASE Leave(t) /\ t \in Outside
    <3>1. stopping /\ UNCHANGED stopping
      BY <2>5 DEF Leave, IInv, ExitIsFinal
    <3>2. (\E u \in Outside : stage[u] = "returned")'
      BY <2>5 DEF Leave, IInv, TypeOK, Thread
    <3>3. queue = {} /\ \A w \in Worker : job[w] = NoItem
      BY <2>5 DEF Leave, Joins, IInv, ExitIsFinal, TypeOK
    <3>4. \A i \in Item : Status(i) \notin {"accepted", "running"}
      BY <3>3 DEF Status
    <3>. QED BY <2>1, <3>1, <3>2, <3>4 DEF Contract!Drain
  <2>. QED BY <1>5, <2>2, <2>3, <2>4, <2>5 DEF Thread
<1>6. CASE \/ Quiescent \/ UNCHANGED vars \/ Tick \/ \E i \in Item : CancelTimer(i)
           \/ \E w \in Worker : TimeOut(w) \/ SpuriousWake(w)
  BY <1>4, <1>6 DEF Quiescent, vars, Tick, CancelTimer, TimeOut, SpuriousWake
<1>. QED BY <1>1, <1>2, <1>3, <1>5, <1>6 DEF Next, Look

\* Whatever the number of threads, the pool behaves like the abstract executor.
THEOREM Refinement == Spec => ImplementsExecutor
<1>. QED
  BY Invariance, InitRefines, StepRefines, PTL DEF Spec, ImplementsExecutor, Contract!Spec
===============================================================================
