-------------------------- MODULE AsyncScope_proofs --------------------------
(***************************************************************************)
(* Proofs about AsyncScope, for every set of tasks, every nesting and      *)
(* order of spawns, every choice of deadlines and every number of workers. *)
(***************************************************************************)
EXTENDS AsyncScope, TLAPS

USE ScopeAssumption DEF scopeVars, joinVars, Settled, HeldByJoin

-----------------------------------------------------------------------------
(* The inductive invariant.                                                *)

\* A frame that lends its thread to an eager call waits for this one call.
OneEagerCall ==
  \A c, d \in eager :
    Parent[c] \in Task => /\ body[Parent[c]] = "calling"
                          /\ Parent[c] = Parent[d] => c = d

\* The block only runs before its join.
JoinEndsBlock ==
  \A o \in Task :
    /\ body[o] \in {"absent", "running", "calling", "adding", "suspended"} => join[o] = "none"
    /\ join[o] # "none" => closed[o]

\* A scope lets go of an accepted child only when the child has settled and the
\* join, or the block, is over.
OwnedIsKept ==
  \A c \in owned :
    /\ Parent[c] \in Task
    /\ \/ c \in children[Parent[c]]
       \/ Settled(c) /\ (join[Parent[c]] = "done" \/ Settled(Parent[c]))

\* Whoever empties the scope has waited for all that is in it.
WaitsForAll ==
  \A o \in Task :
    /\ HeldByJoin(o) => \A c \in children[o] : c \in unseen[o] \/ Settled(c)
    /\ body[o] = "leaving" /\ ~ HeldByJoin(o) => \A c \in children[o] : c \in toWait[o] \/ Settled(c)

\* A join without a failure so far has only seen successes; at its end it has seen all.
SeenSucceeded ==
  /\ \A o \in Task : join[o] = "done" => unseen[o] = {}
  /\ \A c \in owned :
       join[Parent[c]] # "none" /\ ~ joinFailed[Parent[c]] =>
         c \in unseen[Parent[c]] \/ (Settled(c) /\ ~ Fails(c))

\* A deadline's walk has closed the scope and has every active child before it.
DeadlineWalk ==
  /\ \A o \in Task : deadline[o] \in {"cancelling", "done"} => closed[o]
  /\ \A c \in owned :
       LET o == Parent[c] IN
       /\ deadline[o] = "cancelling" => c \in toCancel[o]["deadline"] \/ Settled(c) \/ cancelled[c]
       /\ deadline[o] = "done" => Settled(c) \/ cancelled[c]

IInv ==
  /\ TypeOK /\ OneEagerCall /\ JoinEndsBlock /\ OwnedIsKept
  /\ WaitsForAll /\ SeenSucceeded /\ DeadlineWalk

USE DEF IInv, TypeOK, OneEagerCall, JoinEndsBlock, OwnedIsKept, WaitsForAll, SeenSucceeded, DeadlineWalk

LEMMA InitInv == Init => IInv
  BY DEF Init, Bodies, Walkers

-----------------------------------------------------------------------------
(* What the shared parts of the steps do.                                  *)

\* Leaving a block takes the snapshot of CancelAndWait and touches nobody else.
LEMMA DestroyFacts ==
  ASSUME TypeOK, NEW t \in Task, NEW res \in {"value", "failed"}, Destroy(t, res)
  PROVE  /\ result' \in [Task -> {"none", "value", "failed"}]
         /\ closed' \in [Task -> BOOLEAN]
         /\ toCancel' \in [Task -> [Walkers -> SUBSET Task]]
         /\ toWait' \in [Task -> SUBSET Task]
         /\ body' \in [Task -> Bodies]
         /\ body'[t] = "leaving" /\ closed'[t]
         /\ \A s \in Task \ {t} : body'[s] = body[s] /\ toWait'[s] = toWait[s] /\ result'[s] = result[s]
         /\ \A s \in Task : closed[s] => closed'[s]
         /\ \A s \in Task : toCancel'[s]["deadline"] = toCancel[s]["deadline"]
         /\ ~ HeldByJoin(t) => toWait'[t] = children[t]
<1>1. result' \in [Task -> {"none", "value", "failed"}] /\ closed' \in [Task -> BOOLEAN]
  BY DEF Destroy
<1>2. toCancel' \in [Task -> [Walkers -> SUBSET Task]]
      /\ \A s \in Task : toCancel'[s]["deadline"] = toCancel[s]["deadline"]
  BY DEF Destroy, Walkers
<1>3. toWait' \in [Task -> SUBSET Task] /\ body' \in [Task -> Bodies]
  BY DEF Destroy, Bodies
<1>. QED BY <1>1, <1>2, <1>3 DEF Destroy

\* Cancelling a child flags it, unless it has settled, and at most makes it ready.
LEMMA CancelFacts ==
  ASSUME TypeOK, NEW c \in Task, CancelTask(c)
  PROVE  /\ cancelled' \in [Task -> BOOLEAN] /\ body' \in [Task -> Bodies]
         /\ \A s \in Task : cancelled[s] => cancelled'[s]
         /\ \A s \in Task : Settled(s) => cancelled'[s] = cancelled[s]
         /\ Settled(c) \/ cancelled'[c]
         /\ \A s \in Task : \/ body'[s] = body[s]
                            \/ body[s] \in {"suspended", "joining"} /\ body'[s] = "ready"
<1>1. CASE Settled(c) \/ cancelled[c]
  BY <1>1 DEF CancelTask
<1>2. CASE ~ (Settled(c) \/ cancelled[c])
  <2>1. /\ cancelled' = [cancelled EXCEPT ![c] = TRUE]
        /\ body' = [body EXCEPT ![c] = IF body[c] \in {"suspended", "joining"} THEN "ready" ELSE body[c]]
    BY <1>2 DEF CancelTask
  <2>. QED BY <1>2, <2>1 DEF Bodies
<1>. QED BY <1>1, <1>2

-----------------------------------------------------------------------------
(* Every step preserves the invariant.                                     *)

LEMMA CallInv ==
  ASSUME IInv, NEW t \in Task, Call(t)
  PROVE  IInv'
  BY DEF Begin, Call, Bodies, Walkers, Fails

LEMMA EventInv ==
  ASSUME IInv, NEW t \in Task, Event(t)
  PROVE  IInv'
  BY DEF Event, Bodies, Fails

LEMMA ResumeInv ==
  ASSUME IInv, NEW t \in Task, Resume(t)
  PROVE  IInv'
  BY DEF Resume, Bodies, Fails

LEMMA ExpireInv ==
  ASSUME IInv, NEW o \in Task, Expire(o)
  PROVE  IInv'
  BY DEF Expire, Walkers, Fails

LEMMA ExpiredInv ==
  ASSUME IInv, NEW o \in Task, Expired(o)
  PROVE  IInv'
  BY DEF Expired, Fails

LEMMA SiblingsCancelledInv ==
  ASSUME IInv, NEW o \in Task, SiblingsCancelled(o)
  PROVE  IInv'
  BY DEF SiblingsCancelled, Fails

LEMMA JoinResumeInv ==
  ASSUME IInv, NEW o \in Task, JoinResume(o)
  PROVE  IInv'
  BY DEF JoinResume, Fails

-----------------------------------------------------------------------------
(* The others, one conjunct at a time.                                     *)

HIDE DEF IInv, TypeOK, OneEagerCall, JoinEndsBlock, OwnedIsKept, WaitsForAll, SeenSucceeded, DeadlineWalk

LEMMA SuspendInv ==
  ASSUME IInv, NEW t \in Task, Suspend(t)
  PROVE  IInv'
<1>. USE DEF IInv, Suspend, Yield
<1>1. TypeOK'
  BY DEF TypeOK, Bodies, Walkers
<1>2. OneEagerCall'
  BY DEF OneEagerCall, TypeOK
<1>3. JoinEndsBlock'
  BY DEF JoinEndsBlock, OneEagerCall, TypeOK
<1>4. OwnedIsKept'
  BY DEF OwnedIsKept, OneEagerCall, TypeOK
<1>5. WaitsForAll'
  BY DEF WaitsForAll, OneEagerCall, TypeOK
<1>6. SeenSucceeded'
  BY DEF SeenSucceeded, OwnedIsKept, OneEagerCall, TypeOK, Fails
<1>7. DeadlineWalk'
  BY DEF DeadlineWalk, OwnedIsKept, OneEagerCall, TypeOK
<1>. QED BY <1>1, <1>2, <1>3, <1>4, <1>5, <1>6, <1>7

\* Every way of leaving the block.
LEMMA DestroyInv ==
  ASSUME IInv, NEW t \in Task, NEW res \in {"value", "failed"}, Destroy(t, res),
         body[t] \in {"running", "adding", "resuming"}, refused' \in SUBSET Task,
         UNCHANGED <<onPool, eager, cancelled, children, owned, joinVars, deadline>>
  PROVE  IInv'
<1>. USE DEF IInv, Destroy
<1>1. TypeOK'
  BY DEF TypeOK, Bodies, Walkers
<1>2. OneEagerCall'
  BY DEF OneEagerCall, TypeOK
<1>3. JoinEndsBlock'
  BY DEF JoinEndsBlock, TypeOK
<1>4. OwnedIsKept'
  BY DEF OwnedIsKept, TypeOK
<1>5. WaitsForAll'
  BY DEF WaitsForAll, TypeOK
<1>6. SeenSucceeded'
  BY DEF SeenSucceeded, OwnedIsKept, TypeOK, Fails
<1>7. DeadlineWalk'
  BY DEF DeadlineWalk, OwnedIsKept, TypeOK
<1>. QED BY <1>1, <1>2, <1>3, <1>4, <1>5, <1>6, <1>7

LEMMA LeaveEarlyInv ==
  ASSUME IInv, NEW t \in Task, LeaveEarly(t)
  PROVE  IInv'
<1>1. refused' \in SUBSET Task
  BY DEF LeaveEarly, IInv, TypeOK
<1>. QED BY <1>1, DestroyInv DEF LeaveEarly

LEMMA AwaitResumeInv ==
  ASSUME IInv, NEW t \in Task, AwaitResume(t)
  PROVE  IInv'
<1>1. CASE /\ join[t] = "none" /\ body' = [body EXCEPT ![t] = "running"]
           /\ UNCHANGED <<result, closed, toCancel, toWait>>
  <2>. USE DEF IInv
  <2>1. TypeOK'
    BY <1>1 DEF TypeOK, Bodies, Walkers, AwaitResume
  <2>2. OneEagerCall'
    BY <1>1 DEF OneEagerCall, TypeOK, AwaitResume
  <2>3. JoinEndsBlock'
    BY <1>1 DEF JoinEndsBlock, TypeOK, AwaitResume
  <2>4. OwnedIsKept'
    BY <1>1 DEF OwnedIsKept, TypeOK, AwaitResume
  <2>5. WaitsForAll'
    BY <1>1 DEF WaitsForAll, TypeOK, AwaitResume
  <2>6. SeenSucceeded'
    BY <1>1 DEF SeenSucceeded, OwnedIsKept, TypeOK, Fails, AwaitResume
  <2>7. DeadlineWalk'
    BY <1>1 DEF DeadlineWalk, OwnedIsKept, TypeOK, AwaitResume
  <2>. QED BY <2>1, <2>2, <2>3, <2>4, <2>5, <2>6, <2>7
<1>2. CASE \E res \in {"value", "failed"} : Destroy(t, res)
  <2>1. refused' \in SUBSET Task
    BY DEF AwaitResume, IInv, TypeOK
  <2>. QED BY <1>2, <2>1, DestroyInv DEF AwaitResume
<1>. QED BY <1>1, <1>2 DEF AwaitResume

LEMMA LeaveInv ==
  ASSUME IInv, NEW t \in Task, Leave(t)
  PROVE  IInv'
<1>. USE DEF IInv, Leave, Yield, AllWaited, Cleared, Awaits
<1>1. TypeOK'
  BY DEF TypeOK, Bodies, Walkers
<1>2. OneEagerCall'
  BY DEF OneEagerCall, TypeOK
<1>3. JoinEndsBlock'
  BY DEF JoinEndsBlock, OneEagerCall, TypeOK
<1>4. OwnedIsKept'
  BY DEF OwnedIsKept, WaitsForAll, OneEagerCall, TypeOK
<1>5. WaitsForAll'
  BY DEF WaitsForAll, OneEagerCall, TypeOK
<1>6. SeenSucceeded'
  BY DEF SeenSucceeded, OwnedIsKept, OneEagerCall, TypeOK, Fails
<1>7. DeadlineWalk'
  BY DEF DeadlineWalk, OwnedIsKept, OneEagerCall, TypeOK
<1>. QED BY <1>1, <1>2, <1>3, <1>4, <1>5, <1>6, <1>7

LEMMA CancelInv ==
  ASSUME IInv, NEW t \in Task, Cancel(t)
  PROVE  IInv'
<1>. USE DEF IInv, Cancel
<1>1. /\ ~ Settled(t) /\ cancelled' = [cancelled EXCEPT ![t] = TRUE]
      /\ body' = [body EXCEPT ![t] = IF body[t] \in {"suspended", "joining"} THEN "ready" ELSE body[t]]
  BY DEF CancelTask
<1>2. TypeOK'
  BY <1>1 DEF TypeOK, Bodies
<1>3. OneEagerCall'
  BY <1>1 DEF OneEagerCall, TypeOK
<1>4. JoinEndsBlock'
  BY <1>1 DEF JoinEndsBlock, TypeOK
<1>5. OwnedIsKept'
  BY <1>1 DEF OwnedIsKept, TypeOK
<1>6. WaitsForAll'
  BY <1>1 DEF WaitsForAll, TypeOK
<1>7. SeenSucceeded'
  BY <1>1 DEF SeenSucceeded, OwnedIsKept, TypeOK, Fails
<1>8. DeadlineWalk'
  BY <1>1 DEF DeadlineWalk, OwnedIsKept, TypeOK
<1>. QED BY <1>2, <1>3, <1>4, <1>5, <1>6, <1>7, <1>8

LEMMA CancelNextInv ==
  ASSUME IInv, NEW o \in Task, NEW w \in Walkers, CancelNext(o, w)
  PROVE  IInv'
<1>. USE DEF IInv, CancelNext
<1>1. PICK c \in toCancel[o][w] :
        CancelTask(c) /\ toCancel' = [toCancel EXCEPT ![o][w] = @ \ {c}]
  OBVIOUS
<1>2. c \in Task /\ TypeOK
  BY DEF TypeOK
<1>3. toCancel' \in [Task -> [Walkers -> SUBSET Task]]
  BY <1>1 DEF TypeOK, Walkers
<1>4. TypeOK'
  BY <1>1, <1>2, <1>3, CancelFacts DEF TypeOK
<1>5. OneEagerCall'
  BY <1>1 DEF CancelTask, OneEagerCall, TypeOK
<1>6. JoinEndsBlock'
  BY <1>1 DEF CancelTask, JoinEndsBlock, TypeOK
<1>7. OwnedIsKept'
  BY <1>1 DEF CancelTask, OwnedIsKept, TypeOK
<1>8. WaitsForAll'
  BY <1>1 DEF CancelTask, WaitsForAll, TypeOK
<1>9. SeenSucceeded'
  BY <1>1 DEF CancelTask, SeenSucceeded, OwnedIsKept, Fails, TypeOK
<1>10. DeadlineWalk'
  BY <1>1, <1>2 DEF CancelTask, DeadlineWalk, OwnedIsKept, TypeOK, Walkers
<1>. QED BY <1>4, <1>5, <1>6, <1>7, <1>8, <1>9, <1>10

LEMMA SpawnInv ==
  ASSUME IInv, NEW o \in Task, NEW c \in Task, Spawn(o, c)
  PROVE  IInv'
<1>. USE DEF IInv
<1>1. /\ body[o] = "running" /\ body[c] = "absent" /\ Parent[c] = o
      /\ body' = [body EXCEPT ![o] = "calling", ![c] = "running"]
      /\ eager' = eager \cup {c}
      /\ deadline' = [deadline EXCEPT ![c] = IF c \in Deadlines THEN "armed" ELSE "none"]
      /\ onPool' = [onPool EXCEPT ![c] = onPool[o]]
      /\ UNCHANGED <<cancelled, result, scopeVars, toCancel, toWait, joinVars>>
  BY DEF Spawn, Begin, Kids
<1>2. \A s \in Task : body[s] \in {"leaving", "settled"} \/ body'[s] \in {"leaving", "settled"} => body'[s] = body[s]
  BY <1>1 DEF TypeOK, Bodies
<1>3. \A s \in Task : /\ Settled(s)' = Settled(s) /\ HeldByJoin(s)' = HeldByJoin(s)
                      /\ (body'[s] = "leaving") = (body[s] = "leaving")
  BY <1>1, <1>2
<1>4. TypeOK'
  BY <1>1, <1>2 DEF TypeOK, Bodies
<1>5. OneEagerCall'
  BY <1>1, <1>2, <1>3 DEF OneEagerCall, TypeOK
<1>6. JoinEndsBlock'
  BY <1>1, <1>2, <1>3 DEF JoinEndsBlock, TypeOK
<1>7. OwnedIsKept'
  BY <1>1, <1>2, <1>3 DEF OwnedIsKept, TypeOK
<1>8. WaitsForAll'
  BY <1>1, <1>3 DEF TypeOK, WaitsForAll
<1>9. SeenSucceeded'
  BY <1>1, <1>2, <1>3 DEF SeenSucceeded, OwnedIsKept, TypeOK, Fails
<1>10. DeadlineWalk'
  BY <1>1, <1>2, <1>3 DEF DeadlineWalk, OwnedIsKept, TypeOK
<1>. QED BY <1>4, <1>5, <1>6, <1>7, <1>8, <1>9, <1>10

LEMMA AddInv ==
  ASSUME IInv, NEW o \in Task, Add(o)
  PROVE  IInv'
<1>1. PICK c \in Kids(o) :
        IF ~ closed[o]
        THEN /\ children' = [children EXCEPT ![o] = @ \cup {c}]
             /\ owned' = owned \cup {c}
             /\ body' = [body EXCEPT ![o] = "running"]
             /\ UNCHANGED <<refused, result, closed, toCancel, toWait>>
        ELSE /\ refused' = refused \cup {c}
             /\ Destroy(o, "failed")
             /\ UNCHANGED <<children, owned>>
  BY DEF Add, MayAdd
<1>2. c \in Task /\ Parent[c] = o
  BY DEF Kids
<1>3. body[o] = "adding" /\ UNCHANGED <<onPool, eager, cancelled, joinVars, deadline>>
  BY DEF Add
<1>4. CASE ~ closed[o]
  <2>1. /\ children' = [children EXCEPT ![o] = @ \cup {c}]
        /\ owned' = owned \cup {c}
        /\ body' = [body EXCEPT ![o] = "running"]
        /\ UNCHANGED <<refused, result, closed, toCancel, toWait>>
    BY <1>1, <1>4
  <2>. USE DEF IInv
  <2>2. TypeOK'
    BY <1>2, <1>3, <1>4, <2>1 DEF TypeOK, Bodies, Walkers
  <2>3. OneEagerCall'
    BY <1>2, <1>3, <1>4, <2>1 DEF OneEagerCall, TypeOK
  <2>4. JoinEndsBlock'
    BY <1>2, <1>3, <1>4, <2>1 DEF JoinEndsBlock, TypeOK
  <2>5. OwnedIsKept'
    BY <1>2, <1>3, <1>4, <2>1 DEF OwnedIsKept, TypeOK
  <2>6. WaitsForAll'
    BY <1>2, <1>3, <1>4, <2>1 DEF JoinEndsBlock, WaitsForAll, TypeOK
  <2>7. SeenSucceeded'
    BY <1>2, <1>3, <1>4, <2>1 DEF JoinEndsBlock, SeenSucceeded, OwnedIsKept, TypeOK, Fails
  <2>8. DeadlineWalk'
    BY <1>2, <1>3, <1>4, <2>1 DEF DeadlineWalk, OwnedIsKept, TypeOK
  <2>. QED BY <2>2, <2>3, <2>4, <2>5, <2>6, <2>7, <2>8
<1>5. CASE closed[o]
  <2>1. refused' \in SUBSET Task
    BY <1>1, <1>2, <1>5 DEF IInv, TypeOK
  <2>. QED BY <1>1, <1>3, <1>5, <2>1, DestroyInv
<1>. QED BY <1>4, <1>5

LEMMA EndOfBlockInv ==
  ASSUME IInv, NEW o \in Task, EndOfBlock(o)
  PROVE  IInv'
<1>1. CASE Destroy(o, "value") /\ UNCHANGED <<join, joined, unseen>>
  <2>1. refused' \in SUBSET Task
    BY DEF EndOfBlock, IInv, TypeOK
  <2>. QED BY <1>1, <2>1, DestroyInv DEF EndOfBlock
<1>2. CASE /\ body' = [body EXCEPT ![o] = "entering"]
           /\ join' = [join EXCEPT ![o] = "looking"]
           /\ closed' = [closed EXCEPT ![o] = TRUE]
           /\ joined' = [joined EXCEPT ![o] = children[o]]
           /\ unseen' = [unseen EXCEPT ![o] = children[o]]
           /\ UNCHANGED <<result, toCancel, toWait>>
  <2>1. body[o] = "running"
        /\ UNCHANGED <<onPool, eager, cancelled, children, owned, refused, joinFailed, deadline>>
    BY DEF EndOfBlock
  <2>. USE DEF IInv
  <2>2. TypeOK'
    BY <1>2, <2>1 DEF TypeOK, Bodies, Walkers
  <2>3. OneEagerCall'
    BY <1>2, <2>1 DEF OneEagerCall, TypeOK
  <2>4. JoinEndsBlock'
    BY <1>2, <2>1 DEF JoinEndsBlock, TypeOK
  <2>5. OwnedIsKept'
    BY <1>2, <2>1 DEF JoinEndsBlock, OwnedIsKept, TypeOK
  <2>6. WaitsForAll'
    BY <1>2, <2>1 DEF WaitsForAll, TypeOK
  <2>7. SeenSucceeded'
    BY <1>2, <2>1 DEF SeenSucceeded, OwnedIsKept, TypeOK, Fails
  <2>8. DeadlineWalk'
    BY <1>2, <2>1 DEF DeadlineWalk, OwnedIsKept, TypeOK
  <2>. QED BY <2>2, <2>3, <2>4, <2>5, <2>6, <2>7, <2>8
<1>. QED BY <1>1, <1>2 DEF EndOfBlock

LEMMA ObserveInv ==
  ASSUME IInv, NEW o \in Task, Observe(o)
  PROVE  IInv'
<1>. USE DEF IInv
<1>1. PICK c \in unseen[o] :
        /\ Settled(c)
        /\ unseen' = [unseen EXCEPT ![o] = @ \ {c}]
        /\ IF Fails(c) /\ ~ joinFailed[o]
           THEN /\ joinFailed' = [joinFailed EXCEPT ![o] = TRUE]
                /\ join' = [join EXCEPT ![o] = "cancelling"]
                /\ toCancel' = [toCancel EXCEPT ![o]["join"] = joined[o]]
           ELSE UNCHANGED <<joinFailed, join, toCancel>>
  BY DEF Observe, Rethrows, Next1
<1>2. join[o] = "looking" /\ c \in Task
      /\ UNCHANGED <<body, onPool, eager, cancelled, result, scopeVars, toWait, joined, deadline>>
  BY DEF Observe, TypeOK
<1>3. /\ toCancel' \in [Task -> [Walkers -> SUBSET Task]]
      /\ \A s \in Task : toCancel'[s]["deadline"] = toCancel[s]["deadline"]
  <2>1. CASE Fails(c) /\ ~ joinFailed[o]
    <3>1. toCancel' = [toCancel EXCEPT ![o]["join"] = joined[o]]
      BY <1>1, <2>1
    <3>. QED BY <3>1 DEF TypeOK, Walkers
  <2>2. CASE ~ (Fails(c) /\ ~ joinFailed[o])
    BY <1>1, <1>2, <2>2 DEF TypeOK
  <2>. QED BY <2>1, <2>2
<1>4. join' \in [Task -> {"none", "looking", "cancelling", "waiting", "ready", "done"}]
      /\ joinFailed' \in [Task -> BOOLEAN] /\ unseen' \in [Task -> SUBSET Task]
      /\ (\A s \in Task : HeldByJoin(s) = HeldByJoin(s)')
  <2>1. unseen' \in [Task -> SUBSET Task]
    <3>1. unseen \in [Task -> SUBSET Task]
      BY DEF TypeOK
    <3>2. unseen' = [unseen EXCEPT ![o] = unseen[o] \ {c}] /\ unseen[o] \ {c} \in SUBSET Task
      BY <1>1, <3>1
    <3>. QED BY <3>1, <3>2
  <2>2. \/ UNCHANGED <<join, joinFailed>>
        \/ /\ joinFailed' = [joinFailed EXCEPT ![o] = TRUE]
           /\ join' = [join EXCEPT ![o] = "cancelling"]
    BY <1>1
  <2>3. /\ join \in [Task -> {"none", "looking", "cancelling", "waiting", "ready", "done"}]
        /\ joinFailed \in [Task -> BOOLEAN]
    BY DEF TypeOK
  <2>4. \A s \in Task : HeldByJoin(s) = HeldByJoin(s)'
    BY <1>2, <2>2, <2>3
  <2>. QED BY <2>1, <2>2, <2>3, <2>4
<1>5. TypeOK'
  BY <1>1, <1>2, <1>3, <1>4 DEF TypeOK, Bodies, Walkers
<1>6. OneEagerCall'
  BY <1>1, <1>2, <1>3, <1>4 DEF OneEagerCall, TypeOK
<1>7. JoinEndsBlock'
  BY <1>1, <1>2, <1>3, <1>4 DEF JoinEndsBlock, TypeOK
<1>8. OwnedIsKept'
  BY <1>1, <1>2, <1>3, <1>4 DEF OwnedIsKept, TypeOK
<1>9. WaitsForAll'
  BY <1>1, <1>2, <1>3, <1>4 DEF WaitsForAll, TypeOK
<1>10. SeenSucceeded'
  BY <1>1, <1>2, <1>3, <1>4 DEF SeenSucceeded, OwnedIsKept, TypeOK, Fails
<1>11. DeadlineWalk'
  BY <1>1, <1>2, <1>3, <1>4 DEF DeadlineWalk, OwnedIsKept, TypeOK
<1>. QED BY <1>5, <1>6, <1>7, <1>8, <1>9, <1>10, <1>11

LEMMA JoinEndInv ==
  ASSUME IInv, NEW o \in Task, JoinEnd(o)
  PROVE  IInv'
<1>. USE DEF IInv, JoinEnd
<1>1. TypeOK'
  BY DEF TypeOK, Bodies, Walkers
<1>2. OneEagerCall'
  BY DEF OneEagerCall, TypeOK
<1>3. JoinEndsBlock'
  BY DEF JoinEndsBlock, TypeOK
<1>4. OwnedIsKept'
  BY DEF OwnedIsKept, WaitsForAll, TypeOK
<1>5. WaitsForAll'
  BY DEF WaitsForAll, TypeOK
<1>6. SeenSucceeded'
  BY DEF SeenSucceeded, OwnedIsKept, TypeOK, Fails
<1>7. DeadlineWalk'
  BY DEF DeadlineWalk, OwnedIsKept, TypeOK
<1>. QED BY <1>1, <1>2, <1>3, <1>4, <1>5, <1>6, <1>7

LEMMA JoinSuspendInv ==
  ASSUME IInv, NEW o \in Task, JoinSuspend(o)
  PROVE  IInv'
<1>. USE DEF IInv
<1>1. /\ join[o] = "looking" /\ join' = [join EXCEPT ![o] = "waiting"]
      /\ UNCHANGED <<onPool, cancelled, result, scopeVars, toCancel, toWait, joined, unseen,
                     joinFailed, deadline>>
  BY DEF JoinSuspend
<1>2. /\ body' \in [Task -> Bodies] /\ eager' \in SUBSET eager
      /\ \A s \in Task : \/ body'[s] = body[s]
                         \/ body[s] = "entering" /\ body'[s] \in {"resuming", "joining"}
                         \/ body[s] = "calling" /\ body'[s] = "adding"
      /\ \A c \in eager' : Parent[c] \in Task => body'[Parent[c]] = "calling"
  <2>1. CASE UNCHANGED <<body, eager>>
    BY <2>1 DEF TypeOK, OneEagerCall
  <2>2. CASE body[o] = "entering" /\ body' = [body EXCEPT ![o] = "resuming"] /\ UNCHANGED eager
    BY <2>2 DEF TypeOK, OneEagerCall, Bodies
  <2>3. CASE body[o] = "entering" /\ Yield(o, "joining")
    BY <2>3 DEF Yield, TypeOK, OneEagerCall, Bodies
  <2>. QED BY <2>1, <2>2, <2>3 DEF JoinSuspend
<1>3. \A s \in Task : /\ Settled(s)' = Settled(s) /\ HeldByJoin(s)' = HeldByJoin(s)
                      /\ (body'[s] = "leaving") = (body[s] = "leaving")
  BY <1>1, <1>2 DEF TypeOK
<1>4. body[o] \notin {"absent", "running", "calling", "adding", "suspended"}
  BY <1>1 DEF JoinEndsBlock
<1>5. body'[o] \notin {"absent", "running", "calling", "adding", "suspended"}
      /\ (\A s \in Task \ {o} : join'[s] = join[s]) /\ closed[o]
  BY <1>1, <1>2, <1>4 DEF JoinEndsBlock
<1>6. TypeOK'
  BY <1>1, <1>2, <1>3 DEF TypeOK
<1>7. OneEagerCall'
  BY <1>1, <1>2, <1>3, <1>4, <1>5 DEF OneEagerCall, TypeOK
<1>8. JoinEndsBlock'
  BY <1>1, <1>2, <1>5 DEF JoinEndsBlock
<1>9. OwnedIsKept'
  BY <1>1, <1>2, <1>3, <1>4, <1>5 DEF OwnedIsKept, TypeOK
<1>10. WaitsForAll'
  BY <1>1, <1>2, <1>3, <1>4, <1>5 DEF WaitsForAll, TypeOK
<1>11. SeenSucceeded'
  BY <1>1, <1>2, <1>3, <1>4, <1>5 DEF SeenSucceeded, OwnedIsKept, TypeOK, Fails
<1>12. DeadlineWalk'
  BY <1>1, <1>2, <1>3, <1>4, <1>5 DEF DeadlineWalk, OwnedIsKept, TypeOK
<1>. QED BY <1>6, <1>7, <1>8, <1>9, <1>10, <1>11, <1>12

-----------------------------------------------------------------------------
(* The theorems.                                                           *)

LEMMA NextInv == IInv /\ [Next]_vars => IInv'
<1>. SUFFICES ASSUME IInv, [Next]_vars PROVE IInv'
  OBVIOUS
<1>1. CASE Quiescent \/ UNCHANGED vars
  BY <1>1 DEF Quiescent, vars, IInv, TypeOK, OneEagerCall, JoinEndsBlock, OwnedIsKept, WaitsForAll,
              SeenSucceeded, DeadlineWalk, Fails
<1>2. CASE \E t \in Task : FrameStep(t)
  BY <1>2, SpawnInv, AddInv, SuspendInv, LeaveEarlyInv, AwaitResumeInv, EndOfBlockInv, LeaveInv DEF FrameStep
<1>3. CASE \E t \in Task : JoinStep(t) \/ JoinResume(t)
  BY <1>3, ObserveInv, SiblingsCancelledInv, JoinSuspendInv, JoinEndInv, JoinResumeInv DEF JoinStep
<1>4. CASE \E t \in Task : Call(t) \/ Event(t) \/ Resume(t) \/ Cancel(t)
  BY <1>4, CallInv, EventInv, ResumeInv, CancelInv
<1>5. CASE \E t \in Task : Expire(t) \/ Expired(t) \/ \E w \in Walkers : CancelNext(t, w)
  BY <1>5, ExpireInv, ExpiredInv, CancelNextInv
<1>. QED BY <1>1, <1>2, <1>3, <1>4, <1>5 DEF Next

LEMMA Invariance == Spec => []IInv
  BY InitInv, NextInv, PTL DEF Spec

\* The variables of every reachable state have their types, and a finished scope
\* has let go of its children.
THEOREM TypeCorrect == Spec => []TypeOK
<1>1. IInv => TypeOK
  BY DEF IInv
<1>. QED BY <1>1, Invariance, PTL

\* No accepted child is active once its scope's task has settled and its join has
\* ended: CloseAndSnapshot under the lock, CancelAndWait and Join leave none behind.
THEOREM ChildrenSettle == Spec => []ChildrenSettleFirst
<1>1. IInv => ChildrenSettleFirst
  BY DEF IInv, TypeOK, OwnedIsKept, ChildrenSettleFirst
<1>. QED BY <1>1, Invariance, PTL

\* AsyncScopeJoin returns normally only if every child succeeded.
THEOREM JoinTellsFailures == Spec => []JoinReportsFailures
<1>1. IInv => JoinReportsFailures
  <2>. SUFFICES ASSUME IInv, NEW o \in Task, join[o] = "done", ~ joinFailed[o],
                       NEW c \in owned, Parent[c] = o
                PROVE  Settled(c) /\ ~ Fails(c)
    BY DEF JoinReportsFailures
  <2>. QED BY DEF IInv, SeenSucceeded
<1>. QED BY <1>1, Invariance, PTL

\* The walk of an expired deadline reaches every child, whoever spawns meanwhile.
THEOREM DeadlineIsComplete == Spec => []DeadlineReachesAll
<1>1. IInv => DeadlineReachesAll
  BY DEF IInv, DeadlineWalk, DeadlineReachesAll
<1>. QED BY <1>1, Invariance, PTL

-----------------------------------------------------------------------------
(* Nobody waits in vain: the safety half of CancelledTasksSettle.          *)

SuspendedIsWanted == \A o \in Task : body[o] \in {"suspended", "joining"} => ~ cancelled[o]
JoiningIsJoined == \A o \in Task : body[o] \in {"entering", "joining"} => HeldByJoin(o)
JoinIsAwaited == \A o \in Task : join[o] = "waiting" => \E c \in Task : Awaits(o, c) /\ ~ Settled(c)
CallIsEager == \A o \in Task : body[o] = "calling" => \E c \in eager : Parent[c] = o
EagerIsOnThread == \A c \in eager : body[c] \in OnThread
LeavingHasTold ==
  \A o \in Task : body[o] = "leaving" =>
    \A c \in toWait[o] : Settled(c) \/ cancelled[c] \/ c \in toCancel[o]["destroy"]
OwnChildren == \A o \in Task : \A c \in children[o] \cup unseen[o] : Parent[c] = o

Waits ==
  /\ SuspendedIsWanted /\ JoiningIsJoined /\ JoinIsAwaited /\ CallIsEager
  /\ EagerIsOnThread /\ LeavingHasTold /\ OwnChildren

USE DEF Waits

LEMMA InitWaits == Init => Waits
  BY DEF Init, SuspendedIsWanted, JoiningIsJoined, JoinIsAwaited, CallIsEager, EagerIsOnThread,
         LeavingHasTold, OwnChildren

LEMMA WaitsSuffices == IInv /\ Waits => NobodyWaitsInVain
  BY DEF IInv, TypeOK, NobodyWaitsInVain, SuspendedIsWanted, JoiningIsJoined, JoinIsAwaited,
         CallIsEager, EagerIsOnThread, LeavingHasTold

\* A join that waited goes on waiting, as no child of it has settled.
LEMMA StillAwaited ==
  ASSUME JoinIsAwaited, TypeOK,
         \A o \in Task : join'[o] = "waiting" => join[o] = "waiting" /\ unseen'[o] = unseen[o],
         \A s \in Task : Settled(s)' = Settled(s)
  PROVE  JoinIsAwaited'
  BY DEF JoinIsAwaited, Awaits, TypeOK

LEMMA StillTold ==
  ASSUME LeavingHasTold, TypeOK,
         \A o \in Task : body'[o] = "leaving" =>
           /\ body[o] = "leaving" /\ toWait'[o] = toWait[o]
           /\ toCancel'[o]["destroy"] = toCancel[o]["destroy"],
         \A s \in Task : Settled(s) => Settled(s)',
         \A s \in Task : cancelled[s] => cancelled'[s]
  PROVE  LeavingHasTold'
  BY DEF LeavingHasTold, TypeOK

\* Leaving a block changes one frame, whose destructor has told nobody yet.
LEMMA DestroyWaits ==
  ASSUME IInv, Waits, NEW t \in Task, NEW res \in {"value", "failed"}, Destroy(t, res),
         body[t] \in {"running", "adding", "resuming"},
         UNCHANGED <<eager, cancelled, children, joinVars>>
  PROVE  Waits'
<1>1. /\ body' = [body EXCEPT ![t] = "leaving"]
      /\ \A s \in Task : Settled(s)' = Settled(s)
  BY DEF Destroy, IInv, TypeOK
<1>2. /\ \A s \in Task \ {t} : toWait'[s] = toWait[s] /\ toCancel'[s]["destroy"] = toCancel[s]["destroy"]
      /\ toWait'[t] = toCancel'[t]["destroy"]
  BY DEF Destroy, IInv, TypeOK, Walkers
<1>3. SuspendedIsWanted' /\ JoiningIsJoined' /\ OwnChildren'
  BY <1>1 DEF IInv, TypeOK, SuspendedIsWanted, JoiningIsJoined, OwnChildren
<1>4. JoinIsAwaited'
  BY <1>1, StillAwaited DEF IInv
<1>5. CallIsEager'
  BY <1>1 DEF IInv, TypeOK, CallIsEager
<1>6. EagerIsOnThread'
  BY <1>1 DEF IInv, TypeOK, EagerIsOnThread, OnThread
<1>7. LeavingHasTold'
  BY <1>1, <1>2 DEF IInv, TypeOK, LeavingHasTold
<1>. QED BY <1>3, <1>4, <1>5, <1>6, <1>7

LEMMA CallWaits ==
  ASSUME IInv, Waits, NEW t \in Task, Call(t)
  PROVE  Waits'
<1>. USE DEF IInv, TypeOK, Call, Begin
<1>1. SuspendedIsWanted'
  BY DEF SuspendedIsWanted
<1>2. JoiningIsJoined'
  BY DEF JoiningIsJoined, JoinEndsBlock
<1>3. JoinIsAwaited'
  BY DEF JoinIsAwaited, Awaits, OwnChildren, JoinEndsBlock
<1>4. CallIsEager'
  BY DEF CallIsEager, OneEagerCall
<1>5. EagerIsOnThread'
  BY DEF EagerIsOnThread, OnThread, OneEagerCall
<1>6. LeavingHasTold'
  BY DEF LeavingHasTold
<1>7. OwnChildren'
  BY DEF OwnChildren
<1>. QED BY <1>1, <1>2, <1>3, <1>4, <1>5, <1>6, <1>7

LEMMA EventWaits ==
  ASSUME IInv, Waits, NEW t \in Task, Event(t)
  PROVE  Waits'
<1>. USE DEF IInv, TypeOK, Event
<1>1. SuspendedIsWanted'
  BY DEF SuspendedIsWanted
<1>2. JoiningIsJoined'
  BY DEF JoiningIsJoined, JoinEndsBlock
<1>3. JoinIsAwaited'
  BY DEF JoinIsAwaited, Awaits, OwnChildren, JoinEndsBlock
<1>4. CallIsEager'
  BY DEF CallIsEager, OneEagerCall
<1>5. EagerIsOnThread'
  BY DEF EagerIsOnThread, OnThread, OneEagerCall
<1>6. LeavingHasTold'
  BY DEF LeavingHasTold
<1>7. OwnChildren'
  BY DEF OwnChildren
<1>. QED BY <1>1, <1>2, <1>3, <1>4, <1>5, <1>6, <1>7

LEMMA ResumeWaits ==
  ASSUME IInv, Waits, NEW t \in Task, Resume(t)
  PROVE  Waits'
<1>. USE DEF IInv, TypeOK, Resume
<1>1. SuspendedIsWanted'
  BY DEF SuspendedIsWanted
<1>2. JoiningIsJoined'
  BY DEF JoiningIsJoined, JoinEndsBlock
<1>3. JoinIsAwaited'
  BY DEF JoinIsAwaited, Awaits, OwnChildren, JoinEndsBlock
<1>4. CallIsEager'
  BY DEF CallIsEager, OneEagerCall
<1>5. EagerIsOnThread'
  BY DEF EagerIsOnThread, OnThread, OneEagerCall
<1>6. LeavingHasTold'
  BY DEF LeavingHasTold
<1>7. OwnChildren'
  BY DEF OwnChildren
<1>. QED BY <1>1, <1>2, <1>3, <1>4, <1>5, <1>6, <1>7

LEMMA ExpireWaits ==
  ASSUME IInv, Waits, NEW o \in Task, Expire(o)
  PROVE  Waits'
<1>. USE DEF IInv, TypeOK, Expire, Walkers
<1>1. SuspendedIsWanted'
  BY DEF SuspendedIsWanted
<1>2. JoiningIsJoined'
  BY DEF JoiningIsJoined, JoinEndsBlock
<1>3. JoinIsAwaited'
  BY DEF JoinIsAwaited, Awaits, OwnChildren, JoinEndsBlock
<1>4. CallIsEager'
  BY DEF CallIsEager, OneEagerCall
<1>5. EagerIsOnThread'
  BY DEF EagerIsOnThread, OnThread, OneEagerCall
<1>6. LeavingHasTold'
  BY DEF LeavingHasTold
<1>7. OwnChildren'
  BY DEF OwnChildren
<1>. QED BY <1>1, <1>2, <1>3, <1>4, <1>5, <1>6, <1>7

LEMMA ExpiredWaits ==
  ASSUME IInv, Waits, NEW o \in Task, Expired(o)
  PROVE  Waits'
<1>. USE DEF IInv, TypeOK, Expired
<1>1. SuspendedIsWanted'
  BY DEF SuspendedIsWanted
<1>2. JoiningIsJoined'
  BY DEF JoiningIsJoined, JoinEndsBlock
<1>3. JoinIsAwaited'
  BY DEF JoinIsAwaited, Awaits, OwnChildren, JoinEndsBlock
<1>4. CallIsEager'
  BY DEF CallIsEager, OneEagerCall
<1>5. EagerIsOnThread'
  BY DEF EagerIsOnThread, OnThread, OneEagerCall
<1>6. LeavingHasTold'
  BY DEF LeavingHasTold
<1>7. OwnChildren'
  BY DEF OwnChildren
<1>. QED BY <1>1, <1>2, <1>3, <1>4, <1>5, <1>6, <1>7

LEMMA SiblingsCancelledWaits ==
  ASSUME IInv, Waits, NEW o \in Task, SiblingsCancelled(o)
  PROVE  Waits'
<1>. USE DEF IInv, TypeOK, SiblingsCancelled
<1>1. SuspendedIsWanted'
  BY DEF SuspendedIsWanted
<1>2. JoiningIsJoined'
  BY DEF JoiningIsJoined, JoinEndsBlock
<1>3. JoinIsAwaited'
  BY DEF JoinIsAwaited, Awaits, OwnChildren, JoinEndsBlock
<1>4. CallIsEager'
  BY DEF CallIsEager, OneEagerCall
<1>5. EagerIsOnThread'
  BY DEF EagerIsOnThread, OnThread, OneEagerCall
<1>6. LeavingHasTold'
  BY DEF LeavingHasTold
<1>7. OwnChildren'
  BY DEF OwnChildren
<1>. QED BY <1>1, <1>2, <1>3, <1>4, <1>5, <1>6, <1>7

LEMMA JoinResumeWaits ==
  ASSUME IInv, Waits, NEW o \in Task, JoinResume(o)
  PROVE  Waits'
<1>. USE DEF IInv, TypeOK, JoinResume
<1>1. SuspendedIsWanted'
  BY DEF SuspendedIsWanted
<1>2. JoiningIsJoined'
  BY DEF JoiningIsJoined, JoinEndsBlock
<1>3. JoinIsAwaited'
  BY DEF JoinIsAwaited, Awaits, OwnChildren, JoinEndsBlock
<1>4. CallIsEager'
  BY DEF CallIsEager, OneEagerCall
<1>5. EagerIsOnThread'
  BY DEF EagerIsOnThread, OnThread, OneEagerCall
<1>6. LeavingHasTold'
  BY DEF LeavingHasTold
<1>7. OwnChildren'
  BY DEF OwnChildren
<1>. QED BY <1>1, <1>2, <1>3, <1>4, <1>5, <1>6, <1>7

LEMMA SuspendWaits ==
  ASSUME IInv, Waits, NEW t \in Task, Suspend(t)
  PROVE  Waits'
<1>. USE DEF IInv, TypeOK, Suspend, Yield
<1>1. SuspendedIsWanted'
  BY DEF SuspendedIsWanted
<1>2. JoiningIsJoined'
  BY DEF JoiningIsJoined, JoinEndsBlock
<1>3. JoinIsAwaited'
  BY DEF JoinIsAwaited, Awaits, OwnChildren, JoinEndsBlock
<1>4. CallIsEager'
  BY DEF CallIsEager, OneEagerCall
<1>5. EagerIsOnThread'
  BY DEF EagerIsOnThread, OnThread, OneEagerCall
<1>6. LeavingHasTold'
  <2>1. \A s \in Task : (body'[s] = "leaving" => body[s] = "leaving") /\ (Settled(s) => Settled(s)')
    BY DEF OneEagerCall
  <2>. QED BY <2>1, StillTold
<1>7. OwnChildren'
  BY DEF OwnChildren
<1>. QED BY <1>1, <1>2, <1>3, <1>4, <1>5, <1>6, <1>7

LEMMA LeaveWaits ==
  ASSUME IInv, Waits, NEW t \in Task, Leave(t)
  PROVE  Waits'
<1>. USE DEF IInv, TypeOK
<1>1. /\ body[t] = "leaving" /\ body'[t] = "settled" /\ eager' = eager \ {t}
      /\ \A s \in Task \ {t} : body'[s] = IF t \in eager /\ s = Parent[t] THEN "adding" ELSE body[s]
      /\ \A o \in Task : join'[o] = IF Awaits(o, t) THEN "ready" ELSE join[o]
      /\ UNCHANGED <<cancelled, toCancel, toWait, unseen>>
  BY DEF Leave, Yield
<1>2. \A o \in Task : children'[o] \subseteq children[o]
  BY DEF Leave, Cleared
<1>3. \A s \in Task \ {t} : body'[s] = body[s] \/ (body[s] = "calling" /\ body'[s] = "adding")
  BY <1>1 DEF OneEagerCall
<1>4. SuspendedIsWanted'
  BY <1>1, <1>3 DEF SuspendedIsWanted
<1>5. JoiningIsJoined'
  BY DEF JoiningIsJoined, JoinEndsBlock, Leave, Yield, Cleared
<1>6. JoinIsAwaited'
  <2>. SUFFICES ASSUME NEW o \in Task, join'[o] = "waiting"
                PROVE  (\E c \in Task : Awaits(o, c) /\ ~ Settled(c))'
    BY DEF JoinIsAwaited
  <2>1. join[o] = "waiting" /\ ~ Awaits(o, t)
    BY <1>1
  <2>2. PICK c \in Task : Awaits(o, c) /\ ~ Settled(c)
    BY <2>1 DEF JoinIsAwaited
  <2>3. c # t
    BY <2>1, <2>2
  <2>4. ~ Settled(c)'
    BY <1>3, <2>2, <2>3
  <2>5. Awaits(o, c)'
    BY <1>1, <2>1, <2>2 DEF Awaits
  <2>. QED BY <2>4, <2>5
<1>7. CallIsEager'
  BY DEF CallIsEager, OneEagerCall, Leave, Yield, Cleared
<1>8. EagerIsOnThread'
  BY DEF EagerIsOnThread, OnThread, OneEagerCall, Leave, Yield, Cleared
<1>9. LeavingHasTold'
  <2>1. \A s \in Task : (body'[s] = "leaving" => body[s] = "leaving") /\ (Settled(s) => Settled(s)')
    BY <1>1, <1>3
  <2>. QED BY <1>1, <2>1, StillTold
<1>10. OwnChildren'
  BY <1>1, <1>2 DEF OwnChildren
<1>. QED BY <1>4, <1>5, <1>6, <1>7, <1>8, <1>9, <1>10

LEMMA CancelWaits ==
  ASSUME IInv, Waits, NEW t \in Task, Cancel(t)
  PROVE  Waits'
<1>. USE DEF IInv, TypeOK
<1>0. /\ UNCHANGED <<eager, children, toCancel, toWait, joinVars>>
      /\ \A s \in Task : cancelled[s] => cancelled'[s]
      /\ \A s \in Task : \/ body'[s] = body[s]
                         \/ body[s] \in {"suspended", "joining"} /\ body'[s] = "ready"
      /\ \A s \in Task : body'[s] \in {"suspended", "joining"} => cancelled'[s] = cancelled[s]
      /\ \A s \in Task : Settled(s)' = Settled(s)
  <2>1. CancelTask(t) /\ UNCHANGED <<eager, result, children, toCancel, toWait, joinVars>>
    BY DEF Cancel, scopeVars
  <2>2. /\ \A s \in Task : cancelled[s] => cancelled'[s]
        /\ \A s \in Task : s # t => cancelled'[s] = cancelled[s] /\ body'[s] = body[s]
    <3>1. CASE UNCHANGED <<cancelled, body>>
      BY <3>1
    <3>2. CASE ~ UNCHANGED <<cancelled, body>>
      <4>1. /\ cancelled' = [cancelled EXCEPT ![t] = TRUE]
            /\ body' = [body EXCEPT ![t] = IF @ \in {"suspended", "joining"} THEN "ready" ELSE @]
        BY <2>1, <3>2 DEF CancelTask
      <4>. QED BY <4>1
    <3>. QED BY <3>1, <3>2
  <2>3. \/ body'[t] = body[t]
        \/ body[t] \in {"suspended", "joining"} /\ body'[t] = "ready"
    BY <2>1 DEF CancelTask
  <2>4. body'[t] \in {"suspended", "joining"} => cancelled'[t] = cancelled[t]
    BY <2>1 DEF CancelTask
  <2>5. \A s \in Task : Settled(s)' = Settled(s)
    BY <2>1, <2>2, <2>3 DEF Settled
  <2>. QED BY <2>1, <2>2, <2>3, <2>4, <2>5
<1>1. SuspendedIsWanted'
  BY <1>0 DEF SuspendedIsWanted
<1>2. JoiningIsJoined'
  BY <1>0 DEF JoiningIsJoined
<1>3. JoinIsAwaited'
  BY <1>0, StillAwaited
<1>4. CallIsEager'
  BY <1>0 DEF CallIsEager
<1>5. EagerIsOnThread'
  BY <1>0 DEF EagerIsOnThread, OnThread
<1>6. LeavingHasTold'
  BY <1>0, StillTold
<1>7. OwnChildren'
  BY <1>0 DEF OwnChildren
<1>. QED BY <1>1, <1>2, <1>3, <1>4, <1>5, <1>6, <1>7

LEMMA CancelNextWaits ==
  ASSUME IInv, Waits, NEW o \in Task, NEW w \in Walkers, CancelNext(o, w)
  PROVE  Waits'
<1>. USE DEF IInv, TypeOK, CancelNext, CancelTask, Walkers
<1>1. SuspendedIsWanted'
  BY DEF SuspendedIsWanted
<1>2. JoiningIsJoined'
  BY DEF JoiningIsJoined, JoinEndsBlock
<1>3. JoinIsAwaited'
  BY DEF JoinIsAwaited, Awaits, OwnChildren, JoinEndsBlock
<1>4. CallIsEager'
  BY DEF CallIsEager, OneEagerCall
<1>5. EagerIsOnThread'
  BY DEF EagerIsOnThread, OnThread, OneEagerCall
<1>6. LeavingHasTold'
  BY DEF LeavingHasTold
<1>7. OwnChildren'
  BY DEF OwnChildren
<1>. QED BY <1>1, <1>2, <1>3, <1>4, <1>5, <1>6, <1>7

LEMMA SpawnWaits ==
  ASSUME IInv, Waits, NEW o \in Task, NEW c \in Task, Spawn(o, c)
  PROVE  Waits'
<1>. USE DEF IInv, TypeOK
<1>0. /\ body[o] = "running" /\ body[c] = "absent" /\ Parent[c] = o /\ c # o
      /\ body' = [body EXCEPT ![o] = "calling", ![c] = "running"]
      /\ eager' = eager \cup {c}
      /\ UNCHANGED <<cancelled, children, toCancel, toWait, joinVars>>
  BY DEF Spawn, Begin, Kids
<1>1. SuspendedIsWanted'
  BY <1>0 DEF SuspendedIsWanted
<1>2. JoiningIsJoined'
  BY <1>0 DEF JoiningIsJoined
<1>3. JoinIsAwaited'
  <2>1. \A s \in Task : Settled(s)' = Settled(s)
    BY <1>0
  <2>. QED BY <1>0, <2>1, StillAwaited
<1>4. CallIsEager'
  BY <1>0 DEF CallIsEager
<1>5. EagerIsOnThread'
  <2>. SUFFICES ASSUME NEW d \in eager' PROVE body'[d] \in OnThread
    BY DEF EagerIsOnThread
  <2>1. d = c \/ d \in eager
    BY <1>0
  <2>2. d \in Task
    BY <2>1
  <2>. QED BY <1>0, <2>1, <2>2 DEF EagerIsOnThread, OnThread
<1>6. LeavingHasTold'
  <2>1. \A s \in Task : (body'[s] = "leaving" => body[s] = "leaving") /\ (Settled(s) => Settled(s)')
    BY <1>0
  <2>. QED BY <1>0, <2>1, StillTold
<1>7. OwnChildren'
  BY <1>0 DEF OwnChildren
<1>. QED BY <1>1, <1>2, <1>3, <1>4, <1>5, <1>6, <1>7

LEMMA AddWaits ==
  ASSUME IInv, Waits, NEW o \in Task, Add(o)
  PROVE  Waits'
<1>1. PICK c \in Kids(o) :
        IF ~ closed[o]
        THEN /\ children' = [children EXCEPT ![o] = @ \cup {c}]
             /\ body' = [body EXCEPT ![o] = "running"]
             /\ UNCHANGED <<toCancel, toWait>>
        ELSE Destroy(o, "failed") /\ UNCHANGED children
  BY DEF Add, MayAdd
<1>2. body[o] = "adding" /\ UNCHANGED <<eager, cancelled, joinVars>> /\ Parent[c] = o
  BY DEF Add, Kids
<1>3. CASE closed[o]
  BY <1>1, <1>2, <1>3, DestroyWaits
<1>4. CASE ~ closed[o]
  <2>. USE DEF IInv, TypeOK
  <2>1. /\ children' = [children EXCEPT ![o] = @ \cup {c}]
        /\ body' = [body EXCEPT ![o] = "running"]
        /\ UNCHANGED <<toCancel, toWait>>
    BY <1>1, <1>4
  <2>2. \A s \in Task : Settled(s)' = Settled(s) /\ (body'[s] = "leaving" => body[s] = "leaving")
    BY <1>2, <2>1
  <2>3. SuspendedIsWanted' /\ JoiningIsJoined' /\ CallIsEager'
    BY <1>2, <2>1 DEF SuspendedIsWanted, JoiningIsJoined, CallIsEager
  <2>4. EagerIsOnThread'
    BY <1>2, <2>1 DEF EagerIsOnThread, OnThread
  <2>5. OwnChildren'
    BY <1>2, <2>1 DEF OwnChildren
  <2>6. JoinIsAwaited'
    BY <1>2, <2>2, StillAwaited
  <2>7. LeavingHasTold'
    BY <1>2, <2>1, <2>2, StillTold
  <2>. QED BY <2>3, <2>4, <2>5, <2>6, <2>7
<1>. QED BY <1>3, <1>4

LEMMA LeaveEarlyWaits ==
  ASSUME IInv, Waits, NEW t \in Task, LeaveEarly(t)
  PROVE  Waits'
<1>. QED BY DestroyWaits DEF LeaveEarly

LEMMA AwaitResumeWaits ==
  ASSUME IInv, Waits, NEW t \in Task, AwaitResume(t)
  PROVE  Waits'
<1>1. CASE /\ join[t] = "none" /\ body' = [body EXCEPT ![t] = "running"]
           /\ UNCHANGED <<result, closed, toCancel, toWait>>
  <2>. USE DEF IInv, TypeOK
  <2>1. body[t] = "resuming" /\ UNCHANGED <<eager, cancelled, children, joinVars>>
    BY DEF AwaitResume
  <2>2. \A s \in Task : Settled(s)' = Settled(s) /\ (body'[s] = "leaving" => body[s] = "leaving")
    BY <1>1, <2>1
  <2>3. SuspendedIsWanted' /\ JoiningIsJoined' /\ CallIsEager' /\ OwnChildren'
    BY <1>1, <2>1 DEF SuspendedIsWanted, JoiningIsJoined, CallIsEager, OwnChildren
  <2>4. EagerIsOnThread'
    BY <1>1, <2>1 DEF EagerIsOnThread, OnThread
  <2>5. JoinIsAwaited'
    BY <2>1, <2>2, StillAwaited
  <2>6. LeavingHasTold'
    BY <1>1, <2>1, <2>2, StillTold
  <2>. QED BY <2>3, <2>4, <2>5, <2>6
<1>2. CASE \E res \in {"value", "failed"} : Destroy(t, res)
  BY <1>2, DestroyWaits DEF AwaitResume
<1>. QED BY <1>1, <1>2 DEF AwaitResume

LEMMA EndOfBlockWaits ==
  ASSUME IInv, Waits, NEW o \in Task, EndOfBlock(o)
  PROVE  Waits'
<1>1. CASE Destroy(o, "value") /\ UNCHANGED <<join, joined, unseen>>
  BY <1>1, DestroyWaits DEF EndOfBlock
<1>2. CASE /\ body' = [body EXCEPT ![o] = "entering"]
           /\ join' = [join EXCEPT ![o] = "looking"]
           /\ unseen' = [unseen EXCEPT ![o] = children[o]]
           /\ UNCHANGED <<result, toCancel, toWait>>
  <2>. USE DEF IInv, TypeOK
  <2>1. body[o] = "running" /\ UNCHANGED <<eager, cancelled, children>>
    BY DEF EndOfBlock
  <2>2. \A s \in Task : Settled(s)' = Settled(s) /\ (body'[s] = "leaving" => body[s] = "leaving")
    BY <1>2, <2>1
  <2>3. SuspendedIsWanted' /\ JoiningIsJoined' /\ CallIsEager' /\ OwnChildren'
    BY <1>2, <2>1 DEF SuspendedIsWanted, JoiningIsJoined, CallIsEager, OwnChildren
  <2>4. EagerIsOnThread'
    BY <1>2, <2>1 DEF EagerIsOnThread, OnThread
  <2>5. JoinIsAwaited'
    BY <1>2, <2>2, StillAwaited
  <2>6. LeavingHasTold'
    BY <1>2, <2>1, <2>2, StillTold
  <2>. QED BY <2>3, <2>4, <2>5, <2>6
<1>. QED BY <1>1, <1>2 DEF EndOfBlock

LEMMA ObserveWaits ==
  ASSUME IInv, Waits, NEW o \in Task, Observe(o)
  PROVE  Waits'
<1>. USE DEF IInv, TypeOK
<1>1. /\ UNCHANGED <<body, eager, cancelled, children, toWait>>
      /\ join[o] = "looking" /\ \A s \in Task \ {o} : join'[s] = join[s] /\ unseen'[s] = unseen[s]
      /\ join'[o] \in {"looking", "cancelling"} /\ unseen'[o] \subseteq unseen[o]
  BY DEF Observe
<1>2. \A s \in Task : toCancel'[s]["destroy"] = toCancel[s]["destroy"]
  <2>1. toCancel' = [toCancel EXCEPT ![o]["join"] = joined[o]] \/ UNCHANGED toCancel
    BY DEF Observe
  <2>. QED BY <2>1 DEF Walkers
<1>3. SuspendedIsWanted' /\ CallIsEager' /\ EagerIsOnThread'
  BY <1>1 DEF SuspendedIsWanted, CallIsEager, EagerIsOnThread
<1>4. JoiningIsJoined' /\ OwnChildren'
  BY <1>1 DEF JoiningIsJoined, OwnChildren
<1>5. JoinIsAwaited'
  BY <1>1, StillAwaited
<1>6. LeavingHasTold'
  BY <1>1, <1>2, StillTold
<1>. QED BY <1>3, <1>4, <1>5, <1>6

LEMMA JoinSuspendWaits ==
  ASSUME IInv, Waits, NEW o \in Task, JoinSuspend(o)
  PROVE  Waits'
<1>. USE DEF IInv, TypeOK
<1>1. /\ join[o] = "looking" /\ join' = [join EXCEPT ![o] = "waiting"]
      /\ UNCHANGED <<cancelled, children, toCancel, toWait, unseen>>
  BY DEF JoinSuspend
<1>2. PICK c \in Task : Next1(o, c) /\ ~ Settled(c)
  BY DEF JoinSuspend
<1>3. \/ UNCHANGED <<body, eager>> /\ body[o] # "entering"
      \/ /\ body[o] = "entering" /\ UNCHANGED eager
         /\ body' = [body EXCEPT ![o] = "resuming"]
      \/ /\ body[o] = "entering" /\ eager' = eager \ {o} /\ ~ cancelled[o] /\ body'[o] = "joining"
         /\ \A s \in Task \ {o} :
              body'[s] = IF o \in eager /\ s = Parent[o] THEN "adding" ELSE body[s]
  BY DEF JoinSuspend, Yield
<1>4. \A s \in Task \ {o} : \/ body'[s] = body[s]
                          \/ /\ body[s] = "calling" /\ body'[s] = "adding"
                             /\ o \in eager /\ s = Parent[o]
  BY <1>3 DEF OneEagerCall
<1>5. \A s \in Task : Settled(s)' = Settled(s) /\ (body'[s] = "leaving" <=> body[s] = "leaving")
  BY <1>3, <1>4
<1>6. SuspendedIsWanted'
  BY <1>1, <1>3, <1>4 DEF SuspendedIsWanted
<1>7. JoiningIsJoined' /\ OwnChildren'
  BY <1>1, <1>3, <1>4 DEF JoiningIsJoined, OwnChildren
<1>8. JoinIsAwaited'
  <2>. SUFFICES ASSUME NEW s \in Task, join'[s] = "waiting"
                PROVE  (\E d \in Task : Awaits(s, d) /\ ~ Settled(d))'
    BY DEF JoinIsAwaited
  <2>1. CASE s = o
    <3>1. Awaits(o, c)' /\ ~ Settled(c)'
      BY <1>1, <1>2, <1>5 DEF Awaits, Next1, OwnChildren
    <3>. QED BY <2>1, <3>1
  <2>2. CASE s # o
    <3>1. PICK d \in Task : Awaits(s, d) /\ ~ Settled(d)
      BY <1>1, <2>2 DEF JoinIsAwaited
    <3>2. Awaits(s, d)' /\ ~ Settled(d)'
      BY <1>1, <1>5, <2>2, <3>1 DEF Awaits
    <3>. QED BY <3>2
  <2>. QED BY <2>1, <2>2
<1>9. CallIsEager'
  <2>. SUFFICES ASSUME NEW s \in Task, body'[s] = "calling"
                PROVE  \E d \in eager' : Parent[d] = s
    BY DEF CallIsEager
  <2>1. s # o
    BY <1>1, <1>3 DEF JoinEndsBlock
  <2>2. body[s] = "calling"
    BY <1>4, <2>1
  <2>3. (eager' = eager \/ eager' = eager \ {o}) /\ (o \in eager' \/ o \notin eager \/ s # Parent[o])
    BY <1>3, <2>1
  <2>4. PICK d \in eager : Parent[d] = s
    BY <2>2 DEF CallIsEager
  <2>. QED BY <2>3, <2>4
<1>10. EagerIsOnThread'
  <2>. SUFFICES ASSUME NEW d \in eager' PROVE body'[d] \in OnThread
    BY DEF EagerIsOnThread
  <2>1. d \in eager /\ body[d] \in OnThread
    BY <1>3 DEF EagerIsOnThread
  <2>. QED BY <1>3, <1>4, <2>1 DEF OnThread
<1>11. LeavingHasTold'
  BY <1>1, <1>5, StillTold
<1>. QED BY <1>6, <1>7, <1>8, <1>9, <1>10, <1>11

LEMMA JoinEndWaits ==
  ASSUME IInv, Waits, NEW o \in Task, JoinEnd(o)
  PROVE  Waits'
<1>. USE DEF IInv, TypeOK
<1>0. /\ join[o] = "looking" /\ join' = [join EXCEPT ![o] = "done"]
      /\ body' = [body EXCEPT ![o] = CASE @ = "entering" -> "resuming"
                                       [] @ = "joining" -> "ready"
                                       [] OTHER -> @]
      /\ \A s \in Task : children'[s] \subseteq children[s]
      /\ UNCHANGED <<eager, cancelled, toCancel, toWait, unseen>>
  BY DEF JoinEnd
<1>1. \A s \in Task : Settled(s)' = Settled(s) /\ (body'[s] = "leaving" => body[s] = "leaving")
  BY <1>0
<1>2. SuspendedIsWanted' /\ JoiningIsJoined'
  BY <1>0 DEF SuspendedIsWanted, JoiningIsJoined
<1>3. CallIsEager' /\ OwnChildren'
  BY <1>0 DEF CallIsEager, OwnChildren
<1>4. EagerIsOnThread'
  BY <1>0 DEF EagerIsOnThread, OnThread
<1>5. JoinIsAwaited'
  BY <1>0, <1>1, StillAwaited
<1>6. LeavingHasTold'
  BY <1>0, <1>1, StillTold
<1>. QED BY <1>2, <1>3, <1>4, <1>5, <1>6

LEMMA NextWaits == IInv /\ Waits /\ [Next]_vars => Waits'
<1>. SUFFICES ASSUME IInv, Waits, [Next]_vars PROVE Waits'
  OBVIOUS
<1>1. CASE Quiescent \/ UNCHANGED vars
  BY <1>1 DEF Quiescent, vars, SuspendedIsWanted, JoiningIsJoined, JoinIsAwaited, CallIsEager,
              EagerIsOnThread, LeavingHasTold, OwnChildren, Awaits
<1>2. CASE \E t \in Task : FrameStep(t)
  BY <1>2, SpawnWaits, AddWaits, SuspendWaits, LeaveEarlyWaits, AwaitResumeWaits, EndOfBlockWaits,
     LeaveWaits DEF FrameStep
<1>3. CASE \E t \in Task : JoinStep(t) \/ JoinResume(t)
  BY <1>3, ObserveWaits, SiblingsCancelledWaits, JoinSuspendWaits, JoinEndWaits, JoinResumeWaits
     DEF JoinStep
<1>4. CASE \E t \in Task : Call(t) \/ Event(t) \/ Resume(t) \/ Cancel(t)
  BY <1>4, CallWaits, EventWaits, ResumeWaits, CancelWaits
<1>5. CASE \E t \in Task : Expire(t) \/ Expired(t) \/ \E w \in Walkers : CancelNext(t, w)
  BY <1>5, ExpireWaits, ExpiredWaits, CancelNextWaits
<1>. QED BY <1>1, <1>2, <1>3, <1>4, <1>5 DEF Next

\* A cancelled frame is never left suspended, a join waits for an active child that
\* posts it, and a destructor only for children that are told to stop.
THEOREM WaitsEnd == Spec => []NobodyWaitsInVain
  BY InitInv, InitWaits, NextInv, NextWaits, WaitsSuffices, PTL DEF Spec
==============================================================================
