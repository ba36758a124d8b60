------------------------------ MODULE Library_proofs -------------------------
(***************************************************************************)
(* Proofs about the parts of the library and the runtime that queue and    *)
(* join work: Combinators, BlockingChannel, AsyncChannel, MainQueue and    *)
(* RuntimeShutdown, for any number of tasks, calls, values, actions,       *)
(* threads and jobs. Each part is a chapter of its own: the facts and      *)
(* definitions it uses throughout are hidden again at its end.             *)
(***************************************************************************)
EXTENDS Combinators, BlockingChannel, AsyncChannel, MainQueue, RuntimeShutdown,
        FiniteSetTheorems, SequenceTheorems, TLAPS

-----------------------------------------------------------------------------
(* Combinators.                                                            *)

USE CombinatorAssumption DEF combVars, Ready, Leave

-----------------------------------------------------------------------------
(* The inductive invariant.                                                *)

\* Which combinator can be where, and what it knows there: All has seen the tasks before
\* index succeed, the others await a task only when it has settled.
Course ==
  /\ place \in {"scanning", "checking", "sleeping", "resuming"} => kind # "all"
  /\ place = "checking" => kind = "timeout"
  /\ place = "suspended" => kind = "all"
  /\ place \in {"resuming", "awaiting"} /\ kind # "all" => Ready(index) /\ kind # "any"
  /\ kind = "timeout" => index = 1
  /\ kind = "all" => \A i \in Index : i < index => task[i] = "value"

Over == place \in {"ending", "done"}
Leaving == (verdict # "none" => Over) /\ (escaped => Over)

\* NoOrphans, from the moment the body is left.
Told ==
  Over /\ kind # "any" /\ ~escaped => \A i \in Scanned : Ready(i) \/ i \in toldToStop

CombInv == CombTypeOK /\ Course /\ Leaving /\ Told /\ VerdictJustified

USE DEF CombInv

LEMMA IndexFact == 1 \in Index /\ (\A i \in Index : i \in Nat) /\ Scanned \subseteq Index
  BY DEF Index, Scanned

LEMMA CombInitInv == CombInit => CombInv
<1>. SUFFICES ASSUME CombInit PROVE CombInv
  OBVIOUS
<1>. USE IndexFact DEF CombInit
<1>1. CombTypeOK
  <2>1. task \in [Index -> Outcomes \cup {"running"}] /\ toldToStop \in SUBSET Index
    OBVIOUS
  <2>2. kind \in Kinds /\ index \in Index /\ clock \in 0 .. MaxClock
    OBVIOUS
  <2>3. place \in {"scanning", "awaiting"} /\ slept \in BOOLEAN /\ verdict = "none"
    OBVIOUS
  <2>4. stop \in BOOLEAN /\ escaped \in BOOLEAN
    OBVIOUS
  <2>. QED BY <2>1, <2>2, <2>3, <2>4 DEF CombTypeOK
<1>2. Course /\ Leaving /\ Told /\ VerdictJustified
  BY DEF Course, Leaving, Over, Told, VerdictJustified, Index, Kinds
<1>. QED BY <1>1, <1>2

-----------------------------------------------------------------------------
(* The steps of a combinator.                                              *)

LEMMA ScanInv == ASSUME CombInv, Scan PROVE CombInv'
<1>. USE IndexFact DEF Scan
<1>1. NextIndex \in Index /\ (kind = "timeout" => NextIndex = 1)
  BY DEF NextIndex, Scanned, Course, Index, CombTypeOK
<1>2. CombTypeOK'
  BY <1>1 DEF CombTypeOK, Outcomes
<1>3. kind # "all" /\ verdict = "none" /\ ~escaped
  BY DEF Course, Leaving, Over
<1>4. Course'
  BY <1>1, <1>3 DEF Course, Kinds, CombTypeOK
<1>5. Leaving' /\ Told' /\ VerdictJustified'
  BY <1>3 DEF Leaving, Over, Told, VerdictJustified, Scanned
<1>. QED BY <1>2, <1>4, <1>5

LEMMA CheckClockInv == ASSUME CombInv, CheckClock PROVE CombInv'
<1>. USE IndexFact DEF CheckClock, CancelTasks
<1>1. kind = "timeout" /\ verdict = "none" /\ ~escaped
  BY DEF Course, Leaving, Over
<1>2. CombTypeOK'
  BY DEF CombTypeOK, Outcomes
<1>3. Course' /\ Leaving'
  BY <1>1 DEF Course, Leaving, Over
<1>4. Told' /\ VerdictJustified'
  BY <1>1 DEF Told, Over, VerdictJustified, Scanned
<1>. QED BY <1>2, <1>3, <1>4

LEMMA WakeUpInv == ASSUME CombInv, WakeUp PROVE CombInv'
<1>. USE DEF WakeUp
<1>1. kind # "all" /\ verdict = "none"
  BY DEF Course, Leaving, Over
<1>2. CombTypeOK'
  BY DEF CombTypeOK, Outcomes
<1>3. Course' /\ Leaving'
  BY <1>1 DEF Course, Leaving, Over
<1>4. Told' /\ VerdictJustified'
  BY <1>1 DEF Told, Over, VerdictJustified
<1>. QED BY <1>2, <1>3, <1>4

LEMMA SuspendInv == ASSUME CombInv, Suspend PROVE CombInv'
<1>. USE DEF Suspend
<1>1. kind = "all" /\ verdict = "none"
  BY DEF Course, Leaving, Over, Kinds, CombTypeOK
<1>. QED BY <1>1 DEF CombTypeOK, Course, Leaving, Over, Told, VerdictJustified

\* An await that failed: All and Race have told every task, Timeout's has settled.
LEMMA FailInv ==
  ASSUME CombInv, NEW v \in Outcomes \ {"value"}, place \in {"awaiting", "suspended"},
         kind = "all" \/ Ready(index), Fail(v), UNCHANGED <<kind, task, slept, stop, clock>>
  PROVE  CombInv'
<1>. USE IndexFact DEF Fail, CancelTasks
<1>1. kind # "any" /\ verdict = "none"
  BY DEF Course, Leaving, Over
<1>2. CombTypeOK'
  BY DEF CombTypeOK, Outcomes
<1>3. Course' /\ Leaving'
  BY <1>1 DEF Course, Leaving, Over
<1>4. kind \in {"all", "race", "select", "timeout"} /\ (kind = "timeout" => index = 1)
  BY <1>1 DEF CombTypeOK, Kinds, Course
<1>5. Told'
  BY <1>4 DEF Told, Over, Scanned
<1>6. VerdictJustified'
  BY <1>1 DEF VerdictJustified, Outcomes
<1>. QED BY <1>2, <1>3, <1>5, <1>6

LEMMA ProceedInv ==
  ASSUME CombInv, place \in {"awaiting", "suspended"}, Succeeded(index), Proceed,
         UNCHANGED <<kind, task, slept, stop, clock>>
  PROVE  CombInv'
<1>. USE IndexFact DEF Proceed, CancelTasks, Succeeded
<1>1. kind # "any" /\ verdict = "none" /\ ~escaped /\ index \in Index
  BY DEF Course, Leaving, Over, CombTypeOK
<1>2. \A i \in Index : kind = "all" /\ i <= index => task[i] = "value"
  BY <1>1 DEF Course, Index
<1>3. CASE kind = "all" /\ index < Tasks
  <2>1. index + 1 \in Index
    BY <1>1, <1>3 DEF Index
  <2>2. CombTypeOK'
    BY <1>3, <2>1 DEF CombTypeOK, Outcomes
  <2>3. Course'
    BY <1>1, <1>2, <1>3 DEF Course, Index
  <2>. QED BY <1>1, <1>3, <2>2, <2>3 DEF Leaving, Over, Told, VerdictJustified
<1>4. CASE ~(kind = "all" /\ index < Tasks)
  <2>1. kind = "all" => \A i \in Index : task[i] = "value"
    BY <1>1, <1>2, <1>4 DEF Index
  <2>2. /\ Leave("value") /\ UNCHANGED <<index, escaped>>
        /\ toldToStop' = toldToStop \cup
             {i \in (IF kind \in {"race", "select"} THEN Index \ {index} ELSE {}) : ~Ready(i)}
    BY <1>1, <1>4 DEF Index
  <2>3. CombTypeOK'
    BY <2>2 DEF CombTypeOK, Outcomes
  <2>4. Course' /\ Leaving'
    BY <1>1, <2>2 DEF Course, Leaving, Over
  <2>5. Told'
    BY <1>1, <2>1, <2>2 DEF Told, Over, Scanned, Course, CombTypeOK, Kinds
  <2>6. VerdictJustified'
    BY <1>1, <2>1, <2>2 DEF VerdictJustified
  <2>. QED BY <2>3, <2>4, <2>5, <2>6
<1>. QED BY <1>3, <1>4

LEMMA ResumeAwaitInv == ASSUME CombInv, ResumeAwait PROVE CombInv'
<1>. USE DEF ResumeAwait
<1>1. CASE Fail("cancelled") /\ place = "suspended"
  BY <1>1, FailInv DEF Outcomes, Course
<1>2. CASE Succeeded(index) /\ Proceed
  BY <1>2, ProceedInv
<1>3. CASE ~Succeeded(index) /\ Ready(index) /\ Fail(task[index])
  BY <1>3, FailInv DEF Outcomes, Succeeded, CombTypeOK
<1>. QED BY <1>1, <1>2, <1>3

LEMMA FinishInv == ASSUME CombInv, Finish PROVE CombInv'
<1>. USE DEF Finish
<1>1. verdict' \in Outcomes \cup {"none", "timeout"}
  BY DEF CombTypeOK, Outcomes
<1>2. CombTypeOK'
  BY <1>1 DEF CombTypeOK
<1>3. Course' /\ Leaving' /\ Told'
  BY DEF Course, Leaving, Over, Told, Scanned
<1>4. VerdictJustified'
  BY DEF VerdictJustified
<1>. QED BY <1>2, <1>3, <1>4

-----------------------------------------------------------------------------
(* The tasks, the caller and time.                                         *)

LEMMA SettleTaskInv ==
  ASSUME CombInv, NEW j \in Index, NEW o \in Outcomes, SettleTask(j, o)
  PROVE  CombInv'
<1>. USE DEF SettleTask
<1>1. /\ task' \in [Index -> Outcomes \cup {"running"}]
      /\ \A i \in Index : task[i] # "running" => task'[i] = task[i]
  BY DEF CombTypeOK, Outcomes
<1>2. CombTypeOK'
  BY <1>1 DEF CombTypeOK
<1>3. Course' /\ Leaving'
  BY <1>1 DEF Course, Leaving, Over, CombTypeOK
<1>4. Told'
  BY <1>1, IndexFact DEF Told, Over, Scanned
<1>5. VerdictJustified'
  BY <1>1, IndexFact DEF VerdictJustified, CombTypeOK
<1>. QED BY <1>2, <1>3, <1>4, <1>5

LEMMA AroundInv == ASSUME CombInv, CancelCombinator \/ Tick PROVE CombInv'
<1>1. CombTypeOK'
  <2>1. clock' \in 0 .. MaxClock
    BY DEF CancelCombinator, Tick, CombTypeOK
  <2>3. stop' \in BOOLEAN
    BY Zenon DEF CancelCombinator, Tick, CombTypeOK
  <2>2. UNCHANGED <<kind, task, toldToStop, place, slept, index, verdict, escaped>>
    BY DEF CancelCombinator, Tick
  <2>. QED BY <2>1, <2>2, <2>3 DEF CombTypeOK
<1>2. Course' /\ Leaving' /\ Told'
  BY DEF CancelCombinator, Tick, Course, Leaving, Over, Told, Scanned
<1>3. VerdictJustified'
  BY DEF CancelCombinator, Tick, VerdictJustified, CombTypeOK
<1>. QED BY <1>1, <1>2, <1>3

LEMMA CombNextInv == CombInv /\ [CombNext]_combVars => CombInv'
<1>. SUFFICES ASSUME CombInv, [CombNext]_combVars PROVE CombInv'
  OBVIOUS
<1>1. CASE UNCHANGED combVars
  BY <1>1 DEF CombTypeOK, Course, Leaving, Over, Told, Scanned, VerdictJustified
<1>. QED
  BY <1>1, ScanInv, CheckClockInv, WakeUpInv, SuspendInv, ResumeAwaitInv, FinishInv,
     SettleTaskInv, AroundInv DEF CombNext, CombStep

LEMMA CombInvariance == CombSpec => []CombInv
  BY CombInitInv, CombNextInv, PTL DEF CombSpec

-----------------------------------------------------------------------------
(* The theorems.                                                           *)

\* The variables of every reachable state have their types.
THEOREM CombTypeCorrect == CombSpec => []CombTypeOK
<1>1. CombInv => CombTypeOK
  OBVIOUS
<1>. QED BY <1>1, CombInvariance, PTL

\* For any number of tasks: whatever way All, Race, Select or Timeout is left, but for its
\* own cancellation in a poll and a Select whose winner fails, each task has settled or
\* was told to stop.
THEOREM NoneIsOrphaned == CombSpec => []NoOrphans
<1>1. CombInv => NoOrphans
  BY DEF NoOrphans, Told, Over
<1>. QED BY <1>1, CombInvariance, PTL

\* For any number of tasks, deadline and interleaving: a value is vouched for by the tasks
\* it came from, and a timeout by the clock and the order to stop.
THEOREM VerdictsAreJustified == CombSpec => []VerdictJustified
<1>1. CombInv => VerdictJustified
  OBVIOUS
<1>. QED BY <1>1, CombInvariance, PTL

HIDE CombinatorAssumption DEF combVars, Ready, Leave, CombInv

-----------------------------------------------------------------------------
(* BlockingChannel.                                                        *)

USE ChannelAssumption DEF Remaining

\* A receiver is in one place only, and has been told nothing while it waits.
OnePlace ==
  /\ asleep \cap notified = {} /\ asleep \cap stirred = {} /\ asleep \cap expired = {}
  /\ notified \cap stirred = {} /\ notified \cap expired = {} /\ stirred \cap expired = {}
  /\ \A r \in asleep \cup Woken : told[r] = "none"
\* The queue holds at most one value of every sender that was accepted.
Accepted == {s \in Source : answer[s] = "accepted"}
QueueBounded == Len(values) <= Cardinality(Accepted)

ChanInv == ChannelTypeOK /\ OnePlace /\ QueueBounded /\ NoForgottenValue

LEMMA SinkFacts ==
  ASSUME ChannelTypeOK
  PROVE  /\ IsFiniteSet(notified) /\ IsFiniteSet(Accepted)
         /\ Cardinality(notified) \in Nat /\ Cardinality(Accepted) \in Nat
         /\ values \in Seq(Source) /\ Len(values) \in Nat
<1>1. notified \subseteq Sink /\ Accepted \subseteq Source
  BY DEF ChannelTypeOK, Accepted
<1>2. IsFiniteSet(notified) /\ IsFiniteSet(Accepted)
  BY <1>1, FS_Subset
<1>. QED BY <1>2, FS_CardinalityType DEF ChannelTypeOK

LEMMA ChanInitInv == ChannelInit => ChanInv
<1>. SUFFICES ASSUME ChannelInit PROVE ChanInv
  OBVIOUS
<1>1. ChannelTypeOK
  <2>1. values \in Seq(Source) /\ dropped \in Nat /\ closed \in BOOLEAN /\ completed \in BOOLEAN
    <3>1. values = <<>> /\ dropped = 0 /\ closed = FALSE /\ completed = FALSE
      BY DEF ChannelInit
    <3>2. <<>> \in Seq(Source) /\ 0 \in Nat
      OBVIOUS
    <3>. QED BY <3>1, <3>2
  <2>2. /\ told \in [Sink -> Source \cup {"none", "end", "timeout"}]
        /\ answer \in [Source -> {"none", "accepted", "refused"}]
    BY DEF ChannelInit
  <2>. QED BY <2>1, <2>2 DEF ChannelInit, ChannelTypeOK
<1>2. OnePlace
  BY DEF ChannelInit, OnePlace, Woken
<1>3. QueueBounded /\ NoForgottenValue
  BY <1>1, SinkFacts DEF ChannelInit, QueueBounded, NoForgottenValue
<1>. QED BY <1>1, <1>2, <1>3 DEF ChanInv

\* A notification moves at most one sleeper.
LEMMA NotifyFact ==
  ASSUME ChannelTypeOK, OnePlace, NotifyOne
  PROVE  /\ asleep' \in SUBSET Sink /\ notified' \in SUBSET Sink
         /\ asleep' \cup notified' = asleep \cup notified /\ asleep' \cap notified' = {}
         /\ asleep' # {} => Cardinality(notified') = Cardinality(notified) + 1
<1>1. CASE asleep = {}
  BY <1>1 DEF NotifyOne, ChannelTypeOK, OnePlace
<1>2. CASE asleep # {}
  <2>1. PICK r \in asleep : asleep' = asleep \ {r} /\ notified' = notified \cup {r}
    BY <1>2 DEF NotifyOne
  <2>2. r \in Sink /\ r \notin notified
    BY <2>1 DEF ChannelTypeOK, OnePlace
  <2>3. Cardinality(notified \cup {r}) = Cardinality(notified) + 1
    BY <2>2, SinkFacts, FS_AddElement
  <2>. QED BY <2>1, <2>2, <2>3 DEF ChannelTypeOK, OnePlace
<1>. QED BY <1>1, <1>2

\* Send: an accepted value wakes a sleeper if there is one.
LEMMA SendInv ==
  ASSUME ChanInv, NEW s \in Source, Send(s), completed' \in BOOLEAN
  PROVE  ChanInv'
<1>. USE DEF ChanInv
<1>1. CASE closed
  <2>1. answer' = [answer EXCEPT ![s] = "refused"] /\ UNCHANGED <<values, asleep, notified>>
    BY <1>1 DEF Send
  <2>2. Accepted' = Accepted
    BY <2>1 DEF Accepted, ChannelTypeOK, Send
  <2>. QED BY <2>1, <2>2 DEF Send, ChannelTypeOK, OnePlace, Woken, QueueBounded, NoForgottenValue
<1>2. CASE ~closed
  <2>1. /\ answer' = [answer EXCEPT ![s] = "accepted"] /\ values' = Append(values, s)
        /\ NotifyOne /\ answer[s] = "none" /\ UNCHANGED <<closed, stirred, expired, told, dropped>>
    BY <1>2 DEF Send
  <2>2. Len(values') = Len(values) + 1 /\ values' \in Seq(Source)
    BY <2>1, SinkFacts
  <2>3. Cardinality(Accepted') = Cardinality(Accepted) + 1
    <3>1. Accepted' = Accepted \cup {s} /\ s \notin Accepted
      BY <2>1 DEF Accepted, ChannelTypeOK
    <3>. QED BY <3>1, SinkFacts, FS_AddElement
  <2>4. ChannelTypeOK'
    BY <2>1, <2>2, NotifyFact DEF ChannelTypeOK
  <2>5. OnePlace'
    <3>1. /\ asleep' \cup notified' = asleep \cup notified /\ asleep' \cap notified' = {}
          /\ stirred' = stirred /\ expired' = expired /\ told' = told
      BY <2>1, NotifyFact
    <3>. QED BY <3>1 DEF OnePlace, Woken
  <2>6. QueueBounded'
    BY <2>2, <2>3, SinkFacts DEF QueueBounded
  <2>7. NoForgottenValue'
    <3>1. asleep' # {} => asleep # {}
      BY <2>1 DEF NotifyOne
    <3>2. dropped \in Nat /\ dropped' = dropped
      BY <2>1 DEF ChannelTypeOK
    <3>. QED BY <2>1, <2>2, <3>1, <3>2, NotifyFact, SinkFacts DEF NoForgottenValue
  <2>. QED BY <2>4, <2>5, <2>6, <2>7
<1>. QED BY <1>1, <1>2

\* The loop of a receiver that is not asleep.
LEMMA LookInv ==
  ASSUME ChanInv, NEW r \in Sink, Look(r), told[r] = "none", r \notin asleep, r \notin expired,
         completed' \in BOOLEAN
  PROVE  ChanInv'
<1>. USE DEF ChanInv
<1>1. /\ notified' = notified \ {r} /\ stirred' = stirred \ {r}
      /\ UNCHANGED <<closed, expired, answer, dropped>>
  BY DEF Look
<1>2. notified \in SUBSET Sink /\ stirred \in SUBSET Sink /\ Accepted' = Accepted
  BY <1>1 DEF ChannelTypeOK, Accepted
<1>3. CASE values = <<>>
  <2>1. /\ values' = values /\ Len(values) = 0
        /\ asleep' = IF ~closed THEN asleep \cup {r} ELSE asleep
        /\ told' = IF closed THEN [told EXCEPT ![r] = "end"] ELSE told
    BY <1>3 DEF Look
  <2>2. ChannelTypeOK'
    BY <1>1, <1>2, <2>1 DEF ChannelTypeOK
  <2>3. OnePlace'
    BY <1>1, <2>1 DEF OnePlace, Woken, ChannelTypeOK
  <2>4. QueueBounded' /\ NoForgottenValue'
    BY <1>1, <1>2, <2>1, <2>2, SinkFacts, FS_CardinalityType, FS_Subset
       DEF QueueBounded, NoForgottenValue, ChannelTypeOK
  <2>. QED BY <2>2, <2>3, <2>4
<1>4. CASE values # <<>>
  <2>1. /\ values' = Tail(values) /\ asleep' = asleep
        /\ told' = [told EXCEPT ![r] = Head(values)]
    BY <1>4 DEF Look
  <2>2. /\ Head(values) \in Source /\ Tail(values) \in Seq(Source)
        /\ Len(Tail(values)) = Len(values) - 1 /\ Len(values) \in Nat \ {0}
    BY <1>4, SinkFacts
  <2>3. ChannelTypeOK'
    BY <1>1, <1>2, <2>1, <2>2 DEF ChannelTypeOK
  <2>4. OnePlace'
    BY <1>1, <2>1 DEF OnePlace, Woken, ChannelTypeOK
  <2>5. /\ Cardinality(notified \ {r}) \in Nat
        /\ Cardinality(notified) - 1 <= Cardinality(notified \ {r})
    <3>1. IsFiniteSet(notified) /\ Cardinality(notified) \in Nat
      BY SinkFacts
    <3>2. IsFiniteSet(notified \ {r})
      BY <3>1, FS_Subset
    <3>3. Cardinality(notified \ {r}) \in Nat
      BY <3>2, FS_CardinalityType
    <3>4. Cardinality(notified \ {r})
            = IF r \in notified THEN Cardinality(notified) - 1 ELSE Cardinality(notified)
      BY <3>1, FS_RemoveElement
    <3>. QED BY <3>1, <3>3, <3>4
  <2>6. QueueBounded' /\ NoForgottenValue'
    BY <1>1, <1>2, <2>1, <2>2, <2>5, SinkFacts DEF QueueBounded, NoForgottenValue, ChannelTypeOK
  <2>. QED BY <2>3, <2>4, <2>6
<1>. QED BY <1>3, <1>4

\* The other steps of a receiver, and Close.
LEMMA WaitInv ==
  ASSUME ChanInv, completed' \in BOOLEAN,
         CloseChannel \/ \E r \in Sink : GiveUp(r) \/ Expire(r) \/ Stir(r)
  PROVE  ChanInv'
<1>. USE DEF ChanInv
<1>1. /\ UNCHANGED <<values, answer>> /\ QueueBounded'
  BY DEF CloseChannel, GiveUp, Expire, Stir, QueueBounded, Accepted
<1>2. CASE CloseChannel
  BY <1>1, <1>2 DEF CloseChannel, NotifyAll, ChannelTypeOK, OnePlace, Woken, NoForgottenValue
<1>3. ASSUME NEW r \in Sink, GiveUp(r) PROVE ChanInv'
  <2>1. ChannelTypeOK'
    BY <1>1, <1>3 DEF GiveUp, ChannelTypeOK
  <2>2. OnePlace'
    BY <1>3 DEF GiveUp, OnePlace, Woken, ChannelTypeOK
  <2>3. NoForgottenValue'
    <3>1. r \in notified => Cardinality(notified \ {r}) = Cardinality(notified) - 1
      BY SinkFacts, FS_RemoveElement
    <3>2. r \notin notified => notified \ {r} = notified
      OBVIOUS
    <3>3. dropped \in Nat
      BY DEF ChannelTypeOK
    <3>4. /\ values' = values /\ asleep' = asleep /\ notified' = notified \ {r}
          /\ dropped' = IF r \in notified THEN dropped + 1 ELSE dropped
      BY <1>3 DEF GiveUp
    <3>5. Cardinality(notified') + dropped' = Cardinality(notified) + dropped
      <4>1. Cardinality(notified) \in Nat
        BY SinkFacts
      <4>2. CASE r \in notified
        BY <3>1, <3>3, <3>4, <4>1, <4>2
      <4>3. CASE r \notin notified
        BY <3>2, <3>3, <3>4, <4>1, <4>3
      <4>. QED BY <4>2, <4>3
    <3>. QED BY <3>4, <3>5 DEF NoForgottenValue
  <2>. QED BY <1>1, <2>1, <2>2, <2>3
<1>4. ASSUME NEW r \in Sink, Expire(r) PROVE ChanInv'
  BY <1>1, <1>4 DEF Expire, ChannelTypeOK, OnePlace, Woken, NoForgottenValue
<1>5. ASSUME NEW r \in Sink, Stir(r) PROVE ChanInv'
  BY <1>1, <1>5 DEF Stir, ChannelTypeOK, OnePlace, Woken, NoForgottenValue
<1>. QED BY <1>2, <1>3, <1>4, <1>5

\* A channel, whoever calls it: a program, or Complete and Cancel of a promise.
ChannelMoves ==
  \/ \E s \in Source : Send(s)
  \/ \E r \in Sink : Receive(r) \/ Return(r) \/ Expire(r) \/ Stir(r)
  \/ CloseChannel

LEMMA MovesInv == ASSUME ChanInv, ChannelMoves, completed' \in BOOLEAN PROVE ChanInv'
<1>1. ASSUME NEW s \in Source, Send(s) PROVE ChanInv'
  BY <1>1, SendInv
<1>2. ASSUME NEW r \in Sink, Receive(r) \/ Resume(r) PROVE ChanInv'
  <2>1. Look(r) /\ told[r] = "none" /\ r \notin asleep /\ r \notin expired
    BY <1>2 DEF Receive, Resume, ChanInv, OnePlace, Woken
  <2>. QED BY <2>1, LookInv
<1>. QED BY <1>1, <1>2, WaitInv DEF ChannelMoves, Return

\* Every step is the channel's, or leaves all of it alone.
LEMMA StepMoves ==
  ASSUME ChanInv, [ChannelNext \/ PromiseNext]_blockingVars
  PROVE  completed' \in BOOLEAN /\ (ChannelMoves \/ UNCHANGED chanVars)
<1>. USE DEF ChannelMoves, promiseVars
<1>1. completed \in BOOLEAN
  BY DEF ChanInv, ChannelTypeOK
<1>2. CASE ChannelNext
  BY <1>1, <1>2 DEF ChannelNext, ReceiverNext
<1>3. CASE ReceiverNext /\ UNCHANGED promiseVars
  BY <1>1, <1>3 DEF ReceiverNext
<1>4. ASSUME NEW s \in Source,
             \/ ReadCompleted(s, "complete") \/ ReadCompleted(s, "cancel") \/ SetCompleted(s)
             \/ CompleteSend(s) \/ CompleteClose(s)
      PROVE  completed' \in BOOLEAN /\ (ChannelMoves \/ UNCHANGED chanVars)
  BY <1>1, <1>4 DEF ReadCompleted, SetCompleted, CompleteSend, CompleteClose
<1>5. CASE UNCHANGED blockingVars
  BY <1>1, <1>5 DEF blockingVars
<1>. QED BY <1>2, <1>3, <1>4, <1>5 DEF PromiseNext, PromiseStep

LEMMA ChanInvHolds == BlockingSpec => []ChanInv
<1>1. ChanInv /\ [ChannelNext \/ PromiseNext]_blockingVars => ChanInv'
  <2>. SUFFICES ASSUME ChanInv, [ChannelNext \/ PromiseNext]_blockingVars PROVE ChanInv'
    OBVIOUS
  <2>1. CASE UNCHANGED chanVars
    BY <2>1, StepMoves DEF ChanInv, chanVars, ChannelTypeOK, OnePlace, Woken, QueueBounded,
                           Accepted, NoForgottenValue
  <2>. QED BY <2>1, StepMoves, MovesInv
<1>. QED BY <1>1, ChanInitInv, PTL DEF BlockingSpec

\* Every variable of a blocking channel, and of the Promise around it, keeps its type.
THEOREM ChannelTypeCorrect == BlockingSpec => []ChannelTypeOK
<1>1. ChanInv => ChannelTypeOK
  BY DEF ChanInv
<1>. QED BY <1>1, ChanInvHolds, PTL

\* No receiver of a blocking channel sleeps over a queued value that nobody has been woken
\* for, except for the notifications that a timed-out ReceiveFor took along, whether it is
\* sent to directly or by the Complete of a promise.
THEOREM NoValueForgotten == BlockingSpec => []NoForgottenValue
<1>1. ChanInv => NoForgottenValue
  BY DEF ChanInv
<1>. QED BY <1>1, ChanInvHolds, PTL

-----------------------------------------------------------------------------
(* Each value once.                                                        *)

Held(s) == {r \in Sink : told[r] = s}
Spots(s) == {i \in DOMAIN values : values[i] = s}

\* What TakenOnce says of one sender.
OnceFor(s) ==
  /\ answer[s] = "accepted" <=> Held(s) # {} \/ Spots(s) # {}
  /\ Held(s) = {} \/ Spots(s) = {}
  /\ \A r1, r2 \in Held(s) : r1 = r2
  /\ \A i, j \in Spots(s) : i = j
EndIsLast == (\E r \in Sink : told[r] = "end") => closed /\ values = <<>>

LEMMA OnceFact == TakenOnce <=> (\A s \in Source : OnceFor(s)) /\ EndIsLast
  BY DEF TakenOnce, OnceFor, EndIsLast, Held, Spots

LEMMA OnceNext == ASSUME \A s \in Source : OnceFor(s)', EndIsLast' PROVE TakenOnce'
  BY DEF TakenOnce, OnceFor, EndIsLast, Held, Spots

LEMMA OnceSame ==
  ASSUME NEW s, OnceFor(s), answer'[s] = "accepted" <=> answer[s] = "accepted",
         Held(s)' = Held(s), Spots(s)' = Spots(s)
  PROVE  OnceFor(s)'
  BY DEF OnceFor

LEMMA SendOnce ==
  ASSUME ChanInv, TakenOnce, NEW s \in Source, Send(s)
  PROVE  TakenOnce'
<1>1. /\ told' = told /\ closed' = closed /\ answer[s] = "none"
      /\ answer \in [Source -> {"none", "accepted", "refused"}]
  BY DEF Send, ChanInv, ChannelTypeOK
<1>2. \A x \in Source : OnceFor(x) /\ Held(x)' = Held(x)
  BY <1>1, OnceFact DEF Held
<1>3. CASE closed
  <2>1. values' = values /\ answer' = [answer EXCEPT ![s] = "refused"]
    BY <1>3 DEF Send
  <2>2. \A x \in Source : Spots(x)' = Spots(x) /\ (answer'[x] = "accepted" <=> answer[x] = "accepted")
    BY <1>1, <2>1 DEF Spots
  <2>3. EndIsLast'
    BY <1>1, <2>1, OnceFact DEF EndIsLast
  <2>. QED BY <1>2, <2>2, <2>3, OnceSame, OnceNext
<1>4. CASE ~closed
  <2>1. values' = Append(values, s) /\ answer' = [answer EXCEPT ![s] = "accepted"]
    BY <1>4 DEF Send
  <2>2. /\ DOMAIN values = 1 .. Len(values) /\ DOMAIN values' = 1 .. Len(values) + 1
        /\ values'[Len(values) + 1] = s /\ Len(values) \in Nat
        /\ \A i \in DOMAIN values : values'[i] = values[i]
    BY <2>1, SinkFacts DEF ChanInv
  <2>3. ASSUME NEW x \in Source, x # s PROVE OnceFor(x)'
    <3>1. Spots(x)' = Spots(x)
      BY <2>2, <2>3 DEF Spots
    <3>2. answer'[x] = answer[x]
      BY <1>1, <2>1, <2>3
    <3>. QED BY <1>2, <3>1, <3>2, OnceSame
  <2>4. OnceFor(s)'
    <3>1. Held(s) = {} /\ Spots(s) = {}
      BY <1>1, <1>2 DEF OnceFor
    <3>2. Spots(s)' = {Len(values) + 1}
      BY <2>2, <3>1 DEF Spots
    <3>3. answer'[s] = "accepted"
      BY <1>1, <2>1
    <3>. QED BY <1>2, <3>1, <3>2, <3>3 DEF OnceFor
  <2>5. EndIsLast'
    BY <1>1, <1>4, OnceFact DEF EndIsLast
  <2>. QED BY <2>3, <2>4, <2>5, OnceNext
<1>. QED BY <1>3, <1>4

LEMMA LookOnce ==
  ASSUME ChanInv, TakenOnce, NEW r \in Sink, Look(r), told[r] = "none"
  PROVE  TakenOnce'
<1>1. /\ closed' = closed /\ answer' = answer
      /\ told \in [Sink -> Source \cup {"none", "end", "timeout"}]
      /\ \A s \in Source : s # "none" /\ s # "end"
  BY DEF Look, ChanInv, ChannelTypeOK
<1>2. (\A s \in Source : OnceFor(s)) /\ EndIsLast
  BY OnceFact
<1>3. CASE values = <<>>
  <2>1. values' = values /\ told' = IF closed THEN [told EXCEPT ![r] = "end"] ELSE told
    BY <1>3 DEF Look
  <2>2. \A s \in Source : Held(s)' = Held(s) /\ Spots(s)' = Spots(s)
    BY <1>1, <2>1 DEF Held, Spots
  <2>3. EndIsLast'
    BY <1>1, <1>2, <1>3, <2>1 DEF EndIsLast
  <2>. QED BY <1>1, <1>2, <2>2, <2>3, OnceSame, OnceNext
<1>4. CASE values # <<>>
  <2>0. PICK v : v = Head(values)
    OBVIOUS
  <2>1. values' = Tail(values) /\ told' = [told EXCEPT ![r] = v]
    BY <1>4, <2>0 DEF Look
  <2>2. /\ v \in Source /\ v = values[1] /\ 1 \in DOMAIN values /\ Len(values) \in Nat \ {0}
        /\ DOMAIN values = 1 .. Len(values) /\ DOMAIN values' = 1 .. Len(values) - 1
        /\ \A i \in DOMAIN values' : values'[i] = values[i + 1] /\ i + 1 \in DOMAIN values /\ i + 1 # 1
    BY <1>4, <2>0, <2>1, SinkFacts DEF ChanInv
  <2>3. \A q \in Sink : told'[q] = IF q = r THEN v ELSE told[q]
    BY <1>1, <2>1
  <2>4. ASSUME NEW s \in Source, s # v PROVE OnceFor(s)'
    <3>1. Held(s)' = Held(s)
      BY <1>1, <2>3, <2>4 DEF Held
    <3>2. \A i \in Spots(s)' : i + 1 \in Spots(s) /\ i \in Nat
      BY <2>2 DEF Spots
    <3>3. \A i \in Spots(s) : i - 1 \in Spots(s)'
      <4>. SUFFICES ASSUME NEW i \in Spots(s) PROVE i - 1 \in Spots(s)'
        OBVIOUS
      <4>1. i \in 1 .. Len(values) /\ i # 1
        BY <2>2, <2>4 DEF Spots
      <4>2. i - 1 \in DOMAIN values' /\ (i - 1) + 1 = i
        BY <2>2, <4>1
      <4>. QED BY <2>2, <4>2 DEF Spots
    <3>4. (Spots(s)' = {} <=> Spots(s) = {}) /\ \A i, j \in Spots(s)' : i = j
      <4>1. ASSUME NEW i \in Spots(s)', NEW j \in Spots(s)' PROVE i = j
        <5>1. i + 1 = j + 1 /\ i \in Nat /\ j \in Nat
          BY <1>2, <3>2 DEF OnceFor
        <5>. QED BY <5>1
      <4>. QED BY <3>2, <3>3, <4>1
    <3>. QED BY <1>1, <1>2, <3>1, <3>4 DEF OnceFor
  <2>5. OnceFor(v)'
    <3>1. 1 \in Spots(v)
      BY <2>2 DEF Spots
    <3>2. Held(v) = {} /\ \A i \in Spots(v) : i = 1
      BY <1>2, <2>2, <3>1 DEF OnceFor
    <3>3. Held(v)' = {r}
      BY <2>3, <3>2 DEF Held
    <3>4. Spots(v)' = {}
      BY <2>2, <3>2 DEF Spots
    <3>. QED BY <1>1, <1>2, <2>2, <3>1, <3>3, <3>4 DEF OnceFor
  <2>6. EndIsLast'
    BY <1>1, <1>2, <1>4, <2>2, <2>3 DEF EndIsLast
  <2>. QED BY <2>4, <2>5, <2>6, OnceNext
<1>. QED BY <1>3, <1>4

LEMMA WaitOnce ==
  ASSUME ChanInv, TakenOnce, CloseChannel \/ \E r \in Sink : GiveUp(r) \/ Expire(r) \/ Stir(r)
  PROVE  TakenOnce'
<1>1. values' = values /\ answer' = answer /\ (closed => closed')
  BY DEF CloseChannel, GiveUp, Expire, Stir
<1>2. \A q \in Sink : told'[q] = told[q] \/ (told[q] = "none" /\ told'[q] = "timeout")
  BY DEF CloseChannel, GiveUp, Expire, Stir, ChanInv, ChannelTypeOK, OnePlace, Woken
<1>3. \A s \in Source : Held(s)' = Held(s) /\ Spots(s)' = Spots(s)
  BY <1>1, <1>2 DEF Held, Spots
<1>4. EndIsLast'
  BY <1>1, <1>2, OnceFact DEF EndIsLast
<1>. QED BY <1>1, <1>3, <1>4, OnceFact, OnceSame, OnceNext

LEMMA OnceInit == ChannelInit => TakenOnce /\ NobodySleepsOnClosed
  BY DEF ChannelInit, TakenOnce, NobodySleepsOnClosed

LEMMA OnceMoves ==
  ASSUME ChanInv, TakenOnce, NobodySleepsOnClosed, ChannelMoves
  PROVE  TakenOnce' /\ NobodySleepsOnClosed'
<1>1. ASSUME NEW s \in Source, Send(s) PROVE TakenOnce' /\ NobodySleepsOnClosed'
  BY <1>1, SendOnce DEF Send, NobodySleepsOnClosed
<1>2. ASSUME NEW r \in Sink, Receive(r) \/ Resume(r) PROVE TakenOnce' /\ NobodySleepsOnClosed'
  <2>1. Look(r) /\ told[r] = "none"
    BY <1>2 DEF Receive, Resume, ChanInv, OnePlace, Woken
  <2>. QED BY <2>1, LookOnce DEF Look, NobodySleepsOnClosed
<1>3. CASE CloseChannel \/ \E r \in Sink : GiveUp(r) \/ Expire(r) \/ Stir(r)
  <2>1. NobodySleepsOnClosed'
    BY <1>3 DEF CloseChannel, NotifyAll, GiveUp, Expire, Stir, NobodySleepsOnClosed
  <2>. QED BY <1>3, <2>1, WaitOnce
<1>. QED BY <1>1, <1>2, <1>3 DEF ChannelMoves, Return

LEMMA OnceHolds == BlockingSpec => [](TakenOnce /\ NobodySleepsOnClosed)
<1>1. ChanInv /\ (TakenOnce /\ NobodySleepsOnClosed) /\ [ChannelNext \/ PromiseNext]_blockingVars
        => (TakenOnce /\ NobodySleepsOnClosed)'
  <2>. SUFFICES ASSUME ChanInv, TakenOnce, NobodySleepsOnClosed,
                       [ChannelNext \/ PromiseNext]_blockingVars
                PROVE  TakenOnce' /\ NobodySleepsOnClosed'
    OBVIOUS
  <2>1. CASE UNCHANGED chanVars
    BY <2>1 DEF chanVars, TakenOnce, NobodySleepsOnClosed
  <2>. QED BY <2>1, StepMoves, OnceMoves
<1>. QED BY <1>1, OnceInit, ChanInvHolds, PTL DEF BlockingSpec

\* An accepted value of a blocking channel is queued once or with exactly one receiver,
\* whether its receivers were notified, woken spuriously or timed out, and whether it was
\* sent directly or by one of several overlapping calls of Complete; the end is told only
\* when nothing is left.
THEOREM ValuesAreTakenOnce == BlockingSpec => []TakenOnce
<1>. QED BY OnceHolds, PTL

\* No receiver is left asleep by a Close, nor goes to sleep after it.
THEOREM CloseWakesSleepers == BlockingSpec => []NobodySleepsOnClosed
<1>. QED BY OnceHolds, PTL

-----------------------------------------------------------------------------
(* The refinement.                                                         *)

Heard == [r \in Sink |-> IF told[r] = "timeout" THEN "none" ELSE told[r]]

LEMMA SendMaps ==
  ASSUME ChanInv, NEW s \in Source, Send(s)
  PROVE  Box!Next
<1>1. Heard' = Heard
  BY DEF Send, Heard
<1>2. CASE closed
  BY <1>1, <1>2 DEF Send, Box!Next, Box!Refuse, Heard
<1>3. CASE ~closed
  <2>1. Len(values) < Cardinality(Source)
    <3>1. Accepted \subseteq Source \ {s}
      BY DEF Accepted, Send
    <3>2. /\ Cardinality(Source \ {s}) = Cardinality(Source) - 1
          /\ Cardinality(Accepted) <= Cardinality(Source \ {s})
      BY <3>1, FS_RemoveElement, FS_Subset
    <3>. QED BY <3>2, SinkFacts, FS_CardinalityType DEF ChanInv, QueueBounded
  <2>. QED BY <1>1, <1>3, <2>1 DEF Send, Box!Next, Box!Accept, Heard
<1>. QED BY <1>2, <1>3

LEMMA LookMaps ==
  ASSUME ChanInv, NEW r \in Sink, Look(r), told[r] = "none"
  PROVE  Box!Next \/ UNCHANGED Box!mailVars
<1>1. told \in [Sink -> Source \cup {"none", "end", "timeout"}] /\ Heard[r] = "none"
  BY DEF ChanInv, ChannelTypeOK, Heard
<1>2. CASE values # <<>>
  <2>1. Head(values) \in Source /\ Head(values) # "timeout"
    BY <1>2, SinkFacts DEF ChanInv
  <2>2. Heard' = [Heard EXCEPT ![r] = Head(values)]
    BY <1>1, <1>2, <2>1 DEF Look, Heard
  <2>. QED BY <1>1, <1>2, <2>2 DEF Look, Box!Next, Box!Take, Heard
<1>3. CASE values = <<>> /\ closed
  <2>1. Heard' = [Heard EXCEPT ![r] = "end"]
    BY <1>1, <1>3 DEF Look, Heard
  <2>. QED BY <1>1, <1>3, <2>1 DEF Look, Box!Next, Box!End, Heard
<1>4. CASE values = <<>> /\ ~closed
  BY <1>4 DEF Look, Box!mailVars
<1>. QED BY <1>2, <1>3, <1>4

\* BlockingChannel implements Mailbox, with a bound that no channel reaches; so does the
\* channel of a Promise, whichever of its Complete and Cancel calls overlap.
THEOREM BlockingChannelRefines == BlockingSpec => ImplementsMailbox
<1>1. ChannelInit => Box!Init
  BY DEF ChannelInit, Box!Init
<1>2. ChanInv /\ [ChannelNext \/ PromiseNext]_blockingVars => [Box!Next]_(Box!mailVars)
  <2>. SUFFICES ASSUME ChanInv, [ChannelNext \/ PromiseNext]_blockingVars
                PROVE  Box!Next \/ UNCHANGED Box!mailVars
    OBVIOUS
  <2>1. ASSUME NEW r \in Sink, Receive(r) \/ Resume(r) PROVE Box!Next \/ UNCHANGED Box!mailVars
    <3>1. Look(r) /\ told[r] = "none"
      BY <2>1 DEF Receive, Resume, ChanInv, OnePlace, Woken
    <3>. QED BY <3>1, LookMaps
  <2>2. ASSUME NEW r \in Sink, GiveUp(r) PROVE UNCHANGED Box!mailVars
    <3>1. told[r] = "none" /\ told' = [told EXCEPT ![r] = "timeout"]
      BY <2>2 DEF GiveUp, ChanInv, OnePlace, Woken
    <3>2. Heard' = Heard
      BY <3>1 DEF Heard, ChanInv, ChannelTypeOK
    <3>. QED BY <2>2, <3>2 DEF GiveUp, Box!mailVars, Heard
  <2>3. ASSUME NEW r \in Sink, Expire(r) \/ Stir(r) PROVE UNCHANGED Box!mailVars
    BY <2>3 DEF Expire, Stir, Box!mailVars
  <2>4. CASE CloseChannel
    BY <2>4 DEF CloseChannel, Box!Next, Box!Shut
  <2>5. CASE UNCHANGED chanVars
    BY <2>5 DEF chanVars, Box!mailVars
  <2>. QED BY <2>1, <2>2, <2>3, <2>4, <2>5, StepMoves, SendMaps DEF ChannelMoves, Return
<1>. QED BY <1>1, <1>2, ChanInvHolds, PTL DEF BlockingSpec, ImplementsMailbox, Box!Spec

HIDE ChannelAssumption DEF Remaining

-----------------------------------------------------------------------------
(* AsyncChannel.                                                           *)

USE AsyncChannelAssumption DEF Calls

Early == {"idle", "trying", "sleeping"}
\* A call that has not got through has answered nothing; one that settled passes its
\* answer on, unless a cancellation has overtaken it.
AnswersInTime ==
  /\ \A p \in Producer : at[p] \in Early => offer[p] = "none"
  /\ \A c \in Consumer : at[c] \in Early => taken[c] = "none"
  /\ \A c \in Calls : at[c] = "settled" => c \in asked \/ outcome[c] = Answer(c)
\* The buffer holds each accepted value once, until one receiver takes it.
BufferExact ==
  /\ \A i, k \in 1 .. Len(buffer) : buffer[i] = buffer[k] => i = k
  /\ \A i \in 1 .. Len(buffer), c \in Consumer : taken[c] # buffer[i]
  /\ \A i \in 1 .. Len(buffer) : offer[buffer[i]] = "accepted"
  /\ \A p \in Producer : offer[p] = "accepted" =>
       (\E i \in 1 .. Len(buffer) : buffer[i] = p) \/ \E c \in Consumer : taken[c] = p
  /\ \A c, d \in Consumer : taken[c] = taken[d] /\ taken[c] \in Producer => c = d
  /\ \A c \in Consumer : taken[c] \in Producer => offer[taken[c]] = "accepted"
Through == {p \in Producer : offer[p] = "accepted"}
BufferBounded == Len(buffer) <= Cardinality(Through)

AsyncInv == AsyncTypeOK /\ AnswersInTime /\ BufferExact /\ BufferBounded

LEMMA ThroughFacts ==
  ASSUME AsyncTypeOK
  PROVE  /\ IsFiniteSet(Through) /\ Cardinality(Through) \in Nat
         /\ buffer \in Seq(Producer) /\ Len(buffer) \in Nat
<1>1. Through \subseteq Producer
  BY DEF Through
<1>2. IsFiniteSet(Through)
  BY <1>1, FS_Subset
<1>. QED BY <1>2, FS_CardinalityType DEF AsyncTypeOK

LEMMA AsyncInitInv == AsyncInit => AsyncInv
<1>. SUFFICES ASSUME AsyncInit PROVE AsyncInv
  OBVIOUS
<1>1. buffer = <<>> /\ <<>> \in Seq(Producer) /\ Len(<<>>) = 0
  BY DEF AsyncInit
<1>2. AsyncTypeOK
  BY <1>1 DEF AsyncInit, AsyncTypeOK
<1>3. AnswersInTime
  BY DEF AsyncInit, AnswersInTime
<1>4. BufferExact
  BY <1>1 DEF AsyncInit, BufferExact
<1>5. BufferBounded
  BY <1>1, <1>2, ThroughFacts DEF BufferBounded
<1>. QED BY <1>2, <1>3, <1>4, <1>5 DEF AsyncInv

LEMMA TrySendInv ==
  ASSUME AsyncInv, NEW p \in Producer, TrySend(p)
  PROVE  AsyncInv'
<1>. USE DEF AsyncInv
<1>1. /\ UNCHANGED <<shut, asked, outcome, taken>>
      /\ at[p] \in Early /\ offer[p] = "none" /\ p \in Calls
  BY DEF TrySend, Early, AnswersInTime
<1>2. ASSUME NEW spot \in {"ending", "sleeping"}, NEW o \in {"none", "accepted", "refused"},
             at' = [at EXCEPT ![p] = spot], offer' = [offer EXCEPT ![p] = o],
             spot = "sleeping" => o = "none"
      PROVE  /\ at' \in [Calls -> {"idle", "trying", "sleeping", "ending", "settled"}]
             /\ offer' \in [Producer -> {"none", "accepted", "refused"}]
             /\ AnswersInTime'
  <2>1. /\ at' \in [Calls -> {"idle", "trying", "sleeping", "ending", "settled"}]
        /\ offer' \in [Producer -> {"none", "accepted", "refused"}]
    BY <1>2 DEF AsyncTypeOK
  <2>2. AnswersInTime'
    BY <1>1, <1>2 DEF AnswersInTime, AsyncTypeOK, Answer, Early
  <2>. QED BY <2>1, <2>2
<1>3. CASE ~(~shut /\ ~Full)
  <2>1. PICK spot \in {"ending", "sleeping"}, o \in {"none", "refused"} :
          /\ at' = [at EXCEPT ![p] = spot] /\ offer' = [offer EXCEPT ![p] = o]
          /\ (spot = "sleeping" => o = "none") /\ buffer' = buffer
    <3>1. offer = [offer EXCEPT ![p] = "none"]
      BY <1>1 DEF AsyncTypeOK
    <3>. QED BY <1>3, <3>1 DEF TrySend, Go
  <2>2. Through' = Through
    BY <1>1, <2>1 DEF Through, AsyncTypeOK
  <2>3. BufferExact'
    <3>1. \A i \in 1 .. Len(buffer) : buffer[i] # p
      BY <1>1 DEF BufferExact
    <3>2. \A c \in Consumer : taken[c] # p
      BY <1>1 DEF BufferExact
    <3>3. \A q \in Producer : q # p => offer'[q] = offer[q]
      BY <2>1 DEF AsyncTypeOK
    <3>4. \A i \in 1 .. Len(buffer) : buffer[i] \in Producer
      BY ThroughFacts
    <3>5. offer'[p] # "accepted"
      BY <2>1 DEF AsyncTypeOK
    <3>. QED BY <1>1, <2>1, <3>1, <3>2, <3>3, <3>4, <3>5 DEF BufferExact
  <2>4. AsyncTypeOK' /\ AnswersInTime'
    BY <1>1, <1>2, <2>1 DEF AsyncTypeOK
  <2>. QED BY <2>1, <2>2, <2>3, <2>4 DEF BufferBounded
<1>4. CASE ~shut /\ ~Full
  <2>1. /\ at' = [at EXCEPT ![p] = "ending"] /\ offer' = [offer EXCEPT ![p] = "accepted"]
        /\ buffer' = Append(buffer, p)
    BY <1>4 DEF TrySend, Go
  <2>2. /\ Len(buffer') = Len(buffer) + 1 /\ buffer' \in Seq(Producer)
        /\ \A i \in 1 .. Len(buffer) : buffer'[i] = buffer[i] /\ i \in 1 .. Len(buffer')
        /\ buffer'[Len(buffer) + 1] = p
        /\ \A i \in 1 .. Len(buffer') : i \in 1 .. Len(buffer) \/ i = Len(buffer) + 1
        /\ Len(buffer) + 1 \in 1 .. Len(buffer')
    BY <2>1, ThroughFacts
  <2>3. Cardinality(Through') = Cardinality(Through) + 1
    <3>1. Through' = Through \cup {p} /\ p \notin Through
      BY <1>1, <2>1 DEF Through, AsyncTypeOK
    <3>. QED BY <3>1, ThroughFacts, FS_AddElement
  <2>4. AsyncTypeOK' /\ AnswersInTime'
    BY <1>1, <1>2, <2>1, <2>2 DEF AsyncTypeOK
  <2>5. BufferBounded'
    BY <2>2, <2>3, ThroughFacts DEF BufferBounded
  <2>6. BufferExact'
    <3>1. \A i \in 1 .. Len(buffer) : buffer[i] # p /\ buffer[i] \in Producer
      BY <1>1, ThroughFacts DEF BufferExact
    <3>2. \A c \in Consumer : taken[c] # p
      BY <1>1 DEF BufferExact
    <3>3. /\ \A q \in Producer : q # p => offer'[q] = offer[q]
          /\ offer'[p] = "accepted" /\ taken' = taken
      BY <1>1, <2>1 DEF AsyncTypeOK
    <3>4. \A i, k \in 1 .. Len(buffer') : buffer'[i] = buffer'[k] => i = k
      BY <2>2, <3>1 DEF BufferExact
    <3>5. \A i \in 1 .. Len(buffer') :
            offer'[buffer'[i]] = "accepted" /\ \A c \in Consumer : taken'[c] # buffer'[i]
      BY <2>2, <3>1, <3>2, <3>3 DEF BufferExact
    <3>6. \A q \in Producer : offer'[q] = "accepted" =>
            (\E i \in 1 .. Len(buffer') : buffer'[i] = q) \/ \E c \in Consumer : taken'[c] = q
      <4>. SUFFICES ASSUME NEW q \in Producer, offer'[q] = "accepted",
                           \A c \in Consumer : taken[c] # q
                    PROVE  \E i \in 1 .. Len(buffer') : buffer'[i] = q
        BY <3>3
      <4>1. CASE q = p
        BY <2>2, <4>1
      <4>2. CASE q # p
        <5>1. PICK i \in 1 .. Len(buffer) : buffer[i] = q
          BY <3>3, <4>2 DEF BufferExact
        <5>. QED BY <2>2, <5>1
      <4>. QED BY <4>1, <4>2
    <3>7. /\ \A c, d \in Consumer : taken'[c] = taken'[d] /\ taken'[c] \in Producer => c = d
          /\ \A c \in Consumer : taken'[c] \in Producer => offer'[taken'[c]] = "accepted"
      BY <3>2, <3>3 DEF BufferExact
    <3>. QED BY <3>4, <3>5, <3>6, <3>7 DEF BufferExact
  <2>. QED BY <2>4, <2>5, <2>6
<1>. QED BY <1>3, <1>4

LEMMA TryReceiveInv ==
  ASSUME AsyncInv, NEW c \in Consumer, TryReceive(c)
  PROVE  AsyncInv'
<1>. USE DEF AsyncInv
<1>1. /\ UNCHANGED <<shut, asked, outcome, offer>>
      /\ at[c] \in Early /\ taken[c] = "none" /\ c \in Calls /\ c \notin Producer
  BY DEF TryReceive, Early, AnswersInTime
<1>2. ASSUME NEW spot \in {"ending", "sleeping"}, NEW v \in Producer \cup {"none", "end"},
             at' = [at EXCEPT ![c] = spot], taken' = [taken EXCEPT ![c] = v],
             spot = "sleeping" => v = "none"
      PROVE  /\ at' \in [Calls -> {"idle", "trying", "sleeping", "ending", "settled"}]
             /\ taken' \in [Consumer -> Producer \cup {"none", "end"}]
             /\ AnswersInTime'
  <2>1. /\ at' \in [Calls -> {"idle", "trying", "sleeping", "ending", "settled"}]
        /\ taken' \in [Consumer -> Producer \cup {"none", "end"}]
    BY <1>2 DEF AsyncTypeOK
  <2>2. AnswersInTime'
    BY <1>1, <1>2 DEF AnswersInTime, AsyncTypeOK, Answer, Early
  <2>. QED BY <2>1, <2>2
<1>3. Through' = Through
  BY <1>1 DEF Through
<1>4. CASE buffer = <<>>
  <2>1. PICK spot \in {"ending", "sleeping"}, v \in {"none", "end"} :
          /\ at' = [at EXCEPT ![c] = spot] /\ taken' = [taken EXCEPT ![c] = v]
          /\ (spot = "sleeping" => v = "none") /\ buffer' = buffer
    <3>1. taken = [taken EXCEPT ![c] = "none"]
      BY <1>1 DEF AsyncTypeOK
    <3>. QED BY <1>4, <3>1 DEF TryReceive, Go
  <2>2. BufferExact'
    <3>1. /\ taken'[c] \notin Producer /\ taken[c] \notin Producer
          /\ \A d \in Consumer : d # c => taken'[d] = taken[d]
      BY <1>1, <2>1 DEF AsyncTypeOK
    <3>2. \A i \in 1 .. Len(buffer) : buffer[i] \in Producer
      BY ThroughFacts
    <3>. QED BY <1>1, <2>1, <3>1, <3>2 DEF BufferExact
  <2>3. AsyncTypeOK' /\ AnswersInTime'
    BY <1>1, <1>2, <2>1 DEF AsyncTypeOK
  <2>. QED BY <1>3, <2>1, <2>2, <2>3 DEF BufferBounded
<1>5. CASE buffer # <<>>
  <2>. DEFINE v == Head(buffer)
  <2>1. /\ at' = [at EXCEPT ![c] = "ending"] /\ taken' = [taken EXCEPT ![c] = v]
        /\ buffer' = Tail(buffer)
    BY <1>5 DEF TryReceive, Go
  <2>2. /\ v \in Producer /\ v = buffer[1] /\ 1 \in 1 .. Len(buffer)
        /\ buffer' \in Seq(Producer) /\ Len(buffer') = Len(buffer) - 1
        /\ \A i \in 1 .. Len(buffer') :
             buffer'[i] = buffer[i + 1] /\ i + 1 \in 1 .. Len(buffer) /\ i + 1 # 1
        /\ \A i \in 1 .. Len(buffer) : i # 1 => i - 1 \in 1 .. Len(buffer') /\ (i - 1) + 1 = i
    BY <1>5, <2>1, ThroughFacts
  <2>3. AsyncTypeOK' /\ AnswersInTime'
    BY <1>1, <1>2, <2>1, <2>2 DEF AsyncTypeOK
  <2>4. BufferBounded'
    BY <1>3, <2>2, ThroughFacts DEF BufferBounded
  <2>5. BufferExact'
    <3>1. /\ taken'[c] = v /\ \A d \in Consumer : d # c => taken'[d] = taken[d]
          /\ \A d \in Consumer : taken[d] # v
          /\ offer' = offer /\ offer[v] = "accepted"
      BY <1>1, <2>1, <2>2 DEF AsyncTypeOK, BufferExact
    <3>2. \A i, k \in 1 .. Len(buffer') : buffer'[i] = buffer'[k] => i = k
      <4>. SUFFICES ASSUME NEW i \in 1 .. Len(buffer'), NEW k \in 1 .. Len(buffer'),
                           buffer'[i] = buffer'[k]
                    PROVE  i = k
        OBVIOUS
      <4>1. i + 1 = k + 1
        BY <2>2 DEF BufferExact
      <4>. QED BY <4>1
    <3>3. \A i \in 1 .. Len(buffer') :
            /\ offer'[buffer'[i]] = "accepted"
            /\ \A d \in Consumer : taken'[d] # buffer'[i]
      <4>. SUFFICES ASSUME NEW i \in 1 .. Len(buffer')
                    PROVE  /\ offer'[buffer'[i]] = "accepted"
                           /\ \A d \in Consumer : taken'[d] # buffer'[i]
        OBVIOUS
      <4>1. buffer'[i] # v
        BY <2>2 DEF BufferExact
      <4>. QED BY <2>2, <3>1, <4>1 DEF BufferExact
    <3>4. \A q \in Producer : offer'[q] = "accepted" =>
            (\E i \in 1 .. Len(buffer') : buffer'[i] = q) \/ \E d \in Consumer : taken'[d] = q
      <4>. SUFFICES ASSUME NEW q \in Producer, offer[q] = "accepted", q # v,
                           \A d \in Consumer : taken'[d] # q
                    PROVE  \E i \in 1 .. Len(buffer') : buffer'[i] = q
        BY <3>1
      <4>1. \A d \in Consumer : taken[d] # q
        BY <1>1, <3>1
      <4>2. PICK i \in 1 .. Len(buffer) : buffer[i] = q
        BY <4>1 DEF BufferExact
      <4>3. i # 1
        BY <2>2, <4>2
      <4>4. i - 1 \in 1 .. Len(buffer') /\ (i - 1) + 1 = i
        BY <2>2, <4>2, <4>3
      <4>. QED BY <2>2, <4>2, <4>4
    <3>5. \A d, e \in Consumer : taken'[d] = taken'[e] /\ taken'[d] \in Producer => d = e
      BY <3>1 DEF BufferExact
    <3>6. \A d \in Consumer : taken'[d] \in Producer => offer'[taken'[d]] = "accepted"
      BY <3>1 DEF BufferExact
    <3>. QED BY <3>2, <3>3, <3>4, <3>5, <3>6 DEF BufferExact
  <2>. QED BY <2>3, <2>4, <2>5
<1>. QED BY <1>4, <1>5

LEMMA RestInv ==
  ASSUME AsyncInv, CloseAsync \/ \E c \in Calls : Wake(c) \/ Settle(c) \/ CancelCall(c)
  PROVE  AsyncInv'
<1>. USE DEF AsyncInv
<1>1. UNCHANGED <<buffer, offer, taken>>
  BY DEF CloseAsync, Wake, Settle, CancelCall
<1>2. BufferExact' /\ BufferBounded'
  BY <1>1 DEF BufferExact, BufferBounded, Through
<1>3. CASE CloseAsync
  BY <1>1, <1>2, <1>3 DEF CloseAsync, AsyncTypeOK, AnswersInTime, Answer
<1>4. ASSUME NEW c \in Calls, Wake(c) PROVE AsyncInv'
  BY <1>1, <1>2, <1>4 DEF Wake, Go, AsyncTypeOK, AnswersInTime, Answer, Early
<1>5. ASSUME NEW c \in Calls, CancelCall(c) PROVE AsyncInv'
  BY <1>1, <1>2, <1>5 DEF CancelCall, AsyncTypeOK, AnswersInTime, Answer, Early
<1>6. ASSUME NEW c \in Calls, Settle(c) PROVE AsyncInv'
  <2>1. Answer(c) \in Calls \cup {"none", "accepted", "refused", "end", "cancelled"}
    BY DEF Answer, AsyncTypeOK
  <2>2. AsyncTypeOK'
    BY <1>1, <1>6, <2>1 DEF Settle, Go, AsyncTypeOK
  <2>3. AnswersInTime'
    BY <1>1, <1>6 DEF Settle, Go, AsyncTypeOK, AnswersInTime, Answer, Early
  <2>. QED BY <1>2, <2>2, <2>3
<1>. QED BY <1>3, <1>4, <1>5, <1>6

LEMMA AsyncInvHolds == AsyncSpec => []AsyncInv
<1>1. AsyncInv /\ [AsyncNext]_asyncVars => AsyncInv'
  <2>. SUFFICES ASSUME AsyncInv, [AsyncNext]_asyncVars PROVE AsyncInv'
    OBVIOUS
  <2>1. ASSUME NEW c \in Calls, Try(c) PROVE AsyncInv'
    BY <2>1, TrySendInv, TryReceiveInv DEF Try
  <2>2. CASE UNCHANGED asyncVars
    BY <2>2 DEF asyncVars, AsyncInv, AsyncTypeOK, AnswersInTime, Answer, BufferExact,
                BufferBounded, Through
  <2>. QED BY <2>1, <2>2, RestInv DEF AsyncNext
<1>. QED BY <1>1, AsyncInitInv, PTL DEF AsyncSpec

\* Every variable of an asynchronous channel keeps its type.
LEMMA AsyncTypeCorrect == AsyncSpec => []AsyncTypeOK
<1>1. AsyncInv => AsyncTypeOK
  BY DEF AsyncInv
<1>. QED BY <1>1, AsyncInvHolds, PTL

\* An accepted value is in the buffer or with exactly one receive, and what is missing from
\* the outcomes was taken by a receive that was cancelled, for any number of calls.
THEOREM ValuesAccountedFor == AsyncSpec => []EveryValueAccountedFor
<1>1. AsyncInv => EveryValueAccountedFor
  <2>. SUFFICES ASSUME AsyncInv, NEW p \in Producer, offer[p] = "accepted"
                PROVE  /\ (\E i \in 1 .. Len(buffer) : buffer[i] = p)
                            <=> {c \in Consumer : Has(c, p)} = {}
                       /\ Cardinality({c \in Consumer : Has(c, p)}) <= 1
                       /\ \A c \in {d \in Consumer : Has(d, p)} :
                            at[c] = "settled" /\ outcome[c] # p => c \in asked
    BY DEF EveryValueAccountedFor
  <2>1. (\E i \in 1 .. Len(buffer) : buffer[i] = p) <=> {c \in Consumer : Has(c, p)} = {}
    BY DEF AsyncInv, BufferExact, Has
  <2>2. Cardinality({c \in Consumer : Has(c, p)}) <= 1
    <3>1. CASE {c \in Consumer : Has(c, p)} = {}
      BY <3>1, FS_EmptySet
    <3>2. CASE {c \in Consumer : Has(c, p)} # {}
      <4>1. PICK c \in Consumer : Has(c, p)
        BY <3>2
      <4>2. {d \in Consumer : Has(d, p)} = {c}
        BY <4>1 DEF Has, AsyncInv, BufferExact
      <4>. QED BY <4>2, FS_Singleton
    <3>. QED BY <3>1, <3>2
  <2>3. \A c \in {d \in Consumer : Has(d, p)} :
          at[c] = "settled" /\ outcome[c] # p => c \in asked
    BY DEF AsyncInv, AnswersInTime, Answer, Has
  <2>. QED BY <2>1, <2>2, <2>3
<1>. QED BY <1>1, AsyncInvHolds, PTL

-----------------------------------------------------------------------------
(* The refinement.                                                         *)

LEMMA TrySendMaps ==
  ASSUME AsyncInv, NEW p \in Producer, TrySend(p)
  PROVE  AsyncBox!Next \/ UNCHANGED AsyncBox!mailVars
<1>1. offer[p] = "none"
  BY DEF TrySend, AsyncInv, AnswersInTime, Early
<1>2. CASE shut
  BY <1>1, <1>2 DEF TrySend, AsyncBox!Next, AsyncBox!Refuse
<1>3. CASE ~shut /\ Full
  BY <1>3 DEF TrySend, AsyncBox!mailVars
<1>4. CASE ~shut /\ ~Full
  <2>1. Len(buffer) < Cardinality(Producer)
    <3>1. Through \subseteq Producer \ {p} /\ IsFiniteSet(Producer \ {p})
      BY <1>1, FS_Subset DEF Through
    <3>2. /\ Cardinality(Producer \ {p}) = Cardinality(Producer) - 1
          /\ Cardinality(Through) <= Cardinality(Producer \ {p})
      BY <3>1, FS_RemoveElement, FS_Subset
    <3>. QED BY <3>1, <3>2, ThroughFacts, FS_CardinalityType DEF AsyncInv, BufferBounded
  <2>2. Capacity # 0 => Len(buffer) < Capacity
    BY <1>4, ThroughFacts DEF Full, AsyncInv
  <2>3. Len(buffer) < IF Capacity = 0 THEN Cardinality(Producer) ELSE Capacity
    BY <2>1, <2>2
  <2>. QED BY <1>1, <1>4, <2>3 DEF TrySend, AsyncBox!Next, AsyncBox!Accept
<1>. QED BY <1>2, <1>3, <1>4

LEMMA TryReceiveMaps ==
  ASSUME AsyncInv, NEW c \in Consumer, TryReceive(c)
  PROVE  AsyncBox!Next \/ UNCHANGED AsyncBox!mailVars
<1>1. taken[c] = "none"
  BY DEF TryReceive, AsyncInv, AnswersInTime, Early
<1>2. CASE buffer # <<>>
  BY <1>1, <1>2 DEF TryReceive, AsyncBox!Next, AsyncBox!Take
<1>3. CASE buffer = <<>> /\ shut
  BY <1>1, <1>3 DEF TryReceive, AsyncBox!Next, AsyncBox!End
<1>4. CASE buffer = <<>> /\ ~shut
  BY <1>4 DEF TryReceive, AsyncBox!mailVars
<1>. QED BY <1>2, <1>3, <1>4

\* AsyncChannel implements the same Mailbox, bounded by its capacity.
THEOREM AsyncChannelRefines == AsyncSpec => AsyncImplementsMailbox
<1>1. AsyncInit => AsyncBox!Init
  BY DEF AsyncInit, AsyncBox!Init
<1>2. AsyncInv /\ [AsyncNext]_asyncVars => [AsyncBox!Next]_(AsyncBox!mailVars)
  <2>. SUFFICES ASSUME AsyncInv, [AsyncNext]_asyncVars
                PROVE  AsyncBox!Next \/ UNCHANGED AsyncBox!mailVars
    OBVIOUS
  <2>1. ASSUME NEW c \in Calls, Try(c) PROVE AsyncBox!Next \/ UNCHANGED AsyncBox!mailVars
    BY <2>1, TrySendMaps, TryReceiveMaps DEF Try
  <2>2. ASSUME NEW c \in Calls, Wake(c) \/ Settle(c) \/ CancelCall(c)
        PROVE  UNCHANGED AsyncBox!mailVars
    BY <2>2 DEF Wake, Settle, CancelCall, AsyncBox!mailVars
  <2>3. CASE CloseAsync
    BY <2>3 DEF CloseAsync, AsyncBox!Next, AsyncBox!Shut
  <2>4. CASE UNCHANGED asyncVars
    BY <2>4 DEF asyncVars, AsyncBox!mailVars
  <2>. QED BY <2>1, <2>2, <2>3, <2>4 DEF AsyncNext
<1>. QED BY <1>1, <1>2, AsyncInvHolds, PTL DEF AsyncSpec, AsyncImplementsMailbox, AsyncBox!Spec

HIDE AsyncChannelAssumption DEF Calls

-----------------------------------------------------------------------------
(* MainQueue.                                                              *)

USE MainAssumption

\* What Position says of the actions that were posted.
Pos == [e \in Entry |-> Position(e)]
Posted == Range(postedSeq)
SortedBy(pos, s) == \A i, j \in DOMAIN s : i < j => pos[s[i]] < pos[s[j]]

Frame == [now : Entry \cup {"none"}, batch : Seq(Entry)]
Batch(t, i) == Range(drains[t][i].batch)
Batched == {x \in Entry : \E t \in Drainer : \E i \in 1 .. Len(drains[t]) : x \in Batch(t, i)}

OneLeft(f) == f.batch = <<>> \/ (f.now = "none" /\ Len(f.batch) = 1)

QueueTypes ==
  /\ queueKind \in {"main", "dispatcher"} /\ owner \in Drainer \cup {"none"}
  /\ waiting \in Seq(Entry) /\ postedSeq \in Seq(Entry) /\ started \in SUBSET Entry
  /\ drains \in [Drainer -> Seq(Frame)]
  /\ lost \in SUBSET Entry /\ thrown \in SUBSET Entry

\* Only the owner of the main executor drains it, and a dispatcher's drain holds at most
\* one action that it has not called.
Shape ==
  /\ \A t \in Drainer : drains[t] # <<>> /\ Main => owner = t
  /\ ~Main => \A t \in Drainer : \A i \in 1 .. Len(drains[t]) : OneLeft(drains[t][i])
  /\ lost # {} => Main

\* No two drains have taken out the same.
Apart ==
  \A t, u \in Drainer : \A i \in 1 .. Len(drains[t]), j \in 1 .. Len(drains[u]) :
    ~(t = u /\ i = j) => Batch(t, i) \cap Batch(u, j) = {}

\* Every posted action is in one place.
Conserved ==
  /\ Posted = Range(waiting) \cup started \cup lost \cup Batched
  /\ Range(waiting) \cap started = {} /\ Range(waiting) \cap Batched = {}
  /\ started \cap Batched = {} /\ Apart

\* What a drain has taken out was posted after the action it runs.
Behind ==
  /\ \A t \in Drainer : \A i \in 1 .. Len(drains[t]) :
       /\ SortedBy(Pos, drains[t][i].batch)
       /\ drains[t][i].now # "none" =>
            drains[t][i].now \in Posted /\ \A x \in Batch(t, i) : Pos[drains[t][i].now] < Pos[x]
  /\ \A x \in lost : \E f \in thrown : f \in Posted /\ Pos[f] < Pos[x]

\* Whatever is still queued was posted after all that is not.
InOrder ==
  /\ IsInjective(postedSeq) /\ SortedBy(Pos, waiting)
  /\ \A x \in Posted \ Range(waiting), y \in Range(waiting) : Pos[x] < Pos[y]

QueueInv == QueueTypes /\ Shape /\ Conserved /\ Behind /\ InOrder

-----------------------------------------------------------------------------
(* Sequences.                                                              *)

LEMMA RangeFact ==
  ASSUME NEW S, NEW s \in Seq(S)
  PROVE  /\ DOMAIN s = 1 .. Len(s) /\ Len(s) \in Nat
         /\ Range(s) = {s[i] : i \in 1 .. Len(s)} /\ Range(s) \subseteq S
         /\ s = <<>> <=> Range(s) = {}
<1>1. /\ DOMAIN s = 1 .. Len(s) /\ Len(s) \in Nat
      /\ Range(s) = {s[i] : i \in 1 .. Len(s)} /\ Range(s) \subseteq S
  BY DEF Range
<1>2. ASSUME s # <<>> PROVE Range(s) # {}
  <2>1. 1 \in 1 .. Len(s)
    BY <1>1, <1>2, EmptySeq
  <2>. QED BY <1>1, <2>1
<1>3. s = <<>> => 1 .. Len(s) = {}
  BY EmptySeq
<1>. QED BY <1>1, <1>2, <1>3

LEMMA AppendFact ==
  ASSUME NEW S, NEW s \in Seq(S), NEW x \in S, NEW pos
  PROVE  /\ Append(s, x) \in Seq(S) /\ Len(Append(s, x)) = Len(s) + 1
         /\ Range(Append(s, x)) = Range(s) \cup {x}
         /\ SortedBy(pos, s) /\ (\A y \in Range(s) : pos[y] < pos[x]) => SortedBy(pos, Append(s, x))
         /\ IsInjective(s) /\ x \notin Range(s) => IsInjective(Append(s, x))
<1>. DEFINE u == Append(s, x)
<1>1. /\ u \in Seq(S) /\ Len(u) = Len(s) + 1 /\ Len(s) \in Nat
      /\ \A i \in 1 .. Len(s) : u[i] = s[i] /\ i \in 1 .. Len(u)
      /\ u[Len(s) + 1] = x /\ Len(s) + 1 \in 1 .. Len(u)
      /\ \A i \in 1 .. Len(u) : i \in 1 .. Len(s) \/ i = Len(s) + 1
      /\ DOMAIN u = 1 .. Len(u) /\ DOMAIN s = 1 .. Len(s)
  OBVIOUS
<1>. HIDE DEF u
<1>2. Range(u) = Range(s) \cup {x}
  BY <1>1 DEF Range
<1>3. ASSUME SortedBy(pos, s), \A y \in Range(s) : pos[y] < pos[x] PROVE SortedBy(pos, u)
  <2>. SUFFICES ASSUME NEW i \in 1 .. Len(u), NEW j \in 1 .. Len(u), i < j
                PROVE  pos[u[i]] < pos[u[j]]
    BY <1>1 DEF SortedBy
  <2>1. i \in 1 .. Len(s)
    BY <1>1
  <2>2. CASE j \in 1 .. Len(s)
    BY <1>1, <1>3, <2>1, <2>2 DEF SortedBy
  <2>3. CASE j = Len(s) + 1
    BY <1>1, <1>3, <2>1, <2>3 DEF Range
  <2>. QED BY <1>1, <2>2, <2>3
<1>4. ASSUME IsInjective(s), x \notin Range(s) PROVE IsInjective(u)
  BY <1>1, <1>4 DEF IsInjective, Range
<1>. QED BY <1>1, <1>2, <1>3, <1>4 DEF u

LEMMA TailFact ==
  ASSUME NEW S, NEW s \in Seq(S), s # <<>>, NEW pos, SortedBy(pos, s)
  PROVE  /\ Head(s) \in S /\ Tail(s) \in Seq(S)
         /\ Range(s) = {Head(s)} \cup Range(Tail(s)) /\ SortedBy(pos, Tail(s))
         /\ \A y \in Range(Tail(s)) : pos[Head(s)] < pos[y]
<1>. DEFINE u == Tail(s)
<1>1. /\ Head(s) \in S /\ u \in Seq(S) /\ Head(s) = s[1] /\ 1 \in 1 .. Len(s)
      /\ DOMAIN u = 1 .. Len(u) /\ DOMAIN s = 1 .. Len(s) /\ Len(u) = Len(s) - 1 /\ Len(s) \in Nat
      /\ \A i \in 1 .. Len(u) : u[i] = s[i + 1] /\ i + 1 \in 1 .. Len(s) /\ 1 < i + 1
      /\ \A i \in 1 .. Len(s) : i # 1 => i - 1 \in 1 .. Len(u) /\ s[i] = u[i - 1]
  <2>1. /\ Head(s) \in S /\ u \in Seq(S) /\ Len(u) = Len(s) - 1 /\ Len(s) \in Nat \ {0}
        /\ \A i \in 1 .. Len(u) : u[i] = s[i + 1]
    BY HeadTailProperties, EmptySeq
  <2>2. Head(s) = s[1] /\ DOMAIN u = 1 .. Len(u) /\ DOMAIN s = 1 .. Len(s)
    BY <2>1
  <2>. HIDE DEF u
  <2>3. \A i \in 1 .. Len(u) : i + 1 \in 1 .. Len(s) /\ 1 < i + 1
    BY <2>1
  <2>4. ASSUME NEW i \in 1 .. Len(s), i # 1
        PROVE  i - 1 \in 1 .. Len(u) /\ s[i] = u[i - 1]
    <3>1. i - 1 \in 1 .. Len(u) /\ (i - 1) + 1 = i
      BY <2>1, <2>4
    <3>. QED BY <2>1, <3>1
  <2>. QED BY <2>1, <2>2, <2>3, <2>4
<1>. HIDE DEF u
<1>2. Range(s) = {Head(s)} \cup Range(u)
  <2>1. ASSUME NEW i \in 1 .. Len(u) PROVE u[i] \in Range(s)
    BY <1>1 DEF Range
  <2>2. ASSUME NEW i \in 1 .. Len(s) PROVE s[i] = Head(s) \/ s[i] \in Range(u)
    BY <1>1 DEF Range
  <2>3. Head(s) \in Range(s)
    BY <1>1 DEF Range
  <2>4. /\ \A y \in Range(u) : \E i \in 1 .. Len(u) : y = u[i]
        /\ \A y \in Range(s) : \E i \in 1 .. Len(s) : y = s[i]
    BY <1>1 DEF Range
  <2>5. \A y \in Range(u) : y \in Range(s)
    BY <2>1, <2>4
  <2>6. \A y \in Range(s) : y = Head(s) \/ y \in Range(u)
    BY <2>2, <2>4
  <2>. QED BY <2>3, <2>5, <2>6
<1>3. SortedBy(pos, u)
  <2>. SUFFICES ASSUME NEW i \in 1 .. Len(u), NEW j \in 1 .. Len(u), i < j
                PROVE  pos[u[i]] < pos[u[j]]
    BY <1>1 DEF SortedBy
  <2>1. /\ i + 1 < j + 1 /\ i + 1 \in DOMAIN s /\ j + 1 \in DOMAIN s
        /\ u[i] = s[i + 1] /\ u[j] = s[j + 1]
    BY <1>1
  <2>2. pos[s[i + 1]] < pos[s[j + 1]]
    BY <2>1 DEF SortedBy
  <2>. QED BY <2>1, <2>2
<1>4. \A y \in Range(u) : pos[Head(s)] < pos[y]
  <2>. SUFFICES ASSUME NEW i \in 1 .. Len(u) PROVE pos[Head(s)] < pos[u[i]]
    BY <1>1 DEF Range
  <2>1. /\ 1 \in DOMAIN s /\ i + 1 \in DOMAIN s /\ 1 < i + 1
        /\ u[i] = s[i + 1] /\ Head(s) = s[1]
    BY <1>1
  <2>2. pos[s[1]] < pos[s[i + 1]]
    BY <2>1 DEF SortedBy
  <2>. QED BY <2>1, <2>2
<1>. QED BY <1>1, <1>2, <1>3, <1>4 DEF u

\* The stack of a thread's drains.
LEMMA StackFact ==
  ASSUME NEW s \in Seq(Frame), NEW d \in Frame
  PROVE  /\ Append(s, d) \in Seq(Frame) /\ Len(Append(s, d)) = Len(s) + 1
         /\ Append(s, d)[Len(s) + 1] = d /\ \A i \in 1 .. Len(s) : Append(s, d)[i] = s[i]
         /\ s # <<>> =>
              /\ Last(s) = s[Len(s)] /\ Last(s) \in Frame /\ Len(s) \in Nat \ {0}
              /\ Front(s) \in Seq(Frame) /\ Len(Front(s)) = Len(s) - 1
              /\ \A i \in 1 .. Len(s) - 1 : Front(s)[i] = s[i]
              /\ Append(Front(s), d) \in Seq(Frame) /\ Len(Append(Front(s), d)) = Len(s)
              /\ Append(Front(s), d)[Len(s)] = d
              /\ \A i \in 1 .. Len(s) - 1 : Append(Front(s), d)[i] = s[i]
<1>1. /\ Append(s, d) \in Seq(Frame) /\ Len(Append(s, d)) = Len(s) + 1
      /\ Append(s, d)[Len(s) + 1] = d /\ \A i \in 1 .. Len(s) : Append(s, d)[i] = s[i]
  OBVIOUS
<1>2. ASSUME s # <<>>
      PROVE  /\ Last(s) = s[Len(s)] /\ Last(s) \in Frame /\ Len(s) \in Nat \ {0}
             /\ Front(s) \in Seq(Frame) /\ Len(Front(s)) = Len(s) - 1
             /\ \A i \in 1 .. Len(s) - 1 : Front(s)[i] = s[i]
  <2>1. Len(s) \in Nat \ {0} /\ \A i \in 1 .. Len(s) - 1 : s[i] \in Frame
    BY <1>2, EmptySeq, ElementOfSeq
  <2>2. /\ Front(s) \in Seq(Frame) /\ Len(Front(s)) = Len(s) - 1
        /\ \A i \in 1 .. Len(s) - 1 : Front(s)[i] = s[i]
    <3>1. /\ SubSeq(s, 1, Len(s) - 1) \in Seq(Frame)
          /\ Len(SubSeq(s, 1, Len(s) - 1)) = IF 1 <= Len(s) - 1 THEN Len(s) - 1 - 1 + 1 ELSE 0
          /\ \A i \in 1 .. (Len(s) - 1) - 1 + 1 : SubSeq(s, 1, Len(s) - 1)[i] = s[1 + i - 1]
      BY <2>1, SubSeqProperties
    <3>2. (Len(s) - 1) - 1 + 1 = Len(s) - 1 /\ \A i \in 1 .. Len(s) - 1 : 1 + i - 1 = i
      BY <2>1
    <3>. QED BY <2>1, <3>1, <3>2 DEF Front
  <2>3. Last(s) = s[Len(s)] /\ Last(s) \in Frame
    BY <2>1, ElementOfSeq DEF Last
  <2>. QED BY <2>1, <2>2, <2>3
<1>3. ASSUME s # <<>>
      PROVE  /\ Append(Front(s), d) \in Seq(Frame) /\ Len(Append(Front(s), d)) = Len(s)
             /\ Append(Front(s), d)[Len(s)] = d
             /\ \A i \in 1 .. Len(s) - 1 : Append(Front(s), d)[i] = s[i]
  <2>. DEFINE u == Front(s)
  <2>1. u \in Seq(Frame) /\ Len(u) = Len(s) - 1 /\ \A i \in 1 .. Len(u) : u[i] = s[i]
    BY <1>2, <1>3
  <2>. HIDE DEF u
  <2>2. Append(u, d) \in Seq(Frame) /\ Len(Append(u, d)) = Len(u) + 1
        /\ Append(u, d)[Len(u) + 1] = d /\ \A i \in 1 .. Len(u) : Append(u, d)[i] = u[i]
    BY <2>1
  <2>3. Len(u) + 1 = Len(s) /\ Len(u) = Len(s) - 1
    BY <1>2, <1>3, <2>1
  <2>4. /\ Append(u, d) \in Seq(Frame) /\ Len(Append(u, d)) = Len(s)
        /\ Append(u, d)[Len(s)] = d /\ \A i \in 1 .. Len(s) - 1 : Append(u, d)[i] = s[i]
    BY <2>1, <2>2, <2>3
  <2>. QED BY <2>4 DEF u
<1>. QED BY <1>1, <1>2, <1>3

\* The position of what was posted.
LEMMA PositionFact ==
  ASSUME QueueTypes, IsInjective(postedSeq)
  PROVE  \A i \in 1 .. Len(postedSeq) : Position(postedSeq[i]) = i
<1>1. DOMAIN postedSeq = 1 .. Len(postedSeq)
  BY DEF QueueTypes
<1>. QED BY <1>1 DEF Position, IsInjective

LEMMA PosFact ==
  ASSUME QueueTypes, IsInjective(postedSeq)
  PROVE  /\ \A x \in Posted : x \in Entry /\ Pos[x] \in 1 .. Len(postedSeq)
         /\ \A i \in 1 .. Len(postedSeq) : Pos[postedSeq[i]] = i /\ postedSeq[i] \in Entry
  BY PositionFact, RangeFact DEF Pos, Posted, QueueTypes

LEMMA SortedMono ==
  ASSUME NEW p, NEW q, NEW s, SortedBy(p, s), \A x \in Range(s) : p[x] = q[x]
  PROVE  SortedBy(q, s)
  BY DEF SortedBy, Range

LEMMA EmptySorted == ASSUME NEW pos PROVE SortedBy(pos, <<>>) /\ Range(<<>>) = {}
  BY DEF SortedBy, Range

-----------------------------------------------------------------------------
(* The inductive invariant.                                                *)

LEMMA QueueInitInv == MainInit => QueueInv
<1>. SUFFICES ASSUME MainInit PROVE QueueInv
  OBVIOUS
<1>1. /\ waiting = <<>> /\ postedSeq = <<>> /\ started = {} /\ lost = {}
      /\ \A t \in Drainer : drains[t] = <<>>
  BY DEF MainInit
<1>2. /\ <<>> \in Seq(Entry) /\ <<>> \in Seq(Frame) /\ Len(<<>>) = 0 /\ Range(<<>>) = {}
      /\ IsInjective(<<>>) /\ 1 .. 0 = {} /\ 0 <= 1
  BY DEF Range, IsInjective
<1>3. QueueTypes
  <2>1. drains \in [Drainer -> Seq(Frame)]
    BY <1>2 DEF MainInit
  <2>. QED BY <1>1, <1>2, <2>1 DEF MainInit, QueueTypes
<1>4. Batched = {} /\ Posted = {}
  BY <1>1, <1>2 DEF Batched, Posted
<1>5. Shape
  BY <1>1, <1>2 DEF Shape
<1>6. Conserved /\ Behind
  BY <1>1, <1>2, <1>4 DEF Conserved, Behind, Apart
<1>7. InOrder
  BY <1>1, <1>2, <1>4, EmptySorted DEF InOrder
<1>. QED BY <1>3, <1>5, <1>6, <1>7 DEF QueueInv

\* A new post comes behind all others.
LEMMA PosPost ==
  ASSUME QueueTypes, IsInjective(postedSeq), NEW e \in Entry, e \notin Posted,
         postedSeq' = Append(postedSeq, e)
  PROVE  /\ postedSeq' \in Seq(Entry) /\ Posted' = Posted \cup {e} /\ IsInjective(postedSeq')
         /\ \A x \in Posted : Pos'[x] = Pos[x] /\ Pos'[x] < Pos'[e]
<1>1. /\ postedSeq' \in Seq(Entry) /\ Len(postedSeq') = Len(postedSeq) + 1
      /\ Posted' = Posted \cup {e} /\ IsInjective(postedSeq')
  BY AppendFact DEF QueueTypes, Posted
<1>2. \A i \in 1 .. Len(postedSeq') : Pos'[postedSeq'[i]] = i
  <2>1. DOMAIN postedSeq' = 1 .. Len(postedSeq') /\ Range(postedSeq') \subseteq Entry
    BY <1>1, RangeFact
  <2>2. \A i \in 1 .. Len(postedSeq') : postedSeq'[i] \in Entry
    BY <1>1, ElementOfSeq
  <2>3. ASSUME NEW x \in Entry, NEW i \in 1 .. Len(postedSeq'), postedSeq'[i] = x
        PROVE  Position(x)' = i
    <3>1. \A k \in DOMAIN postedSeq' : postedSeq'[k] = x <=> k = i
      BY <1>1, <2>1, <2>3 DEF IsInjective
    <3>2. Position(x)' = CHOOSE k \in DOMAIN postedSeq' : postedSeq'[k] = x
      BY DEF Position
    <3>. QED BY <2>1, <3>1, <3>2
  <2>4. \A x \in Entry : Pos'[x] = Position(x)'
    BY DEF Pos
  <2>. QED BY <2>2, <2>3, <2>4
<1>3. Len(postedSeq) \in Nat
  BY DEF QueueTypes
<1>4. /\ postedSeq'[Len(postedSeq) + 1] = e /\ Len(postedSeq) + 1 \in 1 .. Len(postedSeq')
      /\ \A i \in 1 .. Len(postedSeq) :
           postedSeq'[i] = postedSeq[i] /\ i \in 1 .. Len(postedSeq') /\ i < Len(postedSeq) + 1
  BY <1>1, <1>3 DEF QueueTypes
<1>5. ASSUME NEW x \in Posted PROVE Pos'[x] = Pos[x] /\ Pos'[x] < Pos'[e]
  <2>1. PICK i \in 1 .. Len(postedSeq) : x = postedSeq[i]
    BY RangeFact DEF QueueTypes, Posted
  <2>2. Pos[x] = i /\ Pos'[x] = i /\ Pos'[e] = Len(postedSeq) + 1
    BY <1>2, <1>4, <2>1, PosFact
  <2>. QED BY <1>4, <2>2
<1>. QED BY <1>1, <1>5

LEMMA PostEntryInv ==
  ASSUME QueueInv, NEW e \in Entry, PostEntry(e)
  PROVE  QueueInv'
<1>. USE DEF QueueInv
<1>1. /\ waiting' = Append(waiting, e) /\ postedSeq' = Append(postedSeq, e) /\ e \notin Posted
      /\ UNCHANGED <<queueKind, owner, drains, started, lost, thrown>>
  BY DEF PostEntry, Queued, Posted
<1>2. /\ postedSeq' \in Seq(Entry) /\ Posted' = Posted \cup {e} /\ IsInjective(postedSeq')
      /\ \A x \in Posted : Pos'[x] = Pos[x] /\ Pos'[x] < Pos'[e]
  BY <1>1, PosPost DEF InOrder
<1>3. waiting' \in Seq(Entry) /\ Range(waiting') = Range(waiting) \cup {e}
  BY <1>1, AppendFact DEF QueueTypes
<1>4. Batched' = Batched /\ Batched \subseteq Posted /\ Range(waiting) \subseteq Posted
      /\ started \subseteq Posted /\ lost \subseteq Posted
      /\ \A t \in Drainer : \A i \in 1 .. Len(drains[t]) : Batch(t, i)' = Batch(t, i)
  BY <1>1 DEF Batched, Batch, Conserved
<1>5. QueueTypes' /\ Shape'
  BY <1>1, <1>2, <1>3 DEF QueueTypes, Shape, Main
<1>6. Conserved'
  <2>1. Apart'
    BY <1>1, <1>4 DEF Conserved, Apart
  <2>. QED BY <1>1, <1>2, <1>3, <1>4, <2>1 DEF Conserved
<1>7. Behind'
  <2>1. ASSUME NEW t \in Drainer, NEW i \in 1 .. Len(drains[t])
        PROVE  /\ SortedBy(Pos', drains[t][i].batch)
               /\ drains[t][i].now # "none" =>
                    drains[t][i].now \in Posted' /\ \A x \in Batch(t, i) : Pos'[drains[t][i].now] < Pos'[x]
    <3>1. drains[t][i] \in Frame
      BY ElementOfSeq DEF QueueTypes
    <3>2. Batch(t, i) \subseteq Posted
      <4>1. Batch(t, i) \subseteq Entry
        BY <3>1, RangeFact DEF Batch, Frame
      <4>. QED BY <1>4, <4>1 DEF Batched
    <3>3. SortedBy(Pos', drains[t][i].batch)
      BY <1>2, <3>2, SortedMono DEF Behind, Batch
    <3>. QED BY <1>2, <3>2, <3>3 DEF Behind
  <2>2. \A x \in lost : \E f \in thrown : f \in Posted' /\ Pos'[f] < Pos'[x]
    BY <1>2, <1>4 DEF Behind
  <2>. QED BY <1>1, <1>4, <2>1, <2>2 DEF Behind
<1>8. InOrder'
  <2>1. SortedBy(Pos', waiting')
    <3>1. SortedBy(Pos', waiting)
      BY <1>2, <1>4, SortedMono DEF InOrder
    <3>. QED BY <1>1, <1>2, <1>4, <3>1, AppendFact DEF QueueTypes
  <2>2. \A x \in Posted' \ Range(waiting'), y \in Range(waiting') : Pos'[x] < Pos'[y]
    BY <1>2, <1>3, <1>4 DEF InOrder
  <2>. QED BY <1>2, <2>1, <2>2 DEF InOrder
<1>. QED BY <1>5, <1>6, <1>7, <1>8

\* What a step does that leaves the posts alone and the frames of other threads too.
LEMMA SamePosts ==
  ASSUME UNCHANGED postedSeq PROVE Pos' = Pos /\ Posted' = Posted
  BY DEF Pos, Posted, Position

LEMMA BeginDrainInv ==
  ASSUME QueueInv, NEW t \in Drainer, BeginDrain(t)
  PROVE  QueueInv'
<1>. USE DEF QueueInv
<1>. DEFINE d == [now |-> "none", batch |-> IF Main THEN waiting ELSE <<>>]
<1>0. PICK n \in Nat : n = Len(drains[t])
  BY DEF QueueTypes
<1>1. /\ UNCHANGED <<queueKind, postedSeq, started, lost, thrown>>
      /\ Idle(t) \/ Runs(t)
      /\ Main => owner \in {"none", t}
      /\ owner' = IF Main THEN t ELSE owner
      /\ waiting' = IF Main THEN <<>> ELSE waiting
      /\ drains' = [drains EXCEPT ![t] = Append(drains[t], d)]
  BY DEF BeginDrain
<1>2. d \in Frame /\ d.batch \in Seq(Entry)
  BY DEF Frame, QueueTypes
<1>. HIDE DEF d
<1>3. /\ Pos' = Pos /\ Posted' = Posted /\ n \in Nat /\ (Main' <=> Main)
      /\ drains[t] \in Seq(Frame)
  BY <1>1, SamePosts DEF QueueTypes, Main
<1>4. /\ drains'[t] \in Seq(Frame) /\ Len(drains'[t]) = n + 1
      /\ drains'[t][n + 1] = d /\ \A i \in 1 .. n : drains'[t][i] = drains[t][i]
      /\ \A u \in Drainer : u # t => drains'[u] = drains[u]
      /\ drains' \in [Drainer -> Seq(Frame)]
  BY <1>0, <1>1, <1>2, StackFact DEF QueueTypes
<1>5. /\ \A i \in 1 .. n + 1 : i \in 1 .. n \/ i = n + 1
      /\ \A i \in 1 .. n : i \in 1 .. n + 1 /\ i # n + 1
      /\ n + 1 \in 1 .. n + 1
  BY <1>3
<1>6. QueueTypes'
  BY <1>1, <1>4 DEF QueueTypes
<1>7. /\ \A i \in 1 .. n : Batch(t, i)' = Batch(t, i)
      /\ Batch(t, n + 1)' = Range(d.batch)
      /\ \A u \in Drainer : u # t => \A i \in 1 .. Len(drains[u]) : Batch(u, i)' = Batch(u, i)
  BY <1>4 DEF Batch
<1>8. Batched' = Batched \cup Range(d.batch)
  <2>1. Range(d.batch) \subseteq Entry
    BY <1>2, RangeFact
  <2>2. \A x \in Batched : x \in Batched'
    <3>. SUFFICES ASSUME NEW u \in Drainer, NEW i \in 1 .. Len(drains[u]), NEW x \in Entry,
                         x \in Batch(u, i)
                  PROVE  x \in Batched'
      BY DEF Batched
    <3>1. i \in 1 .. Len(drains'[u]) /\ x \in Batch(u, i)'
      BY <1>0, <1>4, <1>5, <1>7
    <3>. QED BY <3>1 DEF Batched
  <2>3. \A x \in Range(d.batch) : x \in Batched'
    BY <1>4, <1>5, <1>7, <2>1 DEF Batched
  <2>4. \A x \in Batched' : x \in Batched \cup Range(d.batch)
    <3>. SUFFICES ASSUME NEW u \in Drainer, NEW i \in 1 .. Len(drains'[u]), NEW x \in Entry,
                         x \in Batch(u, i)'
                  PROVE  x \in Batched \cup Range(d.batch)
      BY DEF Batched
    <3>1. CASE u = t
      BY <1>0, <1>4, <1>5, <1>7, <3>1 DEF Batched
    <3>2. CASE u # t
      BY <1>4, <1>7, <3>2 DEF Batched
    <3>. QED BY <3>1, <3>2
  <2>. QED BY <2>2, <2>3, <2>4
<1>9. Range(d.batch) \cup Range(waiting') = Range(waiting) /\ Range(d.batch) \cap Range(waiting') = {}
      /\ SortedBy(Pos, d.batch) /\ SortedBy(Pos, waiting')
  BY <1>1, EmptySorted DEF d, InOrder
<1>10. Shape'
  <2>1. ASSUME NEW u \in Drainer, drains'[u] # <<>>, Main PROVE owner' = u
    BY <1>1, <1>4, <2>1 DEF Shape
  <2>2. ASSUME NEW u \in Drainer, NEW i \in 1 .. Len(drains'[u]), ~Main PROVE OneLeft(drains'[u][i])
    BY <1>0, <1>4, <1>5, <2>2 DEF Shape, OneLeft, d
  <2>. QED BY <1>1, <1>3, <2>1, <2>2 DEF Shape
<1>11. Conserved'
  <2>1. ASSUME NEW u \in Drainer, NEW i \in 1 .. Len(drains[u])
        PROVE  Batch(u, i)' = Batch(u, i) /\ Batch(u, i) \cap Range(d.batch) = {}
    <3>1. drains[u][i].batch \in Seq(Entry)
      <4>1. drains[u][i] \in Frame
        BY ElementOfSeq DEF QueueTypes
      <4>. QED BY <4>1 DEF Frame
    <3>2. Batch(u, i) \subseteq Batched
      BY <3>1, RangeFact DEF Batch, Batched
    <3>. QED BY <1>0, <1>4, <1>7, <1>9, <3>2 DEF Conserved
  <2>2. Apart'
    <3>. SUFFICES ASSUME NEW u \in Drainer, NEW v \in Drainer, NEW i \in 1 .. Len(drains'[u]),
                         NEW j \in 1 .. Len(drains'[v]), ~(u = v /\ i = j)
                  PROVE  Batch(u, i)' \cap Batch(v, j)' = {}
      BY DEF Apart
    <3>1. /\ i \in 1 .. Len(drains[u]) \/ (u = t /\ i = n + 1)
          /\ j \in 1 .. Len(drains[v]) \/ (v = t /\ j = n + 1)
      BY <1>0, <1>4, <1>5
    <3>2. CASE i \in 1 .. Len(drains[u]) /\ j \in 1 .. Len(drains[v])
      BY <2>1, <3>2 DEF Conserved, Apart
    <3>3. CASE i \in 1 .. Len(drains[u]) /\ v = t /\ j = n + 1
      BY <1>7, <2>1, <3>3
    <3>4. CASE j \in 1 .. Len(drains[v]) /\ u = t /\ i = n + 1
      BY <1>7, <2>1, <3>4
    <3>. QED BY <3>1, <3>2, <3>3, <3>4
  <2>3. /\ Posted' = Range(waiting') \cup started' \cup lost' \cup Batched'
        /\ Range(waiting') \cap started' = {} /\ Range(waiting') \cap Batched' = {}
        /\ started' \cap Batched' = {}
    BY <1>1, <1>3, <1>8, <1>9 DEF Conserved
  <2>. QED BY <2>2, <2>3 DEF Conserved
<1>12. Behind'
  <2>1. d.now = "none"
    BY DEF d
  <2>2. ASSUME NEW u \in Drainer, NEW i \in 1 .. Len(drains'[u])
        PROVE  /\ SortedBy(Pos, drains'[u][i].batch)
               /\ drains'[u][i].now # "none" =>
                    drains'[u][i].now \in Posted /\ \A x \in Batch(u, i)' : Pos[drains'[u][i].now] < Pos[x]
    <3>1. CASE u # t
      <4>1. drains'[u] = drains[u] /\ i \in 1 .. Len(drains[u])
        BY <1>4, <3>1
      <4>2. Batch(u, i)' = Batch(u, i)
        BY <4>1 DEF Batch
      <4>. QED BY <1>7, <4>1, <4>2 DEF Behind
    <3>2. CASE u = t /\ i = n + 1
      BY <1>4, <1>9, <2>1, <3>2
    <3>3. CASE u = t /\ i # n + 1
      BY <1>0, <1>4, <1>5, <1>7, <3>3 DEF Behind
    <3>. QED BY <3>1, <3>2, <3>3
  <2>. QED BY <1>1, <1>3, <2>2 DEF Behind
<1>13. InOrder'
  <2>1. \A x \in Posted \ Range(waiting'), y \in Range(waiting') : Pos[x] < Pos[y]
    BY <1>1, EmptySorted DEF InOrder
  <2>. QED BY <1>1, <1>3, <1>9, <2>1 DEF InOrder
<1>. QED BY <1>6, <1>10, <1>11, <1>12, <1>13

\* The innermost drain of thread t is replaced or over.
TopChanges(t, d) ==
  \A u \in Drainer :
    /\ Len(drains'[u]) = Len(drains[u])
    /\ \A i \in 1 .. Len(drains[u]) :
         IF u = t /\ i = Len(drains[t]) THEN drains'[u][i] = d ELSE drains'[u][i] = drains[u][i]
TopGoes(t) ==
  \A u \in Drainer :
    /\ Len(drains'[u]) = IF u = t THEN Len(drains[u]) - 1 ELSE Len(drains[u])
    /\ \A i \in 1 .. Len(drains'[u]) : drains'[u][i] = drains[u][i]

LEMMA TopFact ==
  ASSUME QueueTypes, NEW t \in Drainer, drains[t] # <<>>
  PROVE  /\ Len(drains[t]) \in Nat \ {0} /\ Len(drains[t]) \in 1 .. Len(drains[t])
         /\ Last(drains[t]) = drains[t][Len(drains[t])] /\ Last(drains[t]) \in Frame
         /\ Last(drains[t]).batch \in Seq(Entry)
         /\ Batch(t, Len(drains[t])) = Range(Last(drains[t]).batch)
<1>1. drains[t] \in Seq(Frame)
  BY DEF QueueTypes
<1>2. /\ Len(drains[t]) \in Nat \ {0} /\ Last(drains[t]) = drains[t][Len(drains[t])]
      /\ Last(drains[t]) \in Frame
  <2>1. PICK d \in Frame : TRUE
    <3>1. [now |-> "none", batch |-> <<>>] \in Frame
      BY DEF Frame
    <3>. QED BY <3>1
  <2>. QED BY <1>1, <2>1, StackFact
<1>. QED BY <1>2 DEF Frame, Batch

LEMMA SetTopFact ==
  ASSUME QueueTypes, NEW t \in Drainer, drains[t] # <<>>, NEW d \in Frame, SetTop(t, d)
  PROVE  drains' \in [Drainer -> Seq(Frame)] /\ TopChanges(t, d)
<1>1. drains' = [drains EXCEPT ![t] = Append(Front(drains[t]), d)]
  BY DEF SetTop
<1>2. drains[t] \in Seq(Frame)
  BY DEF QueueTypes
<1>3. /\ Append(Front(drains[t]), d) \in Seq(Frame)
      /\ Len(Append(Front(drains[t]), d)) = Len(drains[t])
      /\ Append(Front(drains[t]), d)[Len(drains[t])] = d /\ Len(drains[t]) \in Nat \ {0}
      /\ \A i \in 1 .. Len(drains[t]) - 1 : Append(Front(drains[t]), d)[i] = drains[t][i]
  BY <1>2, StackFact
<1>4. drains' \in [Drainer -> Seq(Frame)]
  BY <1>1, <1>3 DEF QueueTypes
<1>5. ASSUME NEW u \in Drainer
      PROVE  /\ Len(drains'[u]) = Len(drains[u])
             /\ \A i \in 1 .. Len(drains[u]) : IF u = t /\ i = Len(drains[t])
                  THEN drains'[u][i] = d ELSE drains'[u][i] = drains[u][i]
  <2>1. CASE u # t
    BY <1>1, <2>1 DEF QueueTypes
  <2>2. CASE u = t
    <3>1. drains'[t] = Append(Front(drains[t]), d)
      BY <1>1 DEF QueueTypes
    <3>2. \A i \in 1 .. Len(drains[t]) : i # Len(drains[t]) => i \in 1 .. Len(drains[t]) - 1
      BY <1>3
    <3>. QED BY <1>3, <2>2, <3>1, <3>2
  <2>. QED BY <2>1, <2>2
<1>. QED BY <1>4, <1>5 DEF TopChanges

LEMMA PopFact ==
  ASSUME QueueTypes, NEW t \in Drainer, drains[t] # <<>>,
         drains' = [drains EXCEPT ![t] = Front(@)]
  PROVE  drains' \in [Drainer -> Seq(Frame)] /\ TopGoes(t)
<1>1. drains[t] \in Seq(Frame) /\ drains'[t] = Front(drains[t])
      /\ \A u \in Drainer : u # t => drains'[u] = drains[u]
  BY DEF QueueTypes
<1>2. /\ Front(drains[t]) \in Seq(Frame) /\ Len(Front(drains[t])) = Len(drains[t]) - 1
      /\ \A i \in 1 .. Len(drains[t]) - 1 : Front(drains[t])[i] = drains[t][i]
  <2>1. PICK d \in Frame : TRUE
    BY TopFact
  <2>. QED BY <1>1, <2>1, StackFact
<1>3. drains' \in [Drainer -> Seq(Frame)]
  BY <1>1, <1>2 DEF QueueTypes
<1>. QED BY <1>1, <1>2, <1>3 DEF TopGoes

LEMMA BatchFact ==
  ASSUME QueueInv, NEW u \in Drainer, NEW i \in 1 .. Len(drains[u])
  PROVE  /\ drains[u][i] \in Frame /\ drains[u][i].batch \in Seq(Entry)
         /\ Batch(u, i) \subseteq Batched /\ Batch(u, i) \subseteq Entry
<1>1. drains[u][i] \in Frame /\ drains[u][i].batch \in Seq(Entry)
  <2>1. drains[u] \in Seq(Frame)
    BY DEF QueueInv, QueueTypes
  <2>2. drains[u][i] \in Frame
    BY <2>1, ElementOfSeq
  <2>. QED BY <2>2 DEF Frame
<1>2. Batch(u, i) \subseteq Entry
  BY <1>1, RangeFact DEF Batch
<1>. QED BY <1>1, <1>2 DEF Batched

\* No other drain has taken out anything that the innermost one of t has.
LEMMA TopApart ==
  ASSUME QueueInv, NEW t \in Drainer, drains[t] # <<>>,
         NEW u \in Drainer, NEW i \in 1 .. Len(drains[u]), ~(u = t /\ i = Len(drains[t]))
  PROVE  Batch(u, i) \cap Range(Last(drains[t]).batch) = {}
<1>1. QueueTypes /\ Apart
  BY DEF QueueInv, Conserved
<1>. QED BY <1>1, TopFact DEF Apart

\* Every batch loses what is in R, and no batch goes that has more.
LEMMA BatchedLess ==
  ASSUME QueueInv, NEW R,
         \A u \in Drainer : \A i \in 1 .. Len(drains'[u]) :
           i \in 1 .. Len(drains[u]) /\ Batch(u, i)' = Batch(u, i) \ R,
         \A u \in Drainer : \A i \in 1 .. Len(drains[u]) :
           i \in 1 .. Len(drains'[u]) \/ Batch(u, i) \subseteq R
  PROVE  /\ Batched' = Batched \ R
         /\ Apart'
<1>1. \A x \in Batched' : x \in Batched \ R
  BY DEF Batched
<1>2. \A x \in Batched \ R : x \in Batched'
  <2>. SUFFICES ASSUME NEW x \in Entry, x \notin R, NEW u \in Drainer,
                       NEW i \in 1 .. Len(drains[u]), x \in Batch(u, i)
                PROVE  x \in Batched'
    BY DEF Batched
  <2>1. i \in 1 .. Len(drains'[u]) /\ x \in Batch(u, i)'
    OBVIOUS
  <2>. QED BY <2>1 DEF Batched
<1>3. Apart'
  BY DEF QueueInv, Conserved, Apart
<1>. QED BY <1>1, <1>2, <1>3

LEMMA EntryReturnsInv ==
  ASSUME QueueInv, NEW t \in Drainer, EntryReturns(t)
  PROVE  QueueInv'
<1>. DEFINE d == [Last(drains[t]) EXCEPT !.now = "none"]
<1>1. /\ UNCHANGED <<queueKind, owner, waiting, postedSeq, started, lost, thrown>>
      /\ drains[t] # <<>> /\ SetTop(t, d) /\ QueueTypes
  BY DEF EntryReturns, Runs, Idle, QueueInv
<1>2. d \in Frame /\ d.now = "none" /\ d.batch = Last(drains[t]).batch
  BY <1>1, TopFact DEF Frame
<1>. HIDE DEF d
<1>3. drains' \in [Drainer -> Seq(Frame)] /\ TopChanges(t, d)
  BY <1>1, <1>2, SetTopFact
<1>4. Pos' = Pos /\ Posted' = Posted /\ (Main' <=> Main)
  BY <1>1, SamePosts DEF Main
<1>5. \A u \in Drainer : Len(drains'[u]) = Len(drains[u])
  BY <1>3 DEF TopChanges
<1>6. \A u \in Drainer : \A i \in 1 .. Len(drains[u]) :
        /\ drains'[u][i].batch = drains[u][i].batch /\ Batch(u, i)' = Batch(u, i)
        /\ drains'[u][i].now # "none" => drains'[u][i].now = drains[u][i].now
  <2>. SUFFICES ASSUME NEW u \in Drainer, NEW i \in 1 .. Len(drains[u])
                PROVE  /\ drains'[u][i].batch = drains[u][i].batch
                       /\ drains'[u][i].now # "none" => drains'[u][i].now = drains[u][i].now
    BY DEF Batch
  <2>1. CASE u = t /\ i = Len(drains[t])
    BY <1>1, <1>2, <1>3, <2>1, TopFact DEF TopChanges
  <2>2. CASE ~(u = t /\ i = Len(drains[t]))
    BY <1>3, <2>2 DEF TopChanges
  <2>. QED BY <2>1, <2>2
<1>7. Batched' = Batched \ {} /\ Apart'
  <2>1. \A u \in Drainer : \A i \in 1 .. Len(drains'[u]) :
          i \in 1 .. Len(drains[u]) /\ Batch(u, i)' = Batch(u, i) \ {}
    BY <1>5, <1>6
  <2>2. \A u \in Drainer : \A i \in 1 .. Len(drains[u]) :
          i \in 1 .. Len(drains'[u]) \/ Batch(u, i) \subseteq {}
    BY <1>5
  <2>. QED BY <2>1, <2>2, BatchedLess
<1>8. QueueTypes'
  BY <1>1, <1>3 DEF QueueTypes
<1>9. Shape'
  <2>1. \A u \in Drainer : drains'[u] # <<>> => drains[u] # <<>>
    <3>. SUFFICES ASSUME NEW u \in Drainer, drains[u] = <<>> PROVE drains'[u] = <<>>
      OBVIOUS
    <3>1. drains'[u] \in Seq(Frame) /\ Len(drains'[u]) = 0
      BY <1>3, <1>5
    <3>. QED BY <3>1, EmptySeq
  <2>2. \A u \in Drainer : \A i \in 1 .. Len(drains[u]) :
          OneLeft(drains[u][i]) => OneLeft(drains'[u][i])
    BY <1>6 DEF OneLeft
  <2>. QED BY <1>1, <1>4, <1>5, <2>1, <2>2 DEF Shape, QueueInv
<1>10. Conserved'
  BY <1>1, <1>4, <1>7 DEF Conserved, QueueInv
<1>11. Behind'
  <2>1. ASSUME NEW u \in Drainer, NEW i \in 1 .. Len(drains'[u])
        PROVE  /\ SortedBy(Pos, drains'[u][i].batch)
               /\ drains'[u][i].now # "none" =>
                    drains'[u][i].now \in Posted /\ \A x \in Batch(u, i)' : Pos[drains'[u][i].now] < Pos[x]
    BY <1>5, <1>6 DEF Behind, QueueInv
  <2>. QED BY <1>1, <1>4, <2>1 DEF Behind, QueueInv
<1>12. InOrder'
  BY <1>1, <1>4, <1>7 DEF InOrder, QueueInv
<1>. QED BY <1>8, <1>9, <1>10, <1>11, <1>12 DEF QueueInv

\* The end of a drain, whose batch R is empty or lost.
LEMMA LeaveInv ==
  ASSUME QueueInv, NEW t \in Drainer, drains[t] # <<>>,
         drains' = [drains EXCEPT ![t] = Front(@)],
         UNCHANGED <<queueKind, owner, waiting, postedSeq, started>>,
         lost' = lost \cup Range(Last(drains[t]).batch), thrown \subseteq thrown',
         ~Main => Range(Last(drains[t]).batch) = {},
         thrown' \in SUBSET Entry,
         \A x \in Range(Last(drains[t]).batch) : \E f \in thrown' : f \in Posted /\ Pos[f] < Pos[x]
  PROVE  QueueInv'
<1>. DEFINE R == Range(Last(drains[t]).batch)
<1>1. QueueTypes /\ Pos' = Pos /\ Posted' = Posted /\ (Main' <=> Main)
  BY SamePosts DEF QueueInv, Main
<1>2. drains' \in [Drainer -> Seq(Frame)] /\ TopGoes(t)
  BY <1>1, PopFact
<1>3. /\ Len(drains[t]) \in Nat \ {0} /\ Len(drains[t]) \in 1 .. Len(drains[t])
      /\ Batch(t, Len(drains[t])) = R /\ R \subseteq Entry
  BY <1>1, TopFact, RangeFact
<1>4. ASSUME NEW u \in Drainer
      PROVE  /\ Len(drains'[u]) <= Len(drains[u]) /\ Len(drains[u]) \in Nat
             /\ \A i \in 1 .. Len(drains'[u]) :
                  /\ i \in 1 .. Len(drains[u]) /\ drains'[u][i] = drains[u][i]
                  /\ ~(u = t /\ i = Len(drains[t])) /\ Batch(u, i)' = Batch(u, i)
             /\ \A i \in 1 .. Len(drains[u]) :
                  i \in 1 .. Len(drains'[u]) \/ (u = t /\ i = Len(drains[t]))
  <2>1. Len(drains[u]) \in Nat
    BY <1>1 DEF QueueTypes
  <2>2. Len(drains'[u]) = IF u = t THEN Len(drains[u]) - 1 ELSE Len(drains[u])
    BY <1>2 DEF TopGoes
  <2>3. \A i \in 1 .. Len(drains'[u]) : drains'[u][i] = drains[u][i] /\ Batch(u, i)' = Batch(u, i)
    BY <1>2 DEF TopGoes, Batch
  <2>4. \A i \in 1 .. Len(drains'[u]) : i \in 1 .. Len(drains[u]) /\ ~(u = t /\ i = Len(drains[t]))
    BY <2>1, <2>2
  <2>5. \A i \in 1 .. Len(drains[u]) : i \in 1 .. Len(drains'[u]) \/ (u = t /\ i = Len(drains[t]))
    BY <2>1, <2>2
  <2>6. Len(drains'[u]) <= Len(drains[u])
    BY <2>1, <2>2
  <2>. QED BY <2>1, <2>3, <2>4, <2>5, <2>6
<1>5. Batched' = Batched \ R /\ Apart' /\ (~Main => R = {})
  <2>1. ASSUME NEW u \in Drainer, NEW i \in 1 .. Len(drains'[u])
        PROVE  i \in 1 .. Len(drains[u]) /\ Batch(u, i)' = Batch(u, i) \ R
    <3>1. i \in 1 .. Len(drains[u]) /\ Batch(u, i)' = Batch(u, i) /\ ~(u = t /\ i = Len(drains[t]))
      BY <1>4
    <3>2. Batch(u, i) \cap R = {}
      BY <3>1, TopApart
    <3>. QED BY <3>1, <3>2
  <2>2. \A u \in Drainer : \A i \in 1 .. Len(drains[u]) :
          i \in 1 .. Len(drains'[u]) \/ Batch(u, i) \subseteq R
    BY <1>3, <1>4
  <2>. QED BY <2>1, <2>2, BatchedLess
<1>. HIDE DEF R
<1>6. R \subseteq Batched
  <2>1. Len(drains[t]) \in 1 .. Len(drains[t]) /\ Batch(t, Len(drains[t])) = R
    BY <1>3
  <2>. QED BY <2>1, BatchFact
<1>7. lost' = lost \cup R
  BY DEF R
<1>8. QueueTypes'
  BY <1>1, <1>2, <1>3, <1>7 DEF QueueTypes
<1>9. Shape'
  <2>1. \A u \in Drainer : drains'[u] # <<>> => drains[u] # <<>>
    <3>. SUFFICES ASSUME NEW u \in Drainer, drains[u] = <<>> PROVE drains'[u] = <<>>
      OBVIOUS
    <3>1. drains'[u] \in Seq(Frame) /\ Len(drains[u]) = 0 /\ Len(drains'[u]) <= Len(drains[u])
      BY <1>2, <1>4
    <3>2. Len(drains'[u]) = 0
      BY <3>1
    <3>. QED BY <3>1, <3>2, EmptySeq
  <2>2. ~Main => \A u \in Drainer : \A i \in 1 .. Len(drains'[u]) : OneLeft(drains'[u][i])
    BY <1>4 DEF Shape, QueueInv
  <2>3. lost' # {} => Main
    BY <1>5, <1>7 DEF Shape, QueueInv
  <2>. QED BY <1>1, <2>1, <2>2, <2>3 DEF Shape, QueueInv
<1>10. Conserved'
  <2>1. /\ Posted = Range(waiting) \cup started \cup lost' \cup Batched'
        /\ Range(waiting) \cap started = {} /\ Range(waiting) \cap Batched' = {}
        /\ started \cap Batched' = {}
    BY <1>5, <1>6, <1>7 DEF Conserved, QueueInv
  <2>. QED BY <1>1, <1>5, <2>1 DEF Conserved
<1>11. Behind'
  <2>1. ASSUME NEW u \in Drainer, NEW i \in 1 .. Len(drains'[u])
        PROVE  /\ SortedBy(Pos, drains'[u][i].batch)
               /\ drains'[u][i].now # "none" =>
                    drains'[u][i].now \in Posted /\ \A x \in Batch(u, i)' : Pos[drains'[u][i].now] < Pos[x]
    <3>1. i \in 1 .. Len(drains[u]) /\ drains'[u][i] = drains[u][i] /\ Batch(u, i)' = Batch(u, i)
      BY <1>4
    <3>. QED BY <3>1 DEF Behind, QueueInv
  <2>2. \A x \in lost' : \E f \in thrown' : f \in Posted /\ Pos[f] < Pos[x]
    BY <1>7 DEF Behind, QueueInv, R
  <2>. QED BY <1>1, <2>1, <2>2 DEF Behind
<1>12. InOrder'
  BY <1>1, <1>5 DEF InOrder, QueueInv
<1>. QED BY <1>8, <1>9, <1>10, <1>11, <1>12 DEF QueueInv

LEMMA EntryThrowsInv ==
  ASSUME QueueInv, NEW t \in Drainer, EntryThrows(t)
  PROVE  QueueInv'
<1>. DEFINE f == Last(drains[t]).now
<1>1. /\ drains[t] # <<>> /\ f # "none" /\ thrown' = thrown \cup {f} /\ QueueTypes
  BY DEF EntryThrows, Runs, Idle, QueueInv
<1>2. /\ Len(drains[t]) \in 1 .. Len(drains[t]) /\ Last(drains[t]) = drains[t][Len(drains[t])]
      /\ Last(drains[t]) \in Frame /\ Batch(t, Len(drains[t])) = Range(Last(drains[t]).batch)
  BY <1>1, TopFact
<1>3. f \in Posted /\ \A x \in Range(Last(drains[t]).batch) : Pos[f] < Pos[x]
  BY <1>1, <1>2 DEF Behind, QueueInv
<1>4. f \in Entry
  BY <1>1, <1>2 DEF Frame
<1>5. ~Main => Range(Last(drains[t]).batch) = {}
  BY <1>1, <1>2, EmptySorted DEF Shape, OneLeft, QueueInv
<1>. HIDE DEF f
<1>6. thrown \subseteq thrown' /\ thrown' \in SUBSET Entry
  BY <1>1, <1>4 DEF QueueTypes
<1>. QED BY <1>1, <1>3, <1>5, <1>6, LeaveInv DEF EntryThrows

LEMMA EndDrainInv ==
  ASSUME QueueInv, NEW t \in Drainer, EndDrain(t)
  PROVE  QueueInv'
<1>1. drains[t] # <<>> /\ QueueTypes
  BY DEF EndDrain, Between, Idle, QueueInv
<1>2. Last(drains[t]).batch = <<>>
  BY DEF EndDrain, Drained
<1>3. Range(Last(drains[t]).batch) = {}
  BY <1>2, EmptySorted
<1>4. thrown \subseteq thrown' /\ thrown' \in SUBSET Entry /\ lost' = lost \cup {}
  BY <1>1 DEF EndDrain, QueueTypes
<1>. QED BY <1>1, <1>3, <1>4, LeaveInv DEF EndDrain

\* What t has taken out becomes s: only its own frame, the queue and the set of started
\* actions change, and whatever leaves the queue or the frame is e.
LEMMA TopBatch ==
  ASSUME QueueInv, NEW t \in Drainer, drains[t] # <<>>, NEW d \in Frame, SetTop(t, d),
         UNCHANGED <<owner, queueKind, postedSeq, lost, thrown>>,
         waiting' \in Seq(Entry), started' \in SUBSET Entry, ~Main => OneLeft(d),
         SortedBy(Pos, d.batch),
         d.now # "none" => d.now \in Posted /\ \A x \in Range(d.batch) : Pos[d.now] < Pos[x]
  PROVE  /\ Pos' = Pos /\ Posted' = Posted /\ QueueTypes' /\ Shape' /\ Behind'
         /\ Batch(t, Len(drains[t]))' = Range(d.batch)
         /\ \A u \in Drainer : Len(drains'[u]) = Len(drains[u])
         /\ \A u \in Drainer : \A i \in 1 .. Len(drains[u]) :
              ~(u = t /\ i = Len(drains[t])) => Batch(u, i)' = Batch(u, i)
<1>0. PICK n \in Nat : n = Len(drains[t])
  BY DEF QueueInv, QueueTypes
<1>1. QueueTypes /\ Pos' = Pos /\ Posted' = Posted /\ (Main' <=> Main)
  BY SamePosts DEF QueueInv, Main
<1>2. drains' \in [Drainer -> Seq(Frame)] /\ TopChanges(t, d) /\ n \in 1 .. n
  BY <1>0, <1>1, SetTopFact, TopFact
<1>3. /\ \A u \in Drainer : Len(drains'[u]) = Len(drains[u])
      /\ drains'[t][n] = d /\ Batch(t, n)' = Range(d.batch)
      /\ \A u \in Drainer : \A i \in 1 .. Len(drains[u]) : ~(u = t /\ i = n) =>
           drains'[u][i] = drains[u][i] /\ Batch(u, i)' = Batch(u, i)
  BY <1>0, <1>2 DEF TopChanges, Batch
<1>4. QueueTypes'
  BY <1>1, <1>2 DEF QueueTypes
<1>5. Shape'
  <2>1. \A u \in Drainer : drains'[u] # <<>> => drains[u] # <<>>
    <3>. SUFFICES ASSUME NEW u \in Drainer, drains[u] = <<>> PROVE drains'[u] = <<>>
      OBVIOUS
    <3>1. drains'[u] \in Seq(Frame) /\ Len(drains'[u]) = 0
      BY <1>2, <1>3
    <3>. QED BY <3>1, EmptySeq
  <2>2. ~Main => \A u \in Drainer : \A i \in 1 .. Len(drains'[u]) : OneLeft(drains'[u][i])
    BY <1>3 DEF Shape, QueueInv
  <2>. QED BY <1>1, <2>1, <2>2 DEF Shape, QueueInv
<1>6. Behind'
  <2>1. ASSUME NEW u \in Drainer, NEW i \in 1 .. Len(drains'[u])
        PROVE  /\ SortedBy(Pos, drains'[u][i].batch)
               /\ drains'[u][i].now # "none" =>
                    drains'[u][i].now \in Posted /\ \A x \in Batch(u, i)' : Pos[drains'[u][i].now] < Pos[x]
    <3>1. CASE u = t /\ i = n
      BY <1>3, <3>1
    <3>2. CASE ~(u = t /\ i = n)
      BY <1>3, <3>2 DEF Behind, QueueInv
    <3>. QED BY <3>1, <3>2
  <2>. QED BY <1>1, <2>1 DEF Behind, QueueInv
<1>. QED BY <1>0, <1>1, <1>3, <1>4, <1>5, <1>6

LEMMA TakeEntryInv ==
  ASSUME QueueInv, NEW t \in Drainer, TakeEntry(t)
  PROVE  QueueInv'
<1>. DEFINE e == Head(waiting)
            d == [now |-> "none", batch |-> <<e>>]
<1>0. PICK n \in Nat : n = Len(drains[t])
  BY DEF QueueInv, QueueTypes
<1>1. /\ UNCHANGED <<queueKind, owner, postedSeq, started, lost, thrown>>
      /\ drains[t] # <<>> /\ Last(drains[t]).batch = <<>> /\ waiting # <<>> /\ SetTop(t, d)
      /\ waiting' = Tail(waiting) /\ QueueTypes
  BY DEF TakeEntry, Between, Idle, QueueInv
<1>2. /\ e \in Entry /\ Tail(waiting) \in Seq(Entry) /\ SortedBy(Pos, Tail(waiting))
      /\ Range(waiting) = {e} \cup Range(Tail(waiting)) /\ \A y \in Range(Tail(waiting)) : Pos[e] < Pos[y]
  BY <1>1, TailFact DEF QueueTypes, QueueInv, InOrder
<1>3. /\ d \in Frame /\ d.now = "none" /\ d.batch = <<e>> /\ Range(d.batch) = {e} /\ SortedBy(Pos, d.batch)
      /\ OneLeft(d)
  <2>1. /\ <<e>> \in Seq(Entry) /\ Len(<<e>>) = 1 /\ DOMAIN <<e>> = 1 .. 1 /\ <<e>>[1] = e
        /\ \A i \in 1 .. 1 : i = 1
    BY <1>2
  <2>2. Range(<<e>>) = {e}
    BY <2>1 DEF Range
  <2>3. SortedBy(Pos, <<e>>)
    <3>1. \A i, j \in 1 .. 1 : ~(i < j)
      BY <2>1
    <3>. QED BY <2>1, <3>1 DEF SortedBy
  <2>. QED BY <2>1, <2>2, <2>3 DEF Frame, OneLeft
<1>. HIDE DEF d, e
<1>4. /\ Pos' = Pos /\ Posted' = Posted /\ QueueTypes' /\ Shape' /\ Behind'
      /\ Batch(t, n)' = {e} /\ Batch(t, n) = {} /\ n \in 1 .. n
      /\ \A u \in Drainer : Len(drains'[u]) = Len(drains[u])
      /\ \A u \in Drainer : \A i \in 1 .. Len(drains[u]) : ~(u = t /\ i = n) => Batch(u, i)' = Batch(u, i)
  <2>1. started' \in SUBSET Entry /\ waiting' \in Seq(Entry)
    BY <1>1, <1>2 DEF QueueTypes
  <2>2. Batch(t, n) = {} /\ n \in 1 .. n
    BY <1>0, <1>1, TopFact, EmptySorted
  <2>. QED BY <1>0, <1>1, <1>3, <2>1, <2>2, TopBatch
<1>5. /\ Len(postedSeq) \in Nat /\ e \in Posted
      /\ \A x \in Posted : Pos[x] \in 1 .. Len(postedSeq)
  BY <1>1, <1>2, PosFact DEF QueueInv, InOrder, QueueTypes, Conserved
<1>6. e \notin Range(waiting') /\ e \notin started /\ e \notin Batched
  <2>1. ~(Pos[e] < Pos[e])
    BY <1>5
  <2>. QED BY <1>1, <1>2, <2>1 DEF QueueInv, Conserved
<1>7. \A u \in Drainer : \A i \in 1 .. Len(drains[u]) :
        /\ Batch(u, i) \subseteq Batched /\ Batch(u, i) \subseteq Entry
        /\ Batch(u, i)' = IF u = t /\ i = n THEN {e} ELSE Batch(u, i)
  BY <1>4, BatchFact
<1>8. Batched' = Batched \cup {e}
  <2>1. \A x \in Batched : x \in Batched'
    BY <1>4, <1>7 DEF Batched
  <2>2. e \in Batched'
    BY <1>0, <1>2, <1>4 DEF Batched
  <2>3. \A x \in Batched' : x \in Batched \cup {e}
    BY <1>4, <1>7 DEF Batched
  <2>. QED BY <2>1, <2>2, <2>3
<1>9. Apart'
  <2>. SUFFICES ASSUME NEW u \in Drainer, NEW v \in Drainer, NEW i \in 1 .. Len(drains[u]),
                       NEW j \in 1 .. Len(drains[v]), ~(u = v /\ i = j)
                PROVE  Batch(u, i)' \cap Batch(v, j)' = {}
    BY <1>4 DEF Apart
  <2>1. Batch(u, i) \cap Batch(v, j) = {}
    BY DEF QueueInv, Conserved, Apart
  <2>. QED BY <1>6, <1>7, <2>1
<1>10. Conserved'
  BY <1>1, <1>2, <1>4, <1>6, <1>8, <1>9 DEF Conserved, QueueInv
<1>11. InOrder'
  <2>1. \A x \in Posted \ Range(waiting'), y \in Range(waiting') : Pos[x] < Pos[y]
    BY <1>1, <1>2 DEF InOrder, QueueInv
  <2>. QED BY <1>1, <1>2, <1>4, <2>1 DEF InOrder, QueueInv
<1>. QED BY <1>4, <1>10, <1>11 DEF QueueInv

LEMMA RunEntryInv ==
  ASSUME QueueInv, NEW t \in Drainer, RunEntry(t)
  PROVE  QueueInv'
<1>. DEFINE from == Last(drains[t]).batch
            e == Head(from)
            d == [now |-> e, batch |-> Tail(from)]
<1>0. PICK n \in Nat : n = Len(drains[t])
  BY DEF QueueInv, QueueTypes
<1>1. /\ UNCHANGED <<queueKind, owner, waiting, postedSeq, lost, thrown>>
      /\ drains[t] # <<>> /\ from # <<>> /\ SetTop(t, d)
      /\ started' = started \cup {e} /\ QueueTypes
  BY DEF RunEntry, Between, Idle, QueueInv
<1>2. /\ n \in Nat \ {0} /\ n \in 1 .. n /\ Batch(t, n) = Range(from)
      /\ from = drains[t][n].batch /\ from \in Seq(Entry) /\ Range(from) \subseteq Batched
      /\ SortedBy(Pos, from) /\ (~Main => Len(from) = 1)
  <2>1. /\ n \in Nat \ {0} /\ n \in 1 .. n /\ Batch(t, n) = Range(from)
        /\ from = drains[t][n].batch /\ from \in Seq(Entry)
    BY <1>0, <1>1, TopFact
  <2>2. Range(from) \subseteq Batched
    BY <1>0, <2>1, BatchFact
  <2>3. SortedBy(Pos, from) /\ (~Main => Len(from) = 1)
    BY <1>0, <1>1, <2>1 DEF QueueInv, Behind, Shape, OneLeft
  <2>. QED BY <2>1, <2>2, <2>3
<1>3. /\ e \in Entry /\ Tail(from) \in Seq(Entry) /\ SortedBy(Pos, Tail(from))
      /\ Range(from) = {e} \cup Range(Tail(from)) /\ \A y \in Range(Tail(from)) : Pos[e] < Pos[y]
  BY <1>1, <1>2, TailFact
<1>4. ~Main => Tail(from) = <<>>
  BY <1>1, <1>2, HeadTailProperties, EmptySeq
<1>5. d \in Frame /\ d.now = e /\ d.batch = Tail(from) /\ (~Main => OneLeft(d))
  BY <1>3, <1>4 DEF Frame, OneLeft
<1>. HIDE DEF d, e, from
<1>6. /\ Len(postedSeq) \in Nat
      /\ \A x \in Posted : Pos[x] \in 1 .. Len(postedSeq)
  BY <1>1, PosFact DEF QueueInv, InOrder, QueueTypes
<1>7. e \in Posted /\ e \notin started /\ e \notin Range(waiting) /\ e \notin Range(Tail(from))
  <2>1. e \in Posted /\ e \notin started /\ e \notin Range(waiting)
    BY <1>2, <1>3 DEF QueueInv, Conserved
  <2>2. ~(Pos[e] < Pos[e])
    BY <1>6, <2>1
  <2>. QED BY <1>3, <2>1, <2>2
<1>8. /\ Pos' = Pos /\ Posted' = Posted /\ QueueTypes' /\ Shape' /\ Behind'
      /\ Batch(t, n)' = Range(Tail(from))
      /\ \A u \in Drainer : Len(drains'[u]) = Len(drains[u])
      /\ \A u \in Drainer : \A i \in 1 .. Len(drains[u]) : ~(u = t /\ i = n) => Batch(u, i)' = Batch(u, i)
  <2>1. started' \in SUBSET Entry /\ waiting' \in Seq(Entry)
    BY <1>1, <1>3 DEF QueueTypes
  <2>2. SortedBy(Pos, d.batch) /\ d.now \in Posted /\ \A x \in Range(d.batch) : Pos[d.now] < Pos[x]
    BY <1>3, <1>5, <1>7
  <2>. QED BY <1>0, <1>1, <1>5, <2>1, <2>2, TopBatch
<1>9. \A u \in Drainer : \A i \in 1 .. Len(drains[u]) : Batch(u, i)' = Batch(u, i) \ {e}
  <2>1. Batch(t, n)' = Batch(t, n) \ {e}
    BY <1>2, <1>3, <1>7, <1>8
  <2>2. ASSUME NEW u \in Drainer, NEW i \in 1 .. Len(drains[u]), ~(u = t /\ i = n)
        PROVE  Batch(u, i)' = Batch(u, i) \ {e}
    <3>1. Batch(u, i) \cap Range(from) = {}
      BY <1>0, <1>1, <2>2, TopApart DEF from
    <3>. QED BY <1>3, <1>8, <2>2, <3>1
  <2>. QED BY <2>1, <2>2
<1>10. Batched' = Batched \ {e} /\ Apart'
  BY <1>8, <1>9, BatchedLess
<1>11. Conserved'
  BY <1>1, <1>2, <1>3, <1>7, <1>8, <1>10 DEF Conserved, QueueInv
<1>12. InOrder'
  BY <1>1, <1>8 DEF InOrder, QueueInv
<1>. QED BY <1>8, <1>11, <1>12 DEF QueueInv

LEMMA QueueInvHolds == MainSpec => []QueueInv
<1>1. QueueInv /\ [MainNext]_mainVars => QueueInv'
  <2>. SUFFICES ASSUME QueueInv, [MainNext]_mainVars PROVE QueueInv'
    OBVIOUS
  <2>1. ASSUME UNCHANGED <<queueKind, waiting, drains, postedSeq, started, lost, thrown>>,
               owner' = owner \/ (Main /\ owner = "none" /\ owner' \in Drainer)
        PROVE  QueueInv'
    <3>1. Pos' = Pos /\ Posted' = Posted /\ Batched' = Batched /\ (Main' <=> Main)
          /\ \A u \in Drainer : \A i \in 1 .. Len(drains[u]) : Batch(u, i)' = Batch(u, i)
      BY <2>1, SamePosts DEF Main, Batched, Batch
    <3>2. QueueTypes'
      BY <2>1 DEF QueueTypes, QueueInv
    <3>3. Shape'
      BY <2>1, <3>1 DEF Shape, QueueInv
    <3>4. Conserved'
      BY <2>1, <3>1 DEF Conserved, Apart, QueueInv
    <3>5. Behind'
      BY <2>1, <3>1 DEF Behind, QueueInv
    <3>6. InOrder'
      BY <2>1, <3>1 DEF InOrder, QueueInv
    <3>. QED BY <3>2, <3>3, <3>4, <3>5, <3>6 DEF QueueInv
  <2>2. CASE UNCHANGED mainVars
    BY <2>1, <2>2 DEF mainVars
  <2>3. ASSUME NEW t \in Drainer, BindCurrentThread(t) PROVE QueueInv'
    BY <2>1, <2>3 DEF BindCurrentThread
  <2>. QED BY <2>2, <2>3, PostEntryInv, BeginDrainInv, EndDrainInv, TakeEntryInv, RunEntryInv,
              EntryReturnsInv, EntryThrowsInv DEF MainNext
<1>. QED BY <1>1, QueueInitInv, PTL DEF MainSpec

\* Every variable of the main executor's queue keeps its type.
LEMMA MainTypeCorrect == MainSpec => []MainTypeOK
<1>1. QueueInv => MainTypeOK
  <2>. SUFFICES ASSUME QueueInv PROVE MainTypeOK
    OBVIOUS
  <2>1. QueueTypes
    BY DEF QueueInv
  <2>2. ASSUME NEW t \in Drainer, NEW i \in DOMAIN drains[t] PROVE drains[t][i] \in Frame
    <3>1. drains[t] \in Seq(Frame)
      BY <2>1 DEF QueueTypes
    <3>. QED BY <3>1, ElementOfSeq
  <2>. QED BY <2>1, <2>2 DEF QueueTypes, MainTypeOK, Frame
<1>. QED BY <1>1, QueueInvHolds, PTL

\* The two queues lose no action but what a main executor's drain had taken out behind one
\* that threw, for any number of actions and threads and any depth of drains.
THEOREM EntriesConserved == MainSpec => []NoEntryVanishes
<1>1. QueueInv => NoEntryVanishes
  <2>. SUFFICES ASSUME QueueInv PROVE NoEntryVanishes
    OBVIOUS
  <2>1. UNION {UNION {Range(drains[t][i].batch) : i \in DOMAIN drains[t]} : t \in Drainer} = Batched
    <3>1. ASSUME NEW t \in Drainer
          PROVE  DOMAIN drains[t] = 1 .. Len(drains[t])
      BY DEF QueueInv, QueueTypes
    <3>2. \A t \in Drainer : \A i \in 1 .. Len(drains[t]) :
            Batch(t, i) \subseteq Entry /\ Batch(t, i) = Range(drains[t][i].batch)
      BY BatchFact DEF Batch
    <3>. QED BY <3>1, <3>2 DEF Batched
  <2>2. \A e \in lost : \E f \in thrown : Position(f) < Position(e)
    BY DEF QueueInv, Behind, QueueTypes, Pos
  <2>. QED BY <2>1, <2>2 DEF QueueInv, Conserved, Shape, NoEntryVanishes, Posted
<1>. QED BY <1>1, QueueInvHolds, PTL

LEMMA OnlyRunStarts ==
  ASSUME QueueInv, MainNext, NEW t \in Drainer, NEW e \in Entry, Starts(t, e)
  PROVE  Last(drains[t]).batch # <<>> /\ e = Head(Last(drains[t]).batch)
<1>. DEFINE n == Len(drains[t])
<1>1. /\ QueueTypes /\ drains[t] # <<>> /\ Last(drains[t]).now = "none" /\ e # "none"
      /\ Len(drains'[t]) = n /\ Last(drains'[t]).now = e
  BY MainAssumption DEF Starts, Between, Idle, QueueInv
<1>2. /\ n \in Nat \ {0} /\ Last(drains[t]) \in Frame
      /\ drains[t] \in Seq(Frame)
  BY <1>1, TopFact DEF QueueTypes
<1>3. drains'[t] # drains[t]
  BY <1>1
<1>4. ASSUME NEW u \in Drainer, NEW s, drains' = [drains EXCEPT ![u] = s], Len(s) # Len(drains[u])
      PROVE  FALSE
  BY <1>1, <1>3, <1>4 DEF QueueTypes
<1>5. ASSUME NEW u \in Drainer, BeginDrain(u) PROVE FALSE
  <2>. DEFINE d == [now |-> "none", batch |-> IF Main THEN waiting ELSE <<>>]
  <2>1. drains' = [drains EXCEPT ![u] = Append(drains[u], d)]
    BY <1>5 DEF BeginDrain
  <2>2. d \in Frame /\ drains[u] \in Seq(Frame) /\ Len(drains[u]) \in Nat
    <3>1. d \in Frame
      BY <1>1 DEF Frame, QueueTypes
    <3>2. drains[u] \in Seq(Frame)
      BY <1>1 DEF QueueTypes
    <3>. QED BY <3>1, <3>2
  <2>. HIDE DEF d
  <2>3. Len(Append(drains[u], d)) = Len(drains[u]) + 1
    BY <2>2
  <2>4. Len(Append(drains[u], d)) # Len(drains[u])
    BY <2>2, <2>3
  <2>. QED BY <1>4, <2>1, <2>4
<1>6. ASSUME NEW u \in Drainer, drains[u] # <<>>, drains' = [drains EXCEPT ![u] = Front(@)] PROVE FALSE
  <2>1. Len(Front(drains[u])) = Len(drains[u]) - 1 /\ Len(drains[u]) \in Nat
    BY <1>1, <1>2, <1>6, StackFact DEF QueueTypes
  <2>2. Len(Front(drains[u])) # Len(drains[u])
    BY <2>1
  <2>. QED BY <1>4, <1>6, <2>2
<1>7. ASSUME NEW u \in Drainer, drains[u] # <<>>, NEW d \in Frame, SetTop(u, d)
      PROVE  u = t /\ d.now = e
  <2>1. drains' \in [Drainer -> Seq(Frame)] /\ TopChanges(u, d)
    BY <1>1, <1>7, SetTopFact
  <2>2. u = t
    BY <1>3, <1>7 DEF SetTop, QueueTypes
  <2>3. drains'[t][n] = d /\ drains'[t] \in Seq(Frame)
    BY <1>2, <2>1, <2>2 DEF TopChanges
  <2>4. Last(drains'[t]) = d
    BY <1>1, <2>3 DEF Last
  <2>. QED BY <1>1, <2>2, <2>4
<1>8. ASSUME NEW u \in Drainer, TakeEntry(u) PROVE FALSE
  <2>. DEFINE d == [now |-> "none", batch |-> <<Head(waiting)>>]
  <2>1. drains[u] # <<>> /\ SetTop(u, d) /\ waiting # <<>> /\ waiting \in Seq(Entry)
    BY <1>1, <1>8 DEF TakeEntry, Between, Idle, QueueTypes
  <2>2. Head(waiting) \in Entry
    BY <2>1, HeadTailProperties
  <2>3. d \in Frame /\ d.now = "none"
    BY <2>2 DEF Frame
  <2>. QED BY <1>1, <1>7, <2>1, <2>3
<1>9. ASSUME NEW u \in Drainer, EntryReturns(u) PROVE FALSE
  <2>. DEFINE d == [Last(drains[u]) EXCEPT !.now = "none"]
  <2>1. drains[u] # <<>> /\ SetTop(u, d)
    BY <1>9 DEF EntryReturns, Runs, Idle
  <2>2. d \in Frame /\ d.now = "none"
    BY <1>1, <2>1, TopFact DEF Frame
  <2>. QED BY <1>1, <1>7, <2>1, <2>2
<1>10. ASSUME NEW u \in Drainer, RunEntry(u)
       PROVE  Last(drains[t]).batch # <<>> /\ e = Head(Last(drains[t]).batch)
  <2>. DEFINE s == Last(drains[u]).batch
              d == [now |-> Head(s), batch |-> Tail(s)]
  <2>1. drains[u] # <<>> /\ SetTop(u, d) /\ s # <<>>
    BY <1>10 DEF RunEntry, Between, Idle
  <2>2. s \in Seq(Entry)
    BY <1>1, <2>1, TopFact
  <2>3. d \in Frame /\ d.now = Head(s)
    BY <2>1, <2>2, HeadTailProperties DEF Frame
  <2>. QED BY <1>7, <2>1, <2>3
<1>11. ASSUME NEW u \in Drainer, EntryThrows(u) \/ EndDrain(u) PROVE FALSE
  BY <1>6, <1>11 DEF EntryThrows, EndDrain, Runs, Between, Idle
<1>12. (\E x \in Entry : PostEntry(x)) \/ (\E u \in Drainer : BindCurrentThread(u)) => FALSE
  BY <1>3 DEF PostEntry, BindCurrentThread
<1>. QED BY <1>5, <1>8, <1>9, <1>10, <1>11, <1>12 DEF MainNext

\* Actions start once each; whatever was posted before an action that starts has started,
\* is lost, or is in the hands of another drain.
THEOREM EntriesInOrder == MainSpec => StartedInOrder
<1>1. ASSUME QueueInv, MainNext, NEW t \in Drainer, NEW e \in Entry, Starts(t, e)
      PROVE  /\ e \notin started
             /\ \A f \in Range(postedSeq) : Position(f) < Position(e) =>
                  f \in started \cup lost \cup Elsewhere(t)
  <2>. DEFINE from == Last(drains[t]).batch
  <2>1. from # <<>> /\ e = Head(from) /\ drains[t] # <<>> /\ QueueTypes
    BY <1>1, OnlyRunStarts DEF Starts, Between, Idle, QueueInv
  <2>2. /\ Len(drains[t]) \in 1 .. Len(drains[t]) /\ Batch(t, Len(drains[t])) = Range(from)
        /\ from \in Seq(Entry) /\ from = drains[t][Len(drains[t])].batch
    BY <2>1, TopFact
  <2>3. SortedBy(Pos, from) /\ Range(from) \subseteq Batched
    BY <1>1, <2>2, BatchFact DEF QueueInv, Behind
  <2>4. e \in Range(from) /\ \A y \in Range(from) : y = e \/ Pos[e] < Pos[y]
    BY <2>1, <2>2, <2>3, TailFact
  <2>. HIDE DEF from
  <2>5. e \in Posted /\ e \notin started /\ e \notin Range(waiting)
    BY <1>1, <2>3, <2>4 DEF QueueInv, Conserved
  <2>6. ASSUME NEW f \in Posted, Position(f) < Position(e)
        PROVE  f \in started \cup lost \cup Elsewhere(t)
    <3>1. /\ f \in Entry /\ Pos[f] < Pos[e] /\ Len(postedSeq) \in Nat
          /\ Pos[f] \in 1 .. Len(postedSeq) /\ Pos[e] \in 1 .. Len(postedSeq)
      <4>1. f \in Entry /\ e \in Entry /\ postedSeq \in Seq(Entry)
        BY <2>1, <2>5, <2>6, RangeFact DEF Posted, QueueTypes
      <4>2. Pos[f] = Position(f) /\ Pos[e] = Position(e)
        BY <4>1 DEF Pos
      <4>3. IsInjective(postedSeq)
        BY <1>1 DEF QueueInv, InOrder
      <4>4. Pos[f] \in 1 .. Len(postedSeq) /\ Pos[e] \in 1 .. Len(postedSeq)
        BY <2>1, <2>5, <2>6, <4>1, <4>3, PosFact
      <4>. QED BY <2>6, <4>1, <4>2, <4>4
    <3>2. f \notin Range(waiting) /\ f \notin Range(from)
      <4>1. ~(Pos[e] < Pos[f]) /\ f # e
        BY <3>1
      <4>. QED BY <1>1, <2>4, <2>5, <4>1 DEF QueueInv, InOrder
    <3>3. CASE f \in Batched
      <4>0. PICK u \in Drainer : \E i \in 1 .. Len(drains[u]) : f \in Batch(u, i)
        BY <3>3 DEF Batched
      <4>1. PICK i \in 1 .. Len(drains[u]) : f \in Batch(u, i)
        BY <4>0
      <4>2. ~(u = t /\ i = Len(drains[t]))
        BY <2>2, <3>2, <4>1
      <4>3. i \in DOMAIN drains[u]
        BY <2>1 DEF QueueTypes
      <4>. QED BY <3>1, <4>1, <4>2, <4>3 DEF Elsewhere, Batch
    <3>. QED BY <1>1, <3>2, <3>3 DEF QueueInv, Conserved
  <2>. QED BY <2>5, <2>6 DEF Posted
<1>2. ASSUME UNCHANGED mainVars, NEW t \in Drainer, NEW e \in Entry, Starts(t, e) PROVE FALSE
  BY <1>2, MainAssumption DEF mainVars, Starts, Between
<1>3. QueueInv /\ [MainNext]_mainVars =>
        [\A t \in Drainer : \A e \in Entry : Starts(t, e) =>
           /\ e \notin started
           /\ \A f \in Range(postedSeq) : Position(f) < Position(e) =>
                f \in started \cup lost \cup Elsewhere(t)]_mainVars
  BY <1>1
<1>. QED BY <1>3, QueueInvHolds, PTL DEF MainSpec, StartedInOrder

HIDE MainAssumption

-----------------------------------------------------------------------------
(* RuntimeShutdown.                                                        *)

\* A pool whose Shutdown an outside thread has finished has nothing left to do.
RtTypes ==
  /\ poolOf \in [Job -> Offload]
  /\ jobState \in [Job -> {"new", "queued", "running", "posted", "resumed", "inline",
                           "refused", "ended"}]
  /\ stopping \in SUBSET {"io", "blocking", "async"}
  /\ calls \in [Caller -> [stage : 0 .. 4, holds : BOOLEAN]]

Past(c, p) == \E i \in 1 .. 3 : Order[i] = p /\ i < calls[c].stage
OnIt(c, p) == Inside(c) /\ calls[c].holds /\ Pool(c) = p
PoolsInOrder ==
  /\ \A c \in Caller : calls[c].holds => Inside(c)
  /\ \A p \in stopping : \E c \in Caller : Past(c, p) \/ OnIt(c, p)
  /\ \A c \in Caller, p \in {"io", "blocking", "async"} :
       /\ Past(c, p) \/ OnIt(c, p) => p \in stopping
       /\ Past(c, p) => Busy(p) = {} /\ Pending(p) = {}

RtInv == RtTypes /\ (~FromInside => PoolsInOrder /\ \A j \in Job : jobState[j] # "inline")

USE ShutdownAssumption DEF rtVars, RtTypes

LEMMA OrderFact ==
  /\ Len(Order) = 3 /\ Order[1] = "io" /\ Order[2] = "blocking" /\ Order[3] = "async"
  /\ 1 .. 3 = {1, 2, 3} /\ 0 .. 4 = {0, 1, 2, 3, 4}
  BY DEF Order

\* The pools that a stage is past, without arithmetic.
LEMMA StageFact ==
  ASSUME NEW s \in {0, 1, 2, 3, 4}
  PROVE  /\ (\E i \in 1 .. 3 : Order[i] = "io" /\ i < s) <=> s \in {2, 3, 4}
         /\ (\E i \in 1 .. 3 : Order[i] = "blocking" /\ i < s) <=> s \in {3, 4}
         /\ (\E i \in 1 .. 3 : Order[i] = "async" /\ i < s) <=> s = 4
  BY OrderFact

\* What a caller's stage says, without arithmetic.
LEMMA PastFact ==
  ASSUME RtTypes, NEW c \in Caller
  PROVE  /\ calls[c].stage \in {0, 1, 2, 3, 4} /\ calls[c].holds \in BOOLEAN
         /\ Inside(c) <=> calls[c].stage \in {1, 2, 3}
         /\ Past(c, "io") <=> calls[c].stage \in {2, 3, 4}
         /\ Past(c, "blocking") <=> calls[c].stage \in {3, 4}
         /\ Past(c, "async") <=> calls[c].stage = 4
         /\ OnIt(c, "io") <=> calls[c].stage = 1 /\ calls[c].holds
         /\ OnIt(c, "blocking") <=> calls[c].stage = 2 /\ calls[c].holds
         /\ OnIt(c, "async") <=> calls[c].stage = 3 /\ calls[c].holds
         /\ calls[c].stage = 1 => Pool(c) = "io"
         /\ calls[c].stage = 2 => Pool(c) = "blocking"
         /\ calls[c].stage = 3 => Pool(c) = "async"
<1>1. calls[c].stage \in {0, 1, 2, 3, 4} /\ calls[c].holds \in BOOLEAN
  BY OrderFact
<1>2. Inside(c) <=> calls[c].stage \in {1, 2, 3}
  BY <1>1, OrderFact DEF Inside
<1>3. /\ Past(c, "io") <=> calls[c].stage \in {2, 3, 4}
      /\ Past(c, "blocking") <=> calls[c].stage \in {3, 4}
      /\ Past(c, "async") <=> calls[c].stage = 4
  BY <1>1, StageFact DEF Past
<1>4. /\ calls[c].stage = 1 => Pool(c) = "io"
      /\ calls[c].stage = 2 => Pool(c) = "blocking"
      /\ calls[c].stage = 3 => Pool(c) = "async"
  BY OrderFact DEF Pool
<1>5. /\ OnIt(c, "io") <=> calls[c].stage = 1 /\ calls[c].holds
      /\ OnIt(c, "blocking") <=> calls[c].stage = 2 /\ calls[c].holds
      /\ OnIt(c, "async") <=> calls[c].stage = 3 /\ calls[c].holds
  BY <1>1, <1>2, <1>4 DEF OnIt
<1>. QED BY <1>1, <1>2, <1>3, <1>4, <1>5

LEMMA RtInitInv == RtInit => RtInv
<1>. SUFFICES ASSUME RtInit PROVE RtInv
  OBVIOUS
<1>1. RtTypes
  BY OrderFact DEF RtInit
<1>2. \A c \in Caller : calls[c].stage = 0
  BY DEF RtInit
<1>3. PoolsInOrder
  <2>1. \A c \in Caller, p \in {"io", "blocking", "async"} : ~Past(c, p) /\ ~OnIt(c, p)
    BY <1>1, <1>2, PastFact
  <2>. QED BY <2>1 DEF PoolsInOrder, RtInit
<1>. QED BY <1>1, <1>3 DEF RtInv, RtInit

LEMMA JobTypes ==
  ASSUME RtTypes, NEW j \in Job,
         NEW s \in {"queued", "running", "posted", "resumed", "inline", "refused", "ended"},
         Now(j, s), UNCHANGED <<poolOf, stopping, calls>>
  PROVE  RtTypes'
  BY DEF Now

\* A step of a job, when nobody has shut the runtime down from inside.
LEMMA JobInv ==
  ASSUME RtInv, NEW j \in Job,
         Submit(j) \/ TakeItem(j) \/ PostContinuation(j) \/ EndOfCoroutine(j)
  PROVE  RtInv'
<1>. USE DEF RtInv
<1>1. RtTypes' /\ UNCHANGED <<poolOf, stopping, calls>>
  BY JobTypes DEF Submit, TakeItem, PostContinuation, EndOfCoroutine
<1>2. SUFFICES ASSUME ~FromInside' PROVE PoolsInOrder' /\ \A i \in Job : jobState'[i] # "inline"
  BY <1>1
<1>3. ~FromInside /\ PoolsInOrder /\ \A i \in Job : jobState[i] # "inline"
  BY <1>1, <1>2 DEF FromInside
<1>4. \A c \in Caller, p \in {"io", "blocking", "async"} :
        (Past(c, p) <=> Past(c, p)') /\ (OnIt(c, p) <=> OnIt(c, p)')
  BY <1>1 DEF Past, OnIt, Inside, Pool
<1>5. \A c \in Caller : Past(c, "async") \/ OnIt(c, "async") => Past(c, "io") /\ Past(c, "blocking")
  BY PastFact
<1>6. poolOf[j] \in {"io", "blocking"} /\ \A i \in Job : i # j => jobState'[i] = jobState[i]
  BY DEF Offload, Submit, TakeItem, PostContinuation, EndOfCoroutine, Now
<1>7. ~("async" \in stopping /\ jobState[j] = "running")
  BY <1>3, <1>5, <1>6 DEF PoolsInOrder, Busy
<1>8. \A i \in Job : jobState'[i] # "inline"
  BY <1>3, <1>7, <1>6 DEF Submit, TakeItem, PostContinuation, EndOfCoroutine, Now
<1>9. ASSUME NEW c \in Caller, NEW p \in {"io", "blocking", "async"}, Past(c, p)
      PROVE  Busy(p)' = {} /\ Pending(p)' = {}
  <2>1. Busy(p) = {} /\ Pending(p) = {} /\ p \in stopping
    BY <1>3, <1>9 DEF PoolsInOrder
  <2>2. p = "async" => Busy("io") = {} /\ Busy("blocking") = {}
    BY <1>3, <1>5, <1>9 DEF PoolsInOrder
  <2>3. CASE Submit(j)
    BY <2>1, <2>3, <1>1, <1>6 DEF Submit, Now, Busy, Pending
  <2>4. CASE TakeItem(j)
    BY <2>1, <2>4, <1>1, <1>6 DEF TakeItem, Now, Busy, Pending, Offload
  <2>5. CASE PostContinuation(j)
    BY <2>1, <2>2, <2>5, <1>1, <1>6, <1>7 DEF PostContinuation, Now, Busy, Pending
  <2>6. CASE EndOfCoroutine(j)
    BY <2>1, <2>6, <1>1, <1>6 DEF EndOfCoroutine, Now, Busy, Pending
  <2>. QED BY <2>3, <2>4, <2>5, <2>6
<1>10. PoolsInOrder'
  BY <1>1, <1>3, <1>4, <1>9 DEF PoolsInOrder, Inside
<1>. QED BY <1>8, <1>10

\* A step of a caller.
LEMMA CallerInv ==
  ASSUME RtInv, NEW c \in Caller,
         CallShutdownRuntime(c) \/ LockAndStop(c) \/ JoinedAndNext(c)
  PROVE  RtInv'
<1>. USE DEF RtInv
<1>1. UNCHANGED <<poolOf, jobState>>
  BY DEF CallShutdownRuntime, LockAndStop, JoinedAndNext
<1>2. /\ calls' \in [Caller -> [stage : 0 .. 4, holds : BOOLEAN]]
      /\ \A d \in Caller : d # c => calls'[d] = calls[d]
      /\ calls'[c].stage \in {1, 2, 3, 4}
      /\ stopping' \in SUBSET {"io", "blocking", "async"}
  <2>0. /\ calls[c] \in [stage : 0 .. 4, holds : BOOLEAN]
        /\ calls[c] = [stage |-> calls[c].stage, holds |-> calls[c].holds]
    OBVIOUS
  <2>1. CASE CallShutdownRuntime(c)
    BY <2>0, <2>1, OrderFact DEF CallShutdownRuntime
  <2>2. CASE LockAndStop(c)
    <3>1. calls[c].stage \in {1, 2, 3} /\ Pool(c) \in {"io", "blocking", "async"}
      BY <2>2, PastFact DEF LockAndStop
    <3>. QED BY <3>1, <2>0, <2>2 DEF LockAndStop
  <2>3. CASE JoinedAndNext(c)
    <3>1. calls[c].stage \in {1, 2, 3}
      BY <2>3, PastFact DEF JoinedAndNext
    <3>2. [stage |-> calls[c].stage + 1, holds |-> FALSE] \in [stage : 0 .. 4, holds : BOOLEAN]
      BY <3>1
    <3>3. calls' = [calls EXCEPT ![c] = [stage |-> calls[c].stage + 1, holds |-> FALSE]]
          /\ UNCHANGED stopping
      BY <2>3 DEF JoinedAndNext
    <3>. QED BY <3>1, <3>2, <3>3
  <2>. QED BY <2>1, <2>2, <2>3
<1>3. RtTypes'
  BY <1>1, <1>2, PastFact DEF CallShutdownRuntime, LockAndStop, JoinedAndNext
<1>4. SUFFICES ASSUME ~FromInside' PROVE PoolsInOrder' /\ \A i \in Job : jobState'[i] # "inline"
  BY <1>3
<1>5. ~FromInside /\ c \notin Job
  <2>1. c \notin Job
    BY <1>2, <1>4 DEF FromInside
  <2>2. ~FromInside
    BY <1>2, <1>4, <2>1 DEF FromInside, Caller
  <2>. QED BY <2>1, <2>2
<1>6. PoolsInOrder /\ \A i \in Job : jobState[i] # "inline"
  BY <1>5
<1>7. \A p \in {"io", "blocking", "async"} : (Busy(p) = Busy(p)') /\ (Pending(p) = Pending(p)')
  BY <1>1 DEF Busy, Pending
<1>8. \A d \in Caller, p \in {"io", "blocking", "async"} : d # c =>
        (Past(d, p) <=> Past(d, p)') /\ (OnIt(d, p) <=> OnIt(d, p)')
  BY <1>2 DEF Past, OnIt, Inside, Pool
<1>9. /\ calls[c].stage \in {0, 1, 2, 3, 4}
      /\ \A p \in {"io", "blocking", "async"} : p = "io" \/ p = "blocking" \/ p = "async"
  BY PastFact
<1>10. SUFFICES PoolsInOrder'
  BY <1>1, <1>6
<1>11. CASE CallShutdownRuntime(c)
  <2>1. /\ calls[c].stage = 0 /\ calls'[c].stage = 1 /\ ~calls[c].holds /\ ~calls'[c].holds
        /\ UNCHANGED stopping
    BY <1>6, <1>11, PastFact DEF CallShutdownRuntime, PoolsInOrder
  <2>2. \A p \in {"io", "blocking", "async"} :
          ~Past(c, p) /\ ~OnIt(c, p) /\ ~Past(c, p)' /\ ~OnIt(c, p)'
    <3>1. ~Past(c, "io") /\ ~Past(c, "blocking") /\ ~Past(c, "async")
      BY <2>1, PastFact
    <3>2. ~Past(c, "io")' /\ ~Past(c, "blocking")' /\ ~Past(c, "async")'
      BY <2>1, StageFact DEF Past
    <3>. QED BY <2>1, <3>1, <3>2 DEF OnIt
  <2>3. \A d \in Caller : calls'[d].holds => Inside(d)'
    BY <2>1, <1>2, <1>6 DEF PoolsInOrder, Inside
  <2>. QED BY <1>6, <1>7, <1>8, <2>1, <2>2, <2>3 DEF PoolsInOrder
<1>12. CASE LockAndStop(c)
  <2>1. /\ ~calls[c].holds /\ calls'[c].holds /\ calls'[c].stage = calls[c].stage
        /\ stopping' = stopping \cup {Pool(c)} /\ Inside(c)
    BY <1>12 DEF LockAndStop
  <2>2. \A p \in {"io", "blocking", "async"} :
          (Past(c, p) <=> Past(c, p)') /\ ~OnIt(c, p) /\ (OnIt(c, p)' <=> p = Pool(c))
    BY <2>1 DEF Past, OnIt, Inside, Pool
  <2>3. Pool(c) \in {"io", "blocking", "async"}
    BY <2>1, PastFact
  <2>4. \A d \in Caller : calls'[d].holds => Inside(d)'
    BY <2>1, <1>2, <1>6 DEF PoolsInOrder, Inside
  <2>. QED BY <1>6, <1>7, <1>8, <2>1, <2>2, <2>3, <2>4 DEF PoolsInOrder
<1>13. CASE JoinedAndNext(c)
  <2>1. /\ Inside(c) /\ calls[c].holds /\ ~calls'[c].holds /\ UNCHANGED stopping
        /\ calls'[c].stage = calls[c].stage + 1
        /\ Busy(Pool(c)) \subseteq {c}
        /\ Pending(Pool(c)) = {} \/ c \in Busy(Pool(c))
    BY <1>13 DEF JoinedAndNext
  <2>2. Busy(Pool(c)) = {} /\ Pending(Pool(c)) = {}
    <3>1. Busy(Pool(c)) \subseteq Job
      BY DEF Busy
    <3>. QED BY <2>1, <1>5, <3>1
  <2>3. calls[c].stage \in {1, 2, 3} /\ Pool(c) \in {"io", "blocking", "async"}
    BY <2>1, PastFact
  <2>4. \A p \in {"io", "blocking", "async"} :
          (Past(c, p)' <=> Past(c, p) \/ p = Pool(c)) /\ ~OnIt(c, p)'
    <3>1. \A p \in {"io", "blocking", "async"} : ~OnIt(c, p)'
      BY <2>1 DEF OnIt
    <3>2. /\ Past(c, "io")' <=> calls'[c].stage \in {2, 3, 4}
          /\ Past(c, "blocking")' <=> calls'[c].stage \in {3, 4}
          /\ Past(c, "async")' <=> calls'[c].stage = 4
      BY <1>2, StageFact DEF Past
    <3>3. calls'[c].stage \in {2, 3, 4}
      BY <2>1, <2>3
    <3>4. CASE calls[c].stage = 1
      BY <2>1, <3>1, <3>2, <3>4, PastFact
    <3>5. CASE calls[c].stage = 2
      BY <2>1, <3>1, <3>2, <3>5, PastFact
    <3>6. CASE calls[c].stage = 3
      BY <2>1, <3>1, <3>2, <3>6, PastFact
    <3>. QED BY <2>3, <3>4, <3>5, <3>6
  <2>5. OnIt(c, Pool(c))
    BY <2>1 DEF OnIt
  <2>6. \A d \in Caller : calls'[d].holds => Inside(d)'
    BY <2>1, <1>2, <1>6 DEF PoolsInOrder, Inside
  <2>7. \A p \in stopping : \E d \in Caller : Past(d, p)' \/ OnIt(d, p)'
    <3>. SUFFICES ASSUME NEW p \in stopping PROVE \E d \in Caller : Past(d, p)' \/ OnIt(d, p)'
      OBVIOUS
    <3>1. p \in {"io", "blocking", "async"}
      OBVIOUS
    <3>2. PICK d \in Caller : Past(d, p) \/ OnIt(d, p)
      BY <1>6 DEF PoolsInOrder
    <3>3. CASE d = c
      <4>1. OnIt(c, p) => p = Pool(c)
        BY DEF OnIt
      <4>. QED BY <2>4, <3>1, <3>2, <3>3, <4>1
    <3>. QED BY <1>8, <3>1, <3>2, <3>3
  <2>8. \A d \in Caller, p \in {"io", "blocking", "async"} :
          /\ Past(d, p)' \/ OnIt(d, p)' => p \in stopping
          /\ Past(d, p)' => Busy(p)' = {} /\ Pending(p)' = {}
    BY <1>6, <1>7, <1>8, <2>2, <2>4, <2>5 DEF PoolsInOrder
  <2>. QED BY <2>1, <2>6, <2>7, <2>8 DEF PoolsInOrder
<1>. QED BY <1>11, <1>12, <1>13

LEMMA RtInvHolds == RtSpec => []RtInv
<1>1. RtInv /\ [RtNext]_rtVars => RtInv'
  <2>. SUFFICES ASSUME RtInv, [RtNext]_rtVars PROVE RtInv'
    OBVIOUS
  <2>1. CASE RtNext
    BY <2>1, JobInv, CallerInv DEF RtNext
  <2>2. CASE UNCHANGED rtVars
    BY <2>2 DEF RtInv, PoolsInOrder, FromInside, Past, OnIt, Inside, Pool, Busy, Pending
  <2>. QED BY <2>1, <2>2
<1>. QED BY <1>1, RtInitInv, PTL DEF RtSpec

\* Every variable of the runtime's pools keeps its type.
LEMMA RtTypeCorrect == RtSpec => []RtTypeOK
<1>1. RtInv => RtTypeOK
  <2>1. Len(Order) = 3 /\ Offload \cup {"async"} = {"io", "blocking", "async"}
    BY DEF Order, Offload
  <2>. QED BY <2>1 DEF RtInv, RtTypeOK
<1>. QED BY <1>1, RtInvHolds, PTL

\* As long as only outside threads shut the runtime down, no coroutine ever continues on
\* an offload worker, and a shutdown that returned has left no job on its way: the three
\* pools are stopped in the order that ShutdownAsyncRuntime gives them.
THEOREM HostShutdownLeavesNothing == RtSpec => []HostShutdownDrains
<1>1. RtInv => HostShutdownDrains
  <2>. SUFFICES ASSUME RtInv, ~FromInside,
                       NEW c \in Host, calls[c].stage > Len(Order), NEW j \in Job
                PROVE  jobState[j] \in {"new", "refused", "ended"}
    BY DEF HostShutdownDrains, RtInv
  <2>1. PoolsInOrder /\ jobState[j] # "inline" /\ c \in Caller
    BY DEF RtInv, Caller
  <2>2. Past(c, "io") /\ Past(c, "blocking") /\ Past(c, "async")
    BY <2>1, OrderFact, PastFact DEF RtInv
  <2>3. \A p \in {"io", "blocking", "async"} : Busy(p) = {} /\ Pending(p) = {}
    BY <2>1, <2>2 DEF PoolsInOrder
  <2>4. /\ jobState[j] \notin {"resumed", "posted"}
        /\ jobState[j] \notin {"running", "queued"}
    <3>1. poolOf[j] \in {"io", "blocking"}
      BY DEF RtInv, Offload
    <3>2. jobState[j] \notin {"resumed", "posted"}
      BY <2>3 DEF Busy, Pending
    <3>. QED BY <2>3, <3>1, <3>2 DEF Busy, Pending
  <2>. QED BY <2>1, <2>4 DEF RtInv
<1>. QED BY <1>1, RtInvHolds, PTL
===============================================================================
