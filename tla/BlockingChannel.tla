---------------------------- MODULE BlockingChannel ----------------------------
(***************************************************************************)
(* BlockingChannel<T> and Promise<T> (std/concurrency.wio) over the mutex  *)
(* and condition variable of runtime/include/std_concurrency.h.            *)
(*                                                                         *)
(* A step from Lock to Unlock (or to the wait, which gives the mutex up)   *)
(* is one action: nothing else that touches the channel can run in it.     *)
(* A waiting receiver leaves the wait set by a notification, a timeout or  *)
(* spuriously, and takes the mutex again in a later step.                  *)
(***************************************************************************)
EXTENDS Naturals, Sequences, FiniteSets

CONSTANTS Source,    \* calls of Send, or of Promise.Complete: s sends the value s
          Sink,      \* calls of Receive and ReceiveFor
          Timed      \* those that are ReceiveFor

ASSUME ChannelAssumption ==
  /\ Source \cap (Sink \cup {"none", "end", "timeout"}) = {}
  /\ Timed \subseteq Sink
  /\ IsFiniteSet(Source) /\ IsFiniteSet(Sink)

VARIABLES
  values, closed,     \* the fields of BlockingChannel
  asleep, notified,   \* waiting receivers, and notified ones that have yet to take the mutex
  stirred, expired,   \* the same, woken spuriously or by their timeout
  told,               \* per receiver: none, its value, or the reason for None
  answer,             \* per sender: none, accepted or refused
  dropped,            \* (history) notifications taken by a receiver that then gave up
  completed, step     \* Promise::completed, and where each Complete or Cancel stands

chanVars == <<values, closed, asleep, notified, stirred, expired, told, answer, dropped>>
promiseVars == <<completed, step>>
blockingVars == <<chanVars, promiseVars>>

ChannelInit ==
  /\ values = <<>> /\ closed = FALSE
  /\ asleep = {} /\ notified = {} /\ stirred = {} /\ expired = {}
  /\ told = [r \in Sink |-> "none"]
  /\ answer = [s \in Source |-> "none"]
  /\ dropped = 0
  /\ completed = FALSE
  /\ step = [s \in Source |-> "idle"]

Woken == notified \cup stirred \cup expired

-----------------------------------------------------------------------------
(* BlockingChannel.                                                        *)

\* The condition variable: notify_one and notify_all.
NoNotify == UNCHANGED <<asleep, notified>>   \* a variant: Send forgets it
NotifyOne ==
  \/ asleep = {} /\ UNCHANGED <<asleep, notified>>
  \/ \E r \in asleep : asleep' = asleep \ {r} /\ notified' = notified \cup {r}

NotifyJustOne == NotifyOne                   \* a variant: Close wakes one only
NotifyAll == asleep' = {} /\ notified' = notified \cup asleep

Send(s) ==
  /\ answer[s] = "none"
  /\ IF closed
       THEN /\ answer' = [answer EXCEPT ![s] = "refused"]
            /\ UNCHANGED <<values, asleep, notified>>
       ELSE /\ answer' = [answer EXCEPT ![s] = "accepted"]
            /\ values' = Append(values, s)
            /\ NotifyOne
  /\ UNCHANGED <<closed, stirred, expired, told, dropped>>

NoneRemoved == values   \* a variant: the value taken stays in the queue
Remaining == Tail(values)

\* The loop of Receive and ReceiveFor from a taken mutex to the next wait or the return.
Look(r) ==
  /\ asleep' = IF values = <<>> /\ ~closed THEN asleep \cup {r} ELSE asleep
  /\ values' = IF values = <<>> THEN values ELSE Remaining
  /\ told' = IF values # <<>> THEN [told EXCEPT ![r] = Head(values)]
             ELSE IF closed THEN [told EXCEPT ![r] = "end"]
             ELSE told
  /\ notified' = notified \ {r}
  /\ stirred' = stirred \ {r}
  /\ UNCHANGED <<closed, expired, answer, dropped>>

Receive(r) ==
  /\ told[r] = "none" /\ r \notin asleep \cup Woken
  /\ Look(r)

\* Wait has returned: the loop looks at the queue again.
Resume(r) ==
  /\ r \in notified \cup stirred
  /\ Look(r)

\* ReceiveFor: WaitFor reports a timeout and the call returns None at once. The
\* report comes from the clock, so a receiver that was notified may report it too.
GiveUp(r) ==
  /\ r \in Timed /\ r \in expired \cup notified
  /\ told' = [told EXCEPT ![r] = "timeout"]
  /\ dropped' = IF r \in notified THEN dropped + 1 ELSE dropped
  /\ expired' = expired \ {r}
  /\ notified' = notified \ {r}
  /\ UNCHANGED <<values, closed, asleep, stirred, answer>>

Expire(r) ==
  /\ r \in asleep \cap Timed
  /\ asleep' = asleep \ {r}
  /\ expired' = expired \cup {r}
  /\ UNCHANGED <<values, closed, notified, stirred, told, answer, dropped>>

Stir(r) ==
  /\ r \in asleep
  /\ asleep' = asleep \ {r}
  /\ stirred' = stirred \cup {r}
  /\ UNCHANGED <<values, closed, notified, expired, told, answer, dropped>>

CloseChannel ==
  /\ closed' = TRUE
  /\ NotifyAll
  /\ UNCHANGED <<values, stirred, expired, told, answer, dropped>>

Return(r) == Resume(r) \/ GiveUp(r)

ReceiverNext == \E r \in Sink : Receive(r) \/ Return(r) \/ Expire(r) \/ Stir(r)

ChannelNext ==
  /\ \/ \E s \in Source : Send(s)
     \/ ReceiverNext
     \/ ~closed /\ CloseChannel
  /\ UNCHANGED promiseVars

-----------------------------------------------------------------------------
(* Promise: completed is a plain field, read and written outside any lock. *)

ReadCompleted(s, doing) ==
  /\ step[s] = "idle"
  /\ step' = [step EXCEPT ![s] = IF completed THEN "declined" ELSE doing]
  /\ UNCHANGED <<chanVars, completed>>

SetCompleted(s) ==
  /\ step[s] \in {"complete", "cancel"}
  /\ completed' = TRUE
  /\ step' = [step EXCEPT ![s] = IF @ = "complete" THEN "send" ELSE "close"]
  /\ UNCHANGED chanVars

CompleteSend(s) ==
  /\ step[s] = "send"
  /\ Send(s)
  /\ step' = [step EXCEPT ![s] = "close"]
  /\ UNCHANGED completed

CompleteClose(s) ==
  /\ step[s] = "close"
  /\ CloseChannel
  /\ step' = [step EXCEPT ![s] = "done"]
  /\ UNCHANGED completed

PromiseStep(s) == SetCompleted(s) \/ CompleteSend(s) \/ CompleteClose(s)

PromiseNext ==
  \/ \E s \in Source : \/ ReadCompleted(s, "complete")
                       \/ ReadCompleted(s, "cancel")
                       \/ PromiseStep(s)
  \/ ReceiverNext /\ UNCHANGED promiseVars

-----------------------------------------------------------------------------
(* Properties.                                                             *)

Returned(r) == told[r] # "none"

ChannelTypeOK ==
  /\ values \in Seq(Source)
  /\ closed \in BOOLEAN /\ completed \in BOOLEAN
  /\ asleep \in SUBSET Sink /\ notified \in SUBSET Sink
  /\ stirred \in SUBSET Sink /\ expired \in SUBSET Timed
  /\ told \in [Sink -> Source \cup {"none", "end", "timeout"}]
  /\ answer \in [Source -> {"none", "accepted", "refused"}]
  /\ dropped \in Nat

\* A receiver sleeps on a queued value only when somebody else is on the way to
\* take it: each value sent over a sleeper has woken one (Send notifies under the
\* mutex, Receive looks again after every wait). The one leak is ReceiveFor, which
\* swallows a notification when it reports a timeout.
NoForgottenValue ==
  asleep # {} => Len(values) <= Cardinality(notified) + dropped

\* Each accepted value is queued once, or exactly one receiver has it, and nobody has
\* anything else; the end is told of a channel that is closed and empty, so that no
\* receiver gets a value after another has been told the end.
TakenOnce ==
  /\ \A s \in Source :
       LET held == {r \in Sink : told[r] = s}
           queued == {i \in DOMAIN values : values[i] = s}
       IN  /\ answer[s] = "accepted" <=> held # {} \/ queued # {}
           /\ held = {} \/ queued = {}
           /\ \A r1, r2 \in held : r1 = r2
           /\ \A i, j \in queued : i = j
  /\ (\E r \in Sink : told[r] = "end") => closed /\ values = <<>>

\* Nobody sleeps on a closed channel: Close wakes all, and who looks later does not wait.
NobodySleepsOnClosed == closed => asleep = {}

\* Close wakes every receiver, and each of them returns.
CloseWakesReceivers == closed ~> asleep \cup Woken = {}

\* The channel implements Mailbox; a timed-out receiver has taken nothing.
Box == INSTANCE Mailbox WITH
  Sender <- Source, Receiver <- Sink, Bound <- Cardinality(Source),
  items <- values, shut <- closed, sent <- answer,
  got <- [r \in Sink |-> IF told[r] = "timeout" THEN "none" ELSE told[r]]
ImplementsMailbox == Box!Spec

\* spec/WIO_STD_SPEC_0_11.md: "Promises complete once": one Complete returns true.
CompletesOnce == Cardinality({s \in Source : answer[s] = "accepted"}) <= 1

\* A channel in the hands of a program, or inside the Promise that made it.
BlockingSpec == ChannelInit /\ [][ChannelNext \/ PromiseNext]_blockingVars
PromiseSpec == ChannelInit /\ [][PromiseNext]_blockingVars
===============================================================================
