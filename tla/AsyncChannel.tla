----------------------------- MODULE AsyncChannel -----------------------------
(***************************************************************************)
(* AsyncChannel<T> (std/async.wio): senders and receivers are coroutines   *)
(* that try, and sleep a millisecond on the timer when they have to wait.  *)
(*                                                                         *)
(* Every try holds the gate from Lock to Unlock and is one action. What a  *)
(* cancellation does to a coroutine is TaskContract: a sleeper resumes and *)
(* throws, and a coroutine that gets to its end settles as cancelled.      *)
(***************************************************************************)
EXTENDS Naturals, Sequences, FiniteSets

CONSTANTS Producer,   \* calls of Send: p sends the value p
          Consumer,   \* calls of Receive
          Capacity    \* 0: unbounded

ASSUME AsyncChannelAssumption ==
  /\ Producer \cap (Consumer \cup {"none", "end"}) = {}
  /\ IsFiniteSet(Producer)
  /\ Capacity \in Nat

VARIABLES
  buffer, shut,    \* the fields values and closed
  at,              \* per call: idle, trying, sleeping, ending, settled
  asked,           \* calls whose task accepted a cancellation
  outcome,         \* what the awaiter of a settled call observes
  offer, taken     \* (history) what TrySend answered, what TryReceive took

asyncVars == <<buffer, shut, at, asked, outcome, offer, taken>>

Calls == Producer \cup Consumer

AsyncInit ==
  /\ buffer = <<>> /\ shut = FALSE
  /\ at = [c \in Calls |-> "idle"]
  /\ asked = {}
  /\ outcome = [c \in Calls |-> "none"]
  /\ offer = [p \in Producer |-> "none"]
  /\ taken = [c \in Consumer |-> "none"]

Go(c, place) == at' = [at EXCEPT ![c] = place]

FullLate == Capacity > 0 /\ Len(buffer) > Capacity   \* a variant: off by one
Full == Capacity > 0 /\ Len(buffer) >= Capacity

TrySend(p) ==
  /\ at[p] \in {"idle", "trying"}
  /\ \/ /\ shut
        /\ Go(p, "ending")
        /\ offer' = [offer EXCEPT ![p] = "refused"]
        /\ UNCHANGED buffer
     \/ /\ ~shut /\ Full
        /\ Go(p, "sleeping")
        /\ UNCHANGED <<buffer, offer>>
     \/ /\ ~shut /\ ~Full
        /\ Go(p, "ending")
        /\ offer' = [offer EXCEPT ![p] = "accepted"]
        /\ buffer' = Append(buffer, p)
  /\ UNCHANGED <<shut, asked, outcome, taken>>

TryReceive(c) ==
  /\ at[c] \in {"idle", "trying"}
  /\ \/ /\ buffer # <<>>
        /\ Go(c, "ending")
        /\ taken' = [taken EXCEPT ![c] = Head(buffer)]
        /\ buffer' = Tail(buffer)
     \/ /\ buffer = <<>> /\ shut
        /\ Go(c, "ending")
        /\ taken' = [taken EXCEPT ![c] = "end"]
        /\ UNCHANGED buffer
     \/ /\ buffer = <<>> /\ ~shut
        /\ Go(c, "sleeping")
        /\ UNCHANGED <<buffer, taken>>
  /\ UNCHANGED <<shut, asked, outcome, offer>>

\* The timer of a sleep fires, or a cancellation resumes the sleeper.
Wake(c) ==
  /\ at[c] = "sleeping"
  /\ Go(c, IF c \in asked THEN "ending" ELSE "trying")
  /\ UNCHANGED <<buffer, shut, asked, outcome, offer, taken>>

AnswerIfOpen(c) ==   \* a variant: a closed channel answers with the end
  IF shut THEN "end" ELSE IF c \in Producer THEN offer[c] ELSE taken[c]
Answer(c) == IF c \in Producer THEN offer[c] ELSE taken[c]

\* The frame returns: the state settles, and a cancellation accepted until now wins.
Settle(c) ==
  /\ at[c] = "ending"
  /\ Go(c, "settled")
  /\ outcome' = [outcome EXCEPT ![c] = IF c \in asked THEN "cancelled" ELSE Answer(c)]
  /\ UNCHANGED <<buffer, shut, asked, offer, taken>>

CancelCall(c) ==
  /\ at[c] \notin {"idle", "settled"}
  /\ asked' = asked \cup {c}
  /\ UNCHANGED <<buffer, shut, at, outcome, offer, taken>>

CloseAsync ==
  /\ shut' = TRUE
  /\ UNCHANGED <<buffer, at, asked, outcome, offer, taken>>

Try(c) == IF c \in Producer THEN TrySend(c) ELSE TryReceive(c)

AsyncNext ==
  \/ CloseAsync
  \/ \E c \in Calls : Try(c) \/ Wake(c) \/ Settle(c) \/ CancelCall(c)

AsyncSpec == AsyncInit /\ [][AsyncNext]_asyncVars

\* What the executor does for a call that has begun.
CallStep(c) == at[c] # "idle" /\ (Try(c) \/ Wake(c) \/ Settle(c))

-----------------------------------------------------------------------------
(* Properties.                                                             *)

AsyncTypeOK ==
  /\ buffer \in Seq(Producer)
  /\ shut \in BOOLEAN
  /\ at \in [Calls -> {"idle", "trying", "sleeping", "ending", "settled"}]
  /\ asked \in SUBSET Calls
  /\ outcome \in [Calls -> Calls \cup {"none", "accepted", "refused", "end", "cancelled"}]
  /\ offer \in [Producer -> {"none", "accepted", "refused"}]
  /\ taken \in [Consumer -> Producer \cup {"none", "end"}]

\* An accepted value is in the buffer, or exactly one receive has it; it is missing
\* from all outcomes only when that receive was cancelled between TryReceive and the
\* end of its frame, which drops it.
Has(c, p) == taken[c] = p
EveryValueAccountedFor ==
  \A p \in Producer : offer[p] = "accepted" =>
    LET inBuffer == \E i \in 1 .. Len(buffer) : buffer[i] = p
        holders == {c \in Consumer : Has(c, p)}
    IN /\ inBuffer <=> holders = {}
       /\ Cardinality(holders) <= 1
       /\ \A c \in holders : at[c] = "settled" /\ outcome[c] # p => c \in asked

\* Close ends every call that has begun, backpressured senders included.
CloseSettlesCalls == \A c \in Calls : shut /\ at[c] # "idle" ~> at[c] = "settled"

AsyncBox == INSTANCE Mailbox WITH
  Sender <- Producer, Receiver <- Consumer,
  Bound <- IF Capacity = 0 THEN Cardinality(Producer) ELSE Capacity,
  items <- buffer, shut <- shut, sent <- offer, got <- taken
\* The channel implements Mailbox, bounded by its capacity.
AsyncImplementsMailbox == AsyncBox!Spec
===============================================================================
