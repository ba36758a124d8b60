-------------------------------- MODULE Mailbox --------------------------------
(***************************************************************************)
(* What a channel of the library promises, blocking or asynchronous, with  *)
(* no word about how a receiver waits:                                     *)
(*   - values leave in the order in which they were accepted, each once;   *)
(*   - a bounded channel never holds more than its capacity;               *)
(*   - a send is refused only by a closed channel;                         *)
(*   - the end is told only to a receiver of a closed, drained channel.    *)
(* BlockingChannel and AsyncChannel are shown to implement it.             *)
(***************************************************************************)
EXTENDS Naturals, Sequences

CONSTANTS Sender, Receiver, \* one call each: Sender s sends the value s
          Bound             \* greatest number of buffered values

VARIABLES items,  \* accepted and not taken yet
          shut,
          sent,   \* what a sender has been told: none, accepted, refused
          got     \* what a receiver has: "none", a value, or "end"

mailVars == <<items, shut, sent, got>>

Init ==
  /\ items = <<>>
  /\ shut = FALSE
  /\ sent = [s \in Sender |-> "none"]
  /\ got = [r \in Receiver |-> "none"]

Accept(s) ==
  /\ sent[s] = "none" /\ ~shut /\ Len(items) < Bound
  /\ items' = Append(items, s)
  /\ sent' = [sent EXCEPT ![s] = "accepted"]
  /\ UNCHANGED <<shut, got>>

Refuse(s) ==
  /\ sent[s] = "none" /\ shut
  /\ sent' = [sent EXCEPT ![s] = "refused"]
  /\ UNCHANGED <<items, shut, got>>

Take(r) ==
  /\ got[r] = "none" /\ items # <<>>
  /\ items' = Tail(items)
  /\ got' = [got EXCEPT ![r] = Head(items)]
  /\ UNCHANGED <<shut, sent>>

End(r) ==
  /\ got[r] = "none" /\ shut /\ items = <<>>
  /\ got' = [got EXCEPT ![r] = "end"]
  /\ UNCHANGED <<items, shut, sent>>

Shut ==
  /\ shut' = TRUE
  /\ UNCHANGED <<items, sent, got>>

Next ==
  \/ Shut
  \/ \E s \in Sender : Accept(s) \/ Refuse(s)
  \/ \E r \in Receiver : Take(r) \/ End(r)

Spec == Init /\ [][Next]_mailVars
===============================================================================
