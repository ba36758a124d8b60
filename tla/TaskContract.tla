----------------------------- MODULE TaskContract -----------------------------
(***************************************************************************)
(* What coroutine<T> handles promise, without any word about how a         *)
(* coroutine is suspended or woken:                                        *)
(*   - every copy of a handle observes one outcome, fixed when the task    *)
(*     settles; a cancellation asked for earlier turns it into "cancelled" *)
(*     and one asked for later changes nothing;                            *)
(*   - a coroutine gets past an await of another task only after that task *)
(*     has settled, or after its own cancellation was asked for;           *)
(*   - a coroutine that waits does not settle.                             *)
(* AsyncTask is shown to implement this specification.                     *)
(***************************************************************************)
CONSTANTS Coro,    \* the coroutines
          NoCoro,  \* "waits for nothing"
          Awaits   \* <<parent, child>>: the handles a coroutine may await

VARIABLES life,      \* absent, active or settled
          asked,     \* has a cancellation been accepted?
          outcome,   \* what every holder of the handle observes
          waitsFor   \* the task a coroutine is awaiting

contractVars == <<life, asked, outcome, waitsFor>>

Init ==
  /\ life = [c \in Coro |-> "absent"]
  /\ asked = [c \in Coro |-> FALSE]
  /\ outcome = [c \in Coro |-> "none"]
  /\ waitsFor = [c \in Coro |-> NoCoro]

Begin(c) ==
  /\ life[c] = "absent"
  /\ life' = [life EXCEPT ![c] = "active"]
  /\ UNCHANGED <<asked, outcome, waitsFor>>

Await(c, t) ==
  /\ life[c] = "active"
  /\ life[t] # "absent"
  /\ waitsFor[c] = NoCoro
  /\ waitsFor' = [waitsFor EXCEPT ![c] = t]
  /\ UNCHANGED <<life, asked, outcome>>

GetPast(c, t) ==
  /\ waitsFor[c] = t
  /\ life[t] = "settled" \/ asked[c]
  /\ waitsFor' = [waitsFor EXCEPT ![c] = NoCoro]
  /\ UNCHANGED <<life, asked, outcome>>

AskToCancel(c) ==
  /\ life[c] = "active"
  /\ asked' = [asked EXCEPT ![c] = TRUE]
  /\ UNCHANGED <<life, outcome, waitsFor>>

Settle(c, o) ==
  /\ life[c] = "active"
  /\ waitsFor[c] = NoCoro
  /\ life' = [life EXCEPT ![c] = "settled"]
  /\ outcome' = [outcome EXCEPT ![c] = IF asked[c] THEN "cancelled" ELSE o]
  /\ UNCHANGED <<asked, waitsFor>>

Next ==
  \/ \E c \in Coro :
       \/ Begin(c)
       \/ AskToCancel(c)
       \/ \E o \in {"value", "failed"} : Settle(c, o)
  \/ \E pair \in Awaits :
       \/ Await(pair[1], pair[2])
       \/ GetPast(pair[1], pair[2])

Spec == Init /\ [][Next]_contractVars
===============================================================================
