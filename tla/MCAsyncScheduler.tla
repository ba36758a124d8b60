--------------------------- MODULE MCAsyncScheduler ---------------------------
(* Small instances of AsyncScheduler.                                      *)
EXTENDS AsyncScheduler

CONSTANTS w1, w2, host, guest, sleep, a, b   \* two workers, two other threads; one timer, two immediate actions

OneTimer == [i \in Item |-> IF i = sleep THEN 1 ELSE 0]
NoTimer == [i \in Item |-> 0]
NeverBlocks == [i \in Item |-> {}]

\* The action of a blocks until the timer has run (BlockOn of a Sleep).
BlocksOnSleep == [i \in Item |-> IF i = a THEN {sleep} ELSE {}]
===============================================================================
