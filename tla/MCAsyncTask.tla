----------------------------- MODULE MCAsyncTask -----------------------------
(* Small instances of AsyncTask.                                           *)
EXTENDS AsyncTaskInv

CONSTANTS c1, c2, c3

\* A parent and a child.
ParentAwaitsChild == {<<c1, c2>>}

\* The parent awaits the child twice, the child yields once.
AwaitsTwice == [c \in Coro |-> IF c = c1 THEN {"task"} ELSE {"schedule"}]

\* The parent awaits the child or the main thread, the child anything but a task.
LayeredCode == [c \in Coro |-> IF c = c1 THEN {"task", "main"}
                               ELSE {"delay", "schedule", "offload"}]

\* Two awaiters of one shared child.
TwoParents == {<<c1, c3>>, <<c2, c3>>}
SharedChildCode == [c \in Coro |-> IF c = c3 THEN {"main"} ELSE {"task"}]
===============================================================================
