------------------------------ MODULE MCAsyncScope ------------------------------
(* Small instances of AsyncScope.                                          *)
EXTENDS AsyncScope

CONSTANTS root, mid, leaf

\* A scope in a scope.
Nested == [t \in Task |-> CASE t = root -> NoTask [] t = mid -> root [] OTHER -> mid]

\* A scope with two children, spawned in this order.
Siblings == [t \in Task |-> IF t = root THEN NoTask ELSE root]
InOrder == [t \in Task |-> IF t = leaf THEN 1 ELSE 0]
===============================================================================
