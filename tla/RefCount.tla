------------------------------- MODULE RefCount -------------------------------
(***************************************************************************)
(* Intrusive reference counts (runtime/include/ref.h): one object, and the *)
(* Ref and WeakRef variables that any number of threads copy, upgrade and  *)
(* drop. A step is one atomic operation on m_Strong or m_Weak, or one call *)
(* between two of them; different handles move independently, as if each   *)
(* belonged to a thread of its own.                                        *)
(***************************************************************************)
EXTENDS Naturals, FiniteSets

CONSTANTS Handle,  \* the Ref and WeakRef variables
          First    \* the Ref that MakeRef returned

ASSUME RefAssumption == IsFiniteSet(Handle) /\ First \in Handle

HandleStates == { "null", "strong", "weak",
                  "loading", "locking",   \* a WeakRef inside Lock: before its load, before its exchange
                  "zero", "letgo",        \* a dropped Ref: OnZeroStrong is due, then DecWeak
                  "delete" }              \* DestroyInternal is due

VARIABLES
  handle,      \* what each variable is doing
  strong,      \* m_Strong
  weak,        \* m_Weak
  seen,        \* the count a Lock compares with
  zeroCalls,   \* (history) calls of OnZeroStrong
  alive        \* has the object's memory not been released?

refVars == <<handle, strong, weak, seen, zeroCalls, alive>>

\* new T: m_Strong is 0 and m_Weak 1, and the first Ref increments m_Strong.
RefInit ==
  /\ handle = [h \in Handle |-> IF h = First THEN "strong" ELSE "null"]
  /\ strong = 1 /\ weak = 1
  /\ seen = [h \in Handle |-> 0]
  /\ zeroCalls = 0
  /\ alive = TRUE

Becomes(h, s) == handle' = [handle EXCEPT ![h] = s]

\* Ref(const Ref&): the source is a live Ref.
CopyStrong(h, d) ==
  /\ handle[h] = "strong" /\ handle[d] = "null"
  /\ strong' = strong + 1
  /\ Becomes(d, "strong")
  /\ UNCHANGED <<weak, seen, zeroCalls, alive>>

\* WeakRef(const Ref&) and WeakRef(const WeakRef&).
CopyWeak(h, d) ==
  /\ handle[h] \in {"strong", "weak"} /\ handle[d] = "null"
  /\ weak' = weak + 1
  /\ Becomes(d, "weak")
  /\ UNCHANGED <<strong, seen, zeroCalls, alive>>

\* A move hands the pointer over without touching the counts.
Move(h, d) ==
  /\ handle[h] \in {"strong", "weak"} /\ handle[d] = "null"
  /\ handle' = [handle EXCEPT ![h] = "null", ![d] = handle[h]]
  /\ UNCHANGED <<strong, weak, seen, zeroCalls, alive>>

\* ~Ref: RefDeleter::Execute up to DecStrong.
DropStrong(h) ==
  /\ handle[h] = "strong"
  /\ strong' = strong - 1
  /\ Becomes(h, IF strong = 1 THEN "zero" ELSE "null")
  /\ UNCHANGED <<weak, seen, zeroCalls, alive>>

CallOnZeroStrong(h) ==
  /\ handle[h] = "zero"
  /\ zeroCalls' = zeroCalls + 1
  /\ Becomes(h, "letgo")
  /\ UNCHANGED <<strong, weak, seen, alive>>

\* DecWeak, for the hold of the strong side and for ~WeakRef (ExecuteWeak).
DropWeak(h) ==
  /\ handle[h] \in {"letgo", "weak"}
  /\ weak' = weak - 1
  /\ Becomes(h, IF weak = 1 THEN "delete" ELSE "null")
  /\ UNCHANGED <<strong, seen, zeroCalls, alive>>

DestroyInternal(h) ==
  /\ handle[h] = "delete"
  /\ alive' = FALSE
  /\ Becomes(h, "null")
  /\ UNCHANGED <<strong, weak, seen, zeroCalls>>

\* WeakRef::Lock: TryIncStrong loads m_Strong ...
Lock(h) ==
  /\ handle[h] = "weak"
  /\ Becomes(h, "loading")
  /\ UNCHANGED <<strong, weak, seen, zeroCalls, alive>>

LoadStrong(h) ==
  /\ handle[h] = "loading"
  /\ seen' = [seen EXCEPT ![h] = strong]
  /\ Becomes(h, IF strong = 0 THEN "weak" ELSE "locking")
  /\ UNCHANGED <<strong, weak, zeroCalls, alive>>

IncStrong(h, d) ==   \* a variant: increment without the comparison
  /\ handle[h] = "locking" /\ handle[d] = "null"
  /\ strong' = strong + 1
  /\ handle' = [handle EXCEPT ![h] = "weak", ![d] = "strong"]
  /\ UNCHANGED <<weak, seen, zeroCalls, alive>>

\* ... and exchanges it for one more, unless it changed (or the exchange fails
\* spuriously); the new Ref d adopts the increment.
ExchangeStrong(h, d) ==
  /\ handle[h] = "locking" /\ handle[d] = "null"
  /\ strong = seen[h]
  /\ strong' = seen[h] + 1
  /\ handle' = [handle EXCEPT ![h] = "weak", ![d] = "strong"]
  /\ UNCHANGED <<weak, seen, zeroCalls, alive>>

ExchangeFails(h) ==
  /\ handle[h] = "locking"
  /\ seen' = [seen EXCEPT ![h] = strong]
  /\ Becomes(h, IF strong = 0 THEN "weak" ELSE "locking")
  /\ UNCHANGED <<strong, weak, zeroCalls, alive>>

RefNext ==
  \E h \in Handle :
    \/ DropStrong(h) \/ CallOnZeroStrong(h) \/ DropWeak(h) \/ DestroyInternal(h)
    \/ Lock(h) \/ LoadStrong(h) \/ ExchangeFails(h)
    \/ \E d \in Handle : \/ CopyStrong(h, d) \/ CopyWeak(h, d) \/ Move(h, d)
                         \/ ExchangeStrong(h, d)

RefSpec == RefInit /\ [][RefNext]_refVars

-----------------------------------------------------------------------------
(* Properties.                                                             *)

InState(S) == {h \in Handle : handle[h] \in S}
StrongHandles == InState({"strong"})
WeakHandles == InState({"weak", "loading", "locking"})
Droppers == InState({"zero", "letgo"})

RefTypeOK ==
  /\ handle \in [Handle -> HandleStates]
  /\ strong \in Nat /\ weak \in Nat
  /\ seen \in [Handle -> Nat]
  /\ zeroCalls \in Nat
  /\ alive \in BOOLEAN

\* The memory is released exactly when no thread can reach the object any more,
\* through a handle, in a Lock or on its way out of a drop: not earlier (use after
\* release), not later (leak), and by one thread only.
ReleasedExactlyWhenUnreachable ==
  /\ alive <=> InState(HandleStates \ {"null"}) # {}
  /\ Cardinality(InState({"delete"})) <= 1

\* A Ref got from Lock or a copy always refers to an object whose OnZeroStrong has
\* not been called; it is called at most once.
ZeroStrongOnce ==
  /\ zeroCalls <= 1
  /\ StrongHandles # {} => zeroCalls = 0 /\ Droppers = {}

\* What the two counts are for.
ObjectLifetime == ReleasedExactlyWhenUnreachable /\ ZeroStrongOnce
===============================================================================
