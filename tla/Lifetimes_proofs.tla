---------------------------- MODULE Lifetimes_proofs ----------------------------
(***************************************************************************)
(* Proofs about what several threads hold at once and one of them gives    *)
(* back: objects (RefCount), sockets (Socket) and child processes          *)
(* (ChildProcess), for any finite set of handles or calls. Each part is a  *)
(* chapter of its own: the facts and definitions it uses throughout are    *)
(* hidden again at its end.                                                *)
(***************************************************************************)
EXTENDS RefCount, Socket, ChildProcess, FiniteSetTheorems, TLAPS

-----------------------------------------------------------------------------
(* Counting.                                                               *)

LEMMA Added ==
  ASSUME NEW S, IsFiniteSet(S), NEW e, e \notin S
  PROVE  Cardinality(S \cup {e}) = Cardinality(S) + 1
  BY FS_AddElement

LEMMA Removed ==
  ASSUME NEW S, IsFiniteSet(S), NEW e \in S
  PROVE  /\ Cardinality(S \ {e}) = Cardinality(S) - 1
         /\ Cardinality(S) \in Nat \ {0}
         /\ Cardinality(S) = 1 => S = {e}
<1>1. Cardinality(S) \in Nat /\ Cardinality(S) # 0 /\ Cardinality(S \ {e}) = Cardinality(S) - 1
  BY FS_CardinalityType, FS_EmptySet, FS_RemoveElement
<1>2. IsFiniteSet(S \ {e}) /\ (Cardinality(S \ {e}) = 0 <=> S \ {e} = {})
  BY FS_Subset, FS_EmptySet
<1>. QED BY <1>1, <1>2

-----------------------------------------------------------------------------
(* RefCount.                                                               *)

USE RefAssumption DEF refVars, Becomes

-----------------------------------------------------------------------------
(* The inductive invariant.                                                *)

Dropping(h) == handle[h] \in {"zero", "letgo"}
SideHeld == \E h \in Handle : handle[h] = "strong" \/ Dropping(h)

RefTypes ==
  /\ handle \in [Handle -> HandleStates]
  /\ strong \in Nat /\ weak \in Nat
  /\ seen \in [Handle -> Nat]
  /\ zeroCalls \in {0, 1}
  /\ alive \in BOOLEAN

\* m_Strong counts the Refs; m_Weak counts the WeakRefs, and one for the strong side until
\* the thread that dropped the last Ref has let go of it.
CountsTrue ==
  /\ strong = Cardinality(StrongHandles)
  /\ weak = Cardinality(WeakHandles) + (IF SideHeld THEN 1 ELSE 0)

\* One thread is on its way out of the last drop, and no Ref is left then; one thread
\* deletes, and no handle is left then.
OneLeaver ==
  \A h, d \in Handle :
    /\ Dropping(h) => handle[d] # "strong" /\ (Dropping(d) => d = h)
    /\ handle[h] = "delete" => d = h \/ handle[d] = "null"

Reachable == \E h \in Handle : handle[h] # "null"

\* A Lock that goes on to its exchange has seen a Ref.
CallsAndLocks ==
  \A h \in Handle : /\ handle[h] \in {"strong", "zero"} => zeroCalls = 0
                    /\ handle[h] = "locking" => seen[h] # 0

RefInv == RefTypes /\ CountsTrue /\ OneLeaver /\ (alive <=> Reachable) /\ CallsAndLocks

USE DEF RefInv

-----------------------------------------------------------------------------
(* Counting.                                                               *)

LEMMA RefFinite ==
  /\ IsFiniteSet(StrongHandles) /\ Cardinality(StrongHandles) \in Nat
  /\ IsFiniteSet(WeakHandles) /\ Cardinality(WeakHandles) \in Nat
  BY FS_Subset, FS_CardinalityType DEF StrongHandles, WeakHandles, InState

LEMMA Replaced ==
  ASSUME NEW S, IsFiniteSet(S), NEW e \in S, NEW d, d \notin S
  PROVE  Cardinality((S \ {e}) \cup {d}) = Cardinality(S)
<1>1. IsFiniteSet(S \ {e}) /\ d \notin S \ {e}
  BY FS_Subset
<1>2. Cardinality((S \ {e}) \cup {d}) = Cardinality(S \ {e}) + 1
  BY <1>1, Added
<1>3. Cardinality(S \ {e}) = Cardinality(S) - 1 /\ Cardinality(S) \in Nat
  BY Removed
<1>. QED BY <1>2, <1>3

\* While the memory of an object can be reached by a Ref, its count is not zero.
LEMMA StrongFact == ASSUME RefInv PROVE strong = 0 <=> \A h \in Handle : handle[h] # "strong"
  BY RefFinite, FS_EmptySet DEF CountsTrue, StrongHandles, InState

-----------------------------------------------------------------------------
(* The actions.                                                            *)

LEMMA RefInitInv == RefInit => RefInv
<1>. SUFFICES ASSUME RefInit PROVE RefInv
  OBVIOUS
<1>. USE DEF RefInit
<1>1. RefTypes /\ OneLeaver /\ (alive <=> Reachable) /\ CallsAndLocks
  BY DEF RefTypes, OneLeaver, Reachable, CallsAndLocks, HandleStates, Dropping
<1>2. StrongHandles = {First} /\ WeakHandles = {} /\ SideHeld
  BY DEF StrongHandles, WeakHandles, InState, SideHeld
<1>3. CountsTrue
  BY <1>2, FS_Singleton, FS_EmptySet DEF CountsTrue
<1>. QED BY <1>1, <1>3

LEMMA CopyStrongInv ==
  ASSUME RefInv, NEW h \in Handle, NEW d \in Handle, CopyStrong(h, d) PROVE RefInv'
<1>. USE DEF CopyStrong
<1>1. RefTypes'
  BY DEF RefTypes, HandleStates
<1>2. OneLeaver' /\ (alive <=> Reachable)' /\ CallsAndLocks'
  BY DEF RefTypes, OneLeaver, Reachable, CallsAndLocks, Dropping
<1>3. /\ StrongHandles' = StrongHandles \cup {d} /\ d \notin StrongHandles
      /\ WeakHandles' = WeakHandles
      /\ SideHeld /\ SideHeld'
  BY DEF RefTypes, StrongHandles, WeakHandles, InState, SideHeld
<1>4. CountsTrue'
  BY <1>3, RefFinite, Added DEF CountsTrue
<1>. QED BY <1>1, <1>2, <1>4

LEMMA CopyWeakInv ==
  ASSUME RefInv, NEW h \in Handle, NEW d \in Handle, CopyWeak(h, d) PROVE RefInv'
<1>. USE DEF CopyWeak
<1>1. RefTypes'
  BY DEF RefTypes, HandleStates
<1>2. OneLeaver' /\ (alive <=> Reachable)' /\ CallsAndLocks'
  BY DEF RefTypes, OneLeaver, Reachable, CallsAndLocks, Dropping
<1>3. /\ StrongHandles' = StrongHandles
      /\ WeakHandles' = WeakHandles \cup {d} /\ d \notin WeakHandles
      /\ SideHeld' <=> SideHeld
  BY DEF RefTypes, StrongHandles, WeakHandles, InState, SideHeld, Dropping
<1>4. CountsTrue'
  BY <1>3, RefFinite, Added DEF CountsTrue
<1>. QED BY <1>1, <1>2, <1>4

LEMMA MoveInv ==
  ASSUME RefInv, NEW h \in Handle, NEW d \in Handle, Move(h, d) PROVE RefInv'
<1>. USE DEF Move
<1>1. /\ h # d /\ handle[d] = "null"
      /\ \A g \in Handle : handle'[g] = IF g = d THEN handle[h] ELSE IF g = h THEN "null" ELSE handle[g]
  BY DEF RefTypes
<1>2. RefTypes'
  BY DEF RefTypes, HandleStates
<1>3. OneLeaver' /\ (alive <=> Reachable)' /\ CallsAndLocks'
  <2>1. OneLeaver'
    <3>1. \A g \in Handle : /\ handle[g] # "delete" /\ handle'[g] # "delete"
                            /\ Dropping(g)' => Dropping(g) /\ handle[h] = "weak"
      <4>1. handle[h] \in {"strong", "weak"} /\ \A g \in Handle : handle[g] # "delete"
        BY DEF OneLeaver
      <4>2. ASSUME NEW g \in Handle, Dropping(g)' PROVE Dropping(g) /\ handle[h] = "weak"
        BY <1>1, <4>1, <4>2 DEF OneLeaver, Dropping
      <4>. QED BY <1>1, <4>1, <4>2
    <3>2. \A g \in Handle : handle[h] = "weak" /\ handle'[g] = "strong" => handle[g] = "strong"
      BY <1>1
    <3>. QED BY <3>1, <3>2 DEF OneLeaver
  <2>2. Reachable /\ Reachable'
    BY <1>1 DEF Reachable
  <2>3. CallsAndLocks'
    BY <1>1 DEF CallsAndLocks
  <2>. QED BY <2>1, <2>2, <2>3
<1>4. SideHeld' <=> SideHeld
  BY <1>1 DEF SideHeld, Dropping
<1>5. Cardinality(StrongHandles') = Cardinality(StrongHandles)
  <2>1. CASE handle[h] = "strong"
    <3>1. StrongHandles' = (StrongHandles \ {h}) \cup {d} /\ h \in StrongHandles /\ d \notin StrongHandles
      BY <1>1, <2>1 DEF StrongHandles, InState
    <3>. QED BY <3>1, RefFinite, Replaced
  <2>2. CASE handle[h] = "weak"
    BY <1>1, <2>2 DEF StrongHandles, InState
  <2>. QED BY <2>1, <2>2
<1>6. Cardinality(WeakHandles') = Cardinality(WeakHandles)
  <2>1. CASE handle[h] = "weak"
    <3>1. WeakHandles' = (WeakHandles \ {h}) \cup {d} /\ h \in WeakHandles /\ d \notin WeakHandles
      BY <1>1, <2>1 DEF WeakHandles, InState
    <3>. QED BY <3>1, RefFinite, Replaced
  <2>2. CASE handle[h] = "strong"
    BY <1>1, <2>2 DEF WeakHandles, InState
  <2>. QED BY <2>1, <2>2
<1>7. CountsTrue'
  BY <1>4, <1>5, <1>6 DEF CountsTrue
<1>. QED BY <1>2, <1>3, <1>7

LEMMA DropStrongInv ==
  ASSUME RefInv, NEW h \in Handle, DropStrong(h) PROVE RefInv'
<1>. USE DEF DropStrong
<1>1. StrongHandles' = StrongHandles \ {h} /\ h \in StrongHandles /\ WeakHandles' = WeakHandles
  BY DEF RefTypes, StrongHandles, WeakHandles, InState
<1>2. /\ Cardinality(StrongHandles') = strong - 1 /\ strong \in Nat \ {0}
      /\ strong = 1 => StrongHandles = {h}
  BY <1>1, RefFinite, Removed DEF CountsTrue
<1>3. RefTypes'
  BY <1>2 DEF RefTypes, HandleStates
<1>4. strong # 1 => \E g \in Handle : g # h /\ handle[g] = "strong"
  <2>1. strong # 1 => StrongHandles' # {}
    BY <1>2, FS_EmptySet
  <2>. QED BY <1>1, <2>1 DEF StrongHandles, InState
<1>5. SideHeld /\ SideHeld'
  BY <1>4 DEF RefTypes, SideHeld, Dropping
<1>6. CountsTrue'
  BY <1>1, <1>2, <1>5 DEF CountsTrue
<1>7. OneLeaver'
  BY <1>2 DEF RefTypes, OneLeaver, Dropping, StrongHandles, InState
<1>8. (alive <=> Reachable)' /\ CallsAndLocks'
  BY <1>4 DEF RefTypes, Reachable, CallsAndLocks
<1>. QED BY <1>3, <1>6, <1>7, <1>8

LEMMA CallOnZeroStrongInv ==
  ASSUME RefInv, NEW h \in Handle, CallOnZeroStrong(h) PROVE RefInv'
<1>. USE DEF CallOnZeroStrong
<1>1. RefTypes'
  BY DEF RefTypes, HandleStates, CallsAndLocks
<1>2. OneLeaver' /\ (alive <=> Reachable)' /\ CallsAndLocks'
  BY DEF RefTypes, OneLeaver, Reachable, CallsAndLocks, Dropping
<1>3. /\ StrongHandles' = StrongHandles /\ WeakHandles' = WeakHandles
      /\ SideHeld /\ SideHeld'
  BY DEF RefTypes, StrongHandles, WeakHandles, InState, SideHeld, Dropping
<1>. QED BY <1>1, <1>2, <1>3 DEF CountsTrue

\* The thread that takes m_Weak to zero is the last that could reach the object.
LEMMA DropWeakInv ==
  ASSUME RefInv, NEW h \in Handle, DropWeak(h) PROVE RefInv'
<1>. USE DEF DropWeak
<1>. DEFINE Last == \A g \in Handle \ {h} : handle[g] = "null"
<1>1. weak' = weak - 1 /\ handle' = [handle EXCEPT ![h] = IF weak = 1 THEN "delete" ELSE "null"]
  OBVIOUS
<1>2. CASE handle[h] = "letgo"
  <2>1. SideHeld /\ ~SideHeld' /\ StrongHandles' = StrongHandles /\ WeakHandles' = WeakHandles
    BY <1>2 DEF RefTypes, SideHeld, Dropping, OneLeaver, StrongHandles, WeakHandles, InState
  <2>2. CountsTrue' /\ weak = Cardinality(WeakHandles) + 1
    BY <2>1, RefFinite DEF CountsTrue
  <2>3. weak = 1 <=> WeakHandles = {}
    BY <2>2, RefFinite, FS_EmptySet
  <2>4. \A g \in Handle \ {h} : handle[g] \in {"null", "weak", "loading", "locking"}
    BY <1>2 DEF RefTypes, HandleStates, OneLeaver, Dropping
  <2>5. weak = 1 <=> Last
    BY <1>2, <2>3, <2>4 DEF WeakHandles, InState
  <2>. QED BY <1>1, <1>2, <2>2, <2>5, RefFinite DEF RefTypes, HandleStates, OneLeaver, Dropping, Reachable, CallsAndLocks
<1>3. CASE handle[h] = "weak"
  <2>1. /\ SideHeld' <=> SideHeld
        /\ StrongHandles' = StrongHandles
        /\ WeakHandles' = WeakHandles \ {h} /\ h \in WeakHandles
    BY <1>3 DEF RefTypes, SideHeld, Dropping, StrongHandles, WeakHandles, InState
  <2>2. /\ Cardinality(WeakHandles') = Cardinality(WeakHandles) - 1
        /\ Cardinality(WeakHandles) \in Nat \ {0}
        /\ Cardinality(WeakHandles) = 1 => WeakHandles = {h}
    BY <2>1, RefFinite, Removed
  <2>3. CountsTrue' /\ weak \in Nat \ {0}
    BY <2>1, <2>2 DEF CountsTrue
  <2>4. weak = 1 <=> WeakHandles = {h} /\ ~SideHeld
    <3>1. CASE SideHeld
      BY <2>2, <3>1 DEF CountsTrue
    <3>2. CASE ~SideHeld
      <4>1. weak = Cardinality(WeakHandles)
        BY <3>2, RefFinite DEF CountsTrue
      <4>2. Cardinality({h}) = 1
        BY FS_Singleton
      <4>. QED BY <2>2, <3>2, <4>1, <4>2
    <3>. QED BY <3>1, <3>2
  <2>5. \A g \in Handle : handle[g] # "delete"
    BY <1>3 DEF OneLeaver
  <2>6. weak = 1 <=> Last
    BY <1>3, <2>4, <2>5 DEF RefTypes, HandleStates, WeakHandles, InState, SideHeld, Dropping
  <2>7. RefTypes'
    BY <2>3 DEF RefTypes, HandleStates
  <2>8. OneLeaver' /\ (alive <=> Reachable)' /\ CallsAndLocks'
    BY <1>1, <1>3, <2>6 DEF RefTypes, OneLeaver, Dropping, Reachable, CallsAndLocks
  <2>. QED BY <2>3, <2>7, <2>8
<1>. QED BY <1>2, <1>3

LEMMA DestroyInternalInv ==
  ASSUME RefInv, NEW h \in Handle, DestroyInternal(h) PROVE RefInv'
<1>. USE DEF DestroyInternal
<1>1. \A g \in Handle : handle'[g] = "null"
  BY DEF RefTypes, OneLeaver
<1>2. RefTypes' /\ OneLeaver' /\ (alive <=> Reachable)' /\ CallsAndLocks'
  BY <1>1 DEF RefTypes, HandleStates, OneLeaver, Dropping, Reachable, CallsAndLocks
<1>3. /\ StrongHandles' = StrongHandles /\ WeakHandles' = WeakHandles
      /\ SideHeld' <=> SideHeld
  BY <1>1 DEF OneLeaver, StrongHandles, WeakHandles, InState, SideHeld, Dropping
<1>. QED BY <1>2, <1>3 DEF CountsTrue

\* The steps of a Lock that leave the counts alone.
LEMMA LockStepInv ==
  ASSUME RefInv, NEW h \in Handle, Lock(h) \/ LoadStrong(h) \/ ExchangeFails(h) PROVE RefInv'
<1>. USE DEF Lock, LoadStrong, ExchangeFails
<1>1. RefTypes'
  BY DEF RefTypes, HandleStates
<1>2. OneLeaver' /\ (alive <=> Reachable)'
  BY DEF RefTypes, OneLeaver, Reachable, Dropping
<1>3. CallsAndLocks'
  BY DEF RefTypes, CallsAndLocks
<1>4. /\ StrongHandles' = StrongHandles /\ WeakHandles' = WeakHandles
      /\ SideHeld' <=> SideHeld
  BY DEF RefTypes, StrongHandles, WeakHandles, InState, SideHeld, Dropping
<1>. QED BY <1>1, <1>2, <1>3, <1>4 DEF CountsTrue

\* An exchange succeeds only while a Ref is left: the count it finds is not zero.
LEMMA ExchangeStrongInv ==
  ASSUME RefInv, NEW h \in Handle, NEW d \in Handle, ExchangeStrong(h, d) PROVE RefInv'
<1>. USE DEF ExchangeStrong
<1>1. /\ h # d
      /\ handle' = [handle EXCEPT ![h] = "weak", ![d] = "strong"]
      /\ \A g \in Handle : handle'[g] = IF g = d THEN "strong" ELSE IF g = h THEN "weak" ELSE handle[g]
  BY DEF RefTypes
<1>2. strong' = strong + 1 /\ \E g \in Handle : handle[g] = "strong"
  BY StrongFact DEF CallsAndLocks
<1>3. RefTypes'
  BY DEF RefTypes, HandleStates
<1>4. OneLeaver' /\ (alive <=> Reachable)' /\ CallsAndLocks'
  BY <1>1, <1>2 DEF OneLeaver, Dropping, Reachable, CallsAndLocks
<1>5. /\ StrongHandles' = StrongHandles \cup {d} /\ d \notin StrongHandles
      /\ WeakHandles' = WeakHandles
      /\ SideHeld /\ SideHeld'
  BY <1>1, <1>2 DEF StrongHandles, WeakHandles, InState, SideHeld
<1>6. CountsTrue'
  BY <1>2, <1>5, RefFinite, Added DEF CountsTrue
<1>. QED BY <1>3, <1>4, <1>6

LEMMA RefNextInv == RefInv /\ [RefNext]_refVars => RefInv'
<1>. SUFFICES ASSUME RefInv, [RefNext]_refVars PROVE RefInv'
  OBVIOUS
<1>1. CASE UNCHANGED refVars
  BY <1>1 DEF RefTypes, CountsTrue, OneLeaver, Reachable, CallsAndLocks, Dropping, SideHeld,
              StrongHandles, WeakHandles, InState
<1>. QED
  BY <1>1, CopyStrongInv, CopyWeakInv, MoveInv, DropStrongInv, CallOnZeroStrongInv, DropWeakInv,
     DestroyInternalInv, LockStepInv, ExchangeStrongInv DEF RefNext

LEMMA RefInvariance == RefSpec => []RefInv
  BY RefInitInv, RefNextInv, PTL DEF RefSpec

-----------------------------------------------------------------------------
(* The theorems.                                                           *)

\* The variables of every reachable state have their types.
THEOREM RefTypeCorrect == RefSpec => []RefTypeOK
<1>1. RefInv => RefTypeOK
  BY DEF RefTypes, RefTypeOK
<1>. QED BY <1>1, RefInvariance, PTL

\* For any number of threads that copy, move, upgrade and drop references: the memory is
\* released exactly when nothing can reach the object, by one thread, and OnZeroStrong is
\* called once, never while a Ref exists.
THEOREM ObjectsLiveAndDie == RefSpec => []ObjectLifetime
<1>1. ASSUME RefInv PROVE ReleasedExactlyWhenUnreachable
  <2>1. alive <=> InState(HandleStates \ {"null"}) # {}
    BY <1>1 DEF RefTypes, HandleStates, InState, Reachable
  <2>2. \A g, d \in InState({"delete"}) : g = d
    BY <1>1 DEF OneLeaver, InState
  <2>3. InState({"delete"}) = {} \/ \E g : InState({"delete"}) = {g}
    BY <2>2
  <2>4. Cardinality(InState({"delete"})) <= 1
    BY <2>3, FS_EmptySet, FS_Singleton
  <2>. QED BY <2>1, <2>4 DEF ReleasedExactlyWhenUnreachable
<1>2. RefInv => ZeroStrongOnce
  BY DEF RefTypes, ZeroStrongOnce, StrongHandles, Droppers, InState, CallsAndLocks, OneLeaver, Dropping
<1>3. RefInv => ObjectLifetime
  BY <1>1, <1>2 DEF ObjectLifetime
<1>. QED BY <1>3, RefInvariance, PTL

HIDE RefAssumption DEF refVars, Becomes, RefInv

-----------------------------------------------------------------------------
(* Socket.                                                                 *)

USE SocketAssumption DEF sockVars, Goes

-----------------------------------------------------------------------------
(* The inductive invariant.                                                *)

SockTypes ==
  /\ wish \in [Request -> {"receive", "send", "accept"}]
  /\ stage \in [Request -> {"idle", "queued", "locking", "polling", "sending", "ready",
                            "checking", "woken", "calling", "done"}]
  /\ second \in SUBSET Request /\ stolen \in SUBSET Request /\ direct \in SUBSET Request
  /\ arrived \in 0 .. MaxData
  /\ released \in BOOLEAN /\ sockClosed \in BOOLEAN /\ objectClosed \in BOOLEAN
  /\ timeoutSet \in BOOLEAN
  /\ holder \in [{"receive", "send"} -> Request \cup {"none"}]
  /\ ownerAt \in {"free", "calling", "timing", "signalling", "leaving"}

\* The handle is closed before the Wio object, and the object last of all.
SockOwnerPlace ==
  /\ sockClosed <=> objectClosed \/ ownerAt \in {"signalling", "leaving"}
  /\ objectClosed => ownerAt \in {"free", "calling"}

\* A synchronous call occupies the owner's thread from its beginning to its end.
InProgress(q) == q \in direct /\ stage[q] \notin {"idle", "done"}
Synchronous ==
  /\ \A q \in direct : stage[q] \notin {"queued", "woken"} /\ q \notin second
  /\ \A q \in Request : InProgress(q) => ownerAt = "calling"
  /\ \A q, r \in Request : InProgress(q) /\ InProgress(r) => q = r

InsideCall(q) == stage[q] \in {"polling", "sending", "ready", "checking"}

\* A mutex is held by the call that is inside, and only an AcceptAsync calls twice.
Places ==
  \A q \in Request :
    /\ (holder[Mutex(q)] = q) <=> InsideCall(q)
    /\ (wish[q] = "send") => holder["receive"] # q
    /\ (wish[q] # "send") => holder["send"] # q
    /\ stage[q] \in {"polling", "ready"} => wish[q] # "send"
    /\ q \in second => InNative(q) \/ stage[q] = "done"
    /\ q \in second \/ (q \notin direct /\ stage[q] \in {"woken", "calling"}) => wish[q] = "accept"

\* The leases of the calls, one of Acquire and one within the native call; SetTimeout's;
\* and the owner's, which Close gives back.
Outers == {q \in Request : stage[q] = "queued" \/ (InNative(q) /\ q \notin second \cup direct)}
Inners == {q \in Request : InNative(q)}
SockLeased ==
  /\ refs = Cardinality(Outers) + Cardinality(Inners)
            + (IF ownerAt = "timing" THEN 1 ELSE 0) + (IF objectClosed THEN 0 ELSE 1)
  /\ released <=> refs = 0

\* A listener accepts and nothing else; what a wait has seen is there until an accept
\* takes it, which is then written down.
Announced(q) == \/ q \notin direct /\ stage[q] \in {"woken", "calling"}
                \/ q \in second /\ stage[q] \in {"locking", "polling"}
Connections ==
  /\ \A q, r \in Request : wish[q] = "accept" => wish[r] = "accept"
  /\ \A q \in Request : /\ stage[q] = "ready" => arrived # 0
                        /\ Announced(q) => arrived # 0 \/ q \in stolen

SockInv == SockTypes /\ SockOwnerPlace /\ Synchronous /\ Places /\ SockLeased /\ Connections

USE DEF SockInv

-----------------------------------------------------------------------------
(* The leases.                                                             *)

LEMMA SockFinite ==
  /\ IsFiniteSet(Outers) /\ Cardinality(Outers) \in Nat
  /\ IsFiniteSet(Inners) /\ Cardinality(Inners) \in Nat
  BY FS_Subset, FS_CardinalityType DEF Outers, Inners

LEMMA ArrivedFact == ASSUME SockInv PROVE arrived \in Nat /\ arrived <= MaxData
<1>1. arrived \in 0 .. MaxData
  BY DEF SockTypes
<1>. QED BY <1>1

LEMMA RefsFact ==
  ASSUME SockInv
  PROVE  /\ refs \in Nat
         /\ refs = Cardinality(Outers) + Cardinality(Inners)
                   + (IF ownerAt = "timing" THEN 1 ELSE 0) + (IF objectClosed THEN 0 ELSE 1)
         /\ released \in BOOLEAN /\ (released <=> refs = 0)
<1>1. refs = Cardinality(Outers) + Cardinality(Inners)
             + (IF ownerAt = "timing" THEN 1 ELSE 0) + (IF objectClosed THEN 0 ELSE 1)
  BY DEF SockLeased
<1>2. refs \in Nat
  BY <1>1, SockFinite
<1>. QED BY <1>1, <1>2 DEF SockLeased, SockTypes

LEMMA Dropped ==
  ASSUME SockInv, NEW n \in {1, 2}, refs >= n, Drop(n)
  PROVE  refs' = refs - n /\ released' \in BOOLEAN /\ (released' <=> refs' = 0)
<1>1. refs \in Nat /\ ~released
  BY RefsFact
<1>2. refs' = refs - n /\ released' \in BOOLEAN /\ (released' <=> refs = n)
  BY <1>1 DEF Drop
<1>. QED BY <1>1, <1>2

LEMMA SameLeases ==
  ASSUME SockInv, UNCHANGED <<refs, released, objectClosed>>, Outers' = Outers, Inners' = Inners,
         (ownerAt = "timing") <=> (ownerAt' = "timing")
  PROVE  SockLeased'
  BY DEF SockLeased

\* A native call that returns gives back the lease it took and, the first one, Acquire's.
LEMMA ReturnLeases ==
  ASSUME SockInv, NEW q \in Request, NEW s \in {"done", "woken"}, InNative(q), ReturnTo(q, s),
         UNCHANGED <<second, direct, objectClosed>>
  PROVE  SockLeased' /\ released' \in BOOLEAN
<1>. USE DEF ReturnTo, Outer
<1>1. Inners' = Inners \ {q} /\ q \in Inners
  BY DEF SockTypes, Inners, InNative
<1>0. (ownerAt = "timing") <=> (ownerAt' = "timing")
  BY DEF OwnerAfter, Synchronous, InProgress, InNative
<1>2. CASE q \in second \cup direct
  <2>1. Outers' = Outers
    BY <1>2 DEF SockTypes, Outers, InNative
  <2>2. Cardinality(Inners') = Cardinality(Inners) - 1 /\ Cardinality(Inners) \in Nat \ {0}
    BY <1>1, SockFinite, Removed
  <2>3. refs >= 1 /\ Drop(1)
    BY <1>2, <2>2, RefsFact, SockFinite
  <2>. QED BY <1>0, <2>1, <2>2, <2>3, RefsFact, Dropped, SockFinite DEF SockLeased
<1>3. CASE q \notin second \cup direct
  <2>1. Outers' = Outers \ {q} /\ q \in Outers
    BY <1>3 DEF SockTypes, Outers, InNative
  <2>2. /\ Cardinality(Inners') = Cardinality(Inners) - 1 /\ Cardinality(Inners) \in Nat \ {0}
        /\ Cardinality(Outers') = Cardinality(Outers) - 1 /\ Cardinality(Outers) \in Nat \ {0}
    BY <1>1, <2>1, SockFinite, Removed
  <2>3. refs >= 2 /\ Drop(2)
    BY <1>3, <2>2, RefsFact, SockFinite
  <2>. QED BY <1>0, <2>2, <2>3, RefsFact, Dropped, SockFinite DEF SockLeased
<1>. QED BY <1>2, <1>3

\* What a return gives the owner: its thread, if the call was its own.
LEMMA ReturnOwner ==
  ASSUME SockInv, NEW q \in Request, NEW s \in {"done", "woken"}, stage[q] \notin {"idle", "done"},
         Goes(q, s), OwnerAfter(q), s = "woken" => q \notin direct,
         second' \cap direct = {}, UNCHANGED <<direct, sockClosed, objectClosed>>
  PROVE  /\ Synchronous' /\ SockOwnerPlace'
         /\ ownerAt' \in {"free", "calling", "timing", "signalling", "leaving"}
<1>1. \A r \in Request : stage'[r] = IF r = q THEN s ELSE stage[r]
  BY DEF SockTypes
<1>2. \A r \in Request : InProgress(r)' <=> InProgress(r) /\ r # q
  BY <1>1 DEF InProgress
<1>3. \A r \in direct' : stage'[r] \notin {"queued", "woken"} /\ r \notin second'
  BY <1>1 DEF SockTypes, Synchronous
<1>4. CASE q \in direct
  <2>1. ownerAt = "calling" /\ ownerAt' = "free" /\ \A r \in Request : ~InProgress(r)'
    BY <1>2, <1>4 DEF OwnerAfter, Synchronous, InProgress
  <2>. QED BY <1>3, <2>1 DEF Synchronous, SockOwnerPlace
<1>5. CASE q \notin direct
  <2>1. UNCHANGED ownerAt
    BY <1>5 DEF OwnerAfter
  <2>. QED BY <1>2, <1>3, <2>1 DEF Synchronous, SockOwnerPlace, SockTypes
<1>. QED BY <1>4, <1>5

\* What a return does to the mutexes, for a call that has locked one.
LEMMA ReturnPlaces ==
  ASSUME SockInv, NEW q \in Request, NEW s \in {"done", "woken"}, InsideCall(q), ReturnTo(q, s),
         s = "woken" => wish[q] = "accept" /\ q \notin second, UNCHANGED <<wish, direct, second>>
  PROVE  Places' /\ stage' \in [Request -> {"idle", "queued", "locking", "polling", "sending",
                                            "ready", "checking", "woken", "calling", "done"}]
                 /\ holder' \in [{"receive", "send"} -> Request \cup {"none"}]
<1>. USE DEF ReturnTo
<1>1. Mutex(q) \in {"receive", "send"} /\ holder[Mutex(q)] = q /\ q # "none"
  BY DEF Mutex, Places
<1>2. /\ stage' \in [Request -> {"idle", "queued", "locking", "polling", "sending", "ready",
                                 "checking", "woken", "calling", "done"}]
      /\ holder' \in [{"receive", "send"} -> Request \cup {"none"}]
      /\ \A r \in Request : stage'[r] = IF r = q THEN s ELSE stage[r]
      /\ \A m \in {"receive", "send"} : holder'[m] = IF m = Mutex(q) THEN "none" ELSE holder[m]
  BY <1>1 DEF SockTypes
<1>3. \A r \in Request : Mutex(r)' = Mutex(r) /\ Mutex(r) \in {"receive", "send"}
  BY DEF Mutex
<1>4. \A r \in Request : (holder'[Mutex(r)] = r) <=> InsideCall(r)'
  BY <1>1, <1>2, <1>3 DEF Places, InsideCall
<1>5. Places'
  BY <1>1, <1>2, <1>3, <1>4 DEF Places, InNative, InsideCall
<1>. QED BY <1>2, <1>5

-----------------------------------------------------------------------------
(* The actions of a request.                                               *)

LEMMA SockInitInv == SockInit => SockInv
<1>. SUFFICES ASSUME SockInit PROVE SockInv
  OBVIOUS
<1>. USE DEF SockInit
<1>1. SockTypes
  <2>1. wish \in [Request -> {"receive", "send", "accept"}]
    OBVIOUS
  <2>2. arrived \in 0 .. MaxData
    OBVIOUS
  <2>3. holder \in [{"receive", "send"} -> Request \cup {"none"}] /\ ownerAt = "free"
    OBVIOUS
  <2>. QED BY <2>1, <2>2, <2>3 DEF SockTypes
<1>2. SockOwnerPlace /\ Synchronous /\ Places /\ Connections
  BY DEF SockOwnerPlace, Synchronous, InProgress, Places, Connections, InsideCall, InNative, Mutex, Announced
<1>3. Outers = {} /\ Inners = {}
  BY DEF Outers, Inners, InNative
<1>4. SockLeased
  BY <1>3, FS_EmptySet DEF SockLeased
<1>. QED BY <1>1, <1>2, <1>4

LEMMA BeginRequestInv == ASSUME SockInv, NEW q \in Request, BeginRequest(q) PROVE SockInv'
<1>. USE DEF BeginRequest
<1>1. SockTypes' /\ SockOwnerPlace' /\ Synchronous'
  BY DEF SockTypes, SockOwnerPlace, Synchronous, InProgress
<1>2. Places'
  BY DEF SockTypes, Places, InsideCall, InNative, Mutex
<1>3. Connections'
  BY DEF SockTypes, Connections, Announced
<1>4. Outers' = Outers \cup {q} /\ q \notin Outers /\ Inners' = Inners
  BY DEF SockTypes, Outers, Inners, InNative, Places
<1>5. SockLeased'
  BY <1>4, SockFinite, Added DEF SockLeased
<1>. QED BY <1>1, <1>2, <1>3, <1>5

LEMMA CallDirectlyInv == ASSUME SockInv, NEW q \in Request, CallDirectly(q) PROVE SockInv'
<1>. USE DEF CallDirectly
<1>1. SockTypes' /\ SockOwnerPlace'
  BY DEF SockTypes, SockOwnerPlace
<1>0. \A r \in Request : stage'[r] = IF r = q THEN "calling" ELSE stage[r]
  BY DEF SockTypes
<1>2. Synchronous'
  BY <1>0 DEF Synchronous, InProgress
<1>3. Places'
  BY <1>0 DEF Places, InsideCall, InNative, Mutex
<1>4. Connections'
  BY <1>0 DEF SockTypes, Connections, Announced, Synchronous
<1>5. Outers' = Outers /\ Inners' = Inners
  BY <1>0 DEF Outers, Inners, InNative
<1>. QED BY <1>1, <1>2, <1>3, <1>4, <1>5, SameLeases

LEMMA EnterNativeInv == ASSUME SockInv, NEW q \in Request, EnterNative(q) PROVE SockInv'
<1>. USE DEF EnterNative
<1>1. second' = IF stage[q] = "queued" \/ q \in direct THEN second ELSE second \cup {q}
  OBVIOUS
<1>0. q \in second' => wish[q] = "accept" /\ q \notin direct
  BY <1>1 DEF Places, InNative, Synchronous
<1>2. /\ q \notin second /\ q \notin Inners /\ ((q \in Outers) <=> (stage[q] = "queued"))
      /\ stage[q] = "queued" => q \notin direct
  BY DEF Places, Outers, Inners, InNative, Synchronous
<1>3. CASE sockClosed
  <2>1. Goes(q, "done") /\ OwnerAfter(q)
    BY <1>3
  <2>2. Synchronous' /\ SockOwnerPlace' /\ ownerAt' \in {"free", "calling", "timing", "signalling", "leaving"}
    <3>1. second' \cap direct = {}
      BY <1>0, <1>1 DEF Synchronous, SockTypes
    <3>. QED BY <2>1, <3>1, ReturnOwner
  <2>3. SockTypes'
    BY <1>1, <2>1, <2>2, <1>3 DEF SockTypes, Drop
  <2>4. Places'
    BY <1>0, <1>1, <2>1 DEF SockTypes, Places, InsideCall, InNative, Mutex
  <2>5. Connections'
    BY <1>1, <2>1 DEF SockTypes, Connections, Announced
  <2>6. Inners' = Inners
    BY <2>1 DEF SockTypes, Inners, InNative
  <2>7. (ownerAt = "timing") <=> (ownerAt' = "timing")
    BY <2>1 DEF OwnerAfter, Synchronous, InProgress
  <2>8. CASE stage[q] = "queued"
    <3>1. Outers' = Outers \ {q} /\ q \in Outers /\ Drop(1)
      BY <1>1, <1>2, <1>3, <2>1, <2>8 DEF SockTypes, Outers, InNative
    <3>2. Cardinality(Outers') = Cardinality(Outers) - 1 /\ Cardinality(Outers) \in Nat \ {0}
      BY <3>1, SockFinite, Removed
    <3>3. refs >= 1
      BY <3>2, RefsFact, SockFinite
    <3>4. SockLeased'
      BY <2>6, <2>7, <3>1, <3>2, <3>3, RefsFact, Dropped, SockFinite DEF SockLeased
    <3>. QED BY <2>2, <2>3, <2>4, <2>5, <3>4
  <2>9. CASE stage[q] # "queued"
    <3>1. Outers' = Outers
      BY <1>1, <2>1, <2>9 DEF SockTypes, Outers, InNative
    <3>. QED BY <1>3, <2>2, <2>3, <2>4, <2>5, <2>6, <2>7, <2>9, <3>1, SameLeases
  <2>. QED BY <2>8, <2>9
<1>4. CASE ~sockClosed
  <2>1. Goes(q, "locking") /\ refs' = refs + 1 /\ UNCHANGED <<released, ownerAt>>
    BY <1>4
  <2>2. SockTypes'
    BY <1>1, <2>1 DEF SockTypes
  <2>3. Places' /\ SockOwnerPlace' /\ Synchronous' /\ Connections'
    <3>1. Places'
      BY <1>0, <1>1, <2>1 DEF SockTypes, Places, InsideCall, InNative, Mutex
    <3>2. SockOwnerPlace'
      BY <2>1 DEF SockOwnerPlace
    <3>3. Connections'
      BY <1>1, <1>2, <2>1 DEF SockTypes, Connections, Announced
    <3>4. Synchronous'
      BY <1>0, <1>1, <2>1 DEF SockTypes, Synchronous, InProgress
    <3>. QED BY <3>1, <3>2, <3>3, <3>4
  <2>4. Inners' = Inners \cup {q} /\ Outers' = Outers
    BY <1>1, <1>2, <2>1 DEF SockTypes, Inners, Outers, InNative
  <2>5. Cardinality(Inners') = Cardinality(Inners) + 1 /\ ~objectClosed
    BY <1>2, <1>4, <2>4, SockFinite, Added DEF SockOwnerPlace
  <2>6. refs \in Nat \ {0} /\ ~released
    BY <2>5, RefsFact, SockFinite
  <2>7. SockLeased'
    BY <2>1, <2>4, <2>5, <2>6, SockFinite DEF SockLeased
  <2>. QED BY <2>2, <2>3, <2>7
<1>. QED BY <1>3, <1>4

LEMMA LockMutexInv == ASSUME SockInv, NEW q \in Request, LockMutex(q) PROVE SockInv'
<1>. USE DEF LockMutex
<1>1. Mutex(q) \in {"receive", "send"}
  BY DEF Mutex
<1>2. SockTypes' /\ SockOwnerPlace' /\ Synchronous'
  BY <1>1 DEF SockTypes, SockOwnerPlace, Synchronous, InProgress
<1>3. /\ \A r \in Request : stage'[r] = IF r = q THEN (IF wish[q] = "send" THEN "sending" ELSE "polling")
                                        ELSE stage[r]
      /\ \A m \in {"receive", "send"} : holder'[m] = IF m = Mutex(q) THEN q ELSE holder[m]
      /\ \A r \in Request : Mutex(r)' = Mutex(r) /\ Mutex(r) \in {"receive", "send"}
  BY <1>1 DEF SockTypes, Mutex
<1>4. \A r \in Request : (holder'[Mutex(r)] = r) <=> InsideCall(r)'
  BY <1>3 DEF Places, InsideCall
<1>5. Places'
  BY <1>3, <1>4 DEF Places, InNative, InsideCall, Mutex
<1>6. Connections'
  BY <1>3 DEF Connections, Announced
<1>7. Outers' = Outers /\ Inners' = Inners
  BY <1>3 DEF Outers, Inners, InNative
<1>. QED BY <1>2, <1>5, <1>6, <1>7, SameLeases

LEMMA ReturnInv ==
  ASSUME SockInv, NEW q \in Request, InsideCall(q), ReturnTo(q, "done"),
         UNCHANGED <<wish, direct, second, sockClosed, objectClosed, timeoutSet, stolen, arrived>>
  PROVE  SockInv'
<1>1. InNative(q)
  BY DEF InsideCall, InNative
<1>2. Synchronous' /\ SockOwnerPlace' /\ ownerAt' \in {"free", "calling", "timing", "signalling", "leaving"}
  <2>1. second' \cap direct = {}
    BY DEF Synchronous, SockTypes
  <2>. QED BY <2>1, ReturnOwner DEF InsideCall, ReturnTo
<1>3. Places' /\ SockLeased' /\ SockTypes'
  BY <1>1, <1>2, ReturnPlaces, ReturnLeases DEF SockTypes
<1>4. Connections'
  BY DEF SockTypes, Connections, Announced, ReturnTo
<1>. QED BY <1>2, <1>3, <1>4

LEMMA PollInv == ASSUME SockInv, NEW q \in Request, Poll(q) PROVE SockInv'
<1>. USE DEF Poll
<1>1. CASE ReturnTo(q, "done")
  BY <1>1, ReturnInv DEF InsideCall
<1>2. CASE Readable /\ Goes(q, "ready") /\ UNCHANGED <<refs, released, holder, ownerAt>>
  <2>1. SockTypes' /\ SockOwnerPlace' /\ Synchronous'
    BY <1>2 DEF SockTypes, SockOwnerPlace, Synchronous, InProgress
  <2>2. Places'
    BY <1>2 DEF SockTypes, Places, InsideCall, InNative, Mutex
  <2>3. Connections'
    <3>1. arrived # 0
      BY <1>2, ArrivedFact DEF Readable
    <3>. QED BY <1>2, <3>1 DEF SockTypes, Connections, Announced
  <2>4. Outers' = Outers /\ Inners' = Inners
    BY <1>2 DEF SockTypes, Outers, Inners, InNative
  <2>. QED BY <1>2, <2>1, <2>2, <2>3, <2>4, SameLeases
<1>. QED BY <1>1, <1>2

\* The readers of one listener exclude each other, so that who is ready takes what it saw.
LEMMA ConsumeInv == ASSUME SockInv, NEW q \in Request, Consume(q) PROVE SockInv'
<1>. USE DEF Consume
<1>0. wish[q] # "send" /\ Mutex(q) = "receive" /\ InsideCall(q) /\ InNative(q) /\ arrived # 0
  BY DEF Places, Mutex, Connections, InsideCall, InNative
<1>1. CASE OnlyWaits(q)
  <2>1. ReturnTo(q, "woken") /\ UNCHANGED <<arrived, stolen>>
    BY <1>1
  <2>2. wish[q] = "accept" /\ q \notin second /\ q \notin direct
    BY <1>1 DEF OnlyWaits
  <2>3. Synchronous' /\ SockOwnerPlace' /\ ownerAt' \in {"free", "calling", "timing", "signalling", "leaving"}
    <3>1. second' \cap direct = {}
      BY DEF Synchronous, SockTypes
    <3>. QED BY <1>0, <2>1, <2>2, <3>1, ReturnOwner DEF ReturnTo, InNative
  <2>4. Places' /\ SockLeased' /\ SockTypes'
    BY <1>0, <2>1, <2>2, <2>3, ReturnPlaces, ReturnLeases DEF SockTypes
  <2>5. Connections'
    BY <1>0, <2>1 DEF SockTypes, Connections, Announced, ReturnTo
  <2>. QED BY <2>3, <2>4, <2>5
<1>2. CASE ~OnlyWaits(q)
  <2>1. /\ arrived' = arrived - 1
        /\ stolen' = stolen \cup {r \in Request \ {q} : wish[q] = "accept" /\ stage[r] \in
                                    {"woken", "calling", "locking", "polling"}}
        /\ Goes(q, "checking")
        /\ UNCHANGED <<refs, released, holder, ownerAt>>
    BY <1>2
  <2>8. SockOwnerPlace' /\ Synchronous'
    BY <2>1 DEF SockTypes, SockOwnerPlace, Synchronous, InProgress
  <2>2. SockTypes'
    <3>1. arrived' \in 0 .. MaxData
      BY <1>0, <2>1, ArrivedFact
    <3>2. stolen' \in SUBSET Request
      BY <2>1 DEF SockTypes
    <3>. QED BY <2>1, <3>1, <3>2 DEF SockTypes
  <2>3. Places'
    BY <2>1 DEF SockTypes, Places, InsideCall, InNative, Mutex
  <2>4. Outers' = Outers /\ Inners' = Inners
    BY <2>1 DEF SockTypes, Outers, Inners, InNative
  <2>5. \A r \in Request : stage[r] = "ready" => r = q
    <3>1. \A r \in Request : stage[r] = "ready" => holder["receive"] = r
      BY DEF Places, Mutex, InsideCall
    <3>. QED BY <3>1
  <2>6. \A r \in Request : r # q /\ Announced(r) => r \in stolen'
    BY <2>1 DEF Connections, Places, Announced
  <2>7. Connections'
    BY <2>1, <2>5, <2>6 DEF SockTypes, Connections, Announced
  <2>. QED BY <2>1, <2>2, <2>3, <2>4, <2>7, <2>8, SameLeases
<1>. QED BY <1>1, <1>2

LEMMA AfterWaitInv == ASSUME SockInv, NEW q \in Request, AfterWait(q) PROVE SockInv'
<1>. USE DEF AfterWait
<1>1. SockTypes' /\ SockOwnerPlace' /\ Synchronous'
  BY DEF SockTypes, SockOwnerPlace, Synchronous, InProgress
<1>2. Places'
  <2>1. \E s \in {"done", "calling"} : Goes(q, s)
    OBVIOUS
  <2>2. UNCHANGED <<wish, second, holder>>
    OBVIOUS
  <2>3. q \notin second
    BY DEF Places, InNative
  <2>4. \A r \in Request : r # q => stage'[r] = stage[r]
    BY <2>1 DEF SockTypes
  <2>5. stage'[q] \in {"done", "calling"}
    BY <2>1 DEF SockTypes
  <2>. QED BY <2>2, <2>3, <2>4, <2>5 DEF Places, InsideCall, InNative, Mutex
<1>3. Connections'
  BY DEF SockTypes, Connections, Announced
<1>4. Outers' = Outers /\ Inners' = Inners
  BY DEF SockTypes, Outers, Inners, InNative
<1>. QED BY <1>1, <1>2, <1>3, <1>4, SameLeases

LEMMA RequestStepInv ==
  ASSUME SockInv, NEW q \in Request, RequestStep(q) \/ SendReturns(q) PROVE SockInv'
<1>1. CASE CheckClosed(q) \/ SendReturns(q)
  BY <1>1, ReturnInv DEF CheckClosed, SendReturns, InsideCall
<1>. QED
  BY <1>1, EnterNativeInv, LockMutexInv, PollInv, ConsumeInv, AfterWaitInv DEF RequestStep

-----------------------------------------------------------------------------
(* The owner and the network.                                              *)

\* What the owner does moves no request.
LEMMA OwnerInv ==
  ASSUME SockInv,
         CallSetTimeout \/ SetTimeout \/ CloseSocket \/ Signal \/ LetGo \/ Arrive
  PROVE  SockInv'
<1>1. UNCHANGED <<wish, direct, stage, second, holder, stolen>>
  BY DEF CallSetTimeout, SetTimeout, CloseSocket, Signal, LetGo, Arrive
<1>2. arrived' \in 0 .. MaxData /\ (arrived # 0 => arrived' # 0)
  <2>1. UNCHANGED arrived \/ (arrived < MaxData /\ arrived' = arrived + 1)
    BY DEF CallSetTimeout, SetTimeout, CloseSocket, Signal, LetGo, Arrive
  <2>. QED BY <2>1, ArrivedFact
<1>3. Places'
  BY <1>1 DEF Places, InsideCall, InNative, Mutex
<1>4. Connections'
  BY <1>1, <1>2 DEF SockTypes, Connections, Announced
<1>5. Outers' = Outers /\ Inners' = Inners
  BY <1>1 DEF Outers, Inners, InNative
<1>6. /\ SockOwnerPlace' /\ ownerAt' \in {"free", "calling", "timing", "signalling", "leaving"}
      /\ ownerAt = "calling" => ownerAt' = "calling"
  <2>1. CASE CallSetTimeout \/ SetTimeout
    BY <2>1 DEF CallSetTimeout, SetTimeout, SockOwnerPlace
  <2>2. CASE CloseSocket
    BY <2>2 DEF CloseSocket, SockOwnerPlace
  <2>3. CASE Signal
    BY <2>3 DEF Signal, SockOwnerPlace
  <2>4. CASE LetGo
    BY <2>4 DEF LetGo, SockOwnerPlace
  <2>5. CASE Arrive
    BY <2>5 DEF Arrive, SockOwnerPlace, SockTypes
  <2>. QED BY <2>1, <2>2, <2>3, <2>4, <2>5
<1>10. Synchronous'
  BY <1>1, <1>6 DEF Synchronous, InProgress
<1>7. sockClosed' \in BOOLEAN /\ objectClosed' \in BOOLEAN /\ timeoutSet' \in BOOLEAN
  BY DEF CallSetTimeout, SetTimeout, CloseSocket, Signal, LetGo, Arrive, SockTypes
<1>8. SockLeased' /\ released' \in BOOLEAN
  <2>. DEFINE L == Cardinality(Outers) + Cardinality(Inners)
  <2>1. L \in Nat /\ L = (Cardinality(Outers) + Cardinality(Inners))'
    BY <1>5, SockFinite
  <2>6. CASE CallSetTimeout /\ sockClosed
    BY <1>5, <2>6, SameLeases DEF CallSetTimeout, SockTypes
  <2>2. CASE CallSetTimeout /\ ~sockClosed
    <3>1. refs' = refs + 1 /\ ownerAt # "timing" /\ ownerAt' = "timing" /\ ~objectClosed
      BY <2>2 DEF CallSetTimeout, SockOwnerPlace
    <3>2. refs = L + 1 /\ ~released
      BY <2>1, <3>1, RefsFact
    <3>3. ~released' /\ ~objectClosed' /\ released' \in BOOLEAN
      BY <2>2, <3>1, <3>2 DEF CallSetTimeout, SockTypes
    <3>4. refs' = L + 2 /\ refs' # 0
      BY <2>1, <3>1, <3>2
    <3>. QED BY <2>1, <3>1, <3>3, <3>4 DEF SockLeased
  <2>3. CASE SetTimeout
    <3>1. Drop(1) /\ ownerAt = "timing" /\ ownerAt' = "free" /\ ~objectClosed /\ ~objectClosed'
      BY <2>3 DEF SetTimeout, SockOwnerPlace
    <3>2. refs = L + 2
      BY <2>1, <3>1, RefsFact
    <3>3. refs' = L + 1 /\ released' \in BOOLEAN /\ (released' <=> refs' = 0)
      BY <2>1, <3>1, <3>2, Dropped
    <3>. QED BY <2>1, <3>1, <3>3 DEF SockLeased
  <2>4. CASE LetGo
    <3>1. Drop(1) /\ ownerAt = "leaving" /\ ownerAt' = "free" /\ ~objectClosed /\ objectClosed'
      BY <2>4 DEF LetGo, SockOwnerPlace
    <3>2. refs = L + 1
      BY <2>1, <3>1, RefsFact
    <3>3. refs' = L /\ released' \in BOOLEAN /\ (released' <=> refs' = 0)
      BY <2>1, <3>1, <3>2, Dropped
    <3>. QED BY <2>1, <3>1, <3>3 DEF SockLeased
  <2>5. CASE CloseSocket \/ Signal \/ Arrive
    BY <1>5, <2>5, SameLeases DEF CloseSocket, Signal, Arrive, SockTypes
  <2>. QED BY <2>2, <2>3, <2>4, <2>5, <2>6
<1>9. SockTypes'
  BY <1>1, <1>2, <1>6, <1>7, <1>8 DEF SockTypes
<1>. QED BY <1>3, <1>4, <1>6, <1>8, <1>9, <1>10

LEMMA SockNextInv == SockInv /\ [SockNext]_sockVars => SockInv'
<1>. SUFFICES ASSUME SockInv, [SockNext]_sockVars PROVE SockInv'
  OBVIOUS
<1>1. CASE UNCHANGED sockVars
  BY <1>1 DEF SockTypes, SockOwnerPlace, Synchronous, InProgress, Places, InsideCall, InNative, Mutex,
              SockLeased, Outers, Inners, Connections, Announced
<1>. QED BY <1>1, BeginRequestInv, CallDirectlyInv, RequestStepInv, OwnerInv DEF SockNext

LEMMA SockInvariance == SockSpec => []SockInv
  BY SockInitInv, SockNextInv, PTL DEF SockSpec

-----------------------------------------------------------------------------
(* The theorems.                                                           *)

\* A call that is still queued holds the lease of Acquire, so that Retain finds the storage;
\* the owner's Retain does until its own Close.
WhoTouches ==
  /\ touched \subseteq {"owner", "request"}
  /\ "request" \in touched => second # {}
  /\ "owner" \in touched => objectClosed

LEMMA TouchedInv == SockInv /\ WhoTouches /\ [SockNext]_sockVars => WhoTouches'
<1>. SUFFICES ASSUME SockInv, WhoTouches, [SockNext]_sockVars PROVE WhoTouches'
  OBVIOUS
<1>. USE DEF WhoTouches, Touch
<1>1. released => objectClosed
  <2>. SUFFICES ASSUME ~objectClosed PROVE refs # 0
    BY RefsFact
  <2>. QED BY RefsFact, SockFinite
<1>2. ASSUME NEW q \in Request, EnterNative(q) PROVE WhoTouches'
  <2>. USE <1>2 DEF EnterNative
  <2>1. CASE q \in direct
    BY <1>1, <2>1
  <2>2. CASE q \notin direct /\ stage[q] = "queued"
    <3>1. q \in Outers
      BY <2>2 DEF Outers
    <3>2. Cardinality(Outers) \in Nat \ {0}
      BY <3>1, SockFinite, Removed
    <3>3. ~released
      BY <3>2, RefsFact, SockFinite
    <3>. QED BY <2>2, <3>3
  <2>3. CASE q \notin direct /\ stage[q] # "queued"
    BY <2>3
  <2>. QED BY <2>1, <2>2, <2>3
<1>3. CASE CallSetTimeout
  BY <1>1, <1>3 DEF CallSetTimeout
<1>4. CASE UNCHANGED <<touched, second>> /\ (objectClosed => objectClosed')
  BY <1>4
<1>. QED BY <1>2, <1>3, <1>4
         DEF SockNext, RequestStep, BeginRequest, CallDirectly, LockMutex, Poll, Consume, CheckClosed,
             AfterWait, SendReturns, SetTimeout, CloseSocket, Signal, LetGo, Arrive

LEMMA TouchedInvariance == SockSpec => []WhoTouches
<1>1. SockInit => WhoTouches
  BY DEF SockInit, WhoTouches
<1>. QED BY <1>1, TouchedInv, SockInvariance, PTL DEF SockSpec

\* Every variable of a socket and its requests keeps its type.
LEMMA SockTypeCorrect == SockSpec => []SockTypeOK
<1>1. SockInv /\ WhoTouches => SockTypeOK
  BY RefsFact DEF SockTypes, SockTypeOK, WhoTouches
<1>. QED BY <1>1, SockInvariance, TouchedInvariance, PTL

\* Of the asynchronous calls only the Accept that an AcceptAsync calls on the bare handle
\* ever touches storage that has been released, so that a socket without one obeys
\* NoUseAfterRelease; the synchronous calls of the owner and its SetTimeout, which do not
\* all look at Socket.closed, touch it only after the owner's own Close.
THEOREM WhoTouchesReleased ==
  SockSpec => []((second = {} => NoUseAfterRelease) /\ ("owner" \in touched => objectClosed))
<1>1. WhoTouches => (second = {} => NoUseAfterRelease) /\ ("owner" \in touched => objectClosed)
  BY DEF WhoTouches, NoUseAfterRelease
<1>. QED BY <1>1, TouchedInvariance, PTL

\* For any number of calls, and a Close at any point of any of them: storage and descriptor
\* are kept exactly as long as a queued or native call, or the owner, needs them.
THEOREM StorageIsKept == SockSpec => []StorageOutlivesCalls
<1>1. ASSUME SockInv PROVE StorageOutlivesCalls
  <2>1. refs = 0 <=> objectClosed /\ ownerAt # "timing" /\ Outers = {} /\ Inners = {}
    BY <1>1, SockFinite, FS_EmptySet DEF SockLeased
  <2>2. Outers = {} /\ Inners = {} <=> \A q \in Request : ~InNative(q) /\ stage[q] # "queued"
    BY DEF Outers, Inners
  <2>. QED BY <1>1, <2>1, <2>2 DEF StorageOutlivesCalls, SockLeased, SockOwnerPlace
<1>. QED BY <1>1, SockInvariance, PTL

\* For any number of accepting calls: the accept after a wait blocks its worker on the
\* network only when another accept has taken the connection that was announced.
THEOREM AcceptsFindConnections == SockSpec => []AcceptFindsConnection
<1>1. SockInv => AcceptFindsConnection
  BY DEF SockTypes, Connections, Announced, AcceptFindsConnection
<1>. QED BY <1>1, SockInvariance, PTL

\* After a Close, every call that waits for a mutex waits for one that the Close has
\* interrupted, and the storage waits only for calls that can go on, whatever was pending.
THEOREM ClosedSocketDrains == SockSpec => []ClosedNotHeldUp
<1>1. ASSUME SockInv, sockClosed PROVE ClosedNotHeldUp
  <2>1. ASSUME NEW q \in Request, holder[Mutex(q)] # "none"
        PROVE  \E r \in Request : holder[Mutex(q)] = r /\ InsideCall(r)
    <3>1. PICK r \in Request : holder[Mutex(q)] = r
      BY <1>1, <2>1 DEF SockTypes, Mutex
    <3>2. Mutex(r) = Mutex(q)
      BY <1>1, <3>1 DEF Places, Mutex
    <3>. QED BY <1>1, <3>1, <3>2 DEF Places
  <2>2. ~released /\ ownerAt \notin {"signalling", "leaving"} => Outers # {} \/ Inners # {}
    <3>. SUFFICES ASSUME objectClosed, ownerAt \in {"free", "calling"}, Outers = {}, Inners = {} PROVE released
      BY <1>1 DEF SockOwnerPlace
    <3>1. refs = 0
      BY <1>1, FS_EmptySet DEF SockLeased
    <3>. QED BY <1>1, <3>1 DEF SockLeased
  <2>3. \A q \in Outers \cup Inners :
          /\ q \in Request
          /\ stage[q] \in {"queued", "polling", "ready", "checking", "sending", "locking"}
    BY DEF Outers, Inners, InNative
  <2>. QED BY <2>1, <2>2, <2>3 DEF ClosedNotHeldUp, InsideCall
<1>2. SockInv => ClosedNotHeldUp
  BY <1>1 DEF ClosedNotHeldUp
<1>. QED BY <1>2, SockInvariance, PTL

HIDE SocketAssumption DEF sockVars, Goes, SockInv

-----------------------------------------------------------------------------
(* ChildProcess.                                                           *)

USE ChildAssumption
    DEF procVars, ownerVars, pipeVars, leaseVars, historyVars, At, FirstPoint, WaitMutexFree

-----------------------------------------------------------------------------
(* The inductive invariant.                                                *)

OwnerPoints == {"none", "looking", "killing", "locking", "waitpid", "storing", "stdin", "output"}

ProcTypes ==
  /\ calling \in [Poller -> {"wait", "read", "write"}]
  /\ point \in [Poller -> {"idle", "polling", "inside", "reaped", "writing", "over"}]
  /\ child \in {"running", "zombie", "gone", "reused"}
  /\ waited \in BOOLEAN /\ procClosed \in BOOLEAN /\ deleted \in BOOLEAN
  /\ stdinOpen \in BOOLEAN /\ stdoutOpen \in BOOLEAN
  /\ strayKill \in BOOLEAN /\ strayWait \in BOOLEAN
  /\ waitHolder \in Poller \cup {"none", "owner"} /\ stdinHolder \in Poller \cup {"none"}
  /\ leases \in Nat
  /\ ownerDoes \in {"none", "wait", "terminate", "closeStdin", "close"}
  /\ ownerPoint \in OwnerPoints
  /\ reaper \in Poller \cup {"none", "owner"}

\* Who holds a mutex stands where it is needed.
Holders ==
  /\ \A q \in Poller : (waitHolder = q) <=> (point[q] = "reaped")
  /\ (waitHolder = "owner") <=> (ownerPoint \in {"waitpid", "storing"})

\* Where the owner stands in its call, and what a Close has done by then.
OwnerPlace ==
  /\ (ownerDoes = "none") <=> (ownerPoint = "none")
  /\ procClosed => ownerDoes \in {"none", "close"}
  /\ ownerDoes = "close" => procClosed
  /\ procClosed /\ ownerPoint \in {"stdin", "output", "none"} => waited
  /\ procClosed /\ ownerPoint \in {"output", "none"} => ~stdinOpen
  /\ procClosed /\ ownerPoint = "none" => ~stdoutOpen
  /\ ownerPoint = "output" => procClosed

\* The id is free exactly from the waitpid on, by one reaper, who holds the mutex until it
\* has set the flag; the owner does not kill after a wait of its own.
Gone == child \in {"gone", "reused"}
ReapedOnce ==
  /\ waited => Gone
  /\ waitHolder # "none" => ~waited
  /\ Gone <=> waited \/ ownerPoint = "storing" \/ waitHolder \in Poller
  /\ Gone <=> reaper # "none"
  /\ waitHolder \in Poller => reaper = waitHolder
  /\ ownerPoint = "killing" => reaper # "owner"
  /\ reaper = "owner" => waited \/ ownerPoint = "storing"
  /\ ~strayWait
  /\ strayKill => reaper \in Poller

\* One lease per call in flight, and the owner's own until its Close is over.
Active == {q \in Poller : point[q] \in {"polling", "inside", "reaped", "writing"}}
Closed == procClosed /\ ownerDoes = "none"
Leased ==
  /\ leases = Cardinality(Active) + (IF Closed THEN 0 ELSE 1)
  /\ deleted <=> leases = 0

ProcInv == ProcTypes /\ Holders /\ OwnerPlace /\ ReapedOnce /\ Leased

USE DEF ProcInv

-----------------------------------------------------------------------------
(* The leases.                                                             *)

LEMMA ActiveFinite == IsFiniteSet(Active) /\ Cardinality(Active) \in Nat
  BY FS_Subset, FS_CardinalityType DEF Active

\* A call that begins takes a lease, and one that ends gives one back.
LEMMA Begins ==
  ASSUME ProcInv, NEW q \in Poller, point[q] = "idle", At(q, "polling"), leases' = leases + 1,
         UNCHANGED <<deleted, procClosed, ownerDoes>>, ~procClosed
  PROVE  Leased'
<1>1. Active' = Active \cup {q} /\ q \notin Active
  BY DEF Active, ProcTypes
<1>2. Cardinality(Active') = Cardinality(Active) + 1
  BY <1>1, ActiveFinite, FS_AddElement
<1>3. leases \in Nat /\ ~deleted
  BY ActiveFinite DEF Leased, Closed, ProcTypes
<1>. QED BY <1>2, <1>3, ActiveFinite DEF Leased, Closed

LEMMA Ends ==
  ASSUME ProcInv, NEW q \in Poller, point[q] \in {"polling", "inside", "reaped", "writing"}, At(q, "over"),
         Unlease, UNCHANGED <<procClosed, ownerDoes>>
  PROVE  Leased' /\ leases' \in Nat /\ deleted' \in BOOLEAN
<1>1. Active' = Active \ {q} /\ q \in Active
  BY DEF Active, ProcTypes
<1>2. Cardinality(Active') = Cardinality(Active) - 1
  BY <1>1, ActiveFinite, FS_RemoveElement
<1>3. Cardinality(Active) # 0
  BY <1>1, ActiveFinite, FS_EmptySet
<1>4. leases \in Nat /\ leases # 0 /\ ~deleted
  BY <1>3, ActiveFinite DEF Leased, ProcTypes
<1>5. leases' = leases - 1 /\ deleted' \in BOOLEAN /\ (deleted' <=> leases = 1) /\ Closed' = Closed
  BY <1>4 DEF Unlease, Closed
<1>6. leases' = Cardinality(Active') + (IF Closed' THEN 0 ELSE 1)
  BY <1>2, <1>4, <1>5, ActiveFinite DEF Leased
<1>7. leases' \in Nat /\ (deleted' <=> leases' = 0)
  BY <1>4, <1>5
<1>. QED BY <1>5, <1>6, <1>7 DEF Leased

LEMMA Keeps ==
  ASSUME ProcInv, Active' = Active, UNCHANGED leaseVars, Closed' = Closed
  PROVE  Leased'
  BY DEF Leased

-----------------------------------------------------------------------------
(* The asynchronous calls.                                                 *)

LEMMA ProcInitInv == ProcInit => ProcInv
<1>. SUFFICES ASSUME ProcInit PROVE ProcInv
  OBVIOUS
<1>. USE DEF ProcInit
<1>1. ProcTypes
  BY DEF ProcTypes, OwnerPoints
<1>2. Holders /\ OwnerPlace /\ ReapedOnce
  BY DEF Holders, OwnerPlace, ReapedOnce, Gone
<1>3. Active = {}
  BY DEF Active
<1>4. Leased
  BY <1>3, FS_EmptySet DEF Leased, Closed
<1>. QED BY <1>1, <1>2, <1>4

LEMMA BeginCallInv == ASSUME ProcInv, NEW q \in Poller, BeginCall(q) PROVE ProcInv'
<1>. USE DEF BeginCall
<1>1. Leased'
  BY Begins
<1>2. ProcTypes'
  BY DEF ProcTypes
<1>3. Holders' /\ OwnerPlace' /\ ReapedOnce'
  BY DEF ProcTypes, Holders, OwnerPlace, ReapedOnce, Gone
<1>. QED BY <1>1, <1>2, <1>3

\* A call that leaves without having touched the mutexes or the child.
LEMMA LeavesInv ==
  ASSUME ProcInv, NEW q \in Poller, point[q] \in {"polling", "inside"}, At(q, "over"), Unlease,
         UNCHANGED <<calling, child, waited, procClosed, waitHolder, pipeVars, ownerVars, historyVars>>
  PROVE  ProcInv'
<1>1. Leased' /\ leases' \in Nat /\ deleted' \in BOOLEAN
  BY Ends
<1>2. ProcTypes'
  BY <1>1 DEF ProcTypes
<1>3. Holders' /\ OwnerPlace' /\ ReapedOnce'
  BY DEF ProcTypes, Holders, OwnerPlace, ReapedOnce, Gone
<1>. QED BY <1>1, <1>2, <1>3

\* A call that enters the native function or comes back from it with nothing to tell.
LEMMA StaysInv ==
  ASSUME ProcInv, NEW q \in Poller, point[q] \in {"polling", "inside"},
         NEW p \in {"polling", "inside"}, At(q, p), UNCHANGED leaseVars,
         UNCHANGED <<calling, child, waited, procClosed, waitHolder, pipeVars, ownerVars, historyVars>>
  PROVE  ProcInv'
<1>1. Active' = Active /\ Closed' = Closed
  BY DEF Active, Closed, ProcTypes
<1>2. Leased'
  BY <1>1, Keeps
<1>3. ProcTypes'
  BY DEF ProcTypes
<1>4. Holders' /\ OwnerPlace' /\ ReapedOnce'
  BY DEF ProcTypes, Holders, OwnerPlace, ReapedOnce, Gone
<1>. QED BY <1>2, <1>3, <1>4

LEMMA PollRunningInv == ASSUME ProcInv, NEW q \in Poller, PollRunning(q) PROVE ProcInv'
<1>. USE DEF PollRunning
<1>1. CASE waited
  BY <1>1, LeavesInv
<1>2. CASE ~waited /\ child # "running" /\ Reap(q) /\ waitHolder' = q /\ At(q, "reaped")
           /\ UNCHANGED <<leaseVars, strayKill>>
  <2>. USE <1>2 DEF Reap
  <2>1. ~Gone /\ child = "zombie" /\ child' = "gone" /\ reaper' = q
    BY DEF ReapedOnce, Holders, Gone, ProcTypes
  <2>2. ProcTypes'
    BY <2>1 DEF ProcTypes
  <2>3. Active' = Active
    BY DEF Active, ProcTypes
  <2>4. Leased'
    BY <2>3, Keeps DEF Closed
  <2>5. Holders' /\ OwnerPlace'
    BY DEF ProcTypes, Holders, OwnerPlace
  <2>6. ReapedOnce'
    BY <2>1 DEF ProcTypes, Holders, ReapedOnce, Gone
  <2>. QED BY <2>2, <2>4, <2>5, <2>6
<1>3. CASE At(q, "polling") /\ UNCHANGED <<child, waitHolder, leaseVars, historyVars>>
  BY <1>3, StaysInv
<1>. QED BY <1>1, <1>2, <1>3

LEMMA StoreWaitedInv == ASSUME ProcInv, NEW q \in Poller, StoreWaited(q) PROVE ProcInv'
<1>. USE DEF StoreWaited
<1>1. waitHolder = q /\ reaper = q /\ Gone
  BY DEF Holders, ReapedOnce
<1>2. Leased' /\ leases' \in Nat /\ deleted' \in BOOLEAN
  BY Ends
<1>3. ProcTypes'
  BY <1>2 DEF ProcTypes
<1>4. Holders'
  BY <1>1 DEF ProcTypes, Holders
<1>5. OwnerPlace'
  BY DEF OwnerPlace, ProcTypes
<1>6. ReapedOnce'
  BY <1>1 DEF ReapedOnce, Gone, ProcTypes
<1>. QED BY <1>2, <1>3, <1>4, <1>5, <1>6

LEMMA WriteInv ==
  ASSUME ProcInv, NEW q \in Poller, BeginWrite(q) \/ EndWrite(q)
  PROVE  ProcInv'
<1>1. Holders' /\ OwnerPlace' /\ ReapedOnce'
  BY DEF BeginWrite, EndWrite, ProcTypes, Holders, OwnerPlace, ReapedOnce, Gone
<1>2. CASE point'[q] = "writing"
  <2>1. UNCHANGED leaseVars /\ ProcTypes'
    BY <1>2 DEF BeginWrite, EndWrite, ProcTypes
  <2>2. Active' = Active /\ Closed' = Closed
    BY <1>2 DEF BeginWrite, EndWrite, Active, Closed, ProcTypes
  <2>. QED BY <1>1, <2>1, <2>2, Keeps
<1>3. CASE point'[q] # "writing"
  <2>1. /\ point[q] \in {"inside", "writing"} /\ At(q, "over") /\ Unlease
        /\ UNCHANGED <<procClosed, ownerDoes>>
    BY <1>3 DEF BeginWrite, EndWrite, ProcTypes
  <2>2. Leased' /\ leases' \in Nat /\ deleted' \in BOOLEAN
    BY <2>1, Ends
  <2>3. ProcTypes'
    BY <2>2 DEF BeginWrite, EndWrite, ProcTypes
  <2>. QED BY <1>1, <2>2, <2>3
<1>. QED BY <1>2, <1>3

LEMMA CallInv ==
  ASSUME ProcInv, NEW q \in Poller,
         BeginCall(q) \/ CallRuns(q) \/ LeaveCancelled(q) \/ EndWrite(q)
  PROVE  ProcInv'
<1>1. CASE EnterCall(q) \/ PollStdout(q) \/ LeaveCancelled(q)
  BY <1>1, LeavesInv, StaysInv DEF EnterCall, PollStdout, LeaveCancelled
<1>. QED BY <1>1, BeginCallInv, PollRunningInv, StoreWaitedInv, WriteInv DEF CallRuns

-----------------------------------------------------------------------------
(* The owner.                                                              *)

\* The owner's steps before the last leave the calls and their leases alone.
LEMMA OwnerKeeps ==
  ASSUME ProcInv, UNCHANGED <<point, leaseVars>>, Closed' = Closed
  PROVE  Leased'
<1>1. Active' = Active
  BY DEF Active
<1>. QED BY <1>1, Keeps

LEMMA CallOwnerInv == ASSUME ProcInv, NEW op \in DOMAIN FirstPoint, CallOwner(op) PROVE ProcInv'
<1>. USE DEF CallOwner
<1>1. /\ op \in {"wait", "terminate", "closeStdin", "close"}
      /\ ownerPoint' \in {"locking", "looking", "stdin"} /\ (op = "close" => ownerPoint' = "looking")
  OBVIOUS
<1>2. Leased'
  BY <1>1, OwnerKeeps DEF Closed
<1>3. ProcTypes'
  BY <1>1 DEF ProcTypes, OwnerPoints
<1>4. Holders' /\ ReapedOnce'
  BY <1>1 DEF ProcTypes, OwnerPlace, Holders, ReapedOnce, Gone
<1>5. OwnerPlace'
  BY <1>1 DEF OwnerPlace
<1>. QED BY <1>2, <1>3, <1>4, <1>5

LEMMA KillInv == ASSUME ProcInv, LookWaited \/ Kill PROVE ProcInv'
<1>. USE DEF ThenOrReturn, OwnerGoes, OwnerReturns
<1>1. Closed' = Closed /\ UNCHANGED <<point, leaseVars>>
  BY DEF LookWaited, Kill, Closed, OwnerPlace
<1>2. Leased'
  BY <1>1, OwnerKeeps
<1>3. ProcTypes'
  <2>1. CASE LookWaited
    BY <2>1 DEF LookWaited, ProcTypes, OwnerPoints
  <2>2. CASE Kill
    BY <2>2 DEF Kill, ProcTypes, OwnerPoints
  <2>. QED BY <2>1, <2>2
<1>4. Holders' /\ OwnerPlace'
  BY DEF LookWaited, Kill, ProcTypes, Holders, OwnerPlace
<1>5. ReapedOnce'
  BY DEF LookWaited, Kill, ReapedOnce, Gone, ProcTypes, Holders
<1>. QED BY <1>2, <1>3, <1>4, <1>5

LEMMA LockWaitInv == ASSUME ProcInv, LockWait PROVE ProcInv'
<1>. USE DEF LockWait, ThenOrReturn, OwnerGoes, OwnerReturns
<1>1. Closed' = Closed
  BY DEF Closed, OwnerPlace
<1>2. Leased'
  BY <1>1, OwnerKeeps
<1>3. ProcTypes' /\ Holders' /\ OwnerPlace'
  BY DEF ProcTypes, OwnerPoints, Holders, OwnerPlace
<1>4. ReapedOnce'
  BY DEF ReapedOnce, Gone, ProcTypes, Holders
<1>. QED BY <1>2, <1>3, <1>4

LEMMA WaitPidInv == ASSUME ProcInv, WaitPid PROVE ProcInv'
<1>. USE DEF WaitPid, OwnerGoes, Reap
<1>1. waitHolder = "owner" /\ ~waited /\ ~Gone /\ child = "zombie" /\ child' = "gone"
  BY DEF Holders, ReapedOnce, Gone, ProcTypes
<1>2. Leased'
  BY OwnerKeeps DEF Closed
<1>3. ProcTypes' /\ Holders' /\ OwnerPlace'
  BY <1>1 DEF ProcTypes, OwnerPoints, Holders, OwnerPlace
<1>4. ReapedOnce'
  BY <1>1 DEF ReapedOnce, Gone, ProcTypes, Holders
<1>. QED BY <1>2, <1>3, <1>4

LEMMA OwnerStoresInv == ASSUME ProcInv, OwnerStores PROVE ProcInv'
<1>. USE DEF OwnerStores, ThenOrReturn, OwnerGoes, OwnerReturns
<1>1. waitHolder = "owner" /\ Gone
  BY DEF Holders, ReapedOnce
<1>2. Leased'
  BY OwnerKeeps DEF Closed, OwnerPlace
<1>3. ProcTypes' /\ Holders' /\ OwnerPlace'
  BY <1>1 DEF ProcTypes, OwnerPoints, Holders, OwnerPlace
<1>4. ReapedOnce'
  BY <1>1 DEF ReapedOnce, Gone, ProcTypes, Holders
<1>. QED BY <1>2, <1>3, <1>4

LEMMA ClosePipeStdinInv == ASSUME ProcInv, ClosePipeStdin PROVE ProcInv'
<1>. USE DEF ClosePipeStdin, ThenOrReturn, OwnerGoes, OwnerReturns
<1>1. Leased'
  BY OwnerKeeps DEF Closed, OwnerPlace
<1>2. ProcTypes'
  <2>1. /\ stdinOpen' = FALSE /\ ownerPoint' \in OwnerPoints
        /\ ownerDoes' \in {"none", "wait", "terminate", "closeStdin", "close"}
        /\ UNCHANGED <<calling, point, child, waited, procClosed, waitHolder, stdinHolder,
                       stdoutOpen, leaseVars, historyVars>>
    BY DEF ProcTypes, OwnerPoints
  <2>2. stdinOpen' \in BOOLEAN
    BY <2>1
  <2>. QED BY ONLY ProcTypes, <2>1, <2>2 DEF ProcTypes, leaseVars, historyVars
<1>3. Holders' /\ OwnerPlace'
  BY DEF ProcTypes, Holders, OwnerPlace
<1>4. ReapedOnce'
  BY DEF ReapedOnce, Gone, ProcTypes, Holders
<1>. QED BY <1>1, <1>2, <1>3, <1>4

LEMMA ReleaseInv == ASSUME ProcInv, ClosePipesAndRelease PROVE ProcInv'
<1>. USE DEF ClosePipesAndRelease, OwnerReturns
<1>1. procClosed /\ ownerDoes = "close" /\ ~Closed /\ Closed'
  BY DEF OwnerPlace, Closed
<1>2. Active' = Active
  BY DEF Active
<1>3. leases \in Nat /\ leases # 0 /\ ~deleted
  BY <1>1, ActiveFinite DEF Leased, ProcTypes
<1>4. Leased' /\ leases' \in Nat /\ deleted' \in BOOLEAN
  <2>1. leases' = leases - 1 /\ deleted' \in BOOLEAN /\ (deleted' <=> leases = 1)
    BY <1>3 DEF Unlease
  <2>2. leases = Cardinality(Active) + 1
    BY <1>1 DEF Leased
  <2>3. leases' = Cardinality(Active') /\ leases' \in Nat /\ (deleted' <=> leases' = 0)
    BY <1>2, <2>1, <2>2, ActiveFinite
  <2>. QED BY <1>1, <2>1, <2>3 DEF Leased
<1>5. ProcTypes' /\ Holders' /\ OwnerPlace'
  BY <1>1, <1>4 DEF ProcTypes, OwnerPoints, Holders, OwnerPlace
<1>6. ReapedOnce'
  BY DEF ReapedOnce, Gone, ProcTypes, Holders
<1>. QED BY <1>4, <1>5, <1>6

LEMMA SystemInv == ASSUME ProcInv, ChildExits \/ ReuseId PROVE ProcInv'
<1>1. Leased'
  BY OwnerKeeps DEF ChildExits, ReuseId, Closed
<1>2. ProcTypes' /\ Holders' /\ OwnerPlace' /\ ReapedOnce'
  BY DEF ChildExits, ReuseId, ProcTypes, Holders, OwnerPlace, ReapedOnce, Gone
<1>. QED BY <1>1, <1>2

LEMMA ProcNextInv == ProcInv /\ [ProcNext]_procVars => ProcInv'
<1>. SUFFICES ASSUME ProcInv, [ProcNext]_procVars PROVE ProcInv'
  OBVIOUS
<1>1. CASE UNCHANGED procVars
  <2>1. Leased'
    BY <1>1, OwnerKeeps DEF Closed
  <2>. QED BY <1>1, <2>1 DEF ProcTypes, Holders, OwnerPlace, ReapedOnce, Gone
<1>. QED
  BY <1>1, CallInv, CallOwnerInv, KillInv, LockWaitInv, WaitPidInv, OwnerStoresInv,
     ClosePipeStdinInv, ReleaseInv, SystemInv DEF ProcNext, OwnerStep

LEMMA ProcInvariance == ProcSpec => []ProcInv
  BY ProcInitInv, ProcNextInv, PTL DEF ProcSpec

-----------------------------------------------------------------------------
(* The theorems.                                                           *)

\* The variables of every reachable state have their types.
THEOREM ProcTypeCorrect == ProcSpec => []ProcTypeOK
<1>1. ProcInv => ProcTypeOK
  BY DEF ProcTypes, ProcTypeOK
<1>. QED BY <1>1, ProcInvariance, PTL

\* However many calls wait for the child at once, it is reaped by one of them, nobody waits
\* for an id that has been given back, and only a WaitAsync can make a kill hit a new owner
\* of the id.
THEOREM IdIsUsedSafely == ProcSpec => []IdUsedSafely
<1>1. ProcInv => IdUsedSafely
  BY DEF IdUsedSafely, ReapedOnce, Gone
<1>. QED BY <1>1, ProcInvariance, PTL

\* The state lives exactly as long as the owner or a call needs it, and when it goes the
\* child has been reaped and the pipes are closed.
THEOREM AllIsGivenBack == ProcSpec => []NothingLeftBehind
<1>1. ProcInv => NothingLeftBehind
  <2>. SUFFICES ASSUME ProcInv PROVE NothingLeftBehind
    OBVIOUS
  <2>1. Active = {} <=> \A q \in Poller : point[q] \in {"idle", "over"}
    BY DEF Active, ProcTypes
  <2>2. Cardinality(Active) = 0 <=> Active = {}
    BY ActiveFinite, FS_EmptySet
  <2>3. deleted <=> Active = {} /\ Closed
    BY <2>2, ActiveFinite DEF Leased
  <2>4. Closed => waited /\ ~stdinOpen /\ ~stdoutOpen
    BY DEF OwnerPlace, Closed
  <2>. QED BY <2>1, <2>3, <2>4 DEF NothingLeftBehind, Closed
<1>. QED BY <1>1, ProcInvariance, PTL

\* What Close has done before it waits, and who holds the mutex of stdin.
KillsFirst == procClosed /\ ownerPoint \notin {"looking", "killing"} => child # "running"
WritersHold == \A q \in Poller : (stdinHolder = q) <=> (point[q] = "writing")

LEMMA KillsFirstNext == ProcInv /\ KillsFirst /\ [ProcNext]_procVars => KillsFirst'
<1>. SUFFICES ASSUME ProcInv, KillsFirst, [ProcNext]_procVars PROVE KillsFirst'
  OBVIOUS
<1>. USE DEF KillsFirst
<1>1. ASSUME NEW q \in Poller,
             \/ BeginCall(q) \/ EnterCall(q) \/ PollRunning(q) \/ StoreWaited(q) \/ BeginWrite(q)
             \/ PollStdout(q) \/ LeaveCancelled(q) \/ EndWrite(q)
      PROVE  KillsFirst'
  <2>1. UNCHANGED ownerVars /\ procClosed' = procClosed /\ (child' = "running" => child = "running")
    BY <1>1 DEF BeginCall, EnterCall, PollRunning, StoreWaited, BeginWrite, PollStdout,
                LeaveCancelled, EndWrite, Reap
  <2>. QED BY <2>1
<1>2. ASSUME NEW op \in DOMAIN FirstPoint, CallOwner(op) PROVE KillsFirst'
  <2>1. (procClosed' <=> op = "close") /\ ownerPoint' = FirstPoint[op]
    BY <1>2 DEF CallOwner
  <2>2. FirstPoint["close"] = "looking"
    OBVIOUS
  <2>. QED BY <2>1, <2>2
<1>3. CASE LookWaited
  BY <1>3 DEF LookWaited, ThenOrReturn, OwnerGoes, OwnerReturns, ReapedOnce, Gone
<1>4. CASE Kill
  BY <1>4 DEF Kill
<1>5. CASE LockWait \/ WaitPid \/ OwnerStores \/ ClosePipeStdin \/ ClosePipesAndRelease
  <2>1. procClosed' = procClosed /\ (child' = "running" => child = "running")
    BY <1>5 DEF LockWait, WaitPid, OwnerStores, ClosePipeStdin, ClosePipesAndRelease, Reap
  <2>2. ownerPoint \notin {"looking", "killing"}
    BY <1>5 DEF LockWait, WaitPid, OwnerStores, ClosePipeStdin, ClosePipesAndRelease
  <2>. QED BY <2>1, <2>2
<1>6. CASE ChildExits \/ ReuseId
  BY <1>6 DEF ChildExits, ReuseId
<1>7. CASE UNCHANGED procVars
  BY <1>7
<1>. QED BY <1>1, <1>2, <1>3, <1>4, <1>5, <1>6, <1>7 DEF ProcNext, CallRuns, OwnerStep

LEMMA WritersHoldNext == ProcInv /\ WritersHold /\ [ProcNext]_procVars => WritersHold'
<1>. SUFFICES ASSUME ProcInv, WritersHold, [ProcNext]_procVars PROVE WritersHold'
  OBVIOUS
<1>. USE DEF WritersHold, ProcTypes
<1>1. ASSUME NEW q \in Poller, NEW p, At(q, p), p # "writing", point[q] # "writing",
             stdinHolder' = stdinHolder
      PROVE  WritersHold'
  BY <1>1
<1>2. ASSUME NEW q \in Poller,
             \/ BeginCall(q) \/ EnterCall(q) \/ PollRunning(q) \/ StoreWaited(q)
             \/ PollStdout(q) \/ LeaveCancelled(q)
      PROVE  WritersHold'
  <2>1. PICK p \in {"polling", "inside", "over", "reaped"} : At(q, p)
    BY <1>2 DEF BeginCall, EnterCall, PollRunning, StoreWaited, PollStdout, LeaveCancelled
  <2>2. stdinHolder' = stdinHolder /\ point[q] # "writing"
    BY <1>2 DEF BeginCall, EnterCall, PollRunning, StoreWaited, PollStdout, LeaveCancelled
  <2>. QED BY <1>1, <2>1, <2>2
<1>3. ASSUME NEW q \in Poller, BeginWrite(q) PROVE WritersHold'
  BY <1>3, ChildAssumption DEF BeginWrite
<1>4. ASSUME NEW q \in Poller, EndWrite(q) PROVE WritersHold'
  BY <1>4, ChildAssumption DEF EndWrite
<1>5. CASE UNCHANGED <<point, stdinHolder>>
  BY <1>5
<1>6. ASSUME NEW op \in DOMAIN FirstPoint, CallOwner(op) PROVE UNCHANGED <<point, stdinHolder>>
  BY <1>6 DEF CallOwner
<1>7. ASSUME OwnerStep \/ ChildExits \/ ReuseId PROVE UNCHANGED <<point, stdinHolder>>
  BY <1>7 DEF OwnerStep, LookWaited, Kill, LockWait, WaitPid, OwnerStores, ClosePipeStdin,
              ClosePipesAndRelease, ChildExits, ReuseId
<1>. QED BY <1>2, <1>3, <1>4, <1>5, <1>6, <1>7 DEF ProcNext, CallRuns

\* A Close never waits for what may not come: it has killed the child before it waits for
\* it and before it wants the mutex of a writer, and after it only calls that can go on
\* keep the state alive.
THEOREM CloseGoesOn == ProcSpec => []CloseNotHeldUp
<1>1. ProcInit => KillsFirst /\ WritersHold
  BY DEF ProcInit, KillsFirst, WritersHold
<1>2. ProcSpec => [](KillsFirst /\ WritersHold)
  BY <1>1, KillsFirstNext, WritersHoldNext, ProcInvariance, PTL DEF ProcSpec
<1>3. ASSUME ProcInv, KillsFirst, WritersHold PROVE CloseNotHeldUp
  <2>. USE <1>3
  <2>1. waitHolder # "none" /\ ownerPoint = "locking" =>
          \E q \in Poller : waitHolder = q /\ point[q] = "reaped"
    BY DEF ProcTypes, Holders
  <2>2. stdinHolder # "none" => \E q \in Poller : stdinHolder = q /\ point[q] = "writing"
    BY DEF ProcTypes, WritersHold
  <2>3. procClosed /\ ownerDoes = "none" /\ ~deleted => Active # {}
    BY FS_EmptySet DEF Leased, Closed
  <2>4. procClosed /\ ownerPoint \in {"none", "waitpid", "stdin"} => child # "running"
    BY DEF KillsFirst
  <2>5. ownerDoes = "none" => ownerPoint = "none"
    BY DEF OwnerPlace
  <2>6. \A q \in Active :
          /\ q \in Poller /\ calling[q] \in {"wait", "read", "write"}
          /\ point[q] \in {"polling", "inside", "reaped", "writing"}
    BY DEF Active, ProcTypes
  <2>7. waitHolder # "none" /\ ownerPoint = "none" =>
          \E q \in Poller : waitHolder = q /\ point[q] = "reaped"
    BY DEF ProcTypes, Holders
  <2>. QED BY <2>1, <2>2, <2>3, <2>4, <2>5, <2>6, <2>7 DEF CloseNotHeldUp
<1>. QED BY <1>2, <1>3, ProcInvariance, PTL

HIDE ChildAssumption
     DEF procVars, ownerVars, pipeVars, leaseVars, historyVars, At, FirstPoint, WaitMutexFree, ProcInv
=================================================================================
