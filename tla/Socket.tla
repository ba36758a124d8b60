--------------------------------- MODULE Socket ---------------------------------
(***************************************************************************)
(* One native socket or listener (runtime/src/std_net.cpp) and the         *)
(* asynchronous calls on it (runtime/include/std_async_net.h, std/net.wio):*)
(* reference-counted storage, a receive and a send mutex, and Close, which *)
(* interrupts what is pending and leaves the descriptor to the last        *)
(* reference.                                                              *)
(*                                                                         *)
(* The owner of the Wio object is one thread, whose synchronous calls run  *)
(* on it; the native part of the others runs on I/O workers, and what      *)
(* follows an await on continuation workers. Readiness, blocking and       *)
(* shutdown() are the operating system's.                                  *)
(***************************************************************************)
EXTENDS Naturals, FiniteSets

CONSTANTS Request, \* calls that receive, send or accept
          MaxData  \* bound on messages, or connections, that arrive

ASSUME SocketAssumption == IsFiniteSet(Request) /\ "none" \notin Request /\ MaxData \in Nat

VARIABLES
  wish,          \* per request: receive, send or accept
  direct,        \* the requests that are synchronous: Receive, Send and Accept
  stage,         \* where it stands; see SockTypeOK
  second,        \* requests that are in the Accept after the wait of AcceptAsync
  refs, released,\* references, and has delete been called?
  sockClosed,    \* SocketHandle::closed
  objectClosed,  \* Socket.closed or Listener.closed, a field of the Wio object
  holder,        \* of the receive and of the send mutex
  arrived,       \* data or connections that wait in the kernel
  ownerAt,       \* the owner: free, calling (a synchronous request), timing (in SetTimeout),
                 \* signalling or leaving (Close)
  timeoutSet,    \* receiveTimeoutMilliseconds # 0
  stolen,        \* (history) requests whose connection another Accept has taken
  touched        \* (history) who has used the storage after its release: the owner in a
                 \* call of its own, an asynchronous request

sockVars == <<wish, direct, stage, second, refs, released, sockClosed, objectClosed, holder, arrived,
              ownerAt, timeoutSet, stolen, touched>>

SockInit ==
  /\ wish \in [Request -> {"receive", "send"}] \cup [Request -> {"accept"}]
  /\ direct \in SUBSET Request
  /\ stage = [q \in Request |-> "idle"]
  /\ second = {} /\ refs = 1 /\ released = FALSE
  /\ sockClosed = FALSE /\ objectClosed = FALSE
  /\ holder = [m \in {"receive", "send"} |-> "none"]
  /\ arrived = 0
  /\ ownerAt = "free" /\ timeoutSet = FALSE
  /\ stolen = {} /\ touched = {}

Mutex(q) == IF wish[q] = "send" THEN "send" ELSE "receive"
Goes(q, s) == stage' = [stage EXCEPT ![q] = s]

\* Release of n references, the last of which deletes the state.
Drop(n) == refs' = refs - n /\ released' = (released \/ refs = n)

NoLease(q) == 0     \* variants: the outer lease is never given back,
AlwaysLease(q) == 1 \* or once too often

\* An asynchronous request holds the lease of Acquire from its call until the native call
\* is over, and within the native call any request holds one.
Outer(q) == IF q \in second \cup direct THEN 0 ELSE 1

\* The end of a synchronous call gives the owner its thread back.
OwnerAfter(q) == ownerAt' = IF q \in direct THEN "free" ELSE ownerAt

Touch(who) == touched' = touched \cup IF released THEN {who} ELSE {}

-----------------------------------------------------------------------------
(* A request.                                                              *)

\* The wrapper looks at its own closed; Acquire; RunIoAsync.
BeginRequest(q) ==
  /\ stage[q] = "idle" /\ q \notin direct /\ ownerAt = "free" /\ ~objectClosed
  /\ refs' = refs + 1
  /\ Goes(q, "queued")
  /\ UNCHANGED <<wish, direct, second, released, sockClosed, objectClosed, holder, arrived, ownerAt,
                 timeoutSet, stolen, touched>>

\* Listener.Accept looks at its own closed, Send and Receive of Socket do not.
CallDirectly(q) ==
  /\ stage[q] = "idle" /\ q \in direct /\ ownerAt = "free"
  /\ wish[q] = "accept" => ~objectClosed
  /\ ownerAt' = "calling"
  /\ Goes(q, "calling")
  /\ UNCHANGED <<wish, direct, second, refs, released, sockClosed, objectClosed, holder, arrived,
                 timeoutSet, stolen, touched>>

\* A native call begins with Retain, which refuses a closed handle. A synchronous call and
\* the Accept of AcceptAsync have no lease to protect it: the storage may be gone.
EnterNative(q) ==
  /\ stage[q] \in {"queued", "calling"}
  /\ LET first == stage[q] = "queued" IN
       /\ second' = IF first \/ q \in direct THEN second ELSE second \cup {q}
       /\ Touch(IF q \in direct THEN "owner" ELSE "request")
       /\ IF sockClosed
            THEN /\ Goes(q, "done") /\ OwnerAfter(q)
                 /\ IF first THEN Drop(1) ELSE UNCHANGED <<refs, released>>
            ELSE Goes(q, "locking") /\ refs' = refs + 1 /\ UNCHANGED <<released, ownerAt>>
  /\ UNCHANGED <<wish, direct, sockClosed, objectClosed, holder, arrived, timeoutSet, stolen>>

LockMutex(q) ==
  /\ stage[q] = "locking" /\ holder[Mutex(q)] = "none"
  /\ holder' = [holder EXCEPT ![Mutex(q)] = q]
  /\ Goes(q, IF wish[q] = "send" THEN "sending" ELSE "polling")
  /\ UNCHANGED <<wish, direct, second, refs, released, sockClosed, objectClosed, arrived, ownerAt,
                 timeoutSet, stolen, touched>>

\* The native call returns: unlock, then the leases.
ReturnTo(q, s) ==
  /\ holder' = [holder EXCEPT ![Mutex(q)] = "none"]
  /\ Drop(1 + Outer(q))
  /\ Goes(q, s) /\ OwnerAfter(q)

SliceEnds == TRUE   \* a variant: the end of a poll slice counts as readiness
Readable == arrived > 0

\* waitReadable: a slice ends, or Close wakes it, and closed is looked at again; what
\* is readable counts only if the socket is still open.
Poll(q) ==
  /\ stage[q] = "polling"
  /\ \/ sockClosed /\ ReturnTo(q, "done")
     \/ timeoutSet /\ wish[q] = "receive" /\ ReturnTo(q, "done")
     \/ ~sockClosed /\ Readable /\ Goes(q, "ready") /\ UNCHANGED <<refs, released, holder, ownerAt>>
  /\ UNCHANGED <<wish, direct, second, sockClosed, objectClosed, arrived, timeoutSet, stolen,
                 touched>>

\* TcpWaitAccept is done when it may accept; recv and accept take what has arrived.
OnlyWaits(q) == wish[q] = "accept" /\ q \notin second \cup direct
Consume(q) ==
  /\ stage[q] = "ready"
  /\ IF OnlyWaits(q)
       THEN ReturnTo(q, "woken") /\ UNCHANGED <<arrived, stolen>>
       ELSE /\ arrived' = arrived - 1
            /\ stolen' = stolen \cup
                 {r \in Request \ {q} : wish[q] = "accept" /\ stage[r] \in
                    {"woken", "calling", "locking", "polling"}}
            /\ Goes(q, "checking")
            /\ UNCHANGED <<refs, released, holder, ownerAt>>
  /\ UNCHANGED <<wish, direct, second, sockClosed, objectClosed, timeoutSet, touched>>

\* The look at closed after recv or accept only decides what the caller is told.
CheckClosed(q) ==
  /\ stage[q] = "checking"
  /\ ReturnTo(q, "done")
  /\ UNCHANGED <<wish, direct, second, sockClosed, objectClosed, arrived, timeoutSet, stolen,
                 touched>>

\* send returns when the peer makes room, or once shutdown() has been called.
SendReturns(q) ==
  /\ stage[q] = "sending"
  /\ ReturnTo(q, "done")
  /\ UNCHANGED <<wish, direct, second, sockClosed, objectClosed, arrived, timeoutSet, stolen,
                 touched>>

\* The continuation of AcceptAsync on its worker: self.closed, and then self.Accept(),
\* unless the await was cancelled.
AfterWait(q) ==
  /\ stage[q] = "woken"
  /\ \/ Goes(q, "done")
     \/ ~objectClosed /\ Goes(q, "calling")
  /\ UNCHANGED <<wish, direct, second, refs, released, sockClosed, objectClosed, holder, arrived,
                 ownerAt, timeoutSet, stolen, touched>>

-----------------------------------------------------------------------------
(* The owner and the network.                                              *)

\* SetTimeout, which a listener has not, does not look at closed before Retain does. It
\* locks both mutexes, and waits for them on the owner's thread.
CallSetTimeout ==
  /\ ownerAt = "free" /\ \A q \in Request : wish[q] # "accept"
  /\ Touch("owner")
  /\ IF sockClosed THEN UNCHANGED <<ownerAt, refs>>
                   ELSE ownerAt' = "timing" /\ refs' = refs + 1
  /\ UNCHANGED <<wish, direct, stage, second, released, sockClosed, objectClosed, holder, arrived,
                 timeoutSet, stolen>>

SetTimeout ==
  /\ ownerAt = "timing" /\ \A m \in DOMAIN holder : holder[m] = "none"
  /\ timeoutSet' \in BOOLEAN
  /\ ownerAt' = "free"
  /\ Drop(1)
  /\ UNCHANGED <<wish, direct, stage, second, sockClosed, objectClosed, holder, arrived, stolen, touched>>

CloseSocket ==
  /\ ownerAt = "free" /\ ~objectClosed
  /\ sockClosed' = TRUE
  /\ ownerAt' = "signalling"
  /\ UNCHANGED <<wish, direct, stage, second, refs, released, objectClosed, holder, arrived, timeoutSet,
                 stolen, touched>>

Signal ==
  /\ ownerAt = "signalling"
  /\ ownerAt' = "leaving"
  /\ UNCHANGED <<wish, direct, stage, second, refs, released, sockClosed, objectClosed, holder, arrived,
                 timeoutSet, stolen, touched>>

LetGo ==
  /\ ownerAt = "leaving"
  /\ Drop(1)
  /\ objectClosed' = TRUE
  /\ ownerAt' = "free"
  /\ UNCHANGED <<wish, direct, stage, second, sockClosed, holder, arrived, timeoutSet, stolen, touched>>

Arrive ==
  /\ arrived < MaxData
  /\ arrived' = arrived + 1
  /\ UNCHANGED <<wish, direct, stage, second, refs, released, sockClosed, objectClosed, holder, ownerAt,
                 timeoutSet, stolen, touched>>

RequestStep(q) ==
  \/ EnterNative(q) \/ LockMutex(q) \/ Poll(q) \/ Consume(q) \/ CheckClosed(q) \/ AfterWait(q)

SockNext ==
  \/ \E q \in Request : BeginRequest(q) \/ CallDirectly(q) \/ RequestStep(q) \/ SendReturns(q)
  \/ CallSetTimeout \/ SetTimeout \/ CloseSocket \/ Signal \/ LetGo \/ Arrive

SockSpec == SockInit /\ [][SockNext]_sockVars

\* An executor runs what is queued, a poll slice ends, shutdown() makes send return.
Interrupted(q) == sockClosed /\ ownerAt # "signalling" /\ SendReturns(q)

-----------------------------------------------------------------------------
(* Properties.                                                             *)

SockTypeOK ==
  /\ wish \in [Request -> {"receive", "send", "accept"}]
  /\ stage \in [Request -> {"idle", "queued", "locking", "polling", "sending", "ready",
                            "checking", "woken", "calling", "done"}]
  /\ {direct, second, stolen} \subseteq SUBSET Request
  /\ refs \in Nat /\ arrived \in 0 .. MaxData
  /\ {released, sockClosed, objectClosed, timeoutSet} \subseteq BOOLEAN
  /\ touched \subseteq {"owner", "request"}
  /\ holder \in [{"receive", "send"} -> Request \cup {"none"}]
  /\ ownerAt \in {"free", "calling", "timing", "signalling", "leaving"}

InNative(q) == stage[q] \in {"locking", "polling", "sending", "ready", "checking"}

\* WIO_ASYNC_MODEL.md: "state storage survives until the final in-flight operation
\* releases it": no queued or native call is left without storage and descriptor, and
\* once the owner has closed and all have left, nothing is leaked.
StorageOutlivesCalls ==
  released <=> objectClosed /\ \A q \in Request : ~InNative(q) /\ stage[q] # "queued"

\* The same for an AcceptAsync as a whole, which gives its lease back after the wait
\* and calls Accept on the bare handle: Close may have deleted the storage between the
\* look at self.closed and Retain. (What the owner itself calls after its Close is no
\* operation that was in flight.)
NoUseAfterRelease == "request" \notin touched

\* "without occupying continuation workers": the Accept in an AcceptAsync, which runs on
\* one, waits for the network only when another accept has taken the connection.
AcceptFindsConnection ==
  \A q \in second : stage[q] = "polling" /\ ~sockClosed /\ arrived = 0 => q \in stolen

\* Once the socket is closed, a call that waits for a mutex waits for one that Close has
\* interrupted, and what keeps the storage is the rest of Close or a call that can go on.
ClosedNotHeldUp ==
  LET CanGoOn(q) == stage[q] \in {"queued", "polling", "ready", "checking", "sending"} IN
  sockClosed =>
    /\ \A q \in Request : stage[q] = "locking" =>
         holder[Mutex(q)] = "none" \/ \E r \in Request : holder[Mutex(q)] = r /\ CanGoOn(r)
    /\ released \/ ownerAt \in {"signalling", "leaving"}
         \/ \E q \in Request : CanGoOn(q) \/ stage[q] = "locking"

\* Close interrupts every pending call, a blocked send and a queued one included.
CloseUnblocks ==
  sockClosed ~> released /\ \A q \in Request : stage[q] \in {"idle", "done"}
===============================================================================
