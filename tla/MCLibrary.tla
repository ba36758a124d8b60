------------------------------- MODULE MCLibrary -------------------------------
(***************************************************************************)
(* The smaller components of the runtime, the library and the SDK, one     *)
(* beside the other: they share no state, so that a behaviour belongs to   *)
(* the one component that subject names while the others stay where they   *)
(* started. The state space is the sum of theirs.                          *)
(***************************************************************************)
EXTENDS BlockingChannel, AsyncChannel, RefCount, Combinators, MainQueue,
        RuntimeShutdown, Socket, ChildProcess, HotReload, ProjectBuild

CONSTANTS n1, n2

\* Two native sources, n1 listed before n2.
NativeSources == <<n1, n2>>

VARIABLE subject

libraryVars == <<subject, blockingVars, asyncVars, refVars, combVars, mainVars, rtVars,
                 sockVars, procVars, hotVars, buildVars>>

\* One initial state of a component that will not move is enough.
LibraryInit ==
  /\ subject \in {"channel", "promise", "async", "ref", "combinator", "queue", "shutdown",
                  "socket", "process", "reload", "build"}
  /\ ChannelInit /\ AsyncInit /\ RefInit
  /\ CombInit /\ (subject # "combinator" => kind = "all")
  /\ MainInit /\ (subject # "queue" => queueKind = "main")
  /\ RtInit /\ (subject # "shutdown" => poolOf = [j \in Job |-> "io"])
  /\ SockInit /\ (subject # "socket" => direct = {} /\ wish = [q \in Request |-> "accept"])
  /\ ProcInit /\ (subject # "process" => calling = [q \in Poller |-> "wait"])
  /\ HotInit /\ (subject # "reload" => hot /\ sourcePath = CHOOSE p \in Path : TRUE)
  /\ BuildInit /\ (subject # "build" => target = "shared")

LibraryNext ==
  /\ UNCHANGED subject
  /\ \/ /\ subject = "channel" /\ ChannelNext
        /\ UNCHANGED <<asyncVars, refVars, combVars, mainVars, rtVars, sockVars,
                      procVars, hotVars, buildVars>>
     \/ /\ subject = "promise" /\ PromiseNext
        /\ UNCHANGED <<asyncVars, refVars, combVars, mainVars, rtVars, sockVars,
                      procVars, hotVars, buildVars>>
     \/ /\ subject = "async" /\ AsyncNext
        /\ UNCHANGED <<blockingVars, refVars, combVars, mainVars, rtVars,
                      sockVars, procVars, hotVars, buildVars>>
     \/ /\ subject = "ref" /\ RefNext
        /\ UNCHANGED <<blockingVars, asyncVars, combVars, mainVars, rtVars,
                      sockVars, procVars, hotVars, buildVars>>
     \/ /\ subject = "combinator" /\ CombNext
        /\ UNCHANGED <<blockingVars, asyncVars, refVars, mainVars, rtVars,
                      sockVars, procVars, hotVars, buildVars>>
     \/ /\ subject = "queue" /\ MainNext
        /\ UNCHANGED <<blockingVars, asyncVars, refVars, combVars, rtVars,
                      sockVars, procVars, hotVars, buildVars>>
     \/ /\ subject = "shutdown" /\ RtNext
        /\ UNCHANGED <<blockingVars, asyncVars, refVars, combVars, mainVars,
                      sockVars, procVars, hotVars, buildVars>>
     \/ /\ subject = "socket" /\ SockNext
        /\ UNCHANGED <<blockingVars, asyncVars, refVars, combVars, mainVars,
                      rtVars, procVars, hotVars, buildVars>>
     \/ /\ subject = "process" /\ ProcNext
        /\ UNCHANGED <<blockingVars, asyncVars, refVars, combVars, mainVars,
                      rtVars, sockVars, hotVars, buildVars>>
     \/ /\ subject = "reload" /\ HotNext
        /\ UNCHANGED <<blockingVars, asyncVars, refVars, combVars, mainVars,
                      rtVars, sockVars, procVars, buildVars>>
     \/ /\ subject = "build" /\ BuildNext
        /\ UNCHANGED <<blockingVars, asyncVars, refVars, combVars, mainVars,
                      rtVars, sockVars, procVars, hotVars>>

\* Each component's own fairness; see the README.
LibraryFairness ==
  /\ \A r \in Sink : WF_chanVars(subject \in {"channel", "promise"} /\ Return(r))
  /\ \A c \in Calls : WF_asyncVars(subject = "async" /\ CallStep(c))
  /\ WF_combVars(subject = "combinator" /\ CombStep)
  /\ WF_combVars(subject = "combinator" /\ Tick)
  /\ \A j \in Job : WF_rtVars(subject = "shutdown" /\ JobStep(j))
  /\ \A c \in Caller : WF_rtVars(subject = "shutdown" /\ CallerStep(c))
  /\ \A q \in Request : /\ WF_sockVars(subject = "socket" /\ RequestStep(q))
                        /\ WF_sockVars(subject = "socket" /\ Interrupted(q))
  /\ WF_sockVars(subject = "socket" /\ (Signal \/ LetGo))
  /\ WF_procVars(subject = "process" /\ OwnerStep)
  /\ \A q \in Poller : /\ WF_procVars(subject = "process" /\ CallRuns(q))
                       /\ WF_procVars(subject = "process" /\ BrokenPipe(q))

LibrarySpec == LibraryInit /\ [][LibraryNext]_libraryVars /\ LibraryFairness

-----------------------------------------------------------------------------
(* The properties of several components that say the same thing.           *)

\* Every variable of every component keeps its type.
LibraryTypeOK ==
  /\ ChannelTypeOK /\ AsyncTypeOK /\ RefTypeOK /\ CombTypeOK /\ MainTypeOK
  /\ RtTypeOK /\ SockTypeOK /\ ProcTypeOK /\ HotTypeOK /\ BuildTypeOK

\* BlockingChannel and AsyncChannel (std/concurrency.wio, std/async.wio) both
\* implement Mailbox: first in, first out, each value once, the end only when drained.
ChannelsImplementMailbox == ImplementsMailbox /\ AsyncImplementsMailbox

\* An accepted value of either channel is in it, or exactly one receiver has it.
EachValueOnce == TakenOnce /\ EveryValueAccountedFor

\* Whatever is closed (concurrency.wio, std_net.cpp, std_process.cpp) waits only for what
\* the Close itself has set going.
NothingHoldsUpClose == NobodySleepsOnClosed /\ ClosedNotHeldUp /\ CloseNotHeldUp

\* Close of either channel ends every receive and every backpressured send that has
\* begun; TcpClose, ProcessClose and ShutdownAsyncRuntime come to their end whatever is
\* pending when they begin, and give everything back.
ClosesComplete == CloseWakesReceivers /\ CloseSettlesCalls /\ CloseUnblocks /\ CloseCompletes
                    /\ ShutdownReturns
===============================================================================
