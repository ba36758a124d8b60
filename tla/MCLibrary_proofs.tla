--------------------------- MODULE MCLibrary_proofs ---------------------------
(***************************************************************************)
(* What the library of components inherits from each of them. In every     *)
(* behaviour of LibrarySpec each component behaves as its own              *)
(* specification says, so that what is proved of a component alone holds   *)
(* of the library.                                                         *)
(***************************************************************************)
EXTENDS MCLibrary, Library_proofs, Lifetimes_proofs, HotReload_proofs, ProjectBuild_proofs

LEMMA RunsBlocking == LibrarySpec => BlockingSpec
<1>1. LibraryInit => ChannelInit
  BY DEF LibraryInit
<1>2. [LibraryNext]_libraryVars => [ChannelNext \/ PromiseNext]_blockingVars
  BY DEF LibraryNext, libraryVars
<1>. QED BY <1>1, <1>2, PTL DEF LibrarySpec, BlockingSpec

LEMMA RunsAsync == LibrarySpec => AsyncSpec
<1>1. LibraryInit => AsyncInit
  BY DEF LibraryInit
<1>2. [LibraryNext]_libraryVars => [AsyncNext]_asyncVars
  BY DEF LibraryNext, libraryVars
<1>. QED BY <1>1, <1>2, PTL DEF LibrarySpec, AsyncSpec

LEMMA RunsRef == LibrarySpec => RefSpec
<1>1. LibraryInit => RefInit
  BY DEF LibraryInit
<1>2. [LibraryNext]_libraryVars => [RefNext]_refVars
  BY DEF LibraryNext, libraryVars
<1>. QED BY <1>1, <1>2, PTL DEF LibrarySpec, RefSpec

LEMMA RunsComb == LibrarySpec => CombSpec
<1>1. LibraryInit => CombInit
  BY DEF LibraryInit
<1>2. [LibraryNext]_libraryVars => [CombNext]_combVars
  BY DEF LibraryNext, libraryVars
<1>. QED BY <1>1, <1>2, PTL DEF LibrarySpec, CombSpec

LEMMA RunsMain == LibrarySpec => MainSpec
<1>1. LibraryInit => MainInit
  BY DEF LibraryInit
<1>2. [LibraryNext]_libraryVars => [MainNext]_mainVars
  BY DEF LibraryNext, libraryVars
<1>. QED BY <1>1, <1>2, PTL DEF LibrarySpec, MainSpec

LEMMA RunsRt == LibrarySpec => RtSpec
<1>1. LibraryInit => RtInit
  BY DEF LibraryInit
<1>2. [LibraryNext]_libraryVars => [RtNext]_rtVars
  BY DEF LibraryNext, libraryVars
<1>. QED BY <1>1, <1>2, PTL DEF LibrarySpec, RtSpec

LEMMA RunsSock == LibrarySpec => SockSpec
<1>1. LibraryInit => SockInit
  BY DEF LibraryInit
<1>2. [LibraryNext]_libraryVars => [SockNext]_sockVars
  BY DEF LibraryNext, libraryVars
<1>. QED BY <1>1, <1>2, PTL DEF LibrarySpec, SockSpec

LEMMA RunsProc == LibrarySpec => ProcSpec
<1>1. LibraryInit => ProcInit
  BY DEF LibraryInit
<1>2. [LibraryNext]_libraryVars => [ProcNext]_procVars
  BY DEF LibraryNext, libraryVars
<1>. QED BY <1>1, <1>2, PTL DEF LibrarySpec, ProcSpec

LEMMA RunsHot == LibrarySpec => HotSpec
<1>1. LibraryInit => HotInit
  BY DEF LibraryInit
<1>2. [LibraryNext]_libraryVars => [HotNext]_hotVars
  BY DEF LibraryNext, libraryVars
<1>. QED BY <1>1, <1>2, PTL DEF LibrarySpec, HotSpec

LEMMA RunsBuild == LibrarySpec => BuildSpec
<1>1. LibraryInit => BuildInit
  BY DEF LibraryInit
<1>2. [LibraryNext]_libraryVars => [BuildNext]_buildVars
  BY DEF LibraryNext, libraryVars
<1>. QED BY <1>1, <1>2, PTL DEF LibrarySpec, BuildSpec

-----------------------------------------------------------------------------

\* Every variable of every component keeps its type.
THEOREM LibraryTypeCorrect == LibrarySpec => []LibraryTypeOK
<1>. QED BY RunsBlocking, ChannelTypeCorrect, RunsAsync, AsyncTypeCorrect, RunsRef, RefTypeCorrect,
            RunsComb, CombTypeCorrect, RunsMain, MainTypeCorrect, RunsRt, RtTypeCorrect,
            RunsSock, SockTypeCorrect, RunsProc, ProcTypeCorrect, RunsHot, HotTypeCorrect,
            RunsBuild, BuildTypeCorrect, PTL DEF LibraryTypeOK

\* Both channels of the library implement Mailbox: first in, first out, each value once,
\* and the end only of a channel that is closed and drained.
THEOREM ChannelsRefineMailbox == LibrarySpec => ChannelsImplementMailbox
<1>. QED BY RunsBlocking, BlockingChannelRefines, RunsAsync, AsyncChannelRefines
         DEF ChannelsImplementMailbox

\* In either channel an accepted value is in the channel or with exactly one receiver,
\* however its receivers woke up, gave up or were cancelled.
THEOREM ValuesReachOneReceiver == LibrarySpec => []EachValueOnce
<1>. QED BY RunsBlocking, ValuesAreTakenOnce, RunsAsync, ValuesAccountedFor, PTL DEF EachValueOnce

\* The safety half of ClosesComplete: what a Close of a channel, a socket or a child process
\* waits for is something that the Close has set going.
THEOREM ClosesGoOn == LibrarySpec => []NothingHoldsUpClose
<1>. QED BY RunsBlocking, CloseWakesSleepers, RunsSock, ClosedSocketDrains, RunsProc, CloseGoesOn,
            PTL DEF NothingHoldsUpClose

\* Everything proved of a component on its own holds of it beside the others: the safety
\* invariants and the action property of the library's run.
THEOREM ComponentsAreSafe ==
  LibrarySpec => /\ [](ObjectLifetime /\ NoForgottenValue /\ EachValueOnce /\ NothingHoldsUpClose)
                 /\ [](NoOrphans /\ VerdictJustified /\ NoEntryVanishes) /\ StartedInOrder
                 /\ [](HostShutdownDrains /\ StorageOutlivesCalls /\ AcceptFindsConnection)
                 /\ [](IdUsedSafely /\ NothingLeftBehind /\ HooksPaired /\ ChangeNoticed)
                 /\ []UpToDateIsCurrent /\ WrappersStaySafe
<1>1. LibrarySpec => [](ObjectLifetime /\ NoForgottenValue /\ EachValueOnce /\ NothingHoldsUpClose)
  BY RunsRef, ObjectsLiveAndDie, RunsBlocking, NoValueForgotten, ValuesReachOneReceiver, ClosesGoOn,
     PTL
<1>2. LibrarySpec => [](NoOrphans /\ VerdictJustified /\ NoEntryVanishes) /\ StartedInOrder
  BY RunsComb, NoneIsOrphaned, VerdictsAreJustified, RunsMain, EntriesConserved, EntriesInOrder, PTL
<1>3. LibrarySpec => [](HostShutdownDrains /\ StorageOutlivesCalls /\ AcceptFindsConnection)
  BY RunsRt, HostShutdownLeavesNothing, RunsSock, StorageIsKept, AcceptsFindConnections, PTL
<1>4. LibrarySpec => [](IdUsedSafely /\ NothingLeftBehind /\ HooksPaired /\ ChangeNoticed)
  BY RunsProc, IdIsUsedSafely, AllIsGivenBack, RunsHot, HooksArePaired, ChangesAreNoticed, PTL
<1>5. LibrarySpec => []UpToDateIsCurrent
  BY RunsBuild, UpToDateMeansCurrent, PTL
<1>6. LibrarySpec => WrappersStaySafe
  BY RunsHot, WrappersAreSafe
<1>. QED BY <1>1, <1>2, <1>3, <1>4, <1>5, <1>6
===============================================================================
