# Wio runtime: TLA+ models, model checking and proofs

Wio is a language that is compiled to C++. Its compiler is a sequential batch
program; what can go wrong in ways that tests hardly reach is around it: the
*runtime* with its coroutines, worker pools and main-thread executor that hand
suspended frames to each other, scopes that own tasks, channels, sockets and child
processes that are closed while they are in use, modules that are reloaded while
they run, and builds that trust the times of files. This directory models those
parts, starting with the heart of the runtime, `runtime/include/std_async.h`.

## 1. Inventory

| Component | State | Operations | Talks to | What is hard | What makes it correct |
|---|---|---|---|---|---|
| Task state and awaiters (`std_async.h` 535-1127, 1285-1675) | per task: cancelled, completed, failure/value, continuations, cancellation callbacks; per await: an atomic phase | call, await (task, delay, main, schedule, offload), Cancel, Complete, Get/Poll | all executors, other tasks | five parties may resume one frame; the frame may be gone when they try | resumed exactly once, only when suspended; one stable outcome; no lost wake-up; code stays on its executor |
| Continuation pool (`AsyncScheduler`, 56-222) | priority queue, timers' flags, `stopping_`, threads, a condition variable | Post, PostAfter, cancel a timer, Shutdown | tasks, scopes | notify_one with timed and untimed sleepers; draining; concurrent shutdowns | accepted actions run once, timers not early, Shutdown drains and returns |
| Blocking and I/O executors (`AsyncBlockingScheduler`, 224-311) | bounded queue, `stopping_`, threads | Submit, Shutdown | tasks | refusal when full or stopping | as above, and a refused job fails its task |
| Main executor (`AsyncMainExecutor`, 368-430) | owner thread, queue | Bind, Post, Drain | tasks, application runner | wrong thread, an entry that throws | entries run on the owner only, in order |
| Runtime shutdown (525-533) | the three pools | ShutdownAsyncRuntime | pools | order of the pools, calls from a worker | what was accepted finishes, late work is refused |
| Scopes (1129-1283) | children, closed | Spawn, Join, Cancel, Deadline, Destroy | tasks, pool | spawn against close, deadline against destroy, failure order | no child outlives its scope, siblings are cancelled after a failure |
| Combinators (1677-1796; Select in `std/async.wio`) | the tasks handed over, a position, a deadline | WhenAll, WhenAny, Race, WithTimeout, Select | tasks (polling delays) | failures and cancellation at any await | a value is vouched for by its tasks, none is left running unasked |
| Async channels, dispatcher, tokens (`std/async.wio` 258-545) | queue, closed | TrySend, Send, TryReceive, Receive, Close; Post, Drain | tasks (polling Sleep) | cancellation between dequeue and return | values are neither lost nor duplicated |
| Blocking channels, futures (`std/concurrency.wio`) | queue, closed, condition variable | Send, Receive, ReceiveFor, Close, Complete | threads | timeouts, unsynchronised flags | as above, and no receiver sleeps on a value |
| Modules and hot reload (`sdk/include/wio_sdk.h`) | library handle, binding state, snapshot, generation | load, start, update, unload, reload, restore | host, file system | half-failed reloads | callbacks never reach a closed library; hooks are paired; a change is noticed |
| Sockets (`std_net.cpp`, `std_async_net.h`, `std/net.wio`) | storage with references, two operation mutexes | Receive, Send, Accept, SetTimeout, Close | I/O executor, network | close while in use, two accepts | no use after close, Close wakes what is pending |
| Child processes (`std_process.cpp`, `std_async_process.h`) | leases, wait state, pipes | wait, poll, read, write, terminate, close | I/O executor, the child | the kill after a reap, a writer of a full pipe | reaped once, no signal to a foreign process, Close returns |
| Reference counts (`ref.h`) | strong, weak | copy, move, drop, lock | everything | last release against a weak lock | destroyed once, memory freed once |
| Builds (`cli/project_commands.wio`, the back end phase of `compiler.cpp`) | generated file, objects, library, host program | look, compile, stage, replace, archive, link | file system, compilers | builds side by side, edits during a build, failures, kills | what counts as up to date was made of the present sources |
| Compiler, other commands, value libraries | syntax trees, files | batch passes | - | sequential, unbounded data | left to the test-suite |

## 2. Modules

| Module | What it is |
|---|---|
| `TaskContract` | what a `coroutine<T>` handle promises, without suspension or wake-up |
| `AsyncTask` | the suspension and wake-up protocol, awaiter by awaiter |
| `AsyncTaskInv` | the three inductive invariants behind its properties, `IInv`, `Causes` and `WakeUps` |
| `AsyncTask_proofs` | their preservation by every action, for all constants, and the refinement of `TaskContract` |
| `MCAsyncTask` | small instances |
| `Executor` | what an executor promises, without threads, clock or condition variable |
| `AsyncScheduler` | a worker pool, thread by thread |
| `AsyncScheduler_proofs` | its two invariants, `IInv` and `Orderly`, and the refinement of `Executor` |
| `MCAsyncScheduler` | small instances |
| `AsyncScope` | structured scopes: spawn, join, deadline, cancellation, destruction |
| `AsyncScope_proofs` | its two invariants, `IInv` and `Waits`, and the safety of scopes and joins |
| `MCAsyncScope` | small instances |
| `Mailbox` | what a channel promises, without a word about how a receiver waits |
| `BlockingChannel`, `AsyncChannel` | the two channels of the library, shown to keep it; `BlockingChannel` has `Promise` too |
| `Combinators` | WhenAll, WhenAny, Race, WithTimeout and Select |
| `MainQueue` | `AsyncMainExecutor` and `Dispatcher`: bind, post, drain |
| `RuntimeShutdown` | `ShutdownAsyncRuntime` over its three pools |
| `Library_proofs` | one chapter of proofs for each of the last five: `Combinators`, the two channels, `MainQueue`, `RuntimeShutdown` |
| `RefCount` | `Ref` and `WeakRef` |
| `Socket` | one socket or listener, its asynchronous calls and its owner |
| `ChildProcess` | one child, its asynchronous calls, its owner, and its id |
| `Lifetimes_proofs` | one chapter of proofs for each of the last three: what lives as long as a count or a lease says |
| `HotReload`, `HotReload_proofs` | `Module` and `HotReloadModule` with the source file being written |
| `ProjectBuild`, `ProjectBuild_proofs` | `wio project build`: what is up to date, and the back end's file operations |
| `MCLibrary` | small instances of the ten from `BlockingChannel` on, one beside the other |
| `MCLibrary_proofs` | that everything proved of a component holds of it there |

`AsyncTask`, `AsyncScheduler` and `AsyncScope` are layers. `AsyncScheduler` shows that
a pool keeps the contract `Executor`; `AsyncTask` uses pools that keep it (an accepted
item is run once, in any order; a stopped pool refuses) and shows that handles keep
`TaskContract`; `AsyncScope` uses tasks that keep it (one outcome, a cancelled
await is woken) and adds what the lower layers leave out: a woken frame needs a
worker. `Combinators` and `AsyncChannel` are coroutines over `TaskContract`, too;
`RuntimeShutdown` uses a pool's `Shutdown` as `AsyncScheduler` leaves it: a flag, a
mutex and a join. The others stand alone: `MCLibrary` lets a variable `subject` pick
one of them, the rest keeps its initial state, and the state spaces add up.

### 2.1 `AsyncTask` and the code

| State | In the code |
|---|---|
| `body[c]` | where the frame stands between two atomic accesses or critical sections; `doubled` stands for the undefined behaviour of resuming a frame that is not suspended |
| `phase[<<c,k>>]` | `AsyncContinuationRegistration::phase` of the k-th await: 0 assembling, 1 armed, 2 claimed |
| `active` | `AsyncCancellationRegistration::active` |
| `cancelled`, `completed`, `result`, `conts`, `callbacks` | `AsyncTaskStateBase` |
| `toInvoke`, `toDeactivate`, `toResume` | the vectors that `Cancel` and `Complete` swap out under the lock and walk after it |
| `posting` | the window between `Arm` and the call of `Post` in `AsyncScheduleAwaiter` and `AsyncMainAwaiter` |
| `posted`, `work`, `mainQueue`, `jobs` | what the pool, the main executor and the offload executors hold |
| `onMain` | whether the thread of the frame owns the main executor |

Each awaiter has an action (`AwaitTask`, `AwaitDelay`, `AwaitSchedule`,
`AwaitMain`, `AwaitOffload`) for what it does before the coroutine links its
cancellation callback; `Link`, `InvokeImmediately` and `Arm` are the rest of
`await_suspend`; `AwaitResume` is the `await_resume` that follows it. An await that is
ready (a completed task, a delay of zero, `await main` on the owner's thread) is over in
its first action: `await_suspend` is what sets `awaitingState` or `taskState`, so an
await that never suspended takes the task's outcome and does not see that its own
coroutine was cancelled. `Return`, `Complete`,
`Deactivate`, `Wake` and `Finish` are the end of a coroutine; `Cancel` and
`InvokeNext` are a holder's cancellation; `RunPosted`, `RunWork`, `RunMain`,
`RunJob`, `StopOffload` and `StopPool` are the executors. One operator,
`ResumeOnce`, is the exchange that all of these race for.

Steps that the model joins, and why nothing is lost by it:
  - the exchange of `ResumeOnce` and the `Post` that follows it: between them the
    frame is claimed, and every other claimant sees a 2;
  - `Arm` and `Submit` of an offload await: no other thread knows the
    registration before `Submit`;
  - the exchange and the action of `InvokeOnce`: the action only flags a timer and
    calls `ResumeOnce`.
`await_ready` and `AddContinuation` are two steps: a child that completes between them
makes `AddContinuation` return null, and the await then resumes at once, but with
`awaitingState` set. The order in which `Complete` wakes its awaiters is left open.
`AsyncTaskStateBase::Start` is no action:
`get_return_object` has set `started`, so that every `Start` returns at once. The
schedule and offload awaiters appear only in library coroutines that await
nothing else (`Wrapper`). A flagged timer is taken out of `work` at once; that it
stays in the queue until it is popped is `AsyncScheduler`'s business.

### 2.2 `AsyncScheduler` and the code

`queue` is `work_`; `readyAt` and `ticket` order it as `LaterWork` does. `pc[w]`
says whether worker `w` looks at the queue (the loop of `RunWorker` under the
mutex), sleeps in `wait` or in `wait_until`, runs an action or has left.
`Exit`, `Wait`, `WaitUntil` and `Take` are the four ways a round of that loop
ends, and all of them pop flagged timers first. `NotifyOne` wakes any sleeper, timed
or not. A caller of `Post` has read the clock before it takes the mutex, so that `readyAt`
may be earlier than now plus the delay (`called`). `CallShutdown`, `Enter` and `Leave` are a call of `Shutdown` by an outside
thread or by a worker's action: waiting for `shutdownMutex_`, joining with the
mutex held, and done. With no timers the module is `AsyncBlockingScheduler`, which is
the same code with a `Capacity` and without a clock; the continuation pool is the module
with a `Capacity` that is never reached.

A notification is one step with its critical section: between the two, a worker
can only go on looking, and `SpuriousWake` covers a notification that comes when
it is no longer needed. The joins of the workers one after another are one step
(`Leave`), as a join has no effect but to wait.

### 2.3 `AsyncScope` and the code

Every task runs one block that owns one scope, which is what the parser makes of
`async scope`. `closed` and `children` are `AsyncScopeState`; `Spawn` runs the
child's eager part on the thread of its parent before `Add` offers it to the
scope; a closed scope throws into the block and leaves the started child alone
(`refused`). `Suspend` and `Event` are any await of the block and its end.
`LeaveEarly` is an exception, or a `break`, which the parser does not rewrite into
a join as it does a `return`. `EndOfBlock` starts `AsyncScopeJoin`, a coroutine
with a life of its own (`join`): it observes the children of its snapshot in
spawn order (`Observe`), cancels all of them at the first failure, and clears the
scope at its end. `Destroy` is the frame leaving its block; `CloseAndSnapshot`,
the cancellation walk (`CancelNext`) and the blocking waits of `CancelAndWait`
follow before the frame can settle (`Leave`). `Expire` and `Expired` are the
timer of a deadline, whose walk is that of `Scope.Cancel`.

`HeldByJoin` deserves a word: `Join` is an async object method, and its frame owns
the scope object until it ends. A task that leaves its block while its join runs on
does not drop the last reference, so the destructor does not run.

A worker is busy while it runs or blocks a frame, a join or a walk
(`FreeWorker`); a frame that calls another one eagerly lends it its thread. That the
join awaited by a block is itself wrapped in a coroutine only adds a hop, which is
left out, and so is the worker that a timer or a main-thread event needs to make a
frame ready.

### 2.4 The other components and the code

**`BlockingChannel`** (`std/concurrency.wio`, `std_concurrency.h`). A step is what runs
between `Lock` and `Unlock`, or the wait that gives the mutex up. `asleep` is the wait
set of the condition variable; who leaves it is `notified`, `expired` or `stirred`
(spurious) until it has the mutex again (`Resume`, `GiveUp`). A receiver that was
notified may find that its time is over: the report comes from the clock. The steps
of `Promise` (`PromiseNext`) are single accesses, since `completed` is a plain field.

**`AsyncChannel`** (`std/async.wio`). `TrySend` and `TryReceive` hold the gate and are
one action each; `Wake` is the end of the sleep of a millisecond, `Settle` the end of
the frame, where a cancellation accepted until then wins over the answer.

**`Combinators`** (`std_async.h` 1677-1796, `Select`). `Scan` is one `IsReady` of
WhenAny's loop or WithTimeout's, `CheckClock` the look at the deadline, `WakeUp` the end
of the delay of a round, `Suspend` and `ResumeAwait` the await of one task, `Fail` the
handlers. Race and Select await a WhenAny that is a task of its own (`resuming`).
Tasks settle whenever they like; a task told to stop settles as cancelled.

**`MainQueue`** (`std_async.h` 368-430, `Dispatcher`). `drains[t]` is the stack of the
`Drain` calls of a thread, since an entry may drain again; each has the batch it swapped
out (main executor), or the one action it has removed under the lock and not called yet
(dispatcher: `TakeEntry`, then `RunEntry`). `EntryThrows` drops the batch with its frame.

**`RuntimeShutdown`** (`std_async.h` 525-533 and `Shutdown`). `calls[c]` says which pool
of the order a caller has reached and whether it holds that pool's mutex; a job runs on
its pool and posts its continuation to the continuation pool, or resumes the coroutine
in place when that one has stopped (`inline`).

**`RefCount`** (`ref.h`). A step is one atomic operation on `m_Strong` or `m_Weak`, or one
call between two: `DropStrong`, `CallOnZeroStrong`, `DropWeak`, `DestroyInternal`
are the way out of a last drop, `LoadStrong` and `ExchangeStrong` the loop of
`TryIncStrong`. Any handle may move at any time, as if it belonged to a thread of
its own. An assignment is a copy or a move, and a drop.

**`Socket`** (`std_net.cpp`, `std_async_net.h`, `std/net.wio`). A request is `queued` with
the lease of `Acquire`, retains once more in its native call (`EnterNative`), takes the
mutex of its direction, polls, consumes and returns both leases (`ReturnTo`).
`AcceptAsync` does this twice: for the wait, and, from its continuation (`AfterWait`),
for an `Accept` without a lease of its own (`second`). A synchronous call (`direct`,
`CallDirectly`) and `SetTimeout` occupy the owner's thread and have no lease of `Acquire`;
only `Listener.Accept` looks at `closed` first. `CloseSocket`, `Signal` and `LetGo` are
`Close`. `touched` remembers who has called `Retain` on storage that had been released. A connection stays in the queue of the kernel until it is accepted.

**`ChildProcess`** (`std_process.cpp`, `std_async_process.h`). `EnterCall` is
`retainProcess`, which looks at `closed`; the mutexes are taken after it. `Reap` is a `waitpid` that
returns the child and frees its id, which the system may then give away (`ReuseId`);
the flag `waited` is set later, under the same mutex (`StoreWaited`, `OwnerStores`).
`LookWaited` and `Kill` are `terminateProcessState`, which takes no mutex.
`ownerPoint` walks through `ProcessClose`: kill, wait, stdin, the other pipes, release.

**`HotReload`** (`wio_sdk.h`). `BeginReload`, `StageCopy`, `OpenNext`, `BeginNext`,
`Adopt` are `loadFresh` between its file operations, and `Abandon` is its failure at
any of them; `Module::open`, `start`, `unload` and `close` are the same steps for a
host with a module of its own (`hot = FALSE`). `binding` is `BindingState`: a wrapper
is stale when its generation is not the present one.

**`ProjectBuild`** (`cli/project_commands.wio`, `compiler.cpp`, `std_fs.cpp`). A run
lists the native sources, looks at the times (`OutputUpToDate`), reads the sources,
opens the generated file, which truncates it (`OpenCpp`), writes it (`WriteCpp`),
compiles, and either links to a staging file that is then
renamed or lets `ar` put objects into the library. The names of the generated
file and of the objects are those of every run of the project. A source has a version and
a time, which `MoveInFile` and `OverwriteFile` (`cp -p`) let disagree; a directory's time
is the latest below it. The set `hands` of the generated file are the builds whose
streams are open on it, and what they write together is `mixed`. The C++ compiler and
`ar` are taken to read a source, or write an object or the archive, at one moment. Times move with changes only, since nothing but a change lies between them. The
manifest, headers and toolchain count as sources that do not change. A killed run
leaves on the disk what is there.

## 3. Runs

| Run | Instance | Question |
|---|---|---|
| `AsyncTask` | two awaits each; parent: task and main awaits; child: delay, schedule, offload | Is a frame ever resumed twice, or left suspended with nobody on the way to it? Does user code stay on its executor? Does every coroutine end, and a cancelled one settle? |
| `AsyncTaskShared` | two parents await one child | Do handles keep `TaskContract` for two observers, one of them cancelled? Does the invariant of the proofs hold? |
| `AsyncScheduler` | two workers, a queue for two, a timer, two immediate actions, two outside threads that call `Shutdown` | Is anything started early or out of turn, or left queued beside sleeping workers? Accepted work runs; `Shutdown` drains and returns; `Executor` is implemented |
| `AsyncScope` | a scope with a deadline and two children | No accepted child is left behind; nobody waits in vain; failures are told; a deadline misses nobody; cancelled tasks settle |
| `Library` | ten components, one at a time (bounds below) | 16 invariants and 5 temporal properties: see the next table |
| `ReadyAwait` | a parent awaits one child twice | an await after a cancellation fails: **violated** |
| `TimerStall` | one action blocks on a timer | a due timer is started while a worker is free: **violated** |
| `NestedShutdown` | an action calls `Shutdown` while the host does | `Shutdown` returns: **violated** |
| `ScopeStarves` | a scope in a scope, two workers | cancelled tasks settle: **violated** |
| `SiblingsLinger` | a scope with two children | siblings are cancelled after the first failure: **violated** |
| `CancelledJoin` | a scope with two children | no child outlives its block: **violated** |
| `AcceptAfterClose` | one `AcceptAsync` and a `Close` | the storage of a socket is not used after its release: **violated** |

What `Library` checks, component by component (`LibraryTypeOK` is the type invariant of
all of them):

| Component | Instance | Properties |
|---|---|---|
| `BlockingChannel` | 2 senders, 3 receivers, one of them timed; 2 calls of `Complete` or `Cancel` | `NoForgottenValue`: a receiver sleeps on a queued value only when another is on its way to take it, or `ReceiveFor` has swallowed a notification. `EachValueOnce`, `ChannelsImplementMailbox`. `NothingHoldsUpClose` and `ClosesComplete`: close wakes every receiver |
| `AsyncChannel` | 2 producers, 2 consumers, capacity 1 | `EachValueOnce`: a value is lost only by a cancelled receive that had it. `ChannelsImplementMailbox`, `ClosesComplete` |
| `RefCount` | 3 handles | `ObjectLifetime`: released exactly when nothing can reach it, `OnZeroStrong` once and before |
| `Combinators` | 3 tasks, deadline 2, clock to 3 | `VerdictJustified`, `NoOrphans`, `CombinatorSettles` |
| `MainQueue` | 3 actions, 2 threads, drains 2 deep | `NoEntryVanishes`: an action is dropped only behind one that threw. `StartedInOrder`: only what another drain holds is overtaken |
| `RuntimeShutdown` | 2 jobs, 2 outside threads, 2 workers | `HostShutdownDrains`, `ClosesComplete` |
| `Socket` | 2 requests, 2 arrivals | `StorageOutlivesCalls`, `AcceptFindsConnection`, `NothingHoldsUpClose`, `ClosesComplete` |
| `ChildProcess` | 2 calls | `IdUsedSafely`, `NothingLeftBehind`, `NothingHoldsUpClose`, `ClosesComplete` |
| `HotReload` | 2 paths, 1 write, 2 loads | `HooksPaired`, `ChangeNoticed`, `WrappersStaySafe` |
| `ProjectBuild` | 1 Wio source, 2 native sources, 2 builds, 1 change | `UpToDateIsCurrent`: an output that counts as up to date was made of the present sources, but for the cases the property names |

The bounds. Two coroutines with two awaits each bring every pair of claimants to one
registration (child, timer, job, main drain, own cancellation, and the stopped pool
that resumes in place), an await that follows another one, and a late claimant of
the first await that meets the frame at the second: the only ways a frame could be
resumed twice. The parent uses the kinds that resume for a child and in place, the child
the others; that any coroutine may use any of them is what the proofs cover. A third coroutine adds a second observer of one child. More awaits
repeat the second one: no step looks at more than the current registration and
those that are still queued. Two workers are the pool's minimum and the
least number that has a timed and an untimed sleeper at once; one timer beside two
immediate actions makes a notification reach the wrong one, and fills a queue for two, so
that the third is refused by a pool that is open; `Horizon` ends the clock
after the timer is due. Two children are the least number that has an order, and
the failure of one while the other runs. `Workers = 4` in `AsyncScope` means that
every frame, join and timer of the instance can have a worker; where workers
are scarce the code does not do what its documents say, which is `ScopeStarves`.
Where a bound alone could end a behaviour, `Quiescent` says so and deadlock stays
checked; `NestedShutdown` and `ScopeStarves`, which are about systems that
stop, switch it off, and so do `Library` and `AcceptAfterClose`, whose components may
simply be done: a channel whose calls have returned, a process that is closed.

In `Library`: two senders and three receivers make a notification go to the wrong
sleeper, the timed one, while another sleeps; capacity 1 holds the second producer
back; three handles are the last reference, a weak one in `Lock`, and the reference it
makes; three tasks have a first, a winner in the middle and a last; two drains deep is
an action that drains while another thread waits; a job on each offload pool and two
callers make shutdowns meet at any pool; two requests contend for one mutex, and two
accepts for one connection; one change and two builds let a change fall anywhere into
one build, or between two (two changes in two builds, twenty-two million states, were checked
on `ProjectBuild` alone); two paths and two loads are a reload that
follows another or turns to another file. A third of any of these only repeats what
the second does.

Fairness. `AsyncTask`: a frame that runs reaches its next await or its end, a
`Cancel` walks its snapshot to its end, the pool takes some item as long as it has
one, the owner thread drains its queue. Nothing is assumed about what is awaited:
an offloaded job, a callee or a caller that cancels may never come;
`EveryCoroutineEnds` has the jobs' return as a premise. `AsyncScheduler`: time
passes, each worker's loop goes on, and a lock that stays free is got; nobody has to
post or stop. `AsyncScope`: each frame, join and timer that can step does, since
the pool's queue is in order and what is posted gets a worker unless all of them
block; no awaited event is fair. `Library` (`LibraryFairness`): a woken receiver
gets the mutex and goes on; a call of a channel that has begun runs, and its sleep
ends; a combinator's frame runs and the clock goes on; workers take jobs and finish them,
a shutdown goes on to the next pool; the I/O pool runs what is queued, a poll slice ends,
`shutdown()` makes a blocked send return, and Close goes on; the calls of `ProcessClose`
run, asynchronous calls get on, and a write to a dead child fails. Nobody has to send,
receive, post or close; no peer answers, no task settles and no child exits because it
should. `ProjectBuild`, `MainQueue`, `RefCount` and `HotReload` have safety properties
only. All of it is weak fairness of threads, which any
preemptive scheduler gives. `ClosesComplete` and `NothingHoldsUpClose` take it that no
other process, a grandchild for instance, holds the reading end of the child's stdin: the
child's death then breaks the pipe that a writer waits for.

## 4. What the violated runs show

  - `ReadyAwait` (`std_async.h:942`). A coroutine that was cancelled while it ran awaits
    a task that has completed. The await does not suspend and never looks at the
    cancellation; however many such awaits follow, the coroutine runs on behind them.
    Who awaits it is still told that it was cancelled.
  - `TimerStall` (`std_async.h:160,192`). Timers and immediate work share a condition
    variable and `notify_one`. The worker that timed the first timer can be woken
    for an immediate action and does not pass the timer on. If the action blocks,
    the timer stays queued although the other worker sleeps.
  - `NestedShutdown` (`std_async.h:113`). `Shutdown` joins with `shutdownMutex_`
    held; a worker that calls it meanwhile waits for that mutex and is waited for.
  - `ScopeStarves` (`std_async.h:1169`). A scope's destructor blocks a worker until
    its children have settled, and those need a worker to unwind.
  - `SiblingsLinger` (`std_async.h:1264`). `Join` learns of a failure only when it
    reaches the failed child in spawn order.
  - `CancelledJoin` (`std_async.h:1268`). A task cancelled during its join settles
    while its children run on, neither cancelled nor waited for.
  - `AcceptAfterClose` (`std/net.wio:247`). `AcceptAsync` gives its lease back after
    the wait and then calls `Accept` on the bare handle; a `Close` on another thread
    between the look at `self.closed` and `Retain` has deleted what `Retain` locks.
The sentence of the documentation or test that each contradicts is quoted with the
finding in `PROJECT.json`.

Other behaviours that the models have and a reader should know of. They are
exceptions written into the properties, or lie beyond what any document promises:

  - `ReceiveFor` swallows a notification when it reports its timeout, so that another
    receiver may sleep beside a queued value (`NoForgottenValue`);
  - two threads that call `Promise.Complete` may both be told that they did
    (`CompletesOnce` is stated in `BlockingChannel` and fails in seven steps of
    `PromiseSpec`; the specification's "Promises complete once" does not say from
    how many threads);
  - a `Select` whose winner fails cancels nobody, and a Race, Select or WithTimeout
    that is cancelled while it polls leaves its tasks running (`escaped` in `NoOrphans`);
  - an entry that throws out of the main executor's `Drain` takes the rest of the
    batch with it; a drain inside a drain lets later posts overtake, and so do two threads
    that drain one `Dispatcher`, which calls what it took out after it has released its
    lock (`Elsewhere` in `StartedInOrder`);
  - a runtime shutdown from inside a job lets coroutines continue on an offload worker
    (`HostShutdownDrains` is about shutdowns from outside);
  - `terminateProcessState` may signal an id that a concurrent `WaitAsync` has freed
    (`IdUsedSafely` says that nothing else can make it do so);
  - a write to the source between its copy and the look at its time is never reloaded
    (`missed` in `ChangeNoticed`); a module whose state was restored is never
    started, so that neither of its hooks is called; when the source has gone by the
    time its time is read, the reload throws with the new module in place;
  - `wio project build` takes for up to date: a source changed while the compiler ran, a
    native source that was removed or replaced by an older file, any source that was
    overwritten with its time kept, an archive in which a renumbered native source has left
    its old object, and what is left of a host program whose link was killed. Libraries
    that are linked in are not looked at;
  - two builds of a project at once: one that has opened the generated file and not
    written it, or both that write it, leave the other's compiler part of it; if that part
    compiles, its library counts as up to date (`crossed` in `UpToDateIsCurrent`; that a
    build which is killed there alone does no harm is part of the property, since the next
    one writes the file anew). No document promises that builds may run side by side;
  - `Socket.Send`, `Receive` and `SetTimeout`, `UdpSocket.SendTo`, `ReceiveFrom`,
    `SetTimeout` and `LocalPort` (`std/net.wio:169-185`, 280-300) do not look at `closed`:
    called after `Close` on the same object they reach `Retain` on storage that may have
    been deleted (`"owner"` in `touched`). `NoUseAfterRelease` and its finding are about
    the asynchronous calls, for which the documentation makes a promise.

## 5. Theorems

Each has the form `Spec => []P` or, for a refinement, `Spec => Contract!Spec`, and
holds for every value of the constants that meets the named assumption
(`CoroAssumption`, `PoolAssumption`, `ScopeAssumption`, `RefAssumption`,
`CombinatorAssumption`, `ChannelAssumption`, `AsyncChannelAssumption`, `MainAssumption`,
`ShutdownAssumption`, `SocketAssumption`, `ChildAssumption`, `HotAssumption`,
`BuildAssumption`: the sets are disjoint where they must be, finite where they are counted, their members are not the
marks such as "none" that stand beside them, the functions have their types).

| Theorem | Statement |
|---|---|
| `AsyncTask_proofs!TypeCorrect`, `Invariance`, `ResumedOnce` | the variables keep their types; `IInv` holds; no frame is ever resumed while it is not suspended |
| `AsyncTask_proofs!CodeStaysOnItsExecutor` | code after `await main` runs on the owner thread, code after a schedule boundary never on it |
| `AsyncTask_proofs!ContractKept` | the protocol implements `TaskContract`: one stable outcome, no await passed before its child settled or its awaiter was cancelled |
| `AsyncTask_proofs!EveryFrameIsAwaited` | no wake-up is lost: a suspended frame has been posted, or it is armed and a completion, a timer or a job has still to claim it; once it is cancelled, so has the walk of `Cancel` |
| `AsyncScheduler_proofs!TypeCorrect`, `StartedInTurn`, `ShutdownDrains` | types; no action starts before its time unless the pool stops, or ahead of one that was accepted earlier and is due no later; after an outside `Shutdown` nothing is queued and no worker is left |
| `AsyncScheduler_proofs!NobodySleepsThrough`, `QueueHasAFirst` | while something is queued, a worker is awake or sleeps no longer than until the first action is due; a queue that is not empty has exactly one first action |
| `AsyncScheduler_proofs!Refinement` | the pool implements `Executor`: accepted actions run exactly once or were cancelled timers; a closed or full pool accepts nothing, and no other refuses |
| `AsyncScope_proofs!TypeCorrect`, `ChildrenSettle`, `JoinTellsFailures`, `DeadlineIsComplete` | types; a settled task whose join is over has no active child and holds none; a successful join saw every child succeed; an expired deadline left no child uncancelled |
| `AsyncScope_proofs!WaitsEnd` | no cancelled frame is left suspended, a join waits for an active child that will post it, a destructor only for children that have been told to stop or are about to be |
| `Lifetimes_proofs!ObjectsLiveAndDie` | memory is released exactly when nothing reaches the object, by one thread, and `OnZeroStrong` is called once, before |
| `Lifetimes_proofs!StorageIsKept`, `AcceptsFindConnections` | a socket's storage lives exactly as long as a call with a lease or the owner; an accept blocks its worker only when another took its connection |
| `Lifetimes_proofs!WhoTouchesReleased` | an asynchronous call touches storage after its release only when an `AcceptAsync` has gone on to its `Accept`; the owner does only by a synchronous call of its own after its `Close` |
| `Lifetimes_proofs!IdIsUsedSafely`, `AllIsGivenBack` | one reaper, no wait for a freed id, no stray kill but by a `WaitAsync`; nothing is left when the state goes |
| `Library_proofs!NoneIsOrphaned`, `VerdictsAreJustified` | whoever leaves a combinator regularly leaves no task unasked; values and timeouts are true |
| `Library_proofs!BlockingChannelRefines`, `AsyncChannelRefines` | both channels implement `Mailbox`, for any number of calls and any capacity, the blocking one also inside a `Promise` whose calls overlap |
| `Library_proofs!NoValueForgotten`, `ValuesAccountedFor` | nobody sleeps beside a value that nobody is on the way to; an accepted value is in the channel or with one receive |
| `Library_proofs!EntriesConserved`, `EntriesInOrder` | the main executor and the dispatcher lose only what was taken out behind an action that threw; actions start once, and what was posted before has then started, is lost, or is in the hands of another drain |
| `Library_proofs!HostShutdownLeavesNothing` | after a runtime shutdown from outside no job is on its way, and no coroutine has continued on an offload worker |
| `HotReload_proofs!HooksArePaired`, `ChangesAreNoticed`, `WrappersAreSafe` | hooks are paired and nothing stays mapped unheld; changes are seen but for the window; stale wrappers stay stale and live ones reach a mapped library |
| `ProjectBuild_proofs!BuildTypeCorrect`, `UpToDateMeansCurrent` | types; an output that the clock calls up to date was built from what the sources hold, but for the cases the property names, for any sources, builds at once, edits, failures and kills |
| `MCLibrary_proofs!LibraryTypeCorrect`, `ChannelsRefineMailbox`, `ComponentsAreSafe` | the composition that the `Library` run checks: each component behaves as its own specification says, so that all of the above holds of `LibrarySpec` |

The arguments:

  - **`ResumedOnce`.** That no frame is `doubled` is not inductive: a queued
    resumption must be known to find its frame suspended. `IInv` (`AsyncTaskInv`)
    says that an armed registration belongs to a frame suspended at that very
    await (or to a schedule request that the stopped pool refused, which nobody can
    reach any more), that a posted one was claimed and its frame still waits, that
    the window of an eager call that has armed but not posted is private to that
    call, that lists and queues hold only the kinds that belong there, and that
    registrations of later awaits are untouched. `ResumeOnceInv` does the argument
    once for the exchange; each action then only shows that what it claims is
    current.
  - **`CodeStaysOnItsExecutor`, `ContractKept`.** `Causes` (`AsyncTaskInv`), on top of
    `IInv`, knows why each resumption that is due is due: a walk of callbacks belongs
    to a cancelled coroutine (`WalksAreAsked`), a registration claimed before it was
    armed was claimed by a completed child, a cancellation or a timer (`EarlyClaims`),
    and what is posted, or resumes, has its child completed, its cancellation, or
    its executor (`ResumptionsAreJustified`). `ChildrenKnowTheirParents` and
    `EndsAreOrdered` make a woken awaiter find its child's outcome. A step of the protocol is
    then a step of `TaskContract` or changes no handle.
  - **`EveryFrameIsAwaited`.** `WakeUps` (`AsyncTaskInv`), on top of `IInv` and `Causes`,
    says of each coroutine's current registration what is owed to it: while the await
    is being assembled and nobody has claimed it, somebody is on the way
    (`AssembledIsAwaited`), so that at `Arm` it is either claimed, and the frame does not
    suspend, or awaited (`NoWakeUpIsLost`); its callback is in the list that `Cancel`
    will walk, or in the walk of the one that did, or the coroutine invoked it itself
    (`CallbackIsLinked`). "On the way" is a queue of an executor, the awaiters of a child
    that has not completed, or the walk of a child that has.
  - **The pool.** `OnePlace` (an item is in one place only, and no two workers hold
    it) makes the refinement's `Status` well defined; `ExitIsFinal` (a worker leaves
    only an empty queue of a stopping pool, which accepts no more) carries
    `ShutdownDrains`. `Orderly` adds that tickets are given out once (`Tickets`),
    `NoneOvertakes` and `QueuedIsWatched`, which is inductive as it stands: a post wakes a
    sleeper or finds all of them awake, and whoever goes to sleep has seen the first
    action. That a first action exists is the least-number principle, which `LeastNat`
    derives from the well-founded order of finite sets, for times and then for tickets.
    The refinement has one lemma per kind of step: `Take` and
    `Exit` may throw cancelled timers away, which `Executor` allows in one step.
  - **Scopes.** `OwnedIsKept` (a scope lets go of an accepted child only when it has
    settled and the join or the block is over), `WaitsForAll` (whoever empties the
    scope has every child in its snapshot) with `OneEagerCall` and `JoinEndsBlock`
    (nobody adds to a scope that is being emptied) give `ChildrenSettle`;
    `SeenSucceeded` gives `JoinTellsFailures`; `DeadlineWalk` (the walk has closed
    the scope, and what it has not reached is cancelled or settled) gives
    `DeadlineIsComplete`. `Waits` is `NobodyWaitsInVain` taken apart, with what it needs:
    `OwnChildren` (a scope's children are its own, so that the child a join waits for
    finds it when it completes) and `EagerIsOnThread`.
  - **Reference counts.** `RefInv` says that `m_Strong` and `m_Weak` are what they stand
    for (`CountsTrue`: cardinalities of sets of handles, and one weak count for the
    strong side until it has let go), that at most one thread is on its way out of the
    last drop or deletes, with nobody else left (`OneLeaver`), and that a `Lock` that
    goes on to its exchange has seen a count other than zero (`CallsAndLocks`).
  - **Combinators.** `CombInv`: which combinator can be where and what its loop has seen
    by then (`Course`), that verdicts are given on the way out only (`Leaving`), and
    that losers are told before the body is left (`Told`).
  - **Blocking channels.** `ChanInv`: a receiver is in one of the wait set and the three
    ways out of it, and has been told nothing there (`OnePlace`), so that a notification
    adds one receiver on its way for each value sent over a sleeper and `Look` takes both
    away together. `QueueBounded`, no more values than accepted senders, is what `Mailbox`
    asks of an unbounded channel. `BlockingSpec` has the steps of `Promise` too, which
    reach the channel through `Send` and `Close` only (`StepMoves`).
  - **Async channels.** `AsyncInv`: `AnswersInTime` (a call that has not got through has
    answered nothing, so that a second try cannot answer twice) and `BufferExact` (the
    buffer holds each accepted value once, until exactly one receiver has it).
  - **Main queue.** `QueueInv`: an action is in the queue, in the batch of one drain,
    started or lost (`Conserved`); what a drain has taken out was posted after the action
    it runs, in order (`Behind`), which is what makes an action that throws come before
    those it takes along; whatever has left the queue was posted before all that is still
    in it (`InOrder`). So an action that is started was posted before the rest of its own
    batch and before the queue, and an earlier one that has not started is in another
    drain's batch. Only the owner of the main executor drains it, and a dispatcher's drain
    holds one action at most (`Shape`). `Pos`, the place in the sequence of posts,
    does not change as that sequence grows (`PosPost`).
  - **Runtime shutdown.** `RtInv`: a pool is stopping exactly when a caller has passed it
    or holds its mutex, and a pool that a caller has passed has nothing queued and no
    worker busy (`PoolsInOrder`). So a job that runs has not lost the continuation pool yet.
    All of it only as long as no caller is a job: one that is skips its own worker.
  - **Sockets.** `SockInv`: a mutex is held by the call that is inside it (`Places`), one
    synchronous call at a time occupies the owner, who then cannot close (`Synchronous`),
    the references are the leases of the calls, two each in a native call, and the
    owner's (`SockLeased`), and what a wait has seen is there or was stolen (`Connections`).
  - **Child processes.** `ProcInv`: mutexes are held where they are needed (`Holders`),
    a Close at each point has done what comes before it (`OwnerPlace`), the id is
    free exactly from the `waitpid` on, by one reaper who holds the mutex until the flag
    is set (`ReapedOnce`), one lease per call (`Leased`).
  - **Hot reload.** `HotInv`: a reload has let go of the old library and holds the new
    one (`InTransit`), an active binding has a mapped library and is not behind its
    wrappers (`LoadsBound`), and what is known of the source that was copied (`CodeKnown`).
  - **Builds.** `BuildInv`: every time is in the past (`Clock`); as long as no build has
    opened the generated file while another was at it or compiled it, whoever has it open
    has it alone and a compiler finds it whole (`CrossInv`); whatever has been made of a
    source, in the generated file, the objects and the output, is what the source holds
    unless it has changed since it was read, or is torn after such a crossing (`Made` in
    `CppInv`, `ObjectsInv`, `OutputInv`), a list of native sources lacks only what has changed since (`Lists`), and
    the host program has what is in the library unless that was replaced after the link
    began (`HostFileInv`). `RunsInv` says the same of what a build holds at each point. An
    output that is later than every source can then deceive only in the named ways. That an
    archive has every object once, and that two native files never share a name, follows
    from `Number` and `Onto` by lemmas about sequences.
  - **The composition.** A step of `LibrarySpec` is a step of one component while the
    variables of the others stay, so each component's `[Next]_vars` is implied, and with
    it everything proved of that component (`MCLibrary_proofs`).

The runs check each proved property on a small instance as well, and each has a
mutated definition of the model that breaks it (`PROJECT.json`, "mutants").

Only model-checked: liveness, since TLAPS knows no `ENABLED` and no fairness
(`AcceptedRuns`, `ShutdownReturns`, `CancelSettles`, `EveryCoroutineEnds`,
`CancelledTasksSettle`, `DeadlineEndsJoin`,
`CombinatorSettles`, `ClosesComplete`). For the core the safety half of these is
proved: `NoWakeUpIsLost`, `QueuedIsWatched` and `NobodyWaitsInVain` say that whoever
waits is waited for, and fairness then says that it comes. Every invariant, action
property and refinement that a passing run checks is a theorem.

## 6. Not modelled, and the plan

Not modelled:

  - **The compiler's passes** (lexer, parser, semantic analysis, code generation: more
    than 40,000 of the repository's lines). They are sequential functions from one
    unbounded tree to the next, without shared state, events or failure recovery; a
    model small enough to check would say nothing of them that its own author had not
    put in, and the test-suite runs them on real programs. What they emit for `await`,
    `async scope` and the boundaries of async functions is in `AsyncTask` and
    `AsyncScope`. This is why the models translate a small share of the lines
    although they cover most of the code in which threads, processes or files meet.
  - **The value libraries** (text, math, regex, bigint, serialization, console, fs, io,
    time, meta): pure functions over unbounded data, or thin calls of the system.
  - **The rest of the command line**: argument parsing, manifests, packages, tests.
  - **The async file system facade**: each call is one offload await (`AsyncTask`)
    around one blocking call.
  - **Parts of components that are modelled**: `CancellationToken` (a flag that is
    polled), `CancelAfter`, `TaskGroup`, the non-waiting `Channel`, `Thread` and the
    bare atomics; `Connect`, resolving and what is particular to UDP; `Spawn` and `Run`,
    and stderr, which is a second stdout; a `Module` moved onto a live one; a host that
    reloads from several threads; state transfer and calls through wrappers as data.
  - **The system**: sockets as on Linux, processes as on POSIX, sequentially
    consistent memory. Data races outside any lock are noted as hazards where the code
    has them.

Next, in this order:

 1. The safety half of `CombinatorSettles` and `ClosesComplete`, as it is proved for
    the core.
 2. `TaskGroup` and `CancelAfter` in `Combinators`; the callback list that the polling
    loops let grow, as a count in `AsyncTask`.
 3. `Connect` with its timeout, and `Spawn` with the pipes and descriptors that two
    spawns at once may inherit from each other.
 4. The generation-checked handles of `std/buffer.wio`.

The inventory of section 1 says what would make each of them correct, and
`PROJECT.json` lists the hazards, those that no property covers yet with the reason.
