# TaskSystem: a TLA+ model

TaskSystem (`src/`) is a C++ library that runs a graph of tasks on a fixed set
of worker threads. A task is created behind other tasks and futures, runs once
they have finished, and may be a piece of a coroutine. Every object lives in a
pool, is counted by reference and is linked into lock-free lists; there is no
mutex in the paths below. A unit test exercises few of the interleavings, which
is why these modules exist.

This directory has TLA+ modules of the library's components, TLC runs on small
instances, and theorems that TLAPS proves for every number of tasks and threads.

## 1. Inventory

| Component | Code | State | Operations |
|---|---|---|---|
| Tasks and prerequisites | `BaseTask.h`, `Task.h`, `Task.cpp` | per task: `gate_`, `prerequires_`, `function_`, `flag_`; global: `ready_to_execute_` and one ready stack per named thread | `InitializeTask`, `CreateTask`, `HandlePrerequires`, `OnUnblocked`, `Execute`, `ExecuteATask`, `Then*` |
| Gates | `Gate.h`, `Collection` in `LockFree.h` | one atomic word: state, tag, head of the dependency nodes | `AddDependencyInner`, `Unblock`, `TryAdd...`, `SetOnEmpty` |
| Futures and results | `Future.h`, `AnyValue.h` | gate, stored result | `MakeFuture`, `Done`, `Then`, `ThenRead`, `ThenConsume`, `DropResult`, `ShareResult` |
| Reference counts | `RefCount.h`, `RefCountPoolPtr.h` | `RefCount` per object | `AddRef`, `Release`, moves and copies of handles |
| Worker threads | `Task.cpp` | `used_threads_`, `working_`, the loop's `marked_as_used` | `StartWorkerThreads`, `TaskLoop`, `WaitForAllTasks`, `StopWorkerThreadsNoWait`, join |
| Access synchroniser | `AccessSynchronizer.h/.cpp` | one atomic word per resource: last task, shared collection, released count, tag | awaiting a holder, `InitializeTaskOn`, `Sync*`, `Release*`, scopes |
| Frame barrier | `TickSync.h` | one atomic word (registered, waiting, frame) and a ring of four futures that is not atomic | register, wait, unregister |
| Pools and lock-free stacks | `Pool.h`, `LockFree.h` | shared stack with a tag; a small stack per worker | `Acquire`, `Return`, `ReturnChain` |
| Coroutines | `Coroutine.h/.cpp`, `CoroutineHandle.h` | frame, handle and status, one atomic continuation word | `StartAndDetach`, `AsyncResume`, await of a coroutine or a future, `TrySet` against `Close`, destruction |
| Frame memory | `SimpleAllocator.h` | free lists by size class | allocate, deallocate |
| Channel | `Channel.h`, `SpinMutex.h` | unfinished in this version | none complete |
| Utilities | `Common.h`, `Config.h`, `InplaceString.h`, `Profiling.h` | none shared | |
| Samples and tests | `Test.*`, `AntHill.cpp` | programs | |

How they interact:

- Creating a task takes a slot and dependency nodes from *pools*, adds a node to
  the *gate* of each prerequisite, and leaves one decrement of `prerequires_` to
  each of them. Each node holds a *reference* to the new task.
- Finishing a task (or `Done` of a future) consumes its gate's nodes and calls
  `OnUnblocked` for each; the last decrement puts the dependent in a ready
  stack or hands it to the *worker* loop that finished the prerequisite.
- The *access synchroniser* keeps the last task (or a collection of tasks) that
  has a resource; a coroutine that cannot have it becomes a new task behind the
  gates of those before it. A gate's *tag* tells one scope of a task from another.
- A *coroutine* runs on the stack of whoever resumes it. Awaiting another one leaves
  its handle in the continuation word of that one; awaiting a *future* creates a
  task behind it that resumes the coroutine. Its frame is a block of the *frame
  memory*.
- A *plain task* created with `InitializeTaskOn` queues on the same synchroniser as the
  coroutines, and gives the resource up in the destructor of its function.
- The *frame barrier* makes one future per frame; coroutines await it, as a
  prerequisite of the task that resumes them.

What is hard, and what makes each part correct:

- *Tasks, gates.* The creator walks its prerequisites while they finish. The
  counter must stay exact under every order, exactly one thread must see it reach
  zero, and a task must start after everything it was created behind.
- *References.* A task is kept alive by handles, captures, nodes, queues, and the
  thread that runs it. The count must be the number of those.
- *Workers.* `used_threads_` is what a waiting main thread looks at; a worker
  must not leave while there are tasks that nobody else will run.
- *Access synchroniser.* Requests and releases of several holders interleave with
  one atomic word, and the references are moved before or after the swap.
  An exclusive scope must be alone, everyone must get access in the order of the
  requests, nothing may leak.
- *Coroutines, futures.* A coroutine finishes on one thread while another thread
  decides to wait for it; a frame is destroyed by whoever has seen it finished,
  while the thread that finished it is on its way out. Each suspended coroutine
  must be resumed once, from one place, a result must be there when it is read, and
  every frame and future must come back.
- *Frame barrier.* Tickers join and leave during a frame. The ring is accessed
  after the atomic word has moved on.
- *Pools.* Nodes are reused at once, so that a stale head may be current again.

`PROJECT.json` lists 40 such hazards with their lines and the properties that
would catch them, or the reason why none does yet.

## 2. Modules

| Module | Models | Notes |
|---|---|---|
| `TaskGraph` | the promise of the task system | abstract: no thread, counter, queue or reference |
| `TaskSystem` | tasks, gates, futures, references, ready stacks | refines `TaskGraph` |
| `Workers` | worker loop, waiting and shutdown | what tasks wait for is left out |
| `ResourceQueue` | the promise of the access synchroniser | abstract: a first-come, first-served lock for readers and writers |
| `AccessSynchronizer` | one resource used by coroutines and plain tasks | gates with tags |
| `AccessSynchronizerQueue` | `AccessSynchronizer` with a history variable, the order of the requests | refines `ResourceQueue` |
| `Coroutines` | coroutines, their frames, the results of futures, the tasks that resume them | no gate or node in detail: that is `TaskSystem` |
| `TickSync` | the frame barrier | the ring is read and written in separate steps |
| `Pool` | shared tagged stack and per-worker stacks | `NextRef` as the program uses it |
| `MC*` | the instances for TLC | symmetry; `MCTaskSystem` adds a budget of creations and fairness |
| `WorkersProofs`, `TaskSystemProofs`, `TickSyncProofs`, `PoolProofs`, `AccessSynchronizerProofs`, `CoroutinesProofs` | theorems | each extends the module it proves about |
| `AccessExclusionProofs` | theorems | extends `AccessSynchronizerProofs`: who excludes whom |
| `TaskGraphProofs` | theorem: `TaskSystem` implements `TaskGraph` | extends `TaskSystemProofs` |

Some definitions are followed by `...Mutant` forms: the same operation with a
plausible mistake. They are not part of any specification; a run is repeated with
such a form in the place of the original to see that its property notices.

### Correspondence with the code

A step of a model is one atomic operation of the code together with what the same
thread does, up to its next atomic operation, on data no other thread can reach.
`PROJECT.json` gives the lines of every definition. In short:

**TaskSystem.** Each thread has a place `pc[th]`: `idle`; `prereq` in
`HandlePrerequires`; `ready` before `OnReadyToExecute` of the new task; `start`,
`body`, `unblock`, `release` through `Execute`; `signal` in `Future::Done`;
`aborted` after a failed assertion. A *client* is the main thread or a named
thread: it creates things outside tasks and calls `ExecuteATask`. A worker only
pops. The locals `new`, `todo`, `adding`, `inactive`, `node` are those of
`HandlePrerequires`; `list` and `next` those of `Unblock` and the worker loop.
`CheckPrereq` looks at a gate, `AddDependency` is the swap that adds the node,
`SubtractInactive` the final `fetch_sub`. A gate's list is the set of the tasks
its nodes refer to (a task is added to a gate at most once), and ready stacks are
sets, so results hold for any order of the elements. `ThenRead` and `ThenConsume`
are `CreateTask` with the future among the captures.

**Workers.** `pop`, `mark`, `execute`, `unmark`, `check`, `exited` are the places
in `TaskLoop`; `fresh` are tasks not pushed yet and `byTask` those that a task
pushed.

**AccessSynchronizer.** The word's fields are variables of their own that change
together in one step. A task's `pc` is where the thread that runs it is. The
await functions are `TryExclusive`/`TryShared` (`await_ready`), and after them
`SuspendExclusive`/`SuspendShared`, `AddRefPrevious`, `ReleaseReplaced` and the steps of
`Queue` (`ProcessOnReady`, `HandleOnTask`, `AddDependency`, `SubtractInactive`,
`ReleaseResult`), which are those of `await_suspend`. `InitializeTaskOn` swaps the
word with the same `SyncExclusive` and goes through the same steps. An *agent* is
who takes them: a task whose coroutine suspends, or a *client*, a thread that calls
`InitializeTaskOn`; `new`, `previous`, `replaced`, `result`, `todo`, `inactive` are its
locals. With the flag `TryExecuteImmediate` the new task runs inside the call
(`inline`). The scopes end in `ReleaseExclusive` or `ReleaseShared` followed by
`LeaveScope`; a plain task unblocks its gate first and releases at `clear`, when its
function is destroyed.

**AccessSynchronizerQueue.** `Record` adds a request to `queue` in the step of its
compare-and-swap, and takes a task out in the step that leaves its scope. Who is
inside is read off the `pc` of tasks.

**Coroutines.** A *strand* is the main thread or the function of a task; `stack`
has the coroutines that called each other on it. `pc[f]` follows the awaiters:
`body`; `trySet` and `ready`, `then` are `await_suspend` of a coroutine and
`await_ready`, `await_suspend` of a future; `resume` is `await_resume`; `close` is
`final_suspend`; `done` waits for destruction. `word` is the atomic continuation,
`child` the unique handle a coroutine (or main) keeps, `awaits` what its awaiter
holds, `param` the future passed to it. A task's function is one step (`RunResume`,
`RunProduce`, `RunRead`, `RunConsume`), followed by `Unblock` or `ResetResult` and
`EndTask`: the places where another thread can see the difference. `memory[f]` is
`system` until the block comes from `malloc`, then `used` or `free`. Where a pool
has several free slots, the model takes a fixed one (`Some`): slots differ in
nothing. A call for which a pool has no slot is not made. `use` is a rule of the
program that the code states in a comment (*Either ShareResult or DropResult*):
a result is shared or dropped, not both.

**TickSync.** `word` is the atomic state. After the swap, `LoadFuture`,
`AddRefFuture`, `ResetFuture`, `ReportFrame`, `CompleteFuture`, `Return` follow
the rest of `InnerUpdate` statement by statement. A future is named by the number
of the frame it was made for.

**Pool.** `AcquireShared`, `ReadNext`, `PopSwap`, `Popped` are `Stack::Pop`;
`ReturnShared`, `PushLink`, `PushSwap` are `Push`/`PushChain`. `Link` is the
program writing `NextRef` of nodes it has acquired, which is what makes a stale
`ReadNext` read something that is not a free list. The list of a head is the least set
of nodes that has it and that following `NextRef` does not leave (`NodesFrom`).

## 3. Runs

| Run | Instance | Shows |
|---|---|---|
| `TaskSystem` | 3 tasks, 1 future, 1 client, 2 workers, 4 creations, at most 2 prerequisites and 1 capture | counters and references are exact, pools are clean, every task starts once and after its gates; `TaskGraph` is implemented |
| `TaskSystemFlags` | the same objects with 1 worker, tasks for immediate execution and named threads, 3 creations, fair threads | `TaskGraph` is implemented with these flags too, and every task finishes |
| `Workers` | 2 workers, 3 tasks | `used_threads_` is exact, tasks pushed by tasks are run before the join, shutdown ends |
| `WorkersWait` | 2 workers, 2 tasks | *violation*, section 5 |
| `AccessSynchronizer` | 4 tasks, 2 coroutines, 1 client, 4 accesses | mutual exclusion, exact counters and references, a sane word, no request behind the wrong holder; `ResourceQueue` is implemented |
| `AccessSynchronizerLive` | 3 tasks, 2 coroutines, 1 client, 3 accesses, fair | every suspended coroutine and queued task gets its access |
| `AccessSynchronizerPrevious` | the same without fairness | *violation*, section 5 |
| `Coroutines` | 2 frames, 2 futures, 2 tasks, 5 calls, fair | coroutines are resumed once, results are there when read, nothing leaks; who is suspended goes on |
| `TickSync` | 3 tickers, 1 permanent, 4 frames, fair | counts, lockstep, the right future, each frame reported once and in order, waits end |
| `TickSyncLeave`, `TickSyncCopy` | 2 tickers | *violations*, section 5 |
| `Pool` | 1 worker, 2 other threads, 3 nodes, 5 shared operations, fair | no node twice or lost, sizes exact, operations end |

Why the bounds are enough to be interesting:

- *Three tasks and a future, four creations.* A task can be created behind a
  running task and a future while both finish; its slot is reused once within
  the budget. Two workers and a client give a creator and two finishing
  prerequisites at the same time. `Budget` only stops new creations; without it
  the pools recycle for ever.
- *Four accesses by two coroutines and a client.* Two coroutines share while the
  client's task takes their collection over and a new collection begins behind it,
  which is where tags decide; a slot is used again within four tasks. `TagMod` (256
  in the code) is 8, above what the accesses can use: tags do not wrap in these
  runs. A run stops at a failed assertion.
- *Two frames, five calls.* Five calls make a future or task, a coroutine that gets it
  as a parameter, a second coroutine called by the first, and an await of a future in
  each: the pieces of `CoroutineTest` in `Test.cpp`, whose own task is here one that
  main passes. Two frames are one awaiting another; a block and a slot are used again
  after the first object is gone. `TrySet` meets `Close` on another strand after the
  inner coroutine has been suspended on a future.
- *Frames.* A slot of the ring of four is written again after two more frames, so
  that four frames let every slot be reused while a slow ticker still reads it.
- *Nodes.* Three nodes and five operations are enough for a head to be popped,
  another one with it, and to come back under a sleeping `Pop`; the mutant that
  compares only the head, not the tag, fails there.

Deadlock checking is off in every configuration: with a bounded number of
creations, accesses, frames or operations the programs come to their end, and a
failed assertion stops them. That nothing stops *early* is what the liveness
properties say.

Symmetry is used in the runs that check safety only (action properties among
them), over tasks, workers, futures or coroutines, which no definition tells
apart. `Coroutines`, `AccessSynchronizerLive` and `AccessSynchronizerPrevious` have
none.

### Fairness

Only weak fairness is assumed, and per thread:

- a thread goes on with an operation it has begun (all modules): the operating
  system runs every thread;
- a worker goes on popping (`Workers`, `MCTaskSystem`), because its loop polls or
  waits on the atomic flag; a named thread goes on calling `ExecuteATask`, as the
  main loops of `Test.cpp` and `AntHill.cpp` do: `TasksFinish` assumes it;
- the functions of tasks end, and a future that was made is completed
  (`MCTaskSystem`): the program's duty, without which no dependent could run;
- whoever is registered in a `TickSync` waits again or leaves; whoever waits in
  `Workers` for the tasks or the join looks again;
- in `Coroutines`, *some* strand that can go on does, which is weaker than fairness
  per thread and enough, as no strand goes on for ever without a call of the
  program. Going on includes the program's duties: main completes the futures it has
  made, and a coroutine awaits what it has started and returns.

`AccessGranted` ends at a failed assertion, and at the cycle of section 5
(`WaitCycle`). `WaitsEnd` of `TickSync` is claimed only if tickers stop joining at some point: a
barrier everybody joins again and again within one frame completes no frame.
`OperationsEnd` of `Pool` needs no more than the bound on the operations: a
failed swap means that another one succeeded.

## 4. Proofs

`TaskSystemProofs` and `WorkersProofs` hold for every finite set of tasks,
futures, clients and workers, all flags and all bounds, from the assumptions the
modules declare: `PoolAssumption` (the pools are finite and disjoint, the null
pointer is not in them), `ThreadAssumption` (finitely many threads, clients are
not workers), `BoundAssumption` (the flags are the ones of `ETaskFlags`, the
bounds are numbers), `WorkersAssumption` (finite sets).

Theorems of `TaskSystemProofs`, all from `Invariance == Spec => []SystemInv`:

| Theorem | Property |
|---|---|
| `TypesCorrect` | `TypeOK`: no counter goes below zero |
| `CountersExact` | `CounterExact`: `prerequires_` is the number of decrements still owed |
| `ReferencesExact` | `RefsExact`: `RefCount` is the number of references that exist |
| `PoolsAreClean` | `PooledClean`: pooled exactly while nothing refers to an object |
| `StartsWhenReady` | `StartsReady`: execution begins after all gates have finished |
| `ScheduledExactlyOnce` | `ScheduledOnce`: in exactly one place that will run it, or waiting |

*The argument.* None of these is inductive by itself. That `prerequires_` is exact
needs that the node of a task is in a gate only if its creator is done with that
gate; that a reference is released once needs to know which thread has the task;
and that a gate a creator walks over is not in its pool needs that the creator's
own handles hold it. `SystemInv` adds:

- `LocalsFollowPc`, `ExecFollowsPc`: which locals are set at which place;
- `ExecutionStages`: gate and function of a task that is executed, by stage;
- `CreatorHolds`: unsettled prerequisites are held by the creator's frame, and the
  new task is not in their gates yet;
- `NewUnshared`: nobody has a handle of a task before it is returned;
- `OnePlace`: a pending task that is owed no decrement is in one place that will
  run it or runs it, and in none before;
- `FutureAnchored`: a future somebody waits for has an owner who can still
  complete it.

The proof takes one lemma per conjunct (or group of conjuncts that need each
other) and one step per action; `RefsTo` and `Owed` are sums of cardinalities, so
a handover is "one set loses the element, another one gains it" (lemmas
`CountGain` and its neighbours). The two counters are proved together, action by
action (`CountsStep`): a thread that takes a reference out of one place must put it
into another.

Theorems of `WorkersProofs`, from `WorkersInv`: `WorkersTypesCorrect` (`TypeOK`),
`UsedIsExact` (`UsedExact`), `ExecutingCounted` (`ExecutingIsCounted`), and `TasksOfTasksAreRun`
(`TasksOfTasksRun`). The strengthening for the last one is `PusherPopsAgain`: the
worker whose task pushed has at least one more pop ahead of it, since it checks
`working_` only after a pop that finds nothing.

### The task graph

`TaskGraphProofs` proves `TaskSystemIsTaskGraph == Spec => ImplementsTaskGraph`, the
property of the runs `TaskSystem` and `TaskSystemFlags`, from the same assumptions.
`NewTask` is the step that creates the task, `Start` and `Finish` are those where its
function begins and its gate is consumed, `Complete` is the swap of `Future::Done`,
`Recycle` the release that takes the last reference; all others change nothing of the
graph. `SystemInv` needs one addition, `InactiveFinished`: a prerequisite its
creator counted as finished stays so, because the creator's handle keeps its slot from
being used again. There is one lemma per step of the graph (`CreateTaskIsNewTask`,
`ConsumeAllSettles`, `EndFunctionIsFinish`, ...) and two for the steps that stutter.

### The frame barrier

Theorems of `TickSyncProofs`, all from `BarrierInvariance`:

| Theorem | Property |
|---|---|
| `BarrierTypesCorrect` | `TypeOK`: the counts in the word do not go below zero |
| `BarrierCountsExact` | `CountsExact`: the counts are those of the tickers |
| `TickersInLockstep` | `Lockstep`: nobody is more than a frame apart |
| `WaitReturnsItsFuture` | `RightFuture`: a wait returns the future of its frame |
| `CompleterFindsItsFuture` | `FrameFutureReady`: a frame's future is there and not done |
| `FramesReportedInOrder` | `ReportedInOrder` (an action property): each call of `on_frame_ready_` is for the frame after the last one reported |

They hold for any finite set of tickers and any number of frames, *if some ticker is
permanent* (`Permanent # {}`). Without one the results are false, which is the finding
of `TickSyncLeave`, so that the hypothesis is part of what the barrier promises. In
`AntHill.cpp` the renderer, which stays until its window closes, plays that part once it
has registered; the test in `Test.cpp` has no such ticker.

*The argument.* The ring is read after the word has moved on, so what is in it matters.
`BarrierInv` says that one ticker at most is finishing a frame, and that it is the
last completed one (`OneCompleter`); that everything before it is done and reported
(`FramesDone`); that a permanent ticker then waits for that frame, which keeps the next
one from completing until the future of the second next is in its slot
(`PermanentBehind`); and which slots are filled (`RingFilled`). The counts are exact
because each call moves one ticker between the sets of those registered and those
waiting, and equal counts mean equal sets (`UpdatedCounts`).

### Pools

Theorems of `PoolProofs`, from `PoolInvariance`: `PoolTypesCorrect` (`TypeOK`),
`StackSizesExact` (`SizesExact`) and `NodesInOnePlace` (`EachNodeOnce`), for every
number of nodes and threads, from `PoolAssumption`.

*The argument.* `WordCurrent` is why the tag solves the ABA problem: as long as the
free word still has the tag that a thread loaded, the head is the loaded one and
`new_head` is its successor, though `ReadNext` may have read a node in use; with
any other tag the swap fails. Nodes are `Covered` by the places where they may be and
these are `Apart`, and lists are `ListsStraight`: they end, and no node comes again
behind itself. Popping the head and pushing a node on top keep this, because the
other lists are closed under links that do not change (`SameList`, `HeadAndTail`). The
initial lists of rows of nodes are found by well-founded induction on numbers
(`LeastNumber`).

### The access synchroniser

Theorems of `AccessSynchronizerProofs`, from `SyncInvariance`:

| Theorem | Property |
|---|---|
| `SyncTypesCorrect` | `TypeOK`: no count of references, prerequisites or holders below zero |
| `ReferencesExact` | `RefsExact`: the count of a task is the number of its references |
| `CountersExact` | `CounterExact`: `prerequires_` is the number of nodes and unsettled gates |
| `WordStaysSane` | `WordSane`: fewer releases than members, nothing pooled in the word |

They hold for any finite sets of tasks, coroutines and clients, *if no tag wraps*:
`Accesses < TagMod`, fewer accesses in a run than the values of a tag (256 in the code).
A tag that has wrapped makes an old gate look current: a release is then counted for
a collection its holder is not in, and the same gate cannot be told from the one of
a scope before. What is proved is that nothing else can go wrong; the wrap is a
hazard of its own (`PROJECT.json`). Tasks, coroutines and their number are not bounded
otherwise, and the results include the behaviours of section 5 in which a request
queues behind a wrong task: references and counters stay exact there too.

*The argument.* A reference can be in the word, the collection, a result that is being
worked off, a handle of a creator, a node, or with the thread that runs the task; each
step moves some from one of these to another. For that to be exact:

- `LocalsFollowPc`, `CreatorsAlone`: what is in a creator's locals, and that no two
  creators have the same task;
- `PooledUnreferenced`: a task goes back to the pool at count zero, so that nothing
  refers to it. The exception is the result of a `SyncShared` whose last task was gone,
  until `HandleOnTask` fails on it;
- `Stages`: a task waits only while its counter is positive or its creator has not
  begun to count, so that exactly one decrement wakes it;
- `CollectionExact`: releases and members that still have the resource make up the
  collection, and a holder's tag is the current one exactly if its gate is in it;
- `TagsLeft`, `TagsRead`: each access bumps a gate and the collection once at
  most, so that a tag that was read is never ahead of the gate's and an equal one
  means the same scope;
- `CoroutinesPlaced`: a coroutine is in one task, which has run as far as it has asked.

There is one lemma per conjunct with one step per action. Types and references are
proved together (`TypeButRefsStep`, `RefsStep`), since a count does not go below zero
because it is exact. Four general facts do most of the counting: `HoldingChanges`,
`GatesChange`, `NodesAdded` and `NodesSingle` say what a sum of references becomes when
one set of nodes is replaced.

### Who excludes whom

Theorems of `AccessExclusionProofs`, from `ExclusionInvariance == Spec => []ExclusionInv`,
under the same assumption `Accesses < TagMod`:

| Theorem | Property |
|---|---|
| `ScopesExclude` | `MutualExclusion`: an exclusive scope is alone with the resource |
| `SuccessorsBehindHolders` | `ExclusiveSuccessor`: an exclusive request is behind holders only, one for each |

*The argument.* `SyncInv` says nothing of the order of the requests, and the code keeps
it nowhere in one place: the word has the last task and the collection, the nodes in the
gates have the rest, and what a creator has read and not yet added is in its locals.
`ExclusionInv` is `SyncInv` and `RankInv`: there are natural numbers, a rank for each task
that is *present* (that holds the resource or waits for it), with

- `RanksInOrder`: ranks have no gaps, whoever is one above another is behind it
  (in its gate, or on the way there), and equal ranks are only of requests that share;
- `CollectionOnTop`, `LastOnTop`: the collection has the highest rank, the last task
  the one below, or the highest if there is no collection;
- `BehindRankBelow`: an exclusive request is behind those of the rank below only, each
  of which is present or in the middle of leaving its scope;
- `LastSane`: the last task of the word is present, or is a plain task that is over
  and has still to call `ReleaseExclusive`.

A request that arrives (`ArrivingStep`) gets the top rank or the one above; every
other step keeps the ranks (`QuietStep`); whoever leaves had the lowest, so that those
above close up by themselves (`LeavingStep`). A task that is not waiting has the lowest
rank (`FrontIsLowest`), and no one else has it if it is exclusive (`FrontIsAlone`):
that is `MutualExclusion`. Two exclusive requests behind the same task would have the
same rank: that is `ExclusiveSuccessor`. The ranks are a witness of an existential, in
no variable of the model; TLC has checked `RankInv`, by searching for such numbers, in
all states of a small instance before the proof. Both theorems include the behaviours
of section 5: it is a shared request that can get behind a wrong task there, never an
exclusive one.

### Coroutines

Theorems of `CoroutinesProofs`, from `CoroutineInvariance == Spec => []CoroutineInv`:

| Theorem | Property |
|---|---|
| `CoroutineTypesCorrect` | `TypeOK` |
| `OneResumerEach` | `OneResumer`: each coroutine that has not finished is in one place that carries it on |
| `AwaitsFinished` | `AwaitedFinished`: whoever awaits a coroutine is alone, finds its value, and destroys it when it has finished |
| `ResultsAlwaysReadable` | `ResultsReadable`: a result is there when it is read or dropped, and none is left in a pool |
| `NothingIsLeaked` | `NothingLeaks`: at the end all frames and futures have been given back |

They hold for any finite sets of frames, futures and tasks and any number of calls,
from `CoroutinesAssumption`: the sets are finite, and a block of memory is neither a
future nor a task nor the main thread.

*The argument.* A handle moves from the variable of a caller to its awaiter, and from
there into a continuation word or a task; a reference moves between frames, tasks and
main; a result between its producer and whoever shares or drops it. `CoroutineInv`
says where each of them is:

- `FramesByStage`: what a frame is like at each stage of its coroutine; in particular
  one that goes on after an await of a coroutine finds that one done;
- `FramesOwned`, `NoCircle`: an attached frame has one owner, a detached one none, and
  no frames own one another in a circle, which is an invariant about all sets of frames.
  A new frame owns nothing and a word or a variable that is emptied owns less, so that
  no step closes a circle;
- `OnStacks`, `InTasks`, `InWords`: a coroutine that runs is on one stack, one that waits
  for a future (or to be started) is the job of one task, and one that waits for another
  coroutine is in the word of that one. These are `OneResumer`;
- `StrandsByStage`, `HandlesHeld`: a strand has the job of its stage, and the holders of
  a reference are main, the tasks that work on the future, and the frames that have it
  as a parameter or await it;
- `FuturesByState`, `Producers`, `Users`, `NodesOfWaiting`: a future is in its pool while
  nobody holds it, is completed by one strand, shared by many or dropped by one task, and
  in its gate are the nodes of the tasks that wait for it. A result that is in a state
  other than `Unconsumed` has a strand between the two steps of completing or dropping it.

There is one lemma per conjunct, or per group whose steps are the same. For futures,
three kinds of step cover most of the actions: those that release references
(`ReleaseKept`), those that touch none (`NothingTouched`), both by `FuturesKept`, and
those that take a future from its pool (`FuturesStepFresh`). `NothingIsLeaked` is where
`NoCircle` is needed: if all is quiet, each coroutine that has not finished would wait
for another one that has not, so that every frame in the set of these owns one in it.

### Only model-checked

All liveness, which is out of the prover's reach. The refinement
`ImplementsResourceQueue` of the access synchroniser: its mapping reads the queue off
the word and the gates, where the ranks of `ExclusionInv` exist only as a witness. No
theorem is about a data race: steps are interleaved.

## 5. Where the code disagrees with its own assertions

Each is a run that TLC finds violated; `PROJECT.json` has the lines.

- **`WorkersWait` / `WaitMeansDone`.** `WaitForAllTasks` waits for `used_threads_`
  to be zero. A task that was pushed and not popped yet, or popped by a worker that
  has not counted itself, is not seen, and the wait returns before it ran. The
  checks after the wait (`AssertEmpty` with `DO_POOL_STATS`,
  `ensure_allocator_free` in `Test.cpp`) say otherwise. If main then stops the
  workers, the same task can still be in the stack at the assertion of
  `Task.cpp:194`.
- **`AccessSynchronizerPrevious` / `PreviousHeld`.** `SyncShared` counts on a last task
  that nothing holds for it.
  - *Gone before the swap.* `await_ready` found an exclusive holder; it releases before
    `await_suspend` gets to `SyncShared`. The empty last task is then used as a task,
    against the assertion of `SetSingle`.
  - *Gone after the swap.* The last task that the compare-and-swap
    (`AccessSynchronizer.h:214`) found may be back in its pool when line 221 adds a
    reference to it, against the assertion of `AccessSynchronizer.cpp:73`.
  - *Gone and back.* The same slot may be a new task by then. A gate's tag changes when
    a coroutine's scope ends, but a plain task leaves it as it was, so that the tag may
    be the old one. A plain task is the last one; a coroutine's shared
    request joins the collection behind it and is slow on its way through line 221 to
    `HandleOnTask`; the task finishes and its slot becomes a new `InitializeTaskOn`
    task, which takes over the collection with the slow request and waits for it;
    the request then queues behind that same slot. Both wait for ever. No run reports
    this cycle, and no property of the project finds it: `AccessGranted` is claimed up
    to it (`WaitCycle` recognises such a state), a refinement of a safety specification
    does not exclude it, and no assertion fails on the way. TLC prints a trace to
    it when `~WaitCycle` is made the invariant of the instance of
    `AccessSynchronizerPrevious`, in the place of `PreviousHeld`.
- **`TickSyncLeave` / `FrameFutureReady`.** With no permanent ticker, the last one
  to leave completes a frame and stalls; a newcomer gets two frames ahead and finds
  no future in the ring.
- **`TickSyncCopy` / `CopySafe`.** A leaving ticker copies a pointer of the ring
  that another thread, two frames ahead, replaces at the same time.

The passing runs of the same modules say what holds up to these points: their
behaviours end at the failed assertion (`failed`), and `AccessGranted`,
`WaitsEnd` and `OperationsEnd` say so in their conclusions.

## 6. Not modelled

- *Memory order.* Interleavings only. Swaps succeed with release order and loads
  are relaxed; what a weakly ordered processor may show is not covered.
- *Wrapping tags* (`uint8` in gates and the synchroniser, `uint16` in stacks): the
  runs stay below the wrap.
- *Order of ready stacks* and starvation by endless pushing.
- *Results*: futures without a value. Their gates are those of `TaskSystem`, and
  nothing else is left of them.
- *Gates*: `UnblockSingle` and `ConsumeSingle` have no caller in the repository.
- *Access synchroniser*: `TASK_RETRIGGER` (off); two assertions on a word that may be
  out of date, `State::Validate` and the one of `SetSingle` (`AccessSynchronizer.h:83`)
  where `SyncExclusive` evaluates it in its loop, before the swap: the last task it
  looks at may be released meanwhile, and what the assertions then do is not in the
  model; awaiting or requesting inside a scope; and more than one resource.
- *Coroutines*: generators (`co_yield`, `TryResume`), which one thread uses as a plain
  object, and coroutines without a value. *A resume before `await_suspend` of a future
  has returned*: `Then` queues the task and leaves the strand in one step, so that a
  frame that is resumed, or even freed, while the call that suspended it is on its way
  out is not represented. After the node is in the gate that call reads the new task
  only, neither the frame nor the future; but that is read from the code, not checked.
  *The assertion of `~TUniqueHandle`* is checked where an await ends; a handle that is
  dropped is dropped when its coroutine has finished (`DropHandle`), which is the
  program's duty and assumed.
- *Frame memory*: several size classes and blocks above the largest one; the swaps of
  `PointerBasedStack`, which are those of the stack in `Pool`, are single steps.
- *Channel*: unfinished code without behaviour.
- *Utilities, samples, tests*: nothing shared; the samples tell which calls a
  program makes and from where, which is the environment of the models.

## 7. Plan

Done: all modules of section 2, with proofs about all of them but the refinement of
`ResourceQueue`.

Next, the proof of that refinement by `AccessSynchronizerQueue`, with the queue in the
place of the ranks of `AccessExclusionProofs`.

Models that are left:

1. Tags that wrap in `AccessSynchronizer`, with a statement of how many hand-overs a
   sleeping holder tolerates.
2. A program in the manner of `AntHill.cpp`: `TickSync` and the accesses to several
   resources composed.
3. Generators, and size classes of frames.
