------------------------- MODULE AccessSynchronizer -------------------------
(***************************************************************************)
(* One resource guarded by an AccessSynchronizer (AccessSynchronizer.h and *)
(* .cpp), used by coroutines through co_await, exclusively (SyncHolder) or *)
(* shared (SharedSyncHolder), and by plain tasks (InitializeTaskOn).  A    *)
(* coroutine runs inside a task; when the resource is not available it is  *)
(* suspended and a new task, queued on the gates of the holders before it, *)
(* resumes it.  A task that is ready runs at any time, on a thread of its  *)
(* own, or inside InitializeTaskOn with the flag TryExecuteImmediate.  The *)
(* synchroniser's State is one atomic word, so a compare-and-swap loop is  *)
(* one step; what follows it is a step of its own.  Reading a gate and     *)
(* adding a node to it, and the unblocking of a gate's nodes, are single   *)
(* steps here: TaskSystem takes them apart.  The build has assertions; one *)
(* that fails stops the program.  Two are left out, those on a word that   *)
(* may be out of date: State::Validate, and SetSingle's assertion that the *)
(* last task has references, which SyncExclusive evaluates in its loop     *)
(* before the swap.  They look at a task that may be released meanwhile.   *)
(***************************************************************************)
EXTENDS Naturals, FiniteSets

CONSTANTS Task,       \* slots of the task pool
          Coroutine,  \* the coroutines that use the resource
          Client,     \* threads of the program that call InitializeTaskOn
          Modes,      \* kinds of access: subset of {"exclusive", "shared", "task"}
          Accesses,   \* bound: accesses in one run
          TagMod,     \* values of the uint8 tags, 256 in the code
          None        \* invalid index, null pointer

ASSUME SyncAssumption ==
  /\ IsFiniteSet(Task) /\ IsFiniteSet(Coroutine) /\ None \notin Task \cup Coroutine
  /\ IsFiniteSet(Client) /\ Client \cap Task = {}
  /\ Modes \subseteq {"exclusive", "shared", "task"}
  /\ Accesses \in Nat /\ TagMod \in Nat \ {0}

VARIABLES
  \* AccessSynchronizer::State
  last_task, last_task_tag,
  shared,       \* the shared collection: tasks and the tags of their gates
  released,     \* released_shared_tasks_
  sync_tag,     \* tag_
  \* tasks
  state, gate_tag, dependents, refs, prerequires,
  pc,           \* pc[t]: where the thread that runs t is, or how t waits for one
  coroutine,    \* coroutine[t]: the coroutine t's function resumes and runs
  \* locals of await_suspend in the task a coroutine leaves, or of InitializeTaskOn
  new,          \* the task that is created
  previous,     \* last_task_ and its tag as SyncShared found them, not counted
  replaced,     \* the last_task_ that SyncExclusive replaced and has to release
  result,       \* SyncMultiResult: gates (task and tag) with a reference each
  todo,         \* those of them HandlePrerequires has not looked at
  inactive,     \* inactive_prereq
  \* coroutines
  ask,          \* ask[c]: "new", "none", or the kind of access c is suspended for
  held_tag,     \* synchroniser_tag_ of c's SharedAccessScopeCo
  left,         \* accesses that may still be asked for
  failed        \* the assertion that failed
syncVars == <<last_task, last_task_tag, shared, released, sync_tag>>
gateVars == <<gate_tag, dependents>>
localVars == <<new, previous, replaced, result, todo, inactive>>
coVars == <<ask, held_tag, left>>
vars == <<syncVars, state, gateVars, refs, prerequires, pc, coroutine, localVars,
          coVars, failed>>

Agent == Task \cup Client
TaskOrNone == Task \cup {None}
Tag == 0..(TagMod - 1)
Bump(tag) == (tag + 1) % TagMod
TaggedGate == [task : Task, tag : Tag]
Gate(t) == [task |-> t, tag |-> gate_tag[t]]

TypeOK ==
  /\ last_task \in TaskOrNone /\ last_task_tag \in Tag
  /\ shared \subseteq TaggedGate /\ released \in Nat /\ sync_tag \in Tag
  /\ state \in [Task -> {"Pooled", "Pending", "Done"}]
  /\ gate_tag \in [Task -> Tag] /\ dependents \in [Task -> SUBSET Task]
  /\ refs \in [Task -> Nat] /\ prerequires \in [Task -> Nat]
  /\ pc \in [Agent -> {"none", "waiting", "ready", "body", "exclusive", "shared", "leave",
                       "leaveShared", "suspend", "addref", "replaced", "handle", "add",
                       "inline", "release", "clear", "finish"}]
  /\ coroutine \in [Task -> Coroutine \cup {None}]
  /\ new \in [Agent -> TaskOrNone] /\ replaced \in [Agent -> TaskOrNone]
  /\ previous \in [Agent -> [task : TaskOrNone, tag : Tag]]
  /\ result \in [Agent -> SUBSET TaggedGate] /\ todo \in [Agent -> SUBSET TaggedGate]
  /\ inactive \in [Agent -> Nat]
  /\ ask \in [Coroutine -> {"new", "none", "exclusive", "shared"}]
  /\ held_tag \in [Coroutine -> Tag] /\ left \in 0..Accesses
  /\ failed \in {"none", "no_previous", "gate_pooled", "unblocked"}

Init ==
  /\ last_task = None /\ last_task_tag = 0
  /\ shared = {} /\ released = 0 /\ sync_tag = 0
  /\ state = [t \in Task |-> "Pooled"]
  /\ gate_tag = [t \in Task |-> 0] /\ dependents = [t \in Task |-> {}]
  /\ refs = [t \in Task |-> 0] /\ prerequires = [t \in Task |-> 0]
  /\ pc = [a \in Agent |-> IF a \in Client THEN "body" ELSE "none"]
  /\ coroutine = [t \in Task |-> None]
  /\ new = [a \in Agent |-> None] /\ replaced = [a \in Agent |-> None]
  /\ previous = [a \in Agent |-> [task |-> None, tag |-> 0]]
  /\ result = [a \in Agent |-> {}] /\ todo = [a \in Agent |-> {}]
  /\ inactive = [a \in Agent |-> 0]
  /\ ask = [c \in Coroutine |-> "new"]
  /\ held_tag = [c \in Coroutine |-> 0] /\ left = Accesses
  /\ failed = "none"

Goto(a, label) == pc' = [pc EXCEPT ![a] = label]

\* n[x] references less to every task x; the last one returns x to the pool.
Release(n) ==
  /\ refs' = [x \in Task |-> refs[x] - n[x]]
  /\ state' = [x \in Task |-> IF n[x] > 0 /\ refs[x] = n[x] THEN "Pooled" ELSE state[x]]

\* A clearing that forgets to empty the collection.
ClearSharedMutant == sync_tag' = Bump(sync_tag) /\ UNCHANGED <<shared, released>>

\* The shared collection is handed over or returned; the next one has a new tag.
ClearShared == shared' = {} /\ released' = 0 /\ sync_tag' = Bump(sync_tag)

One(t) == [x \in Task |-> IF x = t THEN 1 ELSE 0]
Nodes(S) == [x \in Task |-> Cardinality({g \in S : g.task = x})]

\* The function of t is one InitializeTaskOn made, and it runs.
InPlainTask(t) == pc[t] = "exclusive" /\ coroutine[t] = None

\* t runs inside the InitializeTaskOn that created it, with the creator's reference.
RunsInline(t) == \E a \in Client : pc[a] = "inline" /\ new[a] = t
-----------------------------------------------------------------------------
\* AsyncResume: a task that runs coroutine c from its start.
StartCoroutine(c, t) ==
  /\ ask[c] = "new" /\ state[t] = "Pooled"
  /\ ask' = [ask EXCEPT ![c] = "none"]
  /\ state' = [state EXCEPT ![t] = "Pending"]
  /\ refs' = [refs EXCEPT ![t] = @ + 1]
  /\ coroutine' = [coroutine EXCEPT ![t] = c]
  /\ Goto(t, "ready")
  /\ UNCHANGED <<syncVars, gateVars, prerequires, localVars, held_tag, left, failed>>

\* Execute; a suspended coroutine goes on in await_resume, inside its scope, and
\* the function of a plain task runs with its scope.
Run(t) ==
  LET c == coroutine[t] IN
  /\ pc[t] = "ready"
  /\ IF c = None
     THEN Goto(t, "exclusive") /\ UNCHANGED ask
     ELSE /\ Goto(t, IF ask[c] = "none" THEN "body" ELSE ask[c])
          /\ ask' = [ask EXCEPT ![c] = "none"]
  /\ UNCHANGED <<syncVars, state, gateVars, refs, prerequires, coroutine, localVars,
                 held_tag, left, failed>>

\* User code runs in a: a client, or the coroutine of a task.
User(a) == pc[a] = "body" /\ (a \in Task => coroutine[a] # None)

\* One access more is asked for.
Request(a) == User(a) /\ left > 0 /\ left' = left - 1

Suspend(t, mode) ==
  /\ Goto(t, "suspend")
  /\ ask' = [ask EXCEPT ![coroutine[t]] = mode]

ExclusiveAvailable == last_task = None /\ shared = {}

\* await_ready: SyncExclusiveIfAvailible on the current task.
TryExclusive(t) ==
  /\ "exclusive" \in Modes /\ Request(t)
  /\ IF ExclusiveAvailable
     THEN /\ last_task' = t /\ last_task_tag' = gate_tag[t]
          /\ refs' = [refs EXCEPT ![t] = @ + 1]
          /\ Goto(t, "exclusive")
          /\ UNCHANGED ask
     ELSE /\ Suspend(t, "exclusive")
          /\ UNCHANGED <<last_task, last_task_tag, refs>>
  /\ UNCHANGED <<shared, released, sync_tag, state, gateVars, prerequires, coroutine,
                 localVars, held_tag, failed>>

\* await_ready: SyncSharedIfAvailible on the current task.
TryShared(t) ==
  /\ "shared" \in Modes /\ Request(t)
  /\ IF last_task = None
     THEN /\ shared' = shared \cup {Gate(t)}
          /\ refs' = [refs EXCEPT ![t] = @ + 1]
          /\ held_tag' = [held_tag EXCEPT ![coroutine[t]] = sync_tag]
          /\ Goto(t, "shared")
          /\ UNCHANGED ask
     ELSE /\ Suspend(t, "shared")
          /\ UNCHANGED <<shared, refs, held_tag>>
  /\ UNCHANGED <<last_task, last_task_tag, released, sync_tag, state, gateVars,
                 prerequires, coroutine, localVars, failed>>
-----------------------------------------------------------------------------
(* await_suspend and InitializeTaskOn: a new task queues for the resource. *)

\* CreateTask.  Two references: the local handle, and the one the synchroniser
\* takes.
CreateTask(a, u) ==
  /\ state[u] = "Pooled"
  /\ state' = [state EXCEPT ![u] = "Pending"]
  /\ refs' = [refs EXCEPT ![u] = @ + 2]
  /\ new' = [new EXCEPT ![a] = u]

\* The lambda of the new task u resumes the coroutine that leaves t.
MoveCoroutine(t, u) ==
  coroutine' = [coroutine EXCEPT ![u] = coroutine[t], ![t] = None]

\* An exclusive request that queues behind the last task only.
WaitsForMutant ==
  IF last_task # None THEN {[task |-> last_task, tag |-> last_task_tag]} ELSE shared

\* The gates an exclusive request waits for: the shared collection, which it takes
\* over, or else the last task, whose reference it takes over.
WaitsFor ==
  IF shared # {} THEN shared
  ELSE IF last_task # None THEN {[task |-> last_task, tag |-> last_task_tag]}
  ELSE {}

\* SyncExclusive: u becomes the last task.
SyncExclusive(a, u) ==
  LET passed == IF shared # {} THEN last_task ELSE None IN
  /\ CreateTask(a, u)
  /\ last_task' = u /\ last_task_tag' = gate_tag[u]
  /\ IF shared # {}
     THEN ClearShared
     ELSE UNCHANGED <<shared, released, sync_tag>>
  /\ result' = [result EXCEPT ![a] = WaitsFor]
  /\ replaced' = [replaced EXCEPT ![a] = passed]
  /\ pc' = [pc EXCEPT ![a] = IF passed = None THEN "handle" ELSE "replaced",
                      ![u] = "waiting"]
  /\ UNCHANGED <<gateVars, prerequires, previous, todo, inactive, failed>>

SuspendExclusive(t, u) ==
  /\ pc[t] = "suspend" /\ ask[coroutine[t]] = "exclusive"
  /\ SyncExclusive(t, u) /\ MoveCoroutine(t, u)
  /\ UNCHANGED coVars

\* InitializeTaskOn: u will run a function on the resource.
InitializeTaskOn(a, u) ==
  /\ "task" \in Modes /\ Request(a)
  /\ SyncExclusive(a, u)
  /\ UNCHANGED <<coroutine, ask, held_tag>>

ReleaseReplacedMutant(a) ==
  /\ pc[a] = "replaced"
  /\ replaced' = [replaced EXCEPT ![a] = None]
  /\ Goto(a, "handle")
  /\ UNCHANGED <<syncVars, state, refs, gateVars, prerequires, coroutine, new, previous,
                 result, todo, inactive, coVars, failed>>

\* The release of the last task that SyncExclusive replaced without returning it.
ReleaseReplaced(a) ==
  /\ pc[a] = "replaced"
  /\ Release(One(replaced[a]))
  /\ replaced' = [replaced EXCEPT ![a] = None]
  /\ Goto(a, "handle")
  /\ UNCHANGED <<syncVars, gateVars, prerequires, coroutine, new, previous, result, todo,
                 inactive, coVars, failed>>

\* SyncShared up to its compare-and-swap: u joins the shared collection.
SuspendShared(t, u) ==
  /\ pc[t] = "suspend" /\ ask[coroutine[t]] = "shared"
  /\ CreateTask(t, u) /\ MoveCoroutine(t, u)
  /\ shared' = shared \cup {Gate(u)}
  /\ held_tag' = [held_tag EXCEPT ![coroutine[t]] = sync_tag]
  /\ previous' = [previous EXCEPT ![t] = [task |-> last_task, tag |-> last_task_tag]]
  /\ pc' = [pc EXCEPT ![t] = "addref", ![u] = "waiting"]
  /\ UNCHANGED <<last_task, last_task_tag, released, sync_tag, gateVars, prerequires,
                 replaced, result, todo, inactive, ask, left, failed>>

\* The rest of SyncShared: a reference to the last task it found, and SetSingle,
\* which asserts that there was one.
AddRefPrevious(t) ==
  /\ pc[t] = "addref"
  /\ IF previous[t].task = None
     THEN failed' = "no_previous" /\ UNCHANGED <<refs, result, pc>>
     ELSE /\ refs' = [refs EXCEPT ![previous[t].task] = @ + 1]
          /\ result' = [result EXCEPT ![t] = {previous[t]}]
          /\ Goto(t, "handle")
          /\ UNCHANGED failed
  /\ previous' = [previous EXCEPT ![t] = [task |-> None, tag |-> 0]]
  /\ UNCHANGED <<syncVars, state, gateVars, prerequires, coroutine, new, replaced, todo,
                 inactive, coVars>>

\* ProcessOnReady: the new task goes to the ready stack with a reference of its
\* own; with TryExecuteImmediate it runs in the thread of the client.
ProcessOnReady(a) ==
  LET u == new[a] IN
  \/ /\ pc' = [pc EXCEPT ![a] = "release", ![u] = "ready"]
     /\ refs' = [refs EXCEPT ![u] = @ + 1]
  \/ /\ a \in Client
     /\ pc' = [pc EXCEPT ![a] = "inline", ![u] = "exclusive"]
     /\ UNCHANGED refs

\* HandleOnTask up to the loop of HandlePrerequires: without gates the new task
\* is ready; a gate of a task that is back in the pool fails an assertion.
HandleOnTask(a) ==
  LET u == new[a] IN
  /\ pc[a] = "handle"
  /\ IF \E g \in result[a] : state[g.task] = "Pooled"
     THEN failed' = "gate_pooled" /\ UNCHANGED <<pc, refs, todo, prerequires>>
     ELSE /\ prerequires' = [prerequires EXCEPT ![u] = Cardinality(result[a])]
          /\ todo' = [todo EXCEPT ![a] = result[a]]
          /\ IF result[a] = {}
             THEN ProcessOnReady(a)
             ELSE Goto(a, "add") /\ UNCHANGED refs
          /\ UNCHANGED failed
  /\ UNCHANGED <<syncVars, state, gateVars, coroutine, new, previous, replaced, result,
                 inactive, coVars>>

\* A gate that still blocks: pending, and not unblocked since its tag was read.
BlocksMutant(g) == state[g.task] = "Pending"
Blocks(g) == state[g.task] = "Pending" /\ gate_tag[g.task] = g.tag

\* A loop that does not count the gates it finds inactive.
AddDependencyMutant(a, g) ==
  LET u == new[a] IN
  /\ pc[a] = "add" /\ g \in todo[a]
  /\ todo' = [todo EXCEPT ![a] = @ \ {g}]
  /\ IF Blocks(g)
     THEN /\ dependents' = [dependents EXCEPT ![g.task] = @ \cup {u}]
          /\ refs' = [refs EXCEPT ![u] = @ + 1]
     ELSE UNCHANGED <<dependents, refs>>
  /\ UNCHANGED <<syncVars, state, gate_tag, prerequires, pc, coroutine, new, previous,
                 replaced, result, inactive, coVars, failed>>

\* One gate of the loop: a dependency node enters it, or it is inactive.
AddDependency(a, g) ==
  LET u == new[a] IN
  /\ pc[a] = "add" /\ g \in todo[a]
  /\ todo' = [todo EXCEPT ![a] = @ \ {g}]
  /\ IF Blocks(g)
     THEN /\ dependents' = [dependents EXCEPT ![g.task] = @ \cup {u}]
          /\ refs' = [refs EXCEPT ![u] = @ + 1]
          /\ UNCHANGED inactive
     ELSE /\ inactive' = [inactive EXCEPT ![a] = @ + 1]
          /\ UNCHANGED <<dependents, refs>>
  /\ UNCHANGED <<syncVars, state, gate_tag, prerequires, pc, coroutine, new, previous,
                 replaced, result, coVars, failed>>

SubtractInactive(a) ==
  LET u == new[a] IN
  /\ pc[a] = "add" /\ todo[a] = {}
  /\ prerequires' = [prerequires EXCEPT ![u] = @ - inactive[a]]
  /\ IF inactive[a] > 0 /\ prerequires[u] = inactive[a]
     THEN ProcessOnReady(a)
     ELSE Goto(a, "release") /\ UNCHANGED refs
  /\ inactive' = [inactive EXCEPT ![a] = 0]
  /\ UNCHANGED <<syncVars, state, gateVars, coroutine, new, previous, replaced, result,
                 todo, coVars, failed>>

\* ReleaseChain or the end of the single result, and the end of the handle.
ReleaseResult(a) ==
  /\ pc[a] = "release"
  /\ Release([x \in Task |-> Nodes(result[a])[x] + One(new[a])[x]])
  /\ result' = [result EXCEPT ![a] = {}]
  /\ new' = [new EXCEPT ![a] = None]
  /\ Goto(a, "body")
  /\ UNCHANGED <<syncVars, gateVars, prerequires, coroutine, previous, replaced, todo,
                 inactive, coVars, failed>>
-----------------------------------------------------------------------------
(* The end of a scope. *)

\* Where a thread goes on after ReleaseExclusive: a plain task releases at the
\* end of Execute, a coroutine in the destructor of its scope.
AfterRelease(t) == Goto(t, IF pc[t] = "clear" THEN "finish" ELSE "leave")

\* A release that forgets whoever is last, also one that queued behind t.
ReleaseExclusiveMutant(t) ==
  /\ pc[t] = "clear" \/ (pc[t] = "exclusive" /\ ~InPlainTask(t))
  /\ last_task' = None /\ last_task_tag' = 0
  /\ Release(One(t))
  /\ AfterRelease(t)
  /\ UNCHANGED <<shared, released, sync_tag, gateVars, prerequires, coroutine, localVars,
                 coVars, failed>>

\* ReleaseExclusive: the synchroniser forgets t if no one queued behind it.
ReleaseExclusive(t) ==
  /\ pc[t] = "clear" \/ (pc[t] = "exclusive" /\ ~InPlainTask(t))
  /\ IF last_task = t
     THEN /\ last_task' = None /\ last_task_tag' = 0
          /\ Release(One(t))
     ELSE UNCHANGED <<last_task, last_task_tag, refs, state>>
  /\ AfterRelease(t)
  /\ UNCHANGED <<shared, released, sync_tag, gateVars, prerequires, coroutine, localVars,
                 coVars, failed>>

\* A release that ignores which collection it belongs to.
SameCollectionMutant(t) == shared # {}
SameCollection(t) == sync_tag = held_tag[coroutine[t]]

\* ReleaseShared: counts t as released, unless its collection was taken over;
\* the last release clears the collection and returns its nodes.
ReleaseShared(t) ==
  /\ pc[t] = "shared"
  /\ IF ~SameCollection(t)
     THEN UNCHANGED <<shared, released, sync_tag, refs, state>>
     ELSE IF released + 1 = Cardinality(shared)
     THEN /\ ClearShared
          /\ Release(Nodes(shared))
     ELSE /\ released' = released + 1
          /\ UNCHANGED <<shared, sync_tag, refs, state>>
  /\ Goto(t, "leaveShared")
  /\ UNCHANGED <<last_task, last_task_tag, gateVars, prerequires, coroutine, localVars,
                 coVars, failed>>

\* Gate::Unblock: every task behind t's gate loses a prerequisite; the last one
\* makes it ready, with the node's reference, else the reference is released.
UnblockDependents(t, new_state) ==
  LET woken == {d \in dependents[t] : prerequires[d] = 1} IN
  /\ dependents' = [dependents EXCEPT ![t] = {}]
  /\ prerequires' = [d \in Task |-> IF d \in dependents[t] THEN prerequires[d] - 1
                                    ELSE prerequires[d]]
  /\ refs' = [d \in Task |-> IF d \in dependents[t] \ woken THEN refs[d] - 1 ELSE refs[d]]
  /\ state' = [d \in Task |-> IF d = t THEN new_state
                 ELSE IF d \in dependents[t] \ woken /\ refs[d] = 1 THEN "Pooled" ELSE state[d]]

\* The threads go on: t at a label, the tasks it unblocked where they are ready.
Wake(t, label) ==
  pc' = [a \in Agent |-> IF a = t THEN label
           ELSE IF a \in dependents[t] /\ prerequires[a] = 1 THEN "ready" ELSE pc[a]]

\* The destructor of the scope goes on: Unblock with a new tag, so that who
\* still has the old one waits no longer; the gate stays pending.  A shared
\* scope asserts that it unblocked one task at most.
LeaveScope(t) ==
  /\ pc[t] \in {"leave", "leaveShared"}
  /\ IF pc[t] = "leaveShared" /\ Cardinality(dependents[t]) > 1
     THEN failed' = "unblocked"
          /\ UNCHANGED <<pc, gateVars, prerequires, refs, state>>
     ELSE /\ UnblockDependents(t, "Pending")
          /\ gate_tag' = [gate_tag EXCEPT ![t] = Bump(@)]
          /\ Wake(t, "body")
          /\ UNCHANGED failed
  /\ UNCHANGED <<syncVars, coroutine, localVars, coVars>>

\* The task's function ends: its coroutine has returned or is suspended, or the
\* function of a plain task has returned and with it its use of the resource.
EndFunction(t) ==
  /\ pc[t] = "body" \/ InPlainTask(t)
  /\ UnblockDependents(t, "Done")
  /\ Wake(t, IF InPlainTask(t) THEN "clear" ELSE "finish")
  /\ UNCHANGED <<syncVars, gate_tag, coroutine, localVars, coVars, failed>>

\* The worker drops its reference, or InitializeTaskOn goes on.
Finish(t) ==
  /\ pc[t] = "finish"
  /\ IF RunsInline(t) THEN UNCHANGED <<refs, state>> ELSE Release(One(t))
  /\ pc' = [a \in Agent |-> IF a = t THEN "none"
              ELSE IF pc[a] = "inline" /\ new[a] = t THEN "release" ELSE pc[a]]
  /\ coroutine' = [coroutine EXCEPT ![t] = None]
  /\ UNCHANGED <<syncVars, gateVars, prerequires, localVars, coVars, failed>>
-----------------------------------------------------------------------------
\* What a thread does in a call it has begun.
Queue(a) ==
  \/ ReleaseReplaced(a) \/ HandleOnTask(a)
  \/ \E g \in todo[a] : AddDependency(a, g)
  \/ SubtractInactive(a) \/ ReleaseResult(a)

\* What a running task does on its own, apart from asking for a new access.
Proceed(t) ==
  \/ Run(t)
  \/ \E u \in Task : SuspendExclusive(t, u) \/ SuspendShared(t, u)
  \/ AddRefPrevious(t)
  \/ ReleaseExclusive(t) \/ ReleaseShared(t) \/ LeaveScope(t)
  \/ EndFunction(t) \/ Finish(t)

Next ==
  /\ failed = "none"
  /\ \/ \E t \in Task :
          \/ \E c \in Coroutine : StartCoroutine(c, t)
          \/ TryExclusive(t) \/ TryShared(t) \/ Proceed(t)
     \/ \E a \in Agent :
          \/ \E u \in Task : InitializeTaskOn(a, u)
          \/ Queue(a)

Spec == Init /\ [][Next]_vars

\* Workers run every ready task, and every thread goes on with what it has begun.
FairSpec ==
  /\ Spec
  /\ \A t \in Task : WF_vars(failed = "none" /\ Proceed(t))
  /\ \A a \in Agent : WF_vars(failed = "none" /\ Queue(a))
-----------------------------------------------------------------------------
\* Inside a scope: from the acquisition until the release has taken effect.
Holders(mode) == {t \in Task : pc[t] = mode}

\* An exclusive scope excludes every other scope on the resource.
MutualExclusion ==
  /\ Cardinality(Holders("exclusive")) <= 1
  /\ Holders("exclusive") # {} => Holders("shared") = {}

\* The counter of a queued task is the number of gates that hold its node, plus
\* those its creator has not settled: it is granted access exactly once.
Unsettled(u) ==
  {a \in Agent : new[a] = u /\ pc[a] = "add"}
CounterExact ==
  \A u \in Task :
    IF Unsettled(u) # {}
    THEN \A a \in Unsettled(u) : prerequires[u] =
           Cardinality({p \in Task : u \in dependents[p]}) + Cardinality(todo[a]) + inactive[a]
    ELSE prerequires[u] = Cardinality({p \in Task : u \in dependents[p]})

\* The references the code holds to t: the synchroniser's word and collection,
\* results, handles, dependency nodes, and the thread or queue that has it.
RefsExact ==
  \A t \in Task : refs[t] =
    Cardinality({u \in {last_task} : u = t}) + Nodes(shared)[t]
    + Cardinality({a \in Agent : new[a] = t}) + Cardinality({a \in Agent : replaced[a] = t})
    + Cardinality({x \in UNION {{a} \X result[a] : a \in Agent} : x[2].task = t})
    + Cardinality({p \in Task : t \in dependents[p]})
    + (IF pc[t] \in {"none", "waiting"} \/ RunsInline(t) THEN 0 ELSE 1)

\* The word stays sane: fewer releases than members of the collection, and no
\* member or last task that has gone back to the pool.
WordSane ==
  /\ released < Cardinality(shared) \/ (released = 0 /\ shared = {})
  /\ \A g \in shared : state[g.task] # "Pooled"
  /\ last_task # None => state[last_task] # "Pooled"

\* t runs and is not inside a scope.
OutsideScope(t) == pc[t] \in {"body", "suspend", "clear", "finish"}

\* The task queued as u asks for the resource for itself.
AsksExclusive(u) == coroutine[u] = None \/ ask[coroutine[u]] # "shared"

\* An exclusive request is queued behind holders only, and each holder has one
\* such successor at most: the request took over the references to the tasks
\* before it, and the tags of their gates tell it which of them have left.
ExclusiveSuccessor ==
  \A t \in Task :
    /\ Cardinality({u \in dependents[t] : AsksExclusive(u)}) <= 1
    /\ OutsideScope(t) => \A u \in dependents[t] : ~AsksExclusive(u)

\* assert(in_task.GetRefCount() > 0) of SetSingle and assert(... !=
\* Nonexistent_Pooled) of HandleOnTask: when SyncShared is called some last task is
\* there to queue behind, and it is still there when its gate is looked at.
PreviousHeld == failed \notin {"no_previous", "gate_pooled"}

\* Tasks that wait for each other: each one's node is in the gate of another.
WaitCycle ==
  \E S \in SUBSET Task :
    /\ S # {}
    /\ \A t \in S : pc[t] = "waiting" /\ \E u \in S : t \in dependents[u]

\* Some task has to wait for its access, or for a thread to run it.
SomeoneWaits == \E t \in Task : pc[t] \in {"suspend", "waiting", "ready"}

\* Every coroutine that is about to be suspended and every task that is queued or
\* ready gets on, whatever the order of the requests and releases around it: all
\* that can keep it from its access is a failed assertion or a cycle of waits.
\* (There are finitely many accesses, so that in the end nobody waits.)
AccessGranted == SomeoneWaits ~> (~SomeoneWaits \/ failed # "none" \/ WaitCycle)
=============================================================================
