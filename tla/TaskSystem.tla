----------------------------- MODULE TaskSystem -----------------------------
(***************************************************************************)
(* Tasks, futures, gates and reference counts of the task system           *)
(* (Task.cpp, Task.h, BaseTask.h, Future.h, Gate.h, RefCount.h), in the    *)
(* build with assertions.  Every atomic operation on a gate, a counter or  *)
(* the ready stacks is a step of its own; what a thread does between two   *)
(* of them on data only it can reach is merged with the first.  A gate's   *)
(* list of dependency nodes is the set of the tasks they refer to, and the *)
(* ready stacks are sets: the order of their elements is left open.        *)
(***************************************************************************)
EXTENDS Naturals, FiniteSets

CONSTANTS Task,         \* slots of task_pool_
          Future,       \* slots of future_pool_
          Client,       \* threads of the program (main, named threads)
          Worker,       \* threads started by StartWorkerThreads
          Flags,        \* ETaskFlags the program uses outside task functions
          BodyFlags,    \* ETaskFlags it uses inside task functions
          MaxPrereqs,   \* bound: prerequisites of one task
          MaxCaptures,  \* bound: futures captured by one task function
          None          \* null pointer

Object == Task \cup Future
Thread == Client \cup Worker

ASSUME PoolAssumption ==
  /\ IsFiniteSet(Task) /\ IsFiniteSet(Future) /\ Task \cap Future = {}
  /\ None \notin Object
ASSUME ThreadAssumption ==
  IsFiniteSet(Client) /\ IsFiniteSet(Worker) /\ Client \cap Worker = {}
ASSUME BoundAssumption ==
  /\ Flags \cup BodyFlags \subseteq {"None", "TryExecuteImmediate", "NamedThread"}
  /\ MaxPrereqs \in Nat /\ MaxCaptures \in Nat

VARIABLES
  \* objects in the pools
  state,        \* state[o]: gate_'s ETaskState; "Done" stands for both done states
  dependents,   \* dependents[o]: tasks whose dependency node is in gate_
  refs,         \* refs[o]: RefCount
  prerequires,  \* prerequires[t]: prerequires_
  function,     \* function[t]: function_ is set
  captures,     \* captures[t]: objects function_ holds references to
  flag,         \* flag[t]: flag_
  ready,        \* ready_to_execute_
  readyNamed,   \* ready_to_execute_named
  \* locals of each thread
  pc,           \* where the thread is
  held,         \* TRefCountPtr handles in the frames of user code
  current_task, \* current_task: the task whose function runs
  exec,         \* the task being executed
  inline,       \* exec runs in the call that created it (TryExecuteImmediate)
  new,          \* the task in HandlePrerequires
  todo,         \* its prerequisites not looked at yet
  adding,       \* the prerequisite seen pending, about to be added to
  inactive,     \* the prerequisites found finished (inactive_prereq counts them)
  node,         \* a dependency node for new is acquired and not inserted
  list,         \* tasks of the nodes consumed by Gate::Unblock, not handled yet
  next          \* out_first_ready_dependency of the worker loop

objVars  == <<state, dependents, refs, prerequires, function, captures, flag>>
newVars  == <<new, todo, adding, inactive, node>>
execVars == <<current_task, exec, inline>>
vars == <<objVars, ready, readyNamed, pc, held, execVars, newVars, list, next>>

PCs == {"idle", "prereq", "ready", "start", "body", "unblock", "signal",
        "release", "aborted"}
TaskOrNone == Task \cup {None}

TypeOK ==
  /\ state \in [Object -> {"Pooled", "Pending", "Done"}]
  /\ dependents \in [Object -> SUBSET Task]
  /\ refs \in [Object -> Nat]
  /\ prerequires \in [Task -> Nat]
  /\ function \in [Task -> BOOLEAN]
  /\ captures \in [Task -> SUBSET Object]
  /\ flag \in [Task -> Flags \cup BodyFlags \cup {"None"}]
  /\ ready \subseteq Task
  /\ readyNamed \subseteq Task
  /\ pc \in [Thread -> PCs]
  /\ held \in [Thread -> SUBSET Object]
  /\ current_task \in [Thread -> TaskOrNone]
  /\ exec \in [Thread -> TaskOrNone]
  /\ inline \in [Thread -> BOOLEAN]
  /\ new \in [Thread -> TaskOrNone]
  /\ todo \in [Thread -> SUBSET Object]
  /\ adding \in [Thread -> Object \cup {None}]
  /\ inactive \in [Thread -> SUBSET Object]
  /\ node \in [Thread -> BOOLEAN]
  /\ list \in [Thread -> SUBSET Task]
  /\ next \in [Thread -> TaskOrNone]

Init ==
  /\ state = [o \in Object |-> "Pooled"]
  /\ dependents = [o \in Object |-> {}]
  /\ refs = [o \in Object |-> 0]
  /\ prerequires = [t \in Task |-> 0]
  /\ function = [t \in Task |-> FALSE]
  /\ captures = [t \in Task |-> {}]
  /\ flag = [t \in Task |-> "None"]
  /\ ready = {} /\ readyNamed = {}
  /\ pc = [th \in Thread |-> "idle"]
  /\ held = [th \in Thread |-> {}]
  /\ current_task = [th \in Thread |-> None]
  /\ exec = [th \in Thread |-> None]
  /\ inline = [th \in Thread |-> FALSE]
  /\ new = [th \in Thread |-> None]
  /\ todo = [th \in Thread |-> {}]
  /\ adding = [th \in Thread |-> None]
  /\ inactive = [th \in Thread |-> {}]
  /\ node = [th \in Thread |-> FALSE]
  /\ list = [th \in Thread |-> {}]
  /\ next = [th \in Thread |-> None]
-----------------------------------------------------------------------------
(* Reference counts. *)

\* One reference more to every object of X.
AddRef(X) == refs' = [o \in Object |-> IF o \in X THEN refs[o] + 1 ELSE refs[o]]

\* One reference less to every object of X; those whose count reaches zero
\* go through OnRefCountZero and OnReturnToPool into their pool.
Release(X) ==
  /\ refs' = [o \in Object |-> IF o \in X THEN refs[o] - 1 ELSE refs[o]]
  /\ state' = [o \in Object |-> IF o \in X /\ refs[o] = 1 THEN "Pooled" ELSE state[o]]

\* User code runs in th: between two calls of a client, or inside a function.
User(th) == pc[th] = "body" \/ (pc[th] = "idle" /\ th \in Client)

\* Where a call made by user code returns to.
Caller(th) == IF current_task[th] = None THEN "idle" ELSE "body"

\* InitializeTask returns the handle of the new task.
ReturnNew(th) ==
  /\ new' = [new EXCEPT ![th] = None]
  /\ held' = [held EXCEPT ![th] = @ \cup {new[th]}]
  /\ pc' = [pc EXCEPT ![th] = Caller(th)]

\* The handles user code in th can reach: its own and those its function captured.
Usable(th) == held[th] \cup IF pc[th] = "body" THEN captures[current_task[th]] ELSE {}
-----------------------------------------------------------------------------
(* Creating a task: InitializeTask, Then, ThenRead, ThenConsume. *)

\* The value HandlePrerequires stores to prerequires_.
InitialCountMutant(P) == IF P = {} THEN 0 ELSE Cardinality(P) - 1
InitialCount(P) == Cardinality(P)

\* CreateTask up to the store to prerequires_ in HandlePrerequires: a new
\* pending task behind the gates P, whose function captures the objects C.
CreateTask(th, t, P, C, f) ==
  /\ User(th)
  /\ f \in IF pc[th] = "body" THEN BodyFlags ELSE Flags
  /\ state[t] = "Pooled"
  /\ P \subseteq Usable(th) /\ Cardinality(P) <= MaxPrereqs
  /\ C \subseteq Usable(th) /\ Cardinality(C) <= MaxCaptures
  /\ state' = [state EXCEPT ![t] = "Pending"]
  /\ AddRef({t} \cup C)
  /\ function' = [function EXCEPT ![t] = TRUE]
  /\ captures' = [captures EXCEPT ![t] = C]
  /\ flag' = [flag EXCEPT ![t] = f]
  /\ prerequires' = [prerequires EXCEPT ![t] = InitialCount(P)]
  /\ new' = [new EXCEPT ![th] = t]
  /\ todo' = [todo EXCEPT ![th] = P]
  /\ inactive' = [inactive EXCEPT ![th] = {}]
  /\ pc' = [pc EXCEPT ![th] = IF P = {} THEN "ready" ELSE "prereq"]
  /\ UNCHANGED <<dependents, ready, readyNamed, held, execVars, adding, node, list,
                 next>>

\* One prerequisite of the loop is read: inactive, or a node is wanted for it.
CheckPrereq(th, p) ==
  /\ pc[th] = "prereq" /\ p \in todo[th] /\ adding[th] = None
  /\ todo' = [todo EXCEPT ![th] = @ \ {p}]
  /\ IF state[p] = "Pending"
     THEN /\ adding' = [adding EXCEPT ![th] = p]
          /\ node' = [node EXCEPT ![th] = TRUE]
          /\ AddRef(IF node[th] THEN {} ELSE {new[th]})
          /\ UNCHANGED inactive
     ELSE /\ inactive' = [inactive EXCEPT ![th] = @ \cup {p}]
          /\ UNCHANGED <<adding, node, refs>>
  /\ UNCHANGED <<state, dependents, prerequires, function, captures, flag, ready,
                 readyNamed, pc, held, execVars, new, list, next>>

\* Collection::Add that does not report the gate it found done.
AddDependencyMutant(th) ==
  LET p == adding[th] IN
  /\ pc[th] = "prereq" /\ p # None
  /\ adding' = [adding EXCEPT ![th] = None]
  /\ node' = [node EXCEPT ![th] = @ /\ state[p] # "Pending"]
  /\ dependents' = [dependents EXCEPT ![p] = IF state[p] = "Pending" THEN @ \cup {new[th]} ELSE @]
  /\ UNCHANGED <<state, refs, prerequires, function, captures, flag, ready, inactive,
                 readyNamed, pc, held, execVars, new, todo, list, next>>

\* Collection::Add: the node enters the gate unless the gate is done by now.
AddDependency(th) ==
  LET p == adding[th] IN
  /\ pc[th] = "prereq" /\ p # None
  /\ adding' = [adding EXCEPT ![th] = None]
  /\ IF state[p] = "Pending"
     THEN /\ dependents' = [dependents EXCEPT ![p] = @ \cup {new[th]}]
          /\ node' = [node EXCEPT ![th] = FALSE]
          /\ UNCHANGED inactive
     ELSE /\ inactive' = [inactive EXCEPT ![th] = @ \cup {p}]
          /\ UNCHANGED <<dependents, node>>
  /\ UNCHANGED <<state, refs, prerequires, function, captures, flag, ready,
                 readyNamed, pc, held, execVars, new, todo, list, next>>

\* After the loop: the node that was not used goes back, with its reference,
\* before the inactive prerequisites are taken off the counter.
ReturnNode(th) ==
  /\ pc[th] = "prereq" /\ todo[th] = {} /\ adding[th] = None /\ node[th]
  /\ node' = [node EXCEPT ![th] = FALSE]
  /\ Release({new[th]})
  /\ UNCHANGED <<dependents, prerequires, function, captures, flag, ready, readyNamed,
                 pc, held, execVars, new, todo, adding, inactive, list, next>>

\* The subtraction took the last prerequisites off the counter.
TookLastMutant(th) == prerequires[new[th]] = Cardinality(inactive[th])
TookLast(th) ==
  inactive[th] # {} /\ prerequires[new[th]] = Cardinality(inactive[th])

SubtractInactive(th) ==
  LET t == new[th] IN
  /\ pc[th] = "prereq" /\ todo[th] = {} /\ adding[th] = None /\ ~node[th]
  /\ prerequires' = [prerequires EXCEPT ![t] = @ - Cardinality(inactive[th])]
  /\ inactive' = [inactive EXCEPT ![th] = {}]
  /\ IF TookLast(th)
     THEN /\ pc' = [pc EXCEPT ![th] = "ready"]
          /\ UNCHANGED <<new, held>>
     ELSE ReturnNew(th)
  /\ UNCHANGED <<state, dependents, refs, function, captures, flag, ready, readyNamed,
                 execVars, todo, adding, node, list, next>>

\* OnReadyToExecute: the task and a reference to it enter its ready stack.
Push(t) ==
  IF flag[t] = "NamedThread"
  THEN readyNamed' = readyNamed \cup {t} /\ UNCHANGED ready
  ELSE ready' = ready \cup {t} /\ UNCHANGED readyNamed

\* The stack's entry is not counted as a reference.
PushNewMutant(th) ==
  LET t == new[th] IN
  /\ pc[th] = "ready" /\ flag[t] # "TryExecuteImmediate"
  /\ Push(t)
  /\ ReturnNew(th)
  /\ UNCHANGED <<objVars, execVars, todo, adding, inactive, node, list, next>>

\* ProcessOnReady of HandlePrerequires, for a task pushed on a ready stack.
PushNew(th) ==
  LET t == new[th] IN
  /\ pc[th] = "ready" /\ flag[t] # "TryExecuteImmediate"
  /\ AddRef({t})
  /\ Push(t)
  /\ ReturnNew(th)
  /\ UNCHANGED <<state, dependents, prerequires, function, captures, flag,
                 execVars, todo, adding, inactive, node, list, next>>

\* ProcessOnReady for TryExecuteImmediate: Execute is called here and now, on
\* the creating frame's reference.  Inside a function assert(!current_task) fails.
ExecuteNew(th) ==
  /\ pc[th] = "ready" /\ flag[new[th]] = "TryExecuteImmediate"
  /\ IF current_task[th] = None
     THEN /\ exec' = [exec EXCEPT ![th] = new[th]]
          /\ inline' = [inline EXCEPT ![th] = TRUE]
          /\ new' = [new EXCEPT ![th] = None]
          /\ pc' = [pc EXCEPT ![th] = "start"]
     ELSE /\ pc' = [pc EXCEPT ![th] = "aborted"]
          /\ UNCHANGED <<exec, inline, new>>
  /\ UNCHANGED <<objVars, ready, readyNamed, held, current_task, todo, adding,
                 inactive, node, list, next>>
-----------------------------------------------------------------------------
(* Handles and promise futures, in user code. *)

MakeFuture(th, f) ==
  /\ User(th)
  /\ state[f] = "Pooled"
  /\ state' = [state EXCEPT ![f] = "Pending"]
  /\ AddRef({f})
  /\ held' = [held EXCEPT ![th] = @ \cup {f}]
  /\ UNCHANGED <<dependents, prerequires, function, captures, flag, ready, readyNamed,
                 pc, execVars, newVars, list, next>>

\* A program gives up a future it promised only if no task waits behind it yet
\* (the task would wait for ever).
MayDrop(o) == o \in Future => state[o] = "Done" \/ dependents[o] = {}

\* A handle is destroyed.
DropHandle(th, o) ==
  /\ User(th)
  /\ o \in held[th]
  /\ MayDrop(o)
  /\ held' = [held EXCEPT ![th] = @ \ {o}]
  /\ Release({o})
  /\ UNCHANGED <<dependents, prerequires, function, captures, flag, ready, readyNamed,
                 pc, execVars, newVars, list, next>>

\* A function gives up a captured reference before it ends (source = nullptr
\* in ThenConsume).
DropCapture(th, o) ==
  /\ pc[th] = "body"
  /\ o \in captures[current_task[th]]
  /\ MayDrop(o)
  /\ captures' = [captures EXCEPT ![current_task[th]] = @ \ {o}]
  /\ Release({o})
  /\ UNCHANGED <<dependents, prerequires, function, flag, ready, readyNamed,
                 pc, held, execVars, newVars, list, next>>

\* The gate's nodes are taken, the gate stays open.
ConsumeAllMutant(th, o) ==
  /\ list' = [list EXCEPT ![th] = dependents[o]]
  /\ dependents' = [dependents EXCEPT ![o] = {}]
  /\ UNCHANGED state

\* Collection::ConsumeAll: the gate is done, its nodes are th's to handle.
ConsumeAll(th, o) ==
  /\ state' = [state EXCEPT ![o] = "Done"]
  /\ list' = [list EXCEPT ![th] = dependents[o]]
  /\ dependents' = [dependents EXCEPT ![o] = {}]

\* Future::Done; that it is called once per future is the program's part.
FutureDone(th, f) ==
  /\ User(th)
  /\ f \in Usable(th) /\ state[f] = "Pending"
  /\ ConsumeAll(th, f)
  /\ pc' = [pc EXCEPT ![th] = "signal"]
  /\ UNCHANGED <<refs, prerequires, function, captures, flag, ready, readyNamed,
                 held, execVars, newVars, next>>

FutureDoneReturns(th) ==
  /\ pc[th] = "signal" /\ list[th] = {}
  /\ pc' = [pc EXCEPT ![th] = Caller(th)]
  /\ UNCHANGED <<objVars, ready, readyNamed, held, execVars, newVars, list, next>>
-----------------------------------------------------------------------------
(* Executing a task: the worker loop, ExecuteATask and BaseTask::Execute. *)

Take(th, t) ==
  /\ exec' = [exec EXCEPT ![th] = t]
  /\ pc' = [pc EXCEPT ![th] = "start"]
  /\ UNCHANGED <<objVars, held, current_task, inline, newVars, list, next>>

Pop(w, t) ==
  /\ pc[w] = "idle" /\ t \in ready
  /\ ready' = ready \ {t}
  /\ Take(w, t)
  /\ UNCHANGED readyNamed

\* ExecuteATask, called by a client outside any task.
ExecuteATask(c, t) ==
  /\ pc[c] = "idle" /\ t \in readyNamed
  /\ readyNamed' = readyNamed \ {t}
  /\ Take(c, t)
  /\ UNCHANGED ready

StartFunction(th) ==
  /\ pc[th] = "start"
  /\ current_task' = [current_task EXCEPT ![th] = exec[th]]
  /\ pc' = [pc EXCEPT ![th] = "body"]
  /\ UNCHANGED <<objVars, ready, readyNamed, held, exec, inline, newVars, list, next>>

\* The function returns (its frames are gone) and the gate is unblocked.
EndFunction(th) ==
  /\ pc[th] = "body"
  /\ th \in Worker => held[th] = {}
  /\ \A o \in captures[exec[th]] : MayDrop(o)
  /\ current_task' = [current_task EXCEPT ![th] = None]
  /\ ConsumeAll(th, exec[th])
  /\ pc' = [pc EXCEPT ![th] = "unblock"]
  /\ UNCHANGED <<refs, prerequires, function, captures, flag, ready, readyNamed,
                 held, exec, inline, newVars, next>>

\* The decrement of prerequires_ reaches zero.
LastDecrementMutant(t) == prerequires[t] <= 2
LastDecrement(t) == prerequires[t] = 1

\* OnUnblocked for one node of the consumed list: the counter goes down and
\* the last decrement moves the node's reference to next or to a ready stack.
OnUnblocked(th, t) ==
  /\ pc[th] \in {"unblock", "signal"} /\ t \in list[th]
  /\ list' = [list EXCEPT ![th] = @ \ {t}]
  /\ prerequires' = [prerequires EXCEPT ![t] = @ - 1]
  /\ \/ /\ ~LastDecrement(t)
        /\ Release({t})
        /\ UNCHANGED <<ready, readyNamed, next>>
     \/ /\ LastDecrement(t)
        /\ IF /\ pc[th] = "unblock" /\ th \in Worker
              /\ next[th] = None /\ flag[t] # "NamedThread"
           THEN next' = [next EXCEPT ![th] = t] /\ UNCHANGED <<ready, readyNamed>>
           ELSE Push(t) /\ UNCHANGED next
        /\ UNCHANGED <<refs, state>>
  /\ UNCHANGED <<dependents, function, captures, flag, pc, held, execVars, newVars>>

ClearFunctionMutant(th) ==
  LET t == exec[th] IN
  /\ pc[th] = "unblock" /\ list[th] = {}
  /\ captures' = [captures EXCEPT ![t] = {}]
  /\ Release(captures[t])
  /\ pc' = [pc EXCEPT ![th] = "release"]
  /\ UNCHANGED <<dependents, prerequires, function, flag, ready, readyNamed, held,
                 execVars, newVars, list, next>>

\* function_ = nullptr, after the gate is unblocked: the captures are released.
ClearFunction(th) ==
  LET t == exec[th] IN
  /\ pc[th] = "unblock" /\ list[th] = {}
  /\ function' = [function EXCEPT ![t] = FALSE]
  /\ captures' = [captures EXCEPT ![t] = {}]
  /\ Release(captures[t])
  /\ pc' = [pc EXCEPT ![th] = "release"]
  /\ UNCHANGED <<dependents, prerequires, flag, ready, readyNamed, held, execVars,
                 newVars, list, next>>

\* task = std::move(next) of the loop, Release of ExecuteATask, or the return
\* of InitializeTask, which passes the creating frame's reference on.
EndExecute(th) ==
  /\ pc[th] = "release"
  /\ IF inline[th]
     THEN /\ held' = [held EXCEPT ![th] = @ \cup {exec[th]}]
          /\ UNCHANGED <<refs, state>>
     ELSE /\ Release({exec[th]})
          /\ UNCHANGED held
  /\ inline' = [inline EXCEPT ![th] = FALSE]
  /\ exec' = [exec EXCEPT ![th] = next[th]]
  /\ next' = [next EXCEPT ![th] = None]
  /\ pc' = [pc EXCEPT ![th] = IF next[th] = None THEN "idle" ELSE "start"]
  /\ UNCHANGED <<dependents, prerequires, function, captures, flag, ready, readyNamed,
                 current_task, newVars, list>>
-----------------------------------------------------------------------------
UserStep(th) ==
  \/ \E t \in Task, P, C \in SUBSET Usable(th),
        f \in Flags \cup BodyFlags : CreateTask(th, t, P, C, f)
  \/ \E f \in Future : MakeFuture(th, f) \/ FutureDone(th, f)
  \/ \E o \in Object : DropHandle(th, o) \/ DropCapture(th, o)

SystemStep(th) ==
  \/ \E p \in Object : CheckPrereq(th, p)
  \/ AddDependency(th) \/ ReturnNode(th) \/ SubtractInactive(th)
  \/ PushNew(th) \/ ExecuteNew(th) \/ FutureDoneReturns(th)
  \/ StartFunction(th) \/ EndFunction(th)
  \/ \E t \in Task : OnUnblocked(th, t)
  \/ ClearFunction(th) \/ EndExecute(th)

Next ==
  \/ \E th \in Thread : UserStep(th) \/ SystemStep(th)
  \/ \E w \in Worker, t \in Task : Pop(w, t)
  \/ \E c \in Client, t \in Task : ExecuteATask(c, t)

Spec == Init /\ [][Next]_vars
-----------------------------------------------------------------------------
(* What the counters count. *)

In(o, queue) == IF o \in queue THEN 1 ELSE 0

\* The threads, tasks and gates that refer to o, by the way they do.
Holders(o)   == {th \in Thread : o \in held[th]}
Capturers(o) == {t \in Task : o \in captures[t]}
Gates(o)     == {p \in Object : o \in dependents[p]}
Lists(o)     == {th \in Thread : o \in list[th]}
Nodes(o)     == {th \in Thread : new[th] = o /\ node[th]}
Creators(o)  == {th \in Thread : new[th] = o}
Nexts(o)     == {th \in Thread : next[th] = o}
Executors(o) == {th \in Thread : exec[th] = o}

\* The creators of t that are about to push or execute it.
Pushers(t) == {th \in Creators(t) : pc[th] \in {"ready", "aborted"}}

\* How many references to o exist in the program.
RefsTo(o) ==
  Cardinality(Holders(o)) + Cardinality(Capturers(o))
  + Cardinality(Gates(o)) + Cardinality(Lists(o)) + Cardinality(Nodes(o))
  + Cardinality(Creators(o)) + Cardinality(Nexts(o)) + Cardinality(Executors(o))
  + In(o, ready) + In(o, readyNamed)

\* The prerequisites that a creator has not added to a gate.
Unsettled(th) == todo[th] \cup inactive[th] \cup ({adding[th]} \ {None})
UnsettledOf(t) == {p \in Object : \E th \in Creators(t) : p \in Unsettled(th)}

\* How many decrements prerequires[t] waits for: of a gate that holds t's node,
\* of a thread that consumed it, of the creator for a gate t was not added to.
Owed(t) == Cardinality(Gates(t)) + Cardinality(Lists(t)) + Cardinality(UnsettledOf(t))

\* In how many places t waits to be run: in a ready stack, or with a thread that
\* will push it or run it.
Scheduled(t) ==
  In(t, ready) + In(t, readyNamed) + Cardinality(Nexts(t))
  + Cardinality(Pushers(t))
  + Cardinality({th \in Executors(t) : pc[th] = "start"})

\* The gates t was created behind that have not finished.
NeedsOf(t) ==
  {p \in Object : state[p] = "Pending" /\
     (t \in dependents[p] \/ \E th \in Thread : new[th] = t /\ p \in Unsettled(th))}

\* t's function has started and its gate is not unblocked yet.
Running(t) == \E th \in Thread : current_task[th] = t
-----------------------------------------------------------------------------
(* Properties. *)

\* prerequires_ is exact at every step of creators, finishing prerequisites
\* and workers: no unblocking is counted twice, none is forgotten.
CounterExact == \A t \in Task : prerequires[t] = Owed(t)

\* RefCount is exact, so that Release destroys an object with its last
\* reference, neither before (use after free) nor never (leak).
RefsExact == \A o \in Object : refs[o] = RefsTo(o)

\* The asserts of OnRefCountZero, OnReturnToPool and CreateTask: an object is in
\* its pool exactly while nothing refers to it, with an empty gate and, for a
\* task, with neither function nor captures.
PooledClean ==
  /\ \A o \in Object : state[o] = "Pooled" <=> refs[o] = 0
  /\ \A o \in Object : state[o] # "Pending" => dependents[o] = {}
  /\ \A t \in Task : state[t] = "Pooled" => ~function[t] /\ captures[t] = {}

\* When Execute begins, all gates its task was created behind have finished, and
\* Execute's asserts on gate, counter, function and references hold.
StartsReady ==
  \A th \in Thread : pc[th] = "start" =>
    LET t == exec[th] IN
      /\ NeedsOf(t) = {}
      /\ state[t] = "Pending" /\ prerequires[t] = 0 /\ function[t] /\ refs[t] > 0
      /\ current_task[th] = None

\* A task whose function has not started waits for a decrement or is scheduled,
\* once: it is never lost and never queued or taken twice.
ScheduledOnce ==
  \A t \in Task :
    IF state[t] = "Pending" /\ ~Running(t)
    THEN Scheduled(t) = IF Owed(t) = 0 THEN 1 ELSE 0
    ELSE Scheduled(t) = 0

\* The task graph TaskGraph promises.
Phase ==
  [o \in Object |->
     CASE state[o] = "Pooled" -> "free"
       [] state[o] = "Done" -> "finished"
       [] OTHER -> IF o \in Task /\ Running(o) THEN "running" ELSE "waiting"]

Graph == INSTANCE TaskGraph WITH phase <- Phase, needs <- [t \in Task |-> NeedsOf(t)]

\* Every step of the system is a step the task graph allows, or changes
\* nothing there: in particular a task starts once, after all its needs.
ImplementsTaskGraph == Graph!GraphSpec
=============================================================================
