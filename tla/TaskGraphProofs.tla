-------------------------- MODULE TaskGraphProofs --------------------------
(***************************************************************************)
(* TaskSystem implements TaskGraph: for every number of tasks, futures and *)
(* threads, each step of creators, finishing tasks and workers is one step *)
(* of the task graph the callers are promised, or changes nothing there.   *)
(***************************************************************************)
EXTENDS TaskSystemProofs

\* A prerequisite counted as inactive stays finished: its creator holds it, so
\* that no other task or future takes its slot.
InactiveFinished == \A th \in Thread : \A p \in inactive[th] : state[p] # "Pending"

RefinementInv == SystemInv /\ InactiveFinished

Needs == [t \in Task |-> NeedsOf(t)]
-----------------------------------------------------------------------------
(* The refinement mapping, object by object. *)

PhaseFollowsState ==
  /\ Phase = [o \in Object |-> Phase[o]]
  /\ \A o \in Object :
       /\ state[o] = "Pooled" => Phase[o] = "free"
       /\ state[o] = "Done" => Phase[o] = "finished"
       /\ state[o] = "Pending" /\ ~(o \in Task /\ Running(o)) => Phase[o] = "waiting"
       /\ state[o] = "Pending" /\ o \in Task /\ Running(o) => Phase[o] = "running"

LEMMA PhaseValues == PhaseFollowsState /\ PhaseFollowsState'
<1>1. PhaseFollowsState
  BY DEF PhaseFollowsState, Phase
<1>2. PhaseFollowsState'
  BY <1>1, PTL
<1> QED
  BY <1>1, <1>2

\* Every object is in one of the three states, before and after a step.
LEMMA StateTypes ==
  ASSUME SystemInv, SystemInv'
  PROVE  /\ \A o \in Object : /\ state[o] \in {"Pooled", "Pending", "Done"}
                              /\ state'[o] \in {"Pooled", "Pending", "Done"}
         /\ Task \subseteq Object /\ Future \subseteq Object /\ Task \cap Future = {}
         /\ None \notin Object
<1> QED
  BY PoolAssumption DEF SystemInv, TypeOK, Object

\* Where the gate does not change and the function neither starts nor ends, the
\* phase stays.
LEMMA SamePhase ==
  ASSUME SystemInv, SystemInv', NEW o \in Object, state'[o] = state[o],
         o \in Task => (Running(o)' <=> Running(o))
  PROVE  Phase'[o] = Phase[o]
<1> QED
  BY PhaseValues, StateTypes DEF PhaseFollowsState

LEMMA PhaseStep ==
  ASSUME NEW x \in Object, \A o \in Object : o # x => Phase'[o] = Phase[o]
  PROVE  Phase' = [Phase EXCEPT ![x] = Phase'[x]]
<1> QED
  BY PhaseValues DEF PhaseFollowsState

LEMMA PhaseStutter ==
  ASSUME \A o \in Object : Phase'[o] = Phase[o]
  PROVE  Phase' = Phase
<1> QED
  BY PhaseValues DEF PhaseFollowsState

LEMMA RunningKept ==
  ASSUME UNCHANGED current_task
  PROVE  \A t \in Task : Running(t)' <=> Running(t)
<1> QED
  BY DEF Running

\* What the creators still have to settle for t, and the gates that hold t's
\* node, make its needs; the rest of the state does not matter.
LEMMA NeedsMember ==
  \A t \in Task, p \in Object :
    p \in NeedsOf(t) <=>
      /\ state[p] = "Pending"
      /\ t \in dependents[p] \/ \E th \in Thread : new[th] = t /\ p \in Unsettled(th)
<1> QED
  BY DEF NeedsOf

LEMMA NeedsExtent ==
  /\ \A t \in Task : NeedsOf(t) \subseteq Object /\ NeedsOf(t)' \subseteq Object
  /\ Needs' = [t \in Task |-> NeedsOf(t)']
<1> QED
  BY DEF NeedsOf, Needs

\* A waiting creator reaches what it has to settle, so that is no object of the
\* pool; and no task of the pool depends on anything.
LEMMA SettledAlive ==
  ASSUME SystemInv, NEW o \in Object, state[o] = "Pooled"
  PROVE  /\ \A t \in Task : o \notin NeedsOf(t)
         /\ \A th \in Thread : o \notin Unsettled(th)
         /\ dependents[o] = {}
<1>1. Holders(o) = {} /\ Capturers(o) = {} /\ dependents[o] = {}
  BY PooledUnreferenced DEF SystemInv, PooledClean
<1>2. ASSUME NEW th \in Thread, o \in Unsettled(th) PROVE FALSE
  <2>1. o \in held[th] \/ (exec[th] # None /\ o \in captures[exec[th]])
    BY <1>2 DEF SystemInv, CreatorHolds
  <2>2. exec[th] # None => exec[th] \in Task
    BY ExecutorAlone
  <2> QED
    BY <1>1, <2>1, <2>2 DEF Holders, Capturers
<1> QED
  BY <1>1, <1>2 DEF NeedsOf
-----------------------------------------------------------------------------
(* The inductive invariant of the refinement. *)

LEMMA InactiveFinishedStep ==
  ASSUME RefinementInv, SystemInv', [Next]_vars
  PROVE  InactiveFinished'
<1>1. /\ \A th \in Thread : /\ inactive[th] \subseteq Object /\ inactive'[th] \subseteq Object
                           /\ inactive[th] \subseteq Unsettled(th)
      /\ InactiveFinished /\ TypeOK /\ None \notin Object /\ SystemInv
      /\ Task \subseteq Object /\ Future \subseteq Object
  BY PoolAssumption DEF RefinementInv, SystemInv, TypeOK, Unsettled, Object
<1>2. ASSUME \A th \in Thread : \A p \in inactive'[th] : p \in inactive[th] \/ state[p] # "Pending",
             \A p \in Object : state'[p] = "Pending" => state[p] \in {"Pending", "Pooled"},
             \A p \in Object : state'[p] = "Pending" /\ state[p] # "Pending" =>
               \A th \in Thread : p \notin inactive'[th]
      PROVE  InactiveFinished'
  BY <1>1, <1>2 DEF InactiveFinished
<1>3. ASSUME UNCHANGED inactive,
             \A p \in Object : state'[p] = "Pending" => state[p] \in {"Pending", "Pooled"}
      PROVE  InactiveFinished'
  BY <1>1, <1>2, <1>3, SettledAlive DEF InactiveFinished
<1>4. ASSUME UNCHANGED state,
             \A th \in Thread : \A p \in inactive'[th] : p \in inactive[th] \/ state[p] # "Pending"
      PROVE  InactiveFinished'
  BY <1>1, <1>4 DEF InactiveFinished
<1>5. ASSUME UNCHANGED inactive, NEW X, Release(X)
      PROVE  InactiveFinished'
  BY <1>1, <1>3, <1>5 DEF Release
<1>6. ASSUME NEW th \in Thread, NEW t \in Task, NEW P \in SUBSET Usable(th),
             NEW C \in SUBSET Usable(th), NEW f, CreateTask(th, t, P, C, f)
      PROVE  InactiveFinished'
  BY <1>1, <1>6, SettledAlive DEF CreateTask, InactiveFinished, TypeOK
<1>7. ASSUME NEW th \in Thread, NEW f \in Future, MakeFuture(th, f)
      PROVE  InactiveFinished'
  BY <1>1, <1>3, <1>7 DEF MakeFuture, newVars, TypeOK
<1>8. ASSUME NEW th \in Thread, NEW o \in Object, ConsumeAll(th, o), UNCHANGED inactive
      PROVE  InactiveFinished'
  BY <1>1, <1>3, <1>8 DEF ConsumeAll, TypeOK
<1>9. ASSUME NEW th \in Thread, NEW f \in Future, FutureDone(th, f)
      PROVE  InactiveFinished'
  BY <1>1, <1>8, <1>9 DEF FutureDone, newVars
<1>10. ASSUME NEW th \in Thread, EndFunction(th)
       PROVE  InactiveFinished'
  <2>1. exec[th] \in Object
    BY <1>1, <1>10 DEF EndFunction, SystemInv, ExecFollowsPc, InExecute, TypeOK, TaskOrNone
  <2> QED
    BY <1>8, <1>10, <2>1 DEF EndFunction, newVars
<1>11. ASSUME NEW th \in Thread, NEW p \in Object, CheckPrereq(th, p)
       PROVE  InactiveFinished'
  <2>1. UNCHANGED state
    BY <1>11 DEF CheckPrereq
  <2>2. CASE state[p] = "Pending"
    BY <1>4, <1>11, <2>1, <2>2 DEF CheckPrereq
  <2>3. CASE state[p] # "Pending"
    <3>1. inactive' = [inactive EXCEPT ![th] = @ \cup {p}]
      BY <1>11, <2>3 DEF CheckPrereq
    <3>2. \A x \in Thread : inactive'[x] \subseteq inactive[x] \cup {p}
      BY <1>1, <3>1 DEF TypeOK
    <3> QED
      BY <1>4, <2>1, <2>3, <3>2
  <2> QED
    BY <2>2, <2>3
<1>12. ASSUME NEW th \in Thread, AddDependency(th)
       PROVE  InactiveFinished'
  <2>1. UNCHANGED state
    BY <1>12 DEF AddDependency
  <2>2. ASSUME NEW x \in Thread, NEW p \in inactive'[x]
        PROVE  p \in inactive[x] \/ state[p] # "Pending"
    <3>1. \/ UNCHANGED inactive
          \/ /\ state[adding[th]] # "Pending"
             /\ inactive' = [inactive EXCEPT ![th] = @ \cup {adding[th]}]
      BY <1>12 DEF AddDependency
    <3>2. inactive \in [Thread -> SUBSET Object]
      BY <1>1 DEF TypeOK
    <3> QED
      BY <2>2, <3>1, <3>2
  <2> QED
    BY <1>4, <2>1, <2>2
<1>13. ASSUME NEW th \in Thread, SubtractInactive(th)
       PROVE  InactiveFinished'
  BY <1>1, <1>4, <1>13 DEF SubtractInactive, TypeOK
<1>14. ASSUME NEW th \in Thread,
              \/ \E o \in Object : DropHandle(th, o) \/ DropCapture(th, o)
              \/ ReturnNode(th) \/ ClearFunction(th)
       PROVE  InactiveFinished'
  BY <1>5, <1>14 DEF DropHandle, DropCapture, ReturnNode, ClearFunction, newVars
<1>15. ASSUME NEW th \in Thread, EndExecute(th) \/ \E t \in Task : OnUnblocked(th, t)
       PROVE  InactiveFinished'
  <2>1. UNCHANGED inactive /\ (UNCHANGED state \/ \E X : Release(X))
    BY <1>15 DEF EndExecute, OnUnblocked, newVars
  <2> QED
    BY <1>4, <1>5, <2>1
<1>16. ASSUME NEW th \in Thread,
              \/ PushNew(th) \/ ExecuteNew(th) \/ FutureDoneReturns(th) \/ StartFunction(th)
              \/ \E t \in Task : Pop(th, t) \/ ExecuteATask(th, t)
       PROVE  InactiveFinished'
  BY <1>4, <1>16
  DEF PushNew, ExecuteNew, FutureDoneReturns, StartFunction, Pop, ExecuteATask, Take, objVars,
      newVars
<1>17. UNCHANGED vars => InactiveFinished'
  BY <1>4 DEF vars, objVars, newVars
<1> QED
  BY <1>6, <1>7, <1>9, <1>10, <1>11, <1>12, <1>13, <1>14, <1>15, <1>16, <1>17
  DEF Next, UserStep, SystemStep, Thread

LEMMA RefinementInvariance == Spec => []RefinementInv
<1>1. Init => InactiveFinished
  BY DEF Init, InactiveFinished
<1>2. RefinementInv /\ SystemInv' /\ [Next]_vars => InactiveFinished'
  BY InactiveFinishedStep
<1>3. Init => SystemInv
  BY InitInv
<1> QED
  BY <1>1, <1>2, <1>3, Invariance, PTL DEF Spec, RefinementInv
-----------------------------------------------------------------------------
(* What each step is in the task graph. *)

LEMMA NeedsKept ==
  ASSUME \A t \in Task, p \in Object : p \in NeedsOf(t)' <=> p \in NeedsOf(t)
  PROVE  Needs' = Needs
<1>1. \A t \in Task : NeedsOf(t)' = NeedsOf(t)
  BY NeedsExtent
<1> QED
  BY <1>1, NeedsExtent DEF Needs

\* What a step does to the needs, from what it does to the gates and to what the
\* creators have to settle.
LEMMA NeedsNext ==
  \A t \in Task, p \in Object :
    p \in NeedsOf(t)' <=>
      /\ state'[p] = "Pending"
      /\ t \in dependents'[p] \/ \E th \in Thread : new'[th] = t /\ p \in Unsettled(th)'
<1> QED
  BY DEF NeedsOf

LEMMA UnsettledNext ==
  \A th \in Thread :
    Unsettled(th)' = todo'[th] \cup inactive'[th] \cup ({adding'[th]} \ {None})
<1> QED
  BY DEF Unsettled

\* CreateTask puts a new task behind the gates of P that have not finished yet.
LEMMA CreateTaskIsNewTask ==
  ASSUME RefinementInv, SystemInv', NEW th \in Thread, NEW t \in Task,
         NEW P \in SUBSET Usable(th), NEW C \in SUBSET Usable(th), NEW f,
         CreateTask(th, t, P, C, f)
  PROVE  P \in SUBSET Object /\ Graph!NewTask(t, P)
<1>1. /\ SystemInv /\ TypeOK /\ None \notin Object /\ Task \subseteq Object /\ t \in Object
      /\ \A o \in Object : state[o] \in {"Pooled", "Pending", "Done"}
  BY StateTypes DEF RefinementInv, SystemInv, TypeOK
<1>2. \A p \in P : p \in Object /\ state[p] # "Pooled"
  BY <1>1, UsableAlive DEF CreateTask
<1>3. /\ state[t] = "Pooled" /\ state' = [state EXCEPT ![t] = "Pending"]
      /\ UNCHANGED <<current_task, dependents, adding>>
      /\ new' = [new EXCEPT ![th] = t] /\ todo' = [todo EXCEPT ![th] = P]
      /\ inactive' = [inactive EXCEPT ![th] = {}]
  BY DEF CreateTask, execVars
<1>4. new[th] = None /\ adding[th] = None /\ Unsettled(th) = {}
  BY <1>1 DEF CreateTask, User, SystemInv, LocalsFollowPc, Unsettled
<1>5. /\ \A x \in Thread : new[x] # t /\ exec[x] # t /\ t \notin Unsettled(x)
      /\ dependents[t] = {} /\ \A p \in Object : t \notin dependents[p]
  BY <1>1, <1>3, PooledUnreferenced, SettledAlive DEF Creators, Executors, Gates
<1>6. /\ Unsettled(th)' = P
      /\ \A x \in Thread : x # th => Unsettled(x)' = Unsettled(x)
  BY <1>1, <1>3, <1>4, UnsettledNext DEF Unsettled, TypeOK
<1>7. Phase' = [Phase EXCEPT ![t] = "waiting"]
  <2>1. ~Running(t)'
    BY <1>1, <1>3, <1>5, PoolAssumption DEF Running, SystemInv, ExecFollowsPc
  <2>2. Phase'[t] = "waiting"
    BY <1>1, <1>3, <2>1, PhaseValues DEF PhaseFollowsState, TypeOK
  <2>3. \A o \in Object : o # t => Phase'[o] = Phase[o]
    BY <1>1, <1>3, SamePhase, RunningKept DEF TypeOK
  <2> QED
    BY <1>1, <2>2, <2>3, PhaseStep
<1>8. Phase[t] = "free" /\ \A p \in P : Phase[p] # "free" /\ (Graph!Unfinished(p) <=> state[p] = "Pending")
  BY <1>1, <1>2, <1>3, PhaseValues DEF PhaseFollowsState, Graph!Unfinished
<1>9. NeedsOf(t)' = {p \in P : Graph!Unfinished(p)}
  <2>1. ASSUME NEW p \in Object
        PROVE  p \in NeedsOf(t)' <=> p \in P /\ state[p] = "Pending"
    BY <1>1, <1>2, <1>3, <1>5, <1>6, NeedsNext DEF TypeOK
  <2> QED
    BY <1>2, <1>8, <2>1, NeedsExtent
<1>10. ASSUME NEW x \in Task, x # t PROVE NeedsOf(x)' = NeedsOf(x)
  <2>1. ASSUME NEW p \in Object
        PROVE  p \in NeedsOf(x)' <=> p \in NeedsOf(x)
    <3>1. \A y \in Thread : (new'[y] = x <=> new[y] = x) /\ (new[y] = x => Unsettled(y)' = Unsettled(y))
      BY <1>1, <1>3, <1>4, <1>6, <1>10 DEF TypeOK
    <3>2. p # t => state'[p] = state[p]
      BY <1>1, <1>3 DEF TypeOK
    <3>3. CASE p = t
      BY <1>3, <1>5, <3>1, <3>3, NeedsNext, NeedsMember
    <3>4. CASE p # t
      BY <1>3, <3>1, <3>2, <3>4, NeedsNext, NeedsMember
    <3> QED
      BY <3>3, <3>4
  <2> QED
    BY <1>10, <2>1, NeedsExtent
<1>11. Needs' = [Needs EXCEPT ![t] = {p \in P : Graph!Unfinished(p)}]
  BY <1>9, <1>10, NeedsExtent DEF Needs
<1> QED
  BY <1>2, <1>7, <1>8, <1>11 DEF Graph!NewTask, Needs

\* A gate that stays as it is stays a need of the same tasks.
LEMMA NeedsFrame ==
  ASSUME UNCHANGED <<dependents, new, todo, adding, inactive>>,
         NEW p \in Object, state'[p] = "Pending" <=> state[p] = "Pending"
  PROVE  \A t \in Task : p \in NeedsOf(t)' <=> p \in NeedsOf(t)
<1> QED
  BY DEF NeedsOf, Unsettled

LEMMA MakeFutureIsNewFuture ==
  ASSUME RefinementInv, SystemInv', NEW th \in Thread, NEW f \in Future, MakeFuture(th, f)
  PROVE  Graph!NewFuture(f)
<1>1. /\ SystemInv /\ TypeOK /\ f \in Object /\ f \notin Task
  BY StateTypes DEF RefinementInv, SystemInv
<1>2. /\ state[f] = "Pooled" /\ state' = [state EXCEPT ![f] = "Pending"]
      /\ UNCHANGED <<current_task, dependents, new, todo, adding, inactive>>
  BY DEF MakeFuture, execVars, newVars
<1>3. Phase[f] = "free" /\ Phase' = [Phase EXCEPT ![f] = "waiting"]
  <2>1. Phase'[f] = "waiting"
    BY <1>1, <1>2, PhaseValues DEF PhaseFollowsState, TypeOK
  <2>2. \A o \in Object : o # f => Phase'[o] = Phase[o]
    BY <1>1, <1>2, SamePhase, RunningKept DEF TypeOK
  <2> QED
    BY <1>1, <1>2, <2>1, <2>2, PhaseStep, PhaseValues DEF PhaseFollowsState
<1>4. Needs' = Needs
  <2>1. ASSUME NEW t \in Task, NEW p \in Object
        PROVE  p \in NeedsOf(t)' <=> p \in NeedsOf(t)
    <3>1. CASE p = f
      BY <1>1, <1>2, <3>1, SettledAlive, NeedsMember, NeedsNext DEF Unsettled
    <3>2. CASE p # f
      BY <1>1, <1>2, <3>2, NeedsFrame DEF TypeOK
    <3> QED
      BY <3>1, <3>2
  <2> QED
    BY <2>1, NeedsKept
<1> QED
  BY <1>3, <1>4 DEF Graph!NewFuture, Needs

\* Gate::Unblock settles the gate: nothing needs it any longer.
LEMMA ConsumeAllSettles ==
  ASSUME RefinementInv, SystemInv', NEW th \in Thread, NEW o \in Object, ConsumeAll(th, o),
         UNCHANGED <<new, todo, adding, inactive>>,
         \A t \in Task : t # o => (Running(t)' <=> Running(t))
  PROVE  Graph!Settle(o)
<1>1. /\ SystemInv /\ TypeOK /\ Task \subseteq Object
  BY StateTypes DEF RefinementInv, SystemInv
<1>2. /\ state' = [state EXCEPT ![o] = "Done"]
      /\ dependents' = [dependents EXCEPT ![o] = {}]
  BY DEF ConsumeAll
<1>3. Phase' = [Phase EXCEPT ![o] = "finished"]
  <2>1. Phase'[o] = "finished"
    BY <1>1, <1>2, PhaseValues DEF PhaseFollowsState, TypeOK
  <2>2. \A x \in Object : x # o => Phase'[x] = Phase[x]
    BY <1>1, <1>2, SamePhase DEF TypeOK
  <2> QED
    BY <2>1, <2>2, PhaseStep
<1>4. ASSUME NEW t \in Task PROVE NeedsOf(t)' = NeedsOf(t) \ {o}
  <2>1. ASSUME NEW p \in Object
        PROVE  p \in NeedsOf(t)' <=> p \in NeedsOf(t) /\ p # o
    <3>1. CASE p = o
      BY <1>1, <1>2, <3>1, NeedsNext DEF TypeOK
    <3>2. CASE p # o
      <4>1. state'[p] = state[p] /\ dependents'[p] = dependents[p]
        BY <1>1, <1>2, <3>2 DEF TypeOK
      <4> QED
        BY <3>2, <4>1, NeedsNext, NeedsMember DEF Unsettled
    <3> QED
      BY <3>1, <3>2
  <2> QED
    BY <2>1, NeedsExtent
<1>5. Needs' = [t \in Task |-> Needs[t] \ {o}]
  BY <1>4, NeedsExtent DEF Needs
<1> QED
  BY <1>3, <1>5 DEF Graph!Settle, Needs

LEMMA FutureDoneIsComplete ==
  ASSUME RefinementInv, SystemInv', NEW th \in Thread, NEW f \in Future, FutureDone(th, f)
  PROVE  Graph!Complete(f)
<1>1. f \in Object /\ f \notin Task /\ state[f] = "Pending" /\ ConsumeAll(th, f)
  BY StateTypes DEF RefinementInv, FutureDone
<1>2. UNCHANGED <<new, todo, adding, inactive, current_task>>
  BY DEF FutureDone, newVars, execVars
<1>3. Graph!Settle(f)
  BY <1>1, <1>2, ConsumeAllSettles, RunningKept
<1>4. Phase[f] = "waiting"
  BY <1>1, PhaseValues DEF PhaseFollowsState
<1> QED
  BY <1>3, <1>4 DEF Graph!Complete

\* Only the function of the thread's own task starts or ends with current_task.
LEMMA RunningElsewhere ==
  ASSUME SystemInv, NEW th \in Thread, exec[th] # None,
         \A x \in Thread : x # th => current_task'[x] = current_task[x],
         current_task'[th] \in {exec[th], None}
  PROVE  \A t \in Task : t # exec[th] => (Running(t)' <=> Running(t))
<1>1. \A x \in Thread : current_task[x] \in {exec[x], None}
  BY DEF SystemInv, ExecFollowsPc
<1>2. None \notin Task
  BY PoolAssumption DEF Object
<1> QED
  BY <1>1, <1>2 DEF Running

LEMMA EndFunctionIsFinish ==
  ASSUME RefinementInv, SystemInv', NEW th \in Thread, EndFunction(th)
  PROVE  exec[th] \in Task /\ Graph!Finish(exec[th])
<1>1. /\ SystemInv /\ exec[th] # None /\ exec[th] \in Task /\ exec[th] \in Object
      /\ current_task[th] = exec[th] /\ state[exec[th]] = "Pending"
  BY ExecutorAlone
  DEF EndFunction, RefinementInv, SystemInv, ExecFollowsPc, ExecutionStages, InExecute
<1>2. /\ ConsumeAll(th, exec[th]) /\ UNCHANGED <<new, todo, adding, inactive>>
      /\ current_task' = [current_task EXCEPT ![th] = None]
  BY DEF EndFunction, newVars
<1>3. current_task \in [Thread -> TaskOrNone]
  BY <1>1 DEF SystemInv, TypeOK
<1>4. \A t \in Task : t # exec[th] => (Running(t)' <=> Running(t))
  BY <1>1, <1>2, <1>3, RunningElsewhere
<1>5. Graph!Settle(exec[th])
  BY <1>1, <1>2, <1>4, ConsumeAllSettles
<1>6. Phase[exec[th]] = "running"
  BY <1>1, PhaseValues DEF PhaseFollowsState, Running
<1> QED
  BY <1>1, <1>5, <1>6 DEF Graph!Finish

\* A function starts with all the needs of its task settled, for the first time.
LEMMA StartFunctionIsStart ==
  ASSUME RefinementInv, SystemInv', NEW th \in Thread, StartFunction(th)
  PROVE  exec[th] \in Task /\ Graph!Start(exec[th])
<1> SUFFICES ASSUME NEW t, t = exec[th] PROVE t \in Task /\ Graph!Start(t)
  OBVIOUS
<1>1. /\ SystemInv /\ t # None /\ t \in Task /\ t \in Object /\ Executors(t) = {th}
      /\ current_task[th] = None /\ state[t] = "Pending" /\ state'[t] = "Pending"
  BY ExecutorAlone
  DEF StartFunction, objVars, RefinementInv, SystemInv, ExecFollowsPc, ExecutionStages,
      InExecute, InCall
<1>2. /\ UNCHANGED <<state, dependents, new, todo, adding, inactive>>
      /\ current_task' = [current_task EXCEPT ![th] = t]
  BY DEF StartFunction, objVars, newVars
<1>3. current_task \in [Thread -> TaskOrNone]
  BY <1>1 DEF SystemInv, TypeOK
<1>4. \A x \in Task : x # t => (Running(x)' <=> Running(x))
  BY <1>1, <1>2, <1>3, RunningElsewhere
<1>5. ~Running(t)
  BY <1>1 DEF Running, Executors, SystemInv, ExecFollowsPc
<1>6. Running(t)'
  BY <1>2, <1>3 DEF Running
<1>7. Phase[t] = "waiting" /\ Phase' = [Phase EXCEPT ![t] = "running"]
  <2>1. Phase[t] = "waiting" /\ Phase'[t] = "running"
    BY <1>1, <1>5, <1>6, PhaseValues DEF PhaseFollowsState
  <2>2. \A o \in Object : o # t => Phase'[o] = Phase[o]
    BY <1>1, <1>2, <1>4, SamePhase
  <2> QED
    BY <1>1, <2>1, <2>2, PhaseStep
<1>8. NeedsOf(t) = {}
  <2>1. Gates(t) = {} /\ UnsettledOf(t) = {}
    BY <1>1, PlaceUnique, OwedNat
  <2> QED
    BY <2>1 DEF NeedsOf, Gates, UnsettledOf, Creators
<1>9. Needs' = Needs
  BY <1>2, NeedsFrame, NeedsKept
<1> QED
  BY <1>1, <1>7, <1>8, <1>9 DEF Graph!Start, Needs

\* The last reference to o is with a thread that is not creating a task: no
\* creator has o among the prerequisites it still has to settle.
LEMMA OnlyReferrer ==
  ASSUME SystemInv, NEW th \in Thread, pc[th] # "prereq", NEW o \in Object, refs[o] = 1,
         o \in held[th] \/ (exec[th] # None /\ o \in captures[exec[th]])
  PROVE  \A x \in Thread : o \notin Unsettled(x)
<1> SUFFICES ASSUME NEW x \in Thread, o \in Unsettled(x) PROVE FALSE
  OBVIOUS
<1>1. x # th
  BY DEF SystemInv, LocalsFollowPc, Unsettled
<1>2. o \in held[x] \/ (exec[x] # None /\ o \in captures[exec[x]])
  BY DEF SystemInv, CreatorHolds
<1>3. RefsTo(o) = 1
  BY DEF SystemInv, RefsExact
<1>4. \A y \in Thread : exec[y] # None => exec[y] \in Task /\ Executors(exec[y]) = {y}
  BY ExecutorAlone
<1>5. CASE o \in held[th]
  <2>1. Capturers(o) = {} /\ \A y, z \in Holders(o) : y = z
    BY <1>3, <1>5, RefsSum, Counted, CountOne DEF Holders
  <2> QED
    BY <1>1, <1>2, <1>4, <1>5, <2>1 DEF Holders, Capturers
<1>6. CASE exec[th] # None /\ o \in captures[exec[th]]
  <2>1. Holders(o) = {} /\ \A t, u \in Capturers(o) : t = u
    BY <1>3, <1>4, <1>6, RefsSum, Counted, CountOne DEF Capturers
  <2>2. exec[x] # None /\ exec[x] \in Capturers(o) /\ exec[th] \in Capturers(o)
    BY <1>2, <1>4, <1>6, <2>1 DEF Holders, Capturers
  <2>3. exec[x] = exec[th]
    BY <2>1, <2>2
  <2> QED
    BY <1>1, <1>4, <1>6, <2>3 DEF Executors
<1> QED
  BY <1>5, <1>6

\* Slots that return to their pools: finished tasks and futures, and promise
\* futures that no task waits for.
LEMMA ReturnIsRecycle ==
  ASSUME RefinementInv, SystemInv',
         UNCHANGED <<current_task, dependents, new, todo, adding, inactive>>,
         \A o \in Object : state'[o] # state[o] =>
           /\ state'[o] = "Pooled"
           /\ \/ state[o] = "Done"
              \/ /\ o \in Future /\ dependents[o] = {}
                 /\ \A th \in Thread : o \notin Unsettled(th)
  PROVE  (\E O \in SUBSET Object : Graph!Recycle(O)) \/ (Phase' = Phase /\ Needs' = Needs)
<1> DEFINE O == {o \in Object : state'[o] # state[o]}
<1>1. /\ SystemInv /\ Object = Graph!Gated /\ Future \cap Task = {}
      /\ \A o \in Object : state[o] \in {"Pooled", "Pending", "Done"}
  BY StateTypes DEF RefinementInv, Graph!Gated, Object
<1>2. Needs' = Needs
  <2>1. ASSUME NEW p \in Object, NEW t \in Task PROVE p \in NeedsOf(t)' <=> p \in NeedsOf(t)
    <3>1. CASE p \in O
      BY <3>1, NeedsMember, NeedsNext DEF Unsettled
    <3>2. CASE p \notin O
      BY <3>2, NeedsFrame
    <3> QED
      BY <3>1, <3>2
  <2> QED
    BY <2>1, NeedsKept
<1>3. \A o \in Object : Phase'[o] = IF o \in O THEN "free" ELSE Phase[o]
  <2>1. ASSUME NEW o \in Object PROVE Phase'[o] = IF o \in O THEN "free" ELSE Phase[o]
    <3>1. CASE o \in O
      BY <3>1, PhaseValues DEF PhaseFollowsState
    <3>2. CASE o \notin O
      BY <1>1, <3>2, SamePhase, RunningKept
    <3> QED
      BY <3>1, <3>2
  <2> QED
    BY <2>1
<1>4. CASE O = {}
  BY <1>2, <1>3, <1>4, PhaseStutter
<1>5. CASE O # {}
  <2>1. ASSUME NEW o \in O
        PROVE  \/ Phase[o] = "finished"
               \/ o \in Future /\ Phase[o] = "waiting" /\ \A t \in Task : o \notin Needs[t]
    <3>1. CASE state[o] = "Done"
      BY <3>1, PhaseValues DEF PhaseFollowsState
    <3>2. CASE state[o] # "Done"
      <4>1. /\ o \in Future /\ state[o] = "Pending" /\ dependents[o] = {}
            /\ \A th \in Thread : o \notin Unsettled(th)
        BY <1>1, <3>2
      <4> QED
        BY <1>1, <4>1, PhaseValues, NeedsMember DEF PhaseFollowsState, Needs
    <3> QED
      BY <3>1, <3>2
  <2>2. Phase' = [o \in Object |-> IF o \in O THEN "free" ELSE Phase[o]]
    BY <1>3, PhaseValues DEF PhaseFollowsState
  <2>3. Graph!Recycle(O)
    BY <1>1, <1>2, <1>5, <2>1, <2>2 DEF Graph!Recycle, Needs
  <2> QED
    BY <2>3
<1> QED
  BY <1>4, <1>5

GraphStutter == Phase' = Phase /\ Needs' = Needs

\* Handles dropped by user code and the captures of a cleared function.
LEMMA HandlesAreRecycled ==
  ASSUME RefinementInv, SystemInv', NEW th \in Thread,
         \/ \E o \in Object : DropHandle(th, o) \/ DropCapture(th, o)
         \/ ClearFunction(th)
  PROVE  (\E O \in SUBSET Object : Graph!Recycle(O)) \/ GraphStutter
<1>1. SystemInv /\ TypeOK /\ Task \subseteq Object /\ Object = Task \cup Future
  BY StateTypes DEF RefinementInv, SystemInv, Object
<1>2. UNCHANGED <<current_task, dependents, new, todo, adding, inactive>>
  <2>1. CASE \E o \in Object : DropHandle(th, o)
    BY <2>1 DEF DropHandle, execVars, newVars
  <2>2. CASE \E o \in Object : DropCapture(th, o)
    BY <2>2 DEF DropCapture, execVars, newVars
  <2>3. CASE ClearFunction(th)
    BY <2>3 DEF ClearFunction, execVars, newVars
  <2> QED
    BY <2>1, <2>2, <2>3
<1>3. pc[th] # "prereq"
  BY DEF DropHandle, DropCapture, ClearFunction, User
<1>4. ASSUME NEW o \in Object, state'[o] # state[o]
      PROVE  /\ state'[o] = "Pooled" /\ refs[o] = 1
             /\ o \in Task => state[o] = "Done"
  BY <1>1, <1>4, HandlesReleased
<1>5. ASSUME NEW o \in Object, state'[o] # state[o]
      PROVE  o \in held[th] \/ (exec[th] # None /\ o \in captures[exec[th]])
  <2>1. CASE \E x \in Object : DropHandle(th, x)
    BY <1>1, <1>5, <2>1 DEF DropHandle, Release, TypeOK
  <2>2. CASE \E x \in Object : DropCapture(th, x)
    <3>1. current_task[th] = exec[th] /\ exec[th] # None
      BY <1>1, <2>2 DEF DropCapture, SystemInv, ExecFollowsPc, InExecute
    <3> QED
      BY <1>1, <1>5, <2>2, <3>1 DEF DropCapture, Release, TypeOK
  <2>3. CASE ClearFunction(th)
    <3>1. exec[th] # None
      BY <1>1, <2>3 DEF ClearFunction, SystemInv, ExecFollowsPc, InExecute
    <3> QED
      BY <1>1, <1>5, <2>3, <3>1 DEF ClearFunction, Release, TypeOK
  <2> QED
    BY <2>1, <2>2, <2>3
<1>6. ASSUME NEW o \in Object, state'[o] # state[o], state[o] # "Done"
      PROVE  dependents[o] = {}
  <2>1. o \in Future
    BY <1>1, <1>4, <1>6
  <2>2. CASE ClearFunction(th)
    BY <1>1, <1>6, <2>1, <2>2, ClearedAlone
  <2>3. CASE \E x \in Object : DropHandle(th, x) \/ DropCapture(th, x)
    <3>1. MayDrop(o)
      BY <1>1, <1>6, <2>3 DEF DropHandle, DropCapture, Release, TypeOK
    <3> QED
      BY <1>6, <2>1, <3>1 DEF MayDrop
  <2> QED
    BY <2>2, <2>3
<1>7. ASSUME NEW o \in Object, state'[o] # state[o]
      PROVE  \A x \in Thread : o \notin Unsettled(x)
  BY <1>1, <1>3, <1>4, <1>5, <1>7, OnlyReferrer
<1>8. \A o \in Object : state'[o] # state[o] =>
        /\ state'[o] = "Pooled"
        /\ \/ state[o] = "Done"
           \/ /\ o \in Future /\ dependents[o] = {}
              /\ \A x \in Thread : o \notin Unsettled(x)
  BY <1>1, <1>4, <1>6, <1>7
<1> QED
  BY <1>2, <1>8, ReturnIsRecycle DEF GraphStutter

\* The loop lets go of the task it has executed.
LEMMA EndExecuteIsRecycle ==
  ASSUME RefinementInv, SystemInv', NEW th \in Thread, EndExecute(th)
  PROVE  (\E O \in SUBSET Object : Graph!Recycle(O)) \/ GraphStutter
<1>1. SystemInv /\ TypeOK
  BY DEF RefinementInv, SystemInv
<1>2. UNCHANGED <<current_task, dependents, new, todo, adding, inactive>>
  BY DEF EndExecute, newVars
<1>3. exec[th] \in Object /\ state[exec[th]] = "Done"
  BY <1>1, ExecutorAlone
  DEF EndExecute, SystemInv, ExecFollowsPc, ExecutionStages, InExecute
<1>4. \A o \in Object : state'[o] # state[o] => state'[o] = "Pooled" /\ state[o] = "Done"
  BY <1>1, <1>3 DEF EndExecute, Release, TypeOK
<1> QED
  BY <1>2, <1>4, ReturnIsRecycle DEF GraphStutter

\* Steps between two locks or atomic operations that the task graph cannot see:
\* a prerequisite of a creator goes from one place to the next.
LEMMA CreatorStutters ==
  ASSUME RefinementInv, SystemInv', NEW th \in Thread,
         \/ \E p \in Object : CheckPrereq(th, p)
         \/ AddDependency(th) \/ SubtractInactive(th)
  PROVE  GraphStutter
<1>1. SystemInv /\ TypeOK /\ InactiveFinished /\ None \notin Object /\ Task \subseteq Object
  BY StateTypes DEF RefinementInv, SystemInv
<1>2. UNCHANGED <<state, current_task>>
  BY DEF CheckPrereq, AddDependency, SubtractInactive, execVars
<1>3. Phase' = Phase
  BY <1>1, <1>2, SamePhase, RunningKept, PhaseStutter
<1> SUFFICES Needs' = Needs
  BY <1>3 DEF GraphStutter
<1>4. ASSUME UNCHANGED <<new, dependents>>,
             \A x \in Thread : Unsettled(x)' = Unsettled(x)
      PROVE  Needs' = Needs
  BY <1>2, <1>4, NeedsNext, NeedsMember, NeedsKept
<1>5. CASE \E p \in Object : CheckPrereq(th, p)
  <2>1. PICK p \in Object : CheckPrereq(th, p)
    BY <1>5
  <2>2. UNCHANGED <<new, dependents>>
    BY <2>1 DEF CheckPrereq
  <2>3. /\ todo' = [todo EXCEPT ![th] = @ \ {p}] /\ p \in todo[th] /\ adding[th] = None
        /\ \/ adding' = [adding EXCEPT ![th] = p] /\ UNCHANGED inactive
           \/ inactive' = [inactive EXCEPT ![th] = @ \cup {p}] /\ UNCHANGED adding
    BY <2>1 DEF CheckPrereq
  <2>4. ASSUME NEW x \in Thread PROVE Unsettled(x)' = Unsettled(x)
    BY <1>1, <2>3, UnsettledNext DEF Unsettled, TypeOK
  <2> QED
    BY <1>4, <2>2, <2>4
<1>6. CASE AddDependency(th)
  <2> DEFINE p == adding[th]
  <2>1. /\ UNCHANGED <<new, todo>> /\ p # None /\ p \in Object /\ new[th] \in Task
        /\ adding' = [adding EXCEPT ![th] = None]
    BY <1>1, <1>6, CreatorAlone DEF AddDependency, SystemInv, LocalsFollowPc, TypeOK
  <2>2. CASE state[p] # "Pending"
    <3>1. UNCHANGED dependents /\ inactive' = [inactive EXCEPT ![th] = @ \cup {p}]
      BY <1>6, <2>2 DEF AddDependency
    <3>2. ASSUME NEW x \in Thread PROVE Unsettled(x)' = Unsettled(x)
      BY <1>1, <2>1, <3>1, UnsettledNext DEF Unsettled, TypeOK
    <3> QED
      BY <1>4, <2>1, <3>1, <3>2
  <2>3. CASE state[p] = "Pending"
    <3>1. UNCHANGED inactive /\ dependents' = [dependents EXCEPT ![p] = @ \cup {new[th]}]
      BY <1>6, <2>3 DEF AddDependency
    <3>2. /\ \A x \in Thread : x # th => Unsettled(x)' = Unsettled(x)
          /\ \A o \in Object : o # p => (o \in Unsettled(th)' <=> o \in Unsettled(th))
          /\ p \in Unsettled(th)
      BY <1>1, <2>1, <3>1, UnsettledNext DEF Unsettled, TypeOK
    <3>3. ASSUME NEW t \in Task, NEW o \in Object
          PROVE  o \in NeedsOf(t)' <=> o \in NeedsOf(t)
      <4>1. o # p => dependents'[o] = dependents[o]
        BY <1>1, <3>1 DEF TypeOK
      <4>2. dependents'[p] = dependents[p] \cup {new[th]}
        BY <1>1, <2>1, <3>1 DEF TypeOK
      <4>3. CASE o = p
        <5>1. CASE t = new[th]
          BY <1>2, <2>1, <2>3, <3>2, <4>2, <4>3, <5>1, NeedsMember, NeedsNext
        <5>2. CASE t # new[th]
          BY <1>2, <2>1, <3>2, <4>2, <4>3, <5>2, NeedsMember, NeedsNext
        <5> QED
          BY <5>1, <5>2
      <4>4. CASE o # p
        BY <1>2, <2>1, <3>2, <4>1, <4>4, NeedsMember, NeedsNext
      <4> QED
        BY <4>3, <4>4
    <3> QED
      BY <3>3, NeedsKept
  <2> QED
    BY <2>2, <2>3
<1>7. CASE SubtractInactive(th)
  <2>1. /\ UNCHANGED <<dependents, todo, adding>> /\ todo[th] = {} /\ adding[th] = None
        /\ inactive' = [inactive EXCEPT ![th] = {}]
        /\ UNCHANGED new \/ new' = [new EXCEPT ![th] = None]
    BY <1>7 DEF SubtractInactive, ReturnNew
  <2>2. /\ Unsettled(th)' = {} /\ Unsettled(th) = inactive[th]
        /\ \A x \in Thread : x # th => Unsettled(x)' = Unsettled(x) /\ new'[x] = new[x]
    BY <1>1, <2>1, UnsettledNext DEF Unsettled, TypeOK
  <2>3. ASSUME NEW t \in Task, NEW o \in Object
        PROVE  o \in NeedsOf(t)' <=> o \in NeedsOf(t)
    BY <1>1, <1>2, <2>1, <2>2, NeedsMember, NeedsNext DEF InactiveFinished
  <2> QED
    BY <2>3, NeedsKept
<1> QED
  BY <1>5, <1>6, <1>7

\* Steps on counters, ready stacks and locals of the executing threads.
LEMMA QueuesStutter ==
  ASSUME RefinementInv, SystemInv', NEW th \in Thread,
         \/ ReturnNode(th) \/ PushNew(th) \/ ExecuteNew(th) \/ FutureDoneReturns(th)
         \/ \E t \in Task : OnUnblocked(th, t) \/ Pop(th, t) \/ ExecuteATask(th, t)
  PROVE  GraphStutter
<1>1. SystemInv /\ TypeOK /\ None \notin Task
  BY StateTypes DEF RefinementInv, SystemInv
<1>2. UNCHANGED <<state, current_task, dependents, todo, adding, inactive>>
  <2>1. CASE ReturnNode(th) \/ \E t \in Task : OnUnblocked(th, t)
    <3>1. UNCHANGED state
      BY <1>1, <2>1, NodeNotLast
    <3> QED
      BY <2>1, <3>1 DEF ReturnNode, OnUnblocked, execVars, newVars
  <2>2. CASE \/ PushNew(th) \/ ExecuteNew(th) \/ FutureDoneReturns(th)
             \/ \E t \in Task : Pop(th, t) \/ ExecuteATask(th, t)
    BY <2>2
    DEF PushNew, ExecuteNew, FutureDoneReturns, Pop, ExecuteATask, Take, objVars, execVars,
        newVars
  <2> QED
    BY <2>1, <2>2
<1>3. \/ UNCHANGED new
      \/ /\ new' = [new EXCEPT ![th] = None] /\ Unsettled(th) = {}
  <2>1. CASE PushNew(th) \/ ExecuteNew(th)
    <3>1. pc[th] = "ready" /\ (UNCHANGED new \/ new' = [new EXCEPT ![th] = None])
      BY <2>1 DEF PushNew, ReturnNew, ExecuteNew
    <3> QED
      BY <1>1, <3>1 DEF Unsettled, SystemInv, LocalsFollowPc
  <2>2. CASE \/ ReturnNode(th) \/ FutureDoneReturns(th)
             \/ \E t \in Task : OnUnblocked(th, t) \/ Pop(th, t) \/ ExecuteATask(th, t)
    BY <2>2 DEF ReturnNode, FutureDoneReturns, OnUnblocked, Pop, ExecuteATask, Take, newVars
  <2> QED
    BY <2>1, <2>2
<1>4. Phase' = Phase
  BY <1>1, <1>2, SamePhase, RunningKept, PhaseStutter
<1>5. \A x \in Thread : Unsettled(x)' = Unsettled(x)
  BY <1>2 DEF Unsettled
<1>6. \A x \in Thread : x # th => new'[x] = new[x]
  BY <1>1, <1>3 DEF TypeOK
<1>7. ASSUME NEW t \in Task, NEW o \in Object
      PROVE  o \in NeedsOf(t)' <=> o \in NeedsOf(t)
  <2>1. \A x \in Thread : new'[x] = t /\ o \in Unsettled(x) <=> new[x] = t /\ o \in Unsettled(x)
    BY <1>3, <1>6
  <2> QED
    BY <1>2, <1>5, <2>1, NeedsMember, NeedsNext
<1> QED
  BY <1>4, <1>7, NeedsKept DEF GraphStutter
-----------------------------------------------------------------------------
(* The theorem. *)

LEMMA StepIsGraphStep ==
  ASSUME RefinementInv, SystemInv', [Next]_vars
  PROVE  Graph!GraphNext \/ GraphStutter
<1>1. ASSUME NEW th \in Thread, UserStep(th)
      PROVE  Graph!GraphNext \/ GraphStutter
  <2>1. ASSUME NEW t \in Task, NEW P \in SUBSET Usable(th), NEW C \in SUBSET Usable(th), NEW f,
               CreateTask(th, t, P, C, f)
        PROVE  Graph!GraphNext
    BY <2>1, CreateTaskIsNewTask DEF Graph!GraphNext, Graph!Gated, Object
  <2>2. ASSUME NEW f \in Future, MakeFuture(th, f) \/ FutureDone(th, f)
        PROVE  Graph!GraphNext
    BY <2>2, MakeFutureIsNewFuture, FutureDoneIsComplete DEF Graph!GraphNext
  <2>3. ASSUME \E o \in Object : DropHandle(th, o) \/ DropCapture(th, o)
        PROVE  Graph!GraphNext \/ GraphStutter
    BY <2>3, HandlesAreRecycled DEF Graph!GraphNext, Graph!Gated, Object
  <2> QED
    BY <1>1, <2>1, <2>2, <2>3 DEF UserStep
<1>2. ASSUME NEW th \in Thread, SystemStep(th)
      PROVE  Graph!GraphNext \/ GraphStutter
  <2>1. ASSUME StartFunction(th) \/ EndFunction(th) PROVE Graph!GraphNext
    BY <2>1, StartFunctionIsStart, EndFunctionIsFinish DEF Graph!GraphNext
  <2>2. ASSUME ClearFunction(th) \/ EndExecute(th) PROVE Graph!GraphNext \/ GraphStutter
    BY <2>2, HandlesAreRecycled, EndExecuteIsRecycle DEF Graph!GraphNext, Graph!Gated, Object
  <2>3. ASSUME \/ \E p \in Object : CheckPrereq(th, p)
               \/ AddDependency(th) \/ SubtractInactive(th)
        PROVE  GraphStutter
    BY <2>3, CreatorStutters
  <2>4. ASSUME \/ ReturnNode(th) \/ PushNew(th) \/ ExecuteNew(th) \/ FutureDoneReturns(th)
               \/ \E t \in Task : OnUnblocked(th, t)
        PROVE  GraphStutter
    BY <2>4, QueuesStutter
  <2> QED
    BY <1>2, <2>1, <2>2, <2>3, <2>4 DEF SystemStep
<1>3. ASSUME NEW th \in Thread, NEW t \in Task, Pop(th, t) \/ ExecuteATask(th, t)
      PROVE  GraphStutter
  BY <1>3, QueuesStutter
<1>4. ASSUME UNCHANGED vars PROVE GraphStutter
  <2>1. UNCHANGED <<state, dependents, current_task, new, todo, adding, inactive>>
    BY <1>4 DEF vars, objVars, execVars, newVars
  <2>2. Phase' = Phase
    BY <2>1 DEF Phase, Running
  <2>3. Needs' = Needs
    BY <2>1, NeedsFrame, NeedsKept
  <2> QED
    BY <2>2, <2>3 DEF GraphStutter
<1> QED
  BY <1>1, <1>2, <1>3, <1>4 DEF Next, Thread

\* The task system implements the task graph its callers are promised
\* (Task.cpp, BaseTask.h, Gate.h): a task starts once, after all the gates it
\* was created behind have finished, finishes once, and its slot is taken
\* again only after that.
THEOREM TaskSystemIsTaskGraph == Spec => ImplementsTaskGraph
<1>1. Init => Graph!GraphInit
  <2> SUFFICES ASSUME Init PROVE Graph!GraphInit
    OBVIOUS
  <2>1. /\ \A o \in Object : state[o] = "Pooled" /\ dependents[o] = {}
        /\ Object = Graph!Gated
    BY DEF Init, Graph!Gated, Object
  <2>2. Phase = [o \in Object |-> "free"]
    BY <2>1, PhaseValues DEF PhaseFollowsState
  <2>3. \A t \in Task : NeedsOf(t) = {}
    BY <2>1 DEF NeedsOf
  <2> QED
    BY <2>1, <2>2, <2>3 DEF Graph!GraphInit
<1>2. RefinementInv /\ SystemInv' /\ [Next]_vars => [Graph!GraphNext]_Graph!graphVars
  BY StepIsGraphStep DEF Graph!graphVars, GraphStutter, Needs
<1>3. Spec => [](RefinementInv /\ SystemInv)
  BY RefinementInvariance, PTL DEF RefinementInv
<1> QED
  BY <1>1, <1>2, <1>3, PTL DEF Spec, ImplementsTaskGraph, Graph!GraphSpec
=============================================================================
