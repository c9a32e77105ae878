---------------------- MODULE AccessSynchronizerProofs ----------------------
(***************************************************************************)
(* Proofs about AccessSynchronizer: its references and counters are exact, *)
(* and its word is sane, for any number of tasks, coroutines, clients and  *)
(* accesses.  They are about runs in which no tag wraps: a task or the     *)
(* collection that bumps its tag as often as there are values looks to the *)
(* others as if it had not.                                                *)
(***************************************************************************)
EXTENDS AccessSynchronizer, FiniteSetTheorems, TLAPS

Queueing == {"addref", "replaced", "handle", "add", "inline", "release"}
Early == {"addref", "replaced", "handle"}

\* What the locals of a thread are, by where it is.
LocalsFollowPc ==
  \A a \in Agent :
    /\ new[a] # None <=> pc[a] \in Queueing
    /\ replaced[a] # None <=> pc[a] = "replaced"
    /\ previous[a].task # None => pc[a] = "addref"
    /\ result[a] # {} => pc[a] \in Queueing \ {"addref"}
    /\ todo[a] \subseteq result[a]
    /\ todo[a] # {} \/ inactive[a] # 0 => pc[a] = "add"
    /\ a \in Client => pc[a] \in {"body"} \cup (Queueing \ {"addref"})
    /\ a \in Task => pc[a] # "inline" /\ new[a] # a

\* t uses the resource, or is queued or granted it and has not run yet.
Exclusive(t) ==
  \/ pc[t] = "exclusive"
  \/ pc[t] \in {"waiting", "ready"} /\ (coroutine[t] = None \/ ask[coroutine[t]] = "exclusive")
Sharing(t) ==
  \/ pc[t] = "shared"
  \/ pc[t] \in {"waiting", "ready"} /\ coroutine[t] # None /\ ask[coroutine[t]] = "shared"

\* A new task has one creator, which finds it where it has left it.
CreatorsAlone ==
  /\ \A a, b \in Agent : new[a] = new[b] /\ new[a] # None => a = b
  /\ \A a \in Agent :
       LET u == new[a] IN
       /\ pc[a] \in Early => pc[u] = "waiting" /\ prerequires[u] = 0
       /\ pc[a] = "addref" => Sharing(u)
       /\ pc[a] = "replaced" => Exclusive(u)
       /\ pc[a] = "inline" => pc[u] \in {"exclusive", "clear", "finish"}
       /\ a \in Client /\ u # None => coroutine[u] = None
       /\ pc[a] = "add" => \A p \in Task : u \in dependents[p] => Gate(p) \notin todo[a]

\* State and counter of a task, by where it is.
Stages ==
  \A t \in Task :
    /\ state[t] = "Pooled" => pc[t] = "none"
    /\ state[t] = "Pending" <=> pc[t] \notin {"none", "clear", "finish"}
    /\ pc[t] = "waiting" =>
         prerequires[t] > 0 \/ \E a \in Agent : new[a] = t /\ pc[a] \in Early
    /\ pc[t] # "waiting" => prerequires[t] = 0
    /\ dependents[t] # {} => state[t] = "Pending"

\* A coroutine is in one task, which has run as far as the coroutine has asked.
CoroutinesPlaced ==
  /\ \A s, t \in Task : coroutine[s] = coroutine[t] /\ coroutine[s] # None => s = t
  /\ \A t \in Task : coroutine[t] # None =>
       /\ ask[coroutine[t]] # "new" /\ pc[t] \notin {"none", "clear"}
       /\ ask[coroutine[t]] \in {"exclusive", "shared"} => pc[t] \in {"suspend", "waiting", "ready"}
       /\ pc[t] \in {"suspend", "waiting"} => ask[coroutine[t]] \in {"exclusive", "shared"}
  /\ \A t \in Task :
       pc[t] \in {"shared", "leave", "leaveShared", "suspend"} => coroutine[t] # None
  /\ \A c \in Coroutine :
       ask[c] \in {"exclusive", "shared"} => \E t \in Task : coroutine[t] = c

\* Nothing refers to a task in the pool, but for the result of SyncShared whose
\* last task had gone, until HandleOnTask looks at it.
PooledUnreferenced ==
  \A t \in Task : state[t] = "Pooled" =>
    /\ last_task # t /\ \A g \in shared : g.task # t
    /\ \A a \in Agent :
         /\ new[a] # t /\ replaced[a] # t
         /\ \A g \in result[a] : g.task = t => pc[a] = "handle" /\ Sharing(new[a])
    /\ \A p \in Task : t \notin dependents[p]

\* Each access bumps a gate and the collection once at most.
Accessing ==
  {c \in Coroutine :
     \/ ask[c] \in {"exclusive", "shared"}
     \/ \E t \in Task : coroutine[t] = c /\ pc[t] \in {"exclusive", "shared", "leave", "leaveShared"}}
Joining == {t \in Task : pc[t] = "suspend"}
Collected == IF shared = {} THEN 0 ELSE 1

TagsLeft ==
  /\ \A t \in Task : gate_tag[t] + Cardinality(Accessing) + left <= Accesses
  /\ sync_tag + Collected + Cardinality(Joining) + left <= Accesses

\* A tag that was read is not ahead of its gate.
TagsRead ==
  /\ \A g \in shared : g.tag <= gate_tag[g.task]
  /\ \A a \in Agent : \A g \in result[a] : g.tag <= gate_tag[g.task]
  /\ last_task # None => last_task_tag <= gate_tag[last_task]
  /\ \A a \in Agent : previous[a].task # None => previous[a].tag <= gate_tag[previous[a].task]

\* The members of the collection that have not released it yet.
Members == {g \in shared : g = Gate(g.task) /\ Sharing(g.task)}

CollectionExact ==
  /\ Cardinality(Members) + released = Cardinality(shared)
  /\ shared # {} => Members # {}
  /\ \A t \in Task : Gate(t) \in shared => Sharing(t) \/ pc[t] = "leaveShared"
  /\ \A t \in Task : Sharing(t) =>
       /\ held_tag[coroutine[t]] <= sync_tag
       /\ held_tag[coroutine[t]] = sync_tag <=> Gate(t) \in shared

SyncInv ==
  /\ TypeOK /\ RefsExact /\ CounterExact
  /\ LocalsFollowPc /\ CreatorsAlone /\ Stages /\ CoroutinesPlaced
  /\ PooledUnreferenced /\ TagsLeft /\ TagsRead /\ CollectionExact
-----------------------------------------------------------------------------

Labels == {"none", "waiting", "ready", "body", "exclusive", "shared", "leave", "leaveShared",
           "suspend", "addref", "replaced", "handle", "add", "inline", "release", "clear", "finish"}

LEMMA WakesWaiting ==
  ASSUME SyncInv, NEW t \in Task, NEW label, Wake(t, label)
  PROVE  /\ pc'[t] = label
         /\ \A a \in Agent : a # t /\ (a \notin Task \/ pc[a] # "waiting") => pc'[a] = pc[a]
         /\ \A d \in Task : d # t =>
              pc'[d] = IF d \in dependents[t] /\ prerequires[d] = 1 THEN "ready" ELSE pc[d]
<1> QED
  BY DEF Wake, SyncInv, TypeOK, Stages, Agent

LEMMA RunGoesOn ==
  ASSUME SyncInv, NEW t \in Task, Run(t)
  PROVE  \E label \in {"body", "exclusive", "shared"} :
           /\ pc[t] = "ready" /\ pc' = [pc EXCEPT ![t] = label]
           /\ label = "exclusive" <=> Exclusive(t)
           /\ label = "shared" <=> Sharing(t)
<1> DEFINE c == coroutine[t]
<1>1. c = None \/ ask[c] \in {"none", "exclusive", "shared"}
  BY DEF SyncInv, TypeOK, CoroutinesPlaced
<1>2. pc[t] = "ready"
  BY DEF Run
<1>3. CASE c = None
  BY <1>2, <1>3 DEF Run, Goto, Exclusive, Sharing
<1>4. CASE c # None
  BY <1>1, <1>2, <1>4 DEF Run, Goto, Exclusive, Sharing
<1> QED
  BY <1>3, <1>4

LEMMA LocalsStep == SyncInv /\ [Next]_vars => LocalsFollowPc'
<1> SUFFICES ASSUME SyncInv, [Next]_vars PROVE LocalsFollowPc'
  OBVIOUS
<1>0. /\ LocalsFollowPc
      /\ pc \in [Agent -> Labels] /\ new \in [Agent -> TaskOrNone] /\ replaced \in [Agent -> TaskOrNone]
      /\ previous \in [Agent -> [task : TaskOrNone, tag : Tag]]
      /\ result \in [Agent -> SUBSET TaggedGate] /\ todo \in [Agent -> SUBSET TaggedGate]
      /\ inactive \in [Agent -> Nat]
      /\ \A t \in Task : t \in Agent /\ t \notin Client /\ (state[t] = "Pooled" => pc[t] = "none")
      /\ None \notin Task /\ \A a \in Agent : pc[a] \in Early => pc[new[a]] = "waiting"
  BY SyncAssumption DEF SyncInv, TypeOK, Stages, CreatorsAlone, Agent, Labels
<1> USE <1>0 DEF LocalsFollowPc, Queueing, Early, TaskOrNone
<1>1. ASSUME NEW t \in Task, NEW c \in Coroutine, StartCoroutine(c, t)
      PROVE  LocalsFollowPc'
  BY <1>1 DEF StartCoroutine, Goto, localVars, gateVars, syncVars
<1>2. ASSUME NEW t \in Task, Run(t)
      PROVE  LocalsFollowPc'
  <2>1. PICK label \in {"body", "exclusive", "shared"} : pc[t] = "ready" /\ pc' = [pc EXCEPT ![t] = label]
    BY <1>2, RunGoesOn
  <2>2. UNCHANGED localVars
    BY <1>2 DEF Run
  <2> QED
    BY <2>1, <2>2 DEF localVars
<1>3. ASSUME NEW t \in Task, TryExclusive(t)
      PROVE  LocalsFollowPc'
  BY <1>3 DEF TryExclusive, Request, User, Suspend, Goto, localVars, gateVars
<1>4. ASSUME NEW t \in Task, TryShared(t)
      PROVE  LocalsFollowPc'
  BY <1>4 DEF TryShared, Request, User, Suspend, Goto, localVars, gateVars
<1>5. ASSUME NEW t \in Task, NEW u \in Task, SuspendExclusive(t, u)
      PROVE  LocalsFollowPc'
  BY <1>5 DEF SuspendExclusive, SyncExclusive, CreateTask, MoveCoroutine, ClearShared, gateVars, coVars
<1>6. ASSUME NEW t \in Task, NEW u \in Task, SuspendShared(t, u)
      PROVE  LocalsFollowPc'
  <2>1. /\ pc[t] = "suspend" /\ state[u] = "Pooled" /\ new' = [new EXCEPT ![t] = u]
        /\ pc' = [pc EXCEPT ![t] = "addref", ![u] = "waiting"]
        /\ UNCHANGED <<replaced, result, todo, inactive>>
        /\ previous' = [previous EXCEPT ![t] = [task |-> last_task, tag |-> last_task_tag]]
    BY <1>6 DEF SuspendShared, CreateTask
  <2>2. pc[u] = "none" /\ u # t
    BY <2>1
  <2> QED
    BY <2>1, <2>2
<1>7. ASSUME NEW a \in Agent, NEW u \in Task, InitializeTaskOn(a, u)
      PROVE  LocalsFollowPc'
  BY <1>7 DEF InitializeTaskOn, Request, User, SyncExclusive, CreateTask, ClearShared, gateVars
<1>8. ASSUME NEW a \in Agent, ReleaseReplaced(a)
      PROVE  LocalsFollowPc'
  BY <1>8 DEF ReleaseReplaced, Release, One, Goto, syncVars, gateVars, coVars
<1>9. ASSUME NEW t \in Task, AddRefPrevious(t)
      PROVE  LocalsFollowPc'
  BY <1>9 DEF AddRefPrevious, Goto, syncVars, gateVars, coVars
<1>10. ASSUME NEW a \in Agent, HandleOnTask(a)
      PROVE  LocalsFollowPc'
  <2>1. UNCHANGED <<new, replaced, previous, result, inactive>> /\ pc[a] = "handle" /\ new[a] \in Task
        /\ pc[new[a]] = "waiting" /\ new[a] # a
    BY <1>10 DEF HandleOnTask
  <2>2. CASE UNCHANGED <<pc, todo>>
    BY <2>1, <2>2
  <2>3. CASE todo' = [todo EXCEPT ![a] = result[a]] /\ result[a] = {} /\ ProcessOnReady(a)
    BY <2>1, <2>3 DEF ProcessOnReady
  <2>4. CASE todo' = [todo EXCEPT ![a] = result[a]] /\ Goto(a, "add")
    BY <2>1, <2>4 DEF Goto
  <2> QED
    BY <1>10, <2>2, <2>3, <2>4 DEF HandleOnTask
<1>11. ASSUME NEW a \in Agent, NEW g \in todo[a], AddDependency(a, g)
      PROVE  LocalsFollowPc'
  BY <1>11 DEF AddDependency, syncVars, coVars
<1>12. ASSUME NEW a \in Agent, SubtractInactive(a)
      PROVE  LocalsFollowPc'
  <2>1. /\ UNCHANGED <<new, replaced, previous, result, todo>> /\ pc[a] = "add" /\ todo[a] = {}
        /\ new[a] \in Task /\ inactive' = [inactive EXCEPT ![a] = 0]
    BY <1>12 DEF SubtractInactive
  <2>2. CASE inactive[a] > 0 /\ prerequires[new[a]] = inactive[a] /\ ProcessOnReady(a)
    <3>1. pc[new[a]] = "waiting"
      BY <2>1, <2>2 DEF SyncInv, Stages
    <3> QED
      BY <2>1, <2>2, <3>1 DEF ProcessOnReady
  <2>3. CASE Goto(a, "release")
    BY <2>1, <2>3 DEF Goto
  <2> QED
    BY <1>12, <2>2, <2>3 DEF SubtractInactive
<1>13. ASSUME NEW a \in Agent, ReleaseResult(a)
      PROVE  LocalsFollowPc'
  <2>1. /\ pc[a] = "release" /\ pc' = [pc EXCEPT ![a] = "body"] /\ new' = [new EXCEPT ![a] = None]
        /\ result' = [result EXCEPT ![a] = {}] /\ UNCHANGED <<replaced, previous, todo, inactive>>
    BY <1>13 DEF ReleaseResult, Goto
  <2> QED
    BY <2>1
<1>14. ASSUME NEW t \in Task, ReleaseExclusive(t)
      PROVE  LocalsFollowPc'
  BY <1>14 DEF ReleaseExclusive, AfterRelease, Release, One, InPlainTask, Goto, gateVars, localVars, coVars
<1>15. ASSUME NEW t \in Task, ReleaseShared(t)
      PROVE  LocalsFollowPc'
  BY <1>15 DEF ReleaseShared, Release, ClearShared, Goto, gateVars, localVars, coVars
<1>16. ASSUME NEW t \in Task, LeaveScope(t)
      PROVE  LocalsFollowPc'
  <2>1. UNCHANGED <<new, replaced, previous, result, todo, inactive>> /\ pc[t] \in {"leave", "leaveShared"}
    BY <1>16 DEF LeaveScope, localVars
  <2>2. CASE UNCHANGED pc
    BY <2>1, <2>2
  <2>3. CASE Wake(t, "body")
    BY <2>1, <2>3, WakesWaiting
  <2> QED
    BY <1>16, <2>2, <2>3 DEF LeaveScope
<1>17. ASSUME NEW t \in Task, EndFunction(t)
      PROVE  LocalsFollowPc'
  <2>1. /\ UNCHANGED <<new, replaced, previous, result, todo, inactive>>
        /\ pc[t] \in {"body", "exclusive"}
        /\ \E label \in {"clear", "finish"} : Wake(t, label)
    BY <1>17 DEF EndFunction, InPlainTask, localVars
  <2> QED
    BY <2>1, WakesWaiting
<1>18. ASSUME NEW t \in Task, Finish(t)
      PROVE  LocalsFollowPc'
  BY <1>18 DEF Finish, Release, One, syncVars, gateVars, localVars, coVars
<1>19. CASE UNCHANGED vars
  BY <1>19 DEF vars, syncVars, gateVars, localVars, coVars
<1> QED
  BY <1>1, <1>2, <1>3, <1>4, <1>5, <1>6, <1>7, <1>8, <1>9, <1>10, <1>11, <1>12, <1>13,
     <1>14, <1>15, <1>16, <1>17, <1>18, <1>19
  DEF Next, Proceed, Queue
-----------------------------------------------------------------------------

LEMMA AgentsFinite == IsFiniteSet(Agent) /\ IsFiniteSet(TaggedGate) /\ IsFiniteSet(Agent \X TaggedGate)
<1>1. IsFiniteSet(Agent)
  BY SyncAssumption, FS_Union DEF Agent
<1>2. IsFiniteSet(Task \X Tag)
  <2>1. IsFiniteSet(Tag)
    BY FS_Interval, SyncAssumption DEF Tag
  <2> QED
    BY <2>1, FS_Product, SyncAssumption
<1> DEFINE pair == [g \in TaggedGate |-> <<g.task, g.tag>>]
<1>3. /\ \A g \in TaggedGate : pair[g] \in Task \X Tag
      /\ \A g, h \in TaggedGate : pair[g] = pair[h] => g = h
  BY DEF TaggedGate
<1>4. pair \in [TaggedGate -> Task \X Tag]
  BY <1>3
<1> HIDE DEF pair
<1>5. pair \in Injection(TaggedGate, Task \X Tag)
  BY <1>3, <1>4 DEF Injection, IsInjective
<1>6. IsFiniteSet(TaggedGate)
  BY <1>2, <1>5, FS_Injection
<1> QED
  BY <1>1, <1>6, FS_Product

LEMMA SubsetCounts ==
  ASSUME NEW S, S \in SUBSET Task \/ S \in SUBSET Agent \/ S \in SUBSET TaggedGate
                \/ S \in SUBSET (Agent \X TaggedGate)
  PROVE  IsFiniteSet(S) /\ Cardinality(S) \in Nat /\ (Cardinality(S) = 0 <=> S = {})
<1>1. IsFiniteSet(S)
  BY AgentsFinite, SyncAssumption, FS_Subset
<1> QED
  BY <1>1, FS_CardinalityType, FS_EmptySet

\* A task whose counter is zero is behind no gate.
LEMMA NoGates ==
  ASSUME SyncInv
  PROVE  \A u, p \in Task : u \in dependents[p] => prerequires[u] > 0 /\ pc[u] = "waiting"
<1> SUFFICES ASSUME NEW u \in Task, NEW p \in Task, u \in dependents[p]
             PROVE  prerequires[u] > 0 /\ pc[u] = "waiting"
  OBVIOUS
<1> DEFINE Gates == {q \in Task : u \in dependents[q]}
<1>1. Gates # {} /\ Gates \in SUBSET Task
  OBVIOUS
<1>2. Cardinality(Gates) \in Nat /\ Cardinality(Gates) # 0
  BY <1>1, SubsetCounts
<1>3. prerequires[u] \in Nat
  BY DEF SyncInv, TypeOK
<1>4. ASSUME NEW a \in Agent
      PROVE  Cardinality(todo[a]) \in Nat /\ inactive[a] \in Nat
  <2>1. todo[a] \in SUBSET TaggedGate /\ inactive[a] \in Nat
    BY DEF SyncInv, TypeOK
  <2> QED
    BY <2>1, SubsetCounts
<1>5. CASE Unsettled(u) = {}
  <2>1. prerequires[u] = Cardinality(Gates)
    BY <1>5 DEF SyncInv, CounterExact
  <2> QED
    BY <2>1, <1>2, <1>3 DEF SyncInv, Stages
<1>6. CASE Unsettled(u) # {}
  <2>1. PICK a \in Unsettled(u) : prerequires[u] = Cardinality(Gates) + Cardinality(todo[a]) + inactive[a]
    BY <1>6 DEF SyncInv, CounterExact
  <2>2. a \in Agent
    BY DEF Unsettled
  <2> QED
    BY <2>1, <2>2, <1>2, <1>3, <1>4 DEF SyncInv, Stages
<1> QED
  BY <1>5, <1>6
-----------------------------------------------------------------------------

\* A task that is queued or ready keeps what it asks for until it runs.
RequestsKept ==
  \A u \in Task : pc[u] \in {"waiting", "ready"} /\ pc'[u] \in {"waiting", "ready"} =>
    /\ coroutine'[u] = coroutine[u]
    /\ coroutine[u] # None => ask'[coroutine[u]] = ask[coroutine[u]]

LEMMA RequestsStep == SyncInv /\ [Next]_vars => RequestsKept
<1> SUFFICES ASSUME SyncInv, [Next]_vars PROVE RequestsKept
  OBVIOUS
<1>0. /\ pc \in [Agent -> Labels] /\ new \in [Agent -> TaskOrNone]
      /\ coroutine \in [Task -> Coroutine \cup {None}]
      /\ ask \in [Coroutine -> {"new", "none", "exclusive", "shared"}]
      /\ \A t \in Task : t \in Agent /\ t \notin Client /\ (state[t] = "Pooled" => pc[t] = "none")
      /\ CoroutinesPlaced
  BY SyncAssumption DEF SyncInv, TypeOK, Stages, Agent, Labels
<1> USE <1>0 DEF RequestsKept, CoroutinesPlaced
<1>1. ASSUME NEW t \in Task, NEW c \in Coroutine, StartCoroutine(c, t)
      PROVE  RequestsKept
  BY <1>1 DEF StartCoroutine, Goto, localVars, gateVars, syncVars
<1>2. ASSUME NEW t \in Task, Run(t)
      PROVE  RequestsKept
  BY <1>2 DEF Run, Goto, localVars, gateVars, syncVars
<1>3. ASSUME NEW t \in Task, TryExclusive(t)
      PROVE  RequestsKept
  BY <1>3 DEF TryExclusive, Request, User, Suspend, Goto, localVars, gateVars
<1>4. ASSUME NEW t \in Task, TryShared(t)
      PROVE  RequestsKept
  BY <1>4 DEF TryShared, Request, User, Suspend, Goto, localVars, gateVars
<1>5. ASSUME NEW t \in Task, NEW u \in Task, SuspendExclusive(t, u)
      PROVE  RequestsKept
  BY <1>5 DEF SuspendExclusive, SyncExclusive, CreateTask, MoveCoroutine, ClearShared, gateVars, coVars
<1>6. ASSUME NEW t \in Task, NEW u \in Task, SuspendShared(t, u)
      PROVE  RequestsKept
  BY <1>6 DEF SuspendShared, CreateTask, MoveCoroutine, gateVars
<1>7. ASSUME NEW a \in Agent, NEW u \in Task, InitializeTaskOn(a, u)
      PROVE  RequestsKept
  BY <1>7 DEF InitializeTaskOn, Request, User, SyncExclusive, CreateTask, ClearShared, gateVars
<1>8. ASSUME NEW a \in Agent, ReleaseReplaced(a)
      PROVE  RequestsKept
  BY <1>8 DEF ReleaseReplaced, Release, One, Goto, syncVars, gateVars, coVars
<1>9. ASSUME NEW t \in Task, AddRefPrevious(t)
      PROVE  RequestsKept
  BY <1>9 DEF AddRefPrevious, Goto, syncVars, gateVars, coVars
<1>10. ASSUME NEW a \in Agent, HandleOnTask(a)
      PROVE  RequestsKept
  BY <1>10 DEF HandleOnTask, ProcessOnReady, Goto, syncVars, gateVars, coVars
<1>11. ASSUME NEW a \in Agent, NEW g \in todo[a], AddDependency(a, g)
      PROVE  RequestsKept
  BY <1>11 DEF AddDependency, syncVars, coVars
<1>12. ASSUME NEW a \in Agent, SubtractInactive(a)
      PROVE  RequestsKept
  BY <1>12 DEF SubtractInactive, ProcessOnReady, Goto, syncVars, gateVars, coVars
<1>13. ASSUME NEW a \in Agent, ReleaseResult(a)
      PROVE  RequestsKept
  BY <1>13 DEF ReleaseResult, Release, Goto, syncVars, gateVars, coVars
<1>14. ASSUME NEW t \in Task, ReleaseExclusive(t)
      PROVE  RequestsKept
  BY <1>14 DEF ReleaseExclusive, AfterRelease, Release, One, InPlainTask, Goto, gateVars, localVars, coVars
<1>15. ASSUME NEW t \in Task, ReleaseShared(t)
      PROVE  RequestsKept
  BY <1>15 DEF ReleaseShared, Release, ClearShared, Goto, gateVars, localVars, coVars
<1>16. ASSUME NEW t \in Task, LeaveScope(t)
      PROVE  RequestsKept
  BY <1>16 DEF LeaveScope, UnblockDependents, Wake, syncVars, localVars, coVars, gateVars
<1>17. ASSUME NEW t \in Task, EndFunction(t)
      PROVE  RequestsKept
  BY <1>17 DEF EndFunction, UnblockDependents, Wake, InPlainTask, syncVars, localVars, coVars
<1>18. ASSUME NEW t \in Task, Finish(t)
      PROVE  RequestsKept
  BY <1>18 DEF Finish, Release, One, syncVars, gateVars, localVars, coVars
<1>19. CASE UNCHANGED vars
  BY <1>19 DEF vars, syncVars, gateVars, localVars, coVars
<1> QED
  BY <1>1, <1>2, <1>3, <1>4, <1>5, <1>6, <1>7, <1>8, <1>9, <1>10, <1>11, <1>12, <1>13,
     <1>14, <1>15, <1>16, <1>17, <1>18, <1>19
  DEF Next, Proceed, Queue
-----------------------------------------------------------------------------

LEMMA CreatorsStep == SyncInv /\ [Next]_vars => CreatorsAlone'
<1> SUFFICES ASSUME SyncInv, [Next]_vars PROVE CreatorsAlone'
  OBVIOUS
<1>0. /\ CreatorsAlone
      /\ pc \in [Agent -> Labels] /\ new \in [Agent -> TaskOrNone]
      /\ prerequires \in [Task -> Nat] /\ dependents \in [Task -> SUBSET Task]
      /\ todo \in [Agent -> SUBSET TaggedGate] /\ gate_tag \in [Task -> Tag]
      /\ coroutine \in [Task -> Coroutine \cup {None}]
      /\ \A t \in Task : t \in Agent /\ t \notin Client /\ (pc[t] # "waiting" => prerequires[t] = 0)
      /\ None \notin Task
      /\ \A a \in Agent : /\ new[a] # None <=> pc[a] \in Queueing
                          /\ a \in Client => pc[a] \in {"body"} \cup (Queueing \ {"addref"})
                          /\ a \in Task => pc[a] # "inline" /\ new[a] # a
      /\ \A t \in Task : state[t] = "Pooled" =>
           pc[t] = "none" /\ (\A a \in Agent : new[a] # t) /\ (\A p \in Task : t \notin dependents[p])
      /\ \A u, p \in Task : u \in dependents[p] => prerequires[u] > 0 /\ pc[u] = "waiting"
      /\ \A u \in Task : pc[u] = "waiting" /\ pc'[u] = "waiting" =>
           (Exclusive(u) => Exclusive(u)') /\ (Sharing(u) => Sharing(u)')
  BY SyncAssumption, NoGates, RequestsStep
  DEF SyncInv, TypeOK, Stages, LocalsFollowPc, PooledUnreferenced, Agent, Labels, RequestsKept,
      Exclusive, Sharing
<1> USE <1>0 DEF CreatorsAlone, Early, Queueing, TaskOrNone, Gate
<1>20. ASSUME NEW a \in Agent, NEW u \in Task, SyncExclusive(a, u), pc[a] \in {"body", "suspend"},
              Exclusive(u)', a \in Client => coroutine'[u] = None,
              \A x \in Task : x # u => coroutine'[x] \in {coroutine[x], None}
      PROVE  CreatorsAlone'
  <2>1. PICK label \in {"handle", "replaced"} :
          /\ state[u] = "Pooled" /\ new' = [new EXCEPT ![a] = u]
          /\ pc' = [pc EXCEPT ![a] = label, ![u] = "waiting"]
          /\ UNCHANGED <<prerequires, dependents, todo, gate_tag>>
    BY <1>20 DEF SyncExclusive, CreateTask, gateVars
  <2>2. u # a /\ pc[u] = "none"
    BY <1>20, <2>1
  <2>3. \A b, c \in Agent : new'[b] = new'[c] /\ new'[b] # None => b = c
    BY <1>20, <2>1, <2>2
  <2> QED
    BY <1>20, <2>1, <2>2, <2>3
<1>1. ASSUME NEW t \in Task, NEW c \in Coroutine, StartCoroutine(c, t)
      PROVE  CreatorsAlone'
  BY <1>1 DEF StartCoroutine, Goto, localVars, gateVars, syncVars
<1>2. ASSUME NEW t \in Task, Run(t)
      PROVE  CreatorsAlone'
  <2>1. PICK label \in {"body", "exclusive", "shared"} : pc[t] = "ready" /\ pc' = [pc EXCEPT ![t] = label]
    BY <1>2, RunGoesOn
  <2>2. UNCHANGED <<new, prerequires, dependents, todo, gate_tag, coroutine>>
    BY <1>2 DEF Run, localVars, gateVars
  <2> QED
    BY <2>1, <2>2
<1>3. ASSUME NEW t \in Task, TryExclusive(t)
      PROVE  CreatorsAlone'
  BY <1>3 DEF TryExclusive, Request, User, Suspend, Goto, localVars, gateVars
<1>4. ASSUME NEW t \in Task, TryShared(t)
      PROVE  CreatorsAlone'
  BY <1>4 DEF TryShared, Request, User, Suspend, Goto, localVars, gateVars
<1>5. ASSUME NEW t \in Task, NEW u \in Task, SuspendExclusive(t, u)
      PROVE  CreatorsAlone'
  <2>1. pc[t] = "suspend" /\ SyncExclusive(t, u) /\ pc'[u] = "waiting"
    BY <1>5 DEF SuspendExclusive, SyncExclusive
  <2>2. coroutine' = [coroutine EXCEPT ![u] = coroutine[t], ![t] = None]
    BY <1>5 DEF SuspendExclusive, MoveCoroutine
  <2>3. state[u] = "Pooled" /\ u # t
    BY <2>1 DEF SyncExclusive, CreateTask
  <2>4. Exclusive(u)'
    BY <1>5, <2>1, <2>2, <2>3 DEF SuspendExclusive, Exclusive, coVars
  <2>5. \A x \in Task : x # u => coroutine'[x] \in {coroutine[x], None}
    BY <2>2
  <2> QED
    BY <2>1, <2>4, <2>5, <1>20
<1>6. ASSUME NEW t \in Task, NEW u \in Task, SuspendShared(t, u)
      PROVE  CreatorsAlone'
  <2>1. /\ pc[t] = "suspend" /\ state[u] = "Pooled" /\ new' = [new EXCEPT ![t] = u]
        /\ pc' = [pc EXCEPT ![t] = "addref", ![u] = "waiting"]
        /\ coroutine' = [coroutine EXCEPT ![u] = coroutine[t], ![t] = None]
        /\ UNCHANGED <<prerequires, dependents, todo, gate_tag>>
    BY <1>6 DEF SuspendShared, CreateTask, MoveCoroutine, gateVars
  <2>2. u # t /\ pc[u] = "none"
    BY <2>1
  <2>3. Sharing(u)'
    <3>1. coroutine[t] # None /\ ask' = ask /\ ask[coroutine[t]] = "shared"
      BY <1>6, <2>1 DEF SuspendShared, SyncInv, CoroutinesPlaced
    <3> QED
      BY <2>1, <2>2, <3>1 DEF Sharing
  <2> QED
    BY <2>1, <2>2, <2>3
<1>7. ASSUME NEW a \in Agent, NEW u \in Task, InitializeTaskOn(a, u)
      PROVE  CreatorsAlone'
  <2>1. SyncExclusive(a, u) /\ pc[a] = "body" /\ pc'[u] = "waiting" /\ UNCHANGED coroutine
    BY <1>7 DEF InitializeTaskOn, SyncExclusive, Request, User
  <2>2. coroutine[u] = None
    BY <2>1 DEF SyncInv, CoroutinesPlaced, SyncExclusive, CreateTask
  <2>3. Exclusive(u)'
    BY <2>1, <2>2 DEF Exclusive
  <2>4. \A x \in Task : x # u => coroutine'[x] \in {coroutine[x], None}
    BY <2>1
  <2> QED
    BY <2>1, <2>2, <2>3, <2>4, <1>20
<1>8. ASSUME NEW a \in Agent, ReleaseReplaced(a)
      PROVE  CreatorsAlone'
  BY <1>8 DEF ReleaseReplaced, Release, One, Goto, syncVars, gateVars, coVars
<1>9. ASSUME NEW t \in Task, AddRefPrevious(t)
      PROVE  CreatorsAlone'
  BY <1>9 DEF AddRefPrevious, Goto, syncVars, gateVars, coVars
<1>10. ASSUME NEW a \in Agent, HandleOnTask(a)
      PROVE  CreatorsAlone'
  <2>1. /\ UNCHANGED <<new, dependents, gate_tag, coroutine>> /\ pc[a] = "handle" /\ new[a] \in Task
        /\ pc[new[a]] = "waiting" /\ new[a] # a /\ prerequires[new[a]] = 0
    BY <1>10 DEF HandleOnTask, gateVars
  <2>2. \A b \in Agent : b # a => new[b] # new[a]
    BY <2>1
  <2>3. CASE UNCHANGED <<pc, todo, prerequires>>
    BY <2>1, <2>3
  <2>4. CASE /\ todo' = [todo EXCEPT ![a] = result[a]] /\ ProcessOnReady(a)
             /\ prerequires' = [prerequires EXCEPT ![new[a]] = Cardinality(result[a])]
    <3>1. CASE pc' = [pc EXCEPT ![a] = "release", ![new[a]] = "ready"]
      BY <2>1, <2>2, <2>4, <3>1
    <3>2. CASE a \in Client /\ pc' = [pc EXCEPT ![a] = "inline", ![new[a]] = "exclusive"]
      <4>1. coroutine[new[a]] = None
        BY <2>1, <3>2
      <4> QED
        BY <2>1, <2>2, <2>4, <3>2, <4>1
    <3> QED
      BY <2>4, <3>1, <3>2 DEF ProcessOnReady
  <2>5. CASE /\ todo' = [todo EXCEPT ![a] = result[a]] /\ pc' = [pc EXCEPT ![a] = "add"]
             /\ prerequires' = [prerequires EXCEPT ![new[a]] = Cardinality(result[a])]
    BY <2>1, <2>2, <2>5
  <2> QED
    BY <1>10, <2>3, <2>4, <2>5 DEF HandleOnTask, Goto
<1>11. ASSUME NEW a \in Agent, NEW g \in todo[a], AddDependency(a, g)
      PROVE  CreatorsAlone'
  <2>1. /\ UNCHANGED <<new, pc, prerequires, gate_tag, coroutine>> /\ pc[a] = "add" /\ new[a] \in Task
        /\ todo' = [todo EXCEPT ![a] = @ \ {g}] /\ g \in TaggedGate
    BY <1>11 DEF AddDependency
  <2>2. \A b \in Agent : b # a => new[b] # new[a]
    BY <2>1
  <2>3. CASE UNCHANGED dependents
    BY <2>1, <2>2, <2>3
  <2>4. CASE dependents' = [dependents EXCEPT ![g.task] = @ \cup {new[a]}] /\ Blocks(g)
    <3>1. g.task \in Task /\ g.tag = gate_tag[g.task] /\ g = Gate(g.task)
      BY <2>1, <2>4 DEF Blocks, TaggedGate
    <3>2. \A p \in Task : dependents'[p] \subseteq dependents[p] \cup {new[a]}
                          /\ (Gate(p) # g => dependents'[p] = dependents[p])
      BY <2>4, <3>1
    <3> QED
      BY <2>1, <2>2, <3>1, <3>2
  <2> QED
    BY <1>11, <2>3, <2>4 DEF AddDependency
<1>12. ASSUME NEW a \in Agent, SubtractInactive(a)
      PROVE  CreatorsAlone'
  <2>1. /\ UNCHANGED <<new, dependents, gate_tag, coroutine, todo>> /\ pc[a] = "add" /\ new[a] \in Task
        /\ new[a] # a
        /\ prerequires' = [prerequires EXCEPT ![new[a]] = @ - inactive[a]]
    BY <1>12 DEF SubtractInactive, gateVars
  <2>2. \A b \in Agent : b # a => new[b] # new[a]
    BY <2>1
  <2>3. CASE inactive[a] > 0 /\ prerequires[new[a]] = inactive[a] /\ ProcessOnReady(a)
    <3>0. pc[new[a]] = "waiting"
      BY <2>1, <2>3
    <3>1. CASE pc' = [pc EXCEPT ![a] = "release", ![new[a]] = "ready"]
      BY <2>1, <2>2, <3>0, <3>1
    <3>2. CASE a \in Client /\ pc' = [pc EXCEPT ![a] = "inline", ![new[a]] = "exclusive"]
      <4>1. coroutine[new[a]] = None
        BY <2>1, <3>2, <3>0
      <4> QED
        BY <2>1, <2>2, <3>0, <3>2, <4>1
    <3> QED
      BY <2>3, <3>1, <3>2 DEF ProcessOnReady
  <2>4. CASE pc' = [pc EXCEPT ![a] = "release"]
    BY <2>1, <2>2, <2>4
  <2> QED
    BY <1>12, <2>3, <2>4 DEF SubtractInactive, Goto
<1>13. ASSUME NEW a \in Agent, ReleaseResult(a)
      PROVE  CreatorsAlone'
  BY <1>13 DEF ReleaseResult, Release, Goto, syncVars, gateVars, coVars
<1>14. ASSUME NEW t \in Task, ReleaseExclusive(t)
      PROVE  CreatorsAlone'
  <2>1. /\ UNCHANGED <<new, prerequires, dependents, todo, gate_tag, coroutine>>
        /\ pc' = [pc EXCEPT ![t] = IF pc[t] = "clear" THEN "finish" ELSE "leave"]
        /\ pc[t] = "clear" \/ (pc[t] = "exclusive" /\ coroutine[t] # None)
    BY <1>14 DEF ReleaseExclusive, AfterRelease, InPlainTask, Goto, gateVars, localVars
  <2>2. \A a \in Agent : pc[a] = "inline" /\ new[a] = t => a \in Client /\ coroutine[t] = None
    BY DEF Agent
  <2> QED
    BY <2>1, <2>2
<1>15. ASSUME NEW t \in Task, ReleaseShared(t)
      PROVE  CreatorsAlone'
  BY <1>15 DEF ReleaseShared, Release, ClearShared, Goto, gateVars, localVars, coVars
<1>16. ASSUME NEW t \in Task, LeaveScope(t)
      PROVE  CreatorsAlone'
  BY <1>16 DEF LeaveScope, UnblockDependents, Wake, syncVars, localVars, coVars, gateVars
<1>17. ASSUME NEW t \in Task, EndFunction(t)
      PROVE  CreatorsAlone'
  <2> DEFINE label == IF InPlainTask(t) THEN "clear" ELSE "finish"
  <2>1. /\ UNCHANGED <<new, todo, gate_tag, coroutine>>
        /\ pc[t] \in {"body", "exclusive"}
        /\ Wake(t, label) /\ label \in {"clear", "finish"}
        /\ dependents' = [dependents EXCEPT ![t] = {}]
        /\ \A d \in Task : prerequires'[d] = IF d \in dependents[t] THEN prerequires[d] - 1 ELSE prerequires[d]
    BY <1>17 DEF EndFunction, InPlainTask, UnblockDependents, localVars
  <2> HIDE DEF label
  <2>2. /\ pc'[t] = label
        /\ \A b \in Agent : b # t /\ (b \notin Task \/ pc[b] # "waiting") => pc'[b] = pc[b]
        /\ \A d \in Task : d # t =>
             pc'[d] = IF d \in dependents[t] /\ prerequires[d] = 1 THEN "ready" ELSE pc[d]
    BY <2>1, WakesWaiting
  <2>3. \A p \in Task : dependents'[p] \subseteq dependents[p]
    BY <2>1
  <2> QED
    BY <2>1, <2>2, <2>3
<1>18. ASSUME NEW t \in Task, Finish(t)
      PROVE  CreatorsAlone'
  <2>1. /\ UNCHANGED <<new, prerequires, dependents, todo, gate_tag>> /\ pc[t] = "finish"
        /\ coroutine' = [coroutine EXCEPT ![t] = None]
        /\ \A a \in Agent : pc'[a] = IF a = t THEN "none"
              ELSE IF pc[a] = "inline" /\ new[a] = t THEN "release" ELSE pc[a]
    BY <1>18 DEF Finish, gateVars, localVars
  <2> QED
    BY <2>1
<1>19. CASE UNCHANGED vars
  BY <1>19 DEF vars, syncVars, gateVars, localVars, coVars
<1> QED
  BY <1>1, <1>2, <1>3, <1>4, <1>5, <1>6, <1>7, <1>8, <1>9, <1>10, <1>11, <1>12, <1>13,
     <1>14, <1>15, <1>16, <1>17, <1>18, <1>19
  DEF Next, Proceed, Queue
-----------------------------------------------------------------------------
(* The references are exact. *)

Holding(f, t) == {a \in Agent : f[a] = t}
Chained(f, t) == {x \in Agent \X TaggedGate : x[2] \in f[x[1]] /\ x[2].task = t}
Gates(t) == {p \in Task : t \in dependents[p]}
LastCount(t) == IF last_task = t THEN 1 ELSE 0
ThreadCount(t) == IF pc[t] \in {"none", "waiting"} \/ RunsInline(t) THEN 0 ELSE 1

LEMMA OneElement ==
  ASSUME NEW A, NEW B, NEW x, IsFiniteSet(A), IsFiniteSet(B), A \ {x} = B \ {x}
  PROVE  Cardinality(B) = Cardinality(A) - (IF x \in A THEN 1 ELSE 0) + (IF x \in B THEN 1 ELSE 0)
<1> DEFINE rest == Cardinality(A \ {x})
<1>1. rest = IF x \in A THEN Cardinality(A) - 1 ELSE Cardinality(A)
  BY FS_RemoveElement
<1>2. rest = IF x \in B THEN Cardinality(B) - 1 ELSE Cardinality(B)
  BY FS_RemoveElement
<1>3. Cardinality(A) \in Nat /\ Cardinality(B) \in Nat
  BY FS_CardinalityType
<1> HIDE DEF rest
<1>4. CASE x \in A
  BY <1>1, <1>2, <1>3, <1>4
<1>5. CASE x \notin A
  BY <1>1, <1>2, <1>3, <1>5
<1> QED
  BY <1>4, <1>5

\* As many more of the locals h than of f hold t as a's local says.
Moves(f, h, a, t) ==
  Cardinality(Holding(h, t)) =
    Cardinality(Holding(f, t)) - (IF f[a] = t THEN 1 ELSE 0) + (IF h[a] = t THEN 1 ELSE 0)

\* One agent's local names another task.
LEMMA HoldingChanges ==
  ASSUME NEW f, NEW h, NEW a \in Agent, NEW t \in Task, \A b \in Agent : b # a => h[b] = f[b]
  PROVE  Moves(f, h, a, t)
<1> DEFINE old == Holding(f, t)
           next == Holding(h, t)
<1>1. IsFiniteSet(old) /\ IsFiniteSet(next)
  BY SubsetCounts DEF Holding
<1>2. /\ a \in old <=> f[a] = t
      /\ a \in next <=> h[a] = t
      /\ old \ {a} = next \ {a}
  BY DEF Holding
<1> HIDE DEF old, next
<1>3. Cardinality(next) = Cardinality(old) - (IF a \in old THEN 1 ELSE 0) + (IF a \in next THEN 1 ELSE 0)
  BY <1>1, <1>2, OneElement
<1> QED
  BY <1>2, <1>3 DEF old, next, Moves

\* One gate's nodes change.
LEMMA GatesChange ==
  ASSUME dependents \in [Task -> SUBSET Task], NEW p \in Task, NEW D \in SUBSET Task, NEW t \in Task,
         dependents' = [dependents EXCEPT ![p] = D]
  PROVE  Cardinality(Gates(t)') =
           Cardinality(Gates(t)) - (IF t \in dependents[p] THEN 1 ELSE 0) + (IF t \in D THEN 1 ELSE 0)
<1> DEFINE old == Gates(t)
           next == Gates(t)'
<1>1. IsFiniteSet(old) /\ IsFiniteSet(next)
  BY SubsetCounts DEF Gates
<1>2. /\ p \in old <=> t \in dependents[p]
      /\ p \in next <=> t \in D
      /\ old \ {p} = next \ {p}
  BY DEF Gates
<1> HIDE DEF old, next
<1>3. Cardinality(next) = Cardinality(old) - (IF p \in old THEN 1 ELSE 0) + (IF p \in next THEN 1 ELSE 0)
  BY <1>1, <1>2, OneElement
<1> QED
  BY <1>2, <1>3 DEF old, next

\* How many nodes of a set are of a task.
LEMMA NodesNat ==
  ASSUME NEW t \in Task, NEW S \in SUBSET TaggedGate
  PROVE  Nodes(S)[t] = Cardinality({g \in S : g.task = t}) /\ Nodes(S)[t] \in Nat
<1>1. {g \in S : g.task = t} \in SUBSET TaggedGate
  OBVIOUS
<1> QED
  BY <1>1, SubsetCounts DEF Nodes

LEMMA NodesAdded ==
  ASSUME NEW t \in Task, NEW S \in SUBSET TaggedGate, NEW g \in TaggedGate, g \notin S
  PROVE  Nodes(S \cup {g})[t] = Nodes(S)[t] + (IF g.task = t THEN 1 ELSE 0)
<1> DEFINE part == {h \in S : h.task = t}
           more == {h \in S \cup {g} : h.task = t}
<1>1. IsFiniteSet(part) /\ IsFiniteSet(more)
  BY SubsetCounts
<1>2. part \ {g} = more \ {g} /\ g \notin part /\ (g \in more <=> g.task = t)
  OBVIOUS
<1>3. Nodes(S)[t] = Cardinality(part) /\ Nodes(S \cup {g})[t] = Cardinality(more)
  BY DEF Nodes
<1>4. Cardinality(part) \in Nat
  BY <1>1, FS_CardinalityType
<1> HIDE DEF part, more
<1>5. Cardinality(more) = Cardinality(part) - (IF g \in part THEN 1 ELSE 0) + (IF g \in more THEN 1 ELSE 0)
  BY <1>1, <1>2, OneElement
<1> QED
  BY <1>2, <1>3, <1>4, <1>5

LEMMA NodesNone == \A t \in Task : Nodes({})[t] = 0
<1> SUFFICES ASSUME NEW t \in Task PROVE Nodes({})[t] = 0
  OBVIOUS
<1>1. {g \in {} : g.task = t} = {}
  OBVIOUS
<1> QED
  BY <1>1, FS_EmptySet DEF Nodes

LEMMA NodesSingle ==
  ASSUME NEW t \in Task, NEW g \in TaggedGate
  PROVE  Nodes({g})[t] = IF g.task = t THEN 1 ELSE 0
<1>1. {} \cup {g} = {g} /\ g \notin {} /\ {} \in SUBSET TaggedGate
  OBVIOUS
<1>2. Nodes({} \cup {g})[t] = Nodes({})[t] + (IF g.task = t THEN 1 ELSE 0)
  BY <1>1, NodesAdded
<1> QED
  BY <1>1, <1>2, NodesNone

LEMMA NodesZero ==
  ASSUME NEW t \in Task, NEW S \in SUBSET TaggedGate, Nodes(S)[t] = 0
  PROVE  \A g \in S : g.task # t
<1>1. {g \in S : g.task = t} \in SUBSET TaggedGate
  OBVIOUS
<1>2. {g \in S : g.task = t} = {}
  BY <1>1, NodesNat, SubsetCounts
<1> QED
  BY <1>2

\* The references of one result, and those of the others.
LEMMA ChainedSplit ==
  ASSUME NEW f, f \in [Agent -> SUBSET TaggedGate], NEW a \in Agent, NEW t \in Task
  PROVE  /\ Cardinality(Chained(f, t)) = Cardinality({x \in Chained(f, t) : x[1] # a}) + Nodes(f[a])[t]
         /\ Cardinality({x \in Chained(f, t) : x[1] # a}) \in Nat
<1> DEFINE all == Chained(f, t)
           rest == {x \in Chained(f, t) : x[1] # a}
           nodes == {g \in f[a] : g.task = t}
           own == {a} \X nodes
<1>1. IsFiniteSet(nodes) /\ Cardinality(nodes) \in Nat /\ Cardinality(nodes) = Nodes(f[a])[t]
  BY NodesNat, SubsetCounts
<1>2. IsFiniteSet(rest) /\ Cardinality(rest) \in Nat
  BY SubsetCounts DEF Chained
<1>3. all = rest \cup own /\ rest \cap own = {}
  BY DEF Chained
<1> HIDE DEF all, rest, nodes
<1>4. IsFiniteSet(own) /\ Cardinality(own) = Cardinality(nodes)
  <2>1. IsFiniteSet({a}) /\ Cardinality({a}) = 1
    BY FS_Singleton
  <2>2. Cardinality(own) = 1 * Cardinality(nodes) /\ IsFiniteSet(own)
    BY <1>1, <2>1, FS_Product
  <2> QED
    BY <1>1, <2>2
<1> HIDE DEF own
<1>5. Cardinality(rest \cup own) = Cardinality(rest) + Cardinality(own) - Cardinality(rest \cap own)
  BY <1>2, <1>4, FS_Union
<1>6. Cardinality(rest \cap own) = 0
  BY <1>3, FS_EmptySet
<1>7. Cardinality(all) = Cardinality(rest) + Nodes(f[a])[t]
  BY <1>1, <1>2, <1>3, <1>4, <1>5, <1>6
<1> QED
  BY <1>2, <1>7 DEF all, rest

LEMMA ChainedChanges ==
  ASSUME NEW f, f \in [Agent -> SUBSET TaggedGate], NEW h, h \in [Agent -> SUBSET TaggedGate],
         NEW a \in Agent, NEW t \in Task, \A b \in Agent : b # a => h[b] = f[b]
  PROVE  Cardinality(Chained(h, t)) = Cardinality(Chained(f, t)) - Nodes(f[a])[t] + Nodes(h[a])[t]
<1>1. {x \in Chained(h, t) : x[1] # a} = {x \in Chained(f, t) : x[1] # a}
  BY DEF Chained
<1>2. Nodes(f[a])[t] \in Nat /\ Nodes(h[a])[t] \in Nat
  BY NodesNat
<1>3. /\ Cardinality(Chained(f, t)) = Cardinality({x \in Chained(f, t) : x[1] # a}) + Nodes(f[a])[t]
      /\ Cardinality({x \in Chained(f, t) : x[1] # a}) \in Nat
  BY ChainedSplit
<1>4. Cardinality(Chained(h, t)) = Cardinality({x \in Chained(h, t) : x[1] # a}) + Nodes(h[a])[t]
  BY ChainedSplit
<1> DEFINE others == Cardinality({x \in Chained(f, t) : x[1] # a})
           after == Cardinality(Chained(h, t))
           before == Cardinality(Chained(f, t))
           m == Nodes(f[a])[t]
           n == Nodes(h[a])[t]
<1>5. m \in Nat /\ n \in Nat /\ others \in Nat /\ before = others + m
  BY <1>2, <1>3
<1>6. after = others + n
  BY <1>1, <1>4
<1> HIDE DEF others, after, before, m, n
<1>7. after = before - m + n
  BY <1>5, <1>6
<1> QED
  BY <1>7 DEF after, before, m, n

\* The counts are natural numbers.
LEMMA CountsNat ==
  ASSUME NEW t \in Task, TypeOK
  PROVE  /\ LastCount(t) \in Nat /\ Nodes(shared)[t] \in Nat
         /\ Cardinality(Holding(new, t)) \in Nat /\ Cardinality(Holding(replaced, t)) \in Nat
         /\ Cardinality(Chained(result, t)) \in Nat /\ Cardinality(Gates(t)) \in Nat
         /\ ThreadCount(t) \in Nat
<1>1. shared \in SUBSET TaggedGate
  BY DEF TypeOK
<1> QED
  BY <1>1, NodesNat, SubsetCounts DEF LastCount, ThreadCount, Holding, Chained, Gates

Referrers(t) ==
  LastCount(t) + Nodes(shared)[t] + Cardinality(Holding(new, t)) + Cardinality(Holding(replaced, t))
  + Cardinality(Chained(result, t)) + Cardinality(Gates(t)) + ThreadCount(t)

LEMMA LastSingle == \A l, t : Cardinality({u \in {l} : u = t}) = IF l = t THEN 1 ELSE 0
<1> SUFFICES ASSUME NEW l, NEW t PROVE Cardinality({u \in {l} : u = t}) = IF l = t THEN 1 ELSE 0
  OBVIOUS
<1>1. {u \in {l} : u = t} = IF l = t THEN {t} ELSE {}
  OBVIOUS
<1> QED
  BY <1>1, FS_EmptySet, FS_Singleton

LEMMA ChainedPairs ==
  ASSUME NEW f, f \in [Agent -> SUBSET TaggedGate], NEW t
  PROVE  {x \in UNION {{a} \X f[a] : a \in Agent} : x[2].task = t} = Chained(f, t)
<1>1. \A x : (\E a \in Agent : x \in {a} \X f[a]) <=> (x \in Agent \X TaggedGate /\ x[2] \in f[x[1]])
  OBVIOUS
<1> QED
  BY <1>1 DEF Chained

LEMMA RefsSum == TypeOK => (RefsExact <=> \A t \in Task : refs[t] = Referrers(t))
<1> SUFFICES ASSUME TypeOK PROVE RefsExact <=> \A t \in Task : refs[t] = Referrers(t)
  OBVIOUS
<1>1. \A t \in Task : Cardinality({u \in {last_task} : u = t}) = LastCount(t)
  BY LastSingle DEF LastCount
<1>2. \A t \in Task : Cardinality({x \in UNION {{a} \X result[a] : a \in Agent} : x[2].task = t})
                        = Cardinality(Chained(result, t))
  BY ChainedPairs DEF TypeOK
<1> QED
  BY <1>1, <1>2 DEF RefsExact, Referrers, Holding, Gates, ThreadCount

LEMMA ResultsTyped == SyncInv /\ [Next]_vars => result' \in [Agent -> SUBSET TaggedGate]
<1> SUFFICES ASSUME SyncInv, [Next]_vars PROVE result' \in [Agent -> SUBSET TaggedGate]
  OBVIOUS
<1>0. /\ result \in [Agent -> SUBSET TaggedGate] /\ shared \in SUBSET TaggedGate
      /\ previous \in [Agent -> [task : TaskOrNone, tag : Tag]]
      /\ last_task \in TaskOrNone /\ last_task_tag \in Tag
  BY DEF SyncInv, TypeOK
<1> USE <1>0 DEF TaggedGate, TaskOrNone
<1>1. ASSUME NEW t \in Task, NEW c \in Coroutine, StartCoroutine(c, t)
      PROVE  result' \in [Agent -> SUBSET TaggedGate]
  BY <1>1 DEF StartCoroutine, Goto, localVars, gateVars, syncVars
<1>2. ASSUME NEW t \in Task, Run(t)
      PROVE  result' \in [Agent -> SUBSET TaggedGate]
  BY <1>2 DEF Run, Goto, localVars, gateVars, syncVars
<1>3. ASSUME NEW t \in Task, TryExclusive(t)
      PROVE  result' \in [Agent -> SUBSET TaggedGate]
  BY <1>3 DEF TryExclusive, Request, User, Suspend, Goto, localVars, gateVars
<1>4. ASSUME NEW t \in Task, TryShared(t)
      PROVE  result' \in [Agent -> SUBSET TaggedGate]
  BY <1>4 DEF TryShared, Request, User, Suspend, Goto, localVars, gateVars
<1>5. ASSUME NEW t \in Task, NEW u \in Task, SuspendExclusive(t, u)
      PROVE  result' \in [Agent -> SUBSET TaggedGate]
  <2>1. WaitsFor \in SUBSET TaggedGate
    BY DEF WaitsFor
  <2>2. result' = [result EXCEPT ![t] = WaitsFor]
    BY <1>5 DEF SuspendExclusive, SyncExclusive
  <2> QED
    BY <2>1, <2>2
<1>6. ASSUME NEW t \in Task, NEW u \in Task, SuspendShared(t, u)
      PROVE  result' \in [Agent -> SUBSET TaggedGate]
  BY <1>6 DEF SuspendShared, CreateTask, MoveCoroutine, gateVars
<1>7. ASSUME NEW a \in Agent, NEW u \in Task, InitializeTaskOn(a, u)
      PROVE  result' \in [Agent -> SUBSET TaggedGate]
  BY <1>7 DEF InitializeTaskOn, Request, User, SyncExclusive, WaitsFor, CreateTask, ClearShared, gateVars
<1>8. ASSUME NEW a \in Agent, ReleaseReplaced(a)
      PROVE  result' \in [Agent -> SUBSET TaggedGate]
  BY <1>8 DEF ReleaseReplaced, Release, One, Goto, syncVars, gateVars, coVars
<1>9. ASSUME NEW t \in Task, AddRefPrevious(t)
      PROVE  result' \in [Agent -> SUBSET TaggedGate]
  BY <1>9 DEF AddRefPrevious, Goto, syncVars, gateVars, coVars
<1>10. ASSUME NEW a \in Agent, HandleOnTask(a)
      PROVE  result' \in [Agent -> SUBSET TaggedGate]
  BY <1>10 DEF HandleOnTask, ProcessOnReady, Goto, syncVars, gateVars, coVars
<1>11. ASSUME NEW a \in Agent, NEW g \in todo[a], AddDependency(a, g)
      PROVE  result' \in [Agent -> SUBSET TaggedGate]
  BY <1>11 DEF AddDependency, syncVars, coVars
<1>12. ASSUME NEW a \in Agent, SubtractInactive(a)
      PROVE  result' \in [Agent -> SUBSET TaggedGate]
  BY <1>12 DEF SubtractInactive, ProcessOnReady, Goto, syncVars, gateVars, coVars
<1>13. ASSUME NEW a \in Agent, ReleaseResult(a)
      PROVE  result' \in [Agent -> SUBSET TaggedGate]
  BY <1>13 DEF ReleaseResult, Release, Goto, syncVars, gateVars, coVars
<1>14. ASSUME NEW t \in Task, ReleaseExclusive(t)
      PROVE  result' \in [Agent -> SUBSET TaggedGate]
  BY <1>14 DEF ReleaseExclusive, AfterRelease, Release, One, InPlainTask, Goto, gateVars, localVars, coVars
<1>15. ASSUME NEW t \in Task, ReleaseShared(t)
      PROVE  result' \in [Agent -> SUBSET TaggedGate]
  BY <1>15 DEF ReleaseShared, Release, ClearShared, Goto, gateVars, localVars, coVars
<1>16. ASSUME NEW t \in Task, LeaveScope(t)
      PROVE  result' \in [Agent -> SUBSET TaggedGate]
  BY <1>16 DEF LeaveScope, UnblockDependents, Wake, syncVars, localVars, coVars, gateVars
<1>17. ASSUME NEW t \in Task, EndFunction(t)
      PROVE  result' \in [Agent -> SUBSET TaggedGate]
  BY <1>17 DEF EndFunction, UnblockDependents, Wake, InPlainTask, syncVars, localVars, coVars
<1>18. ASSUME NEW t \in Task, Finish(t)
      PROVE  result' \in [Agent -> SUBSET TaggedGate]
  BY <1>18 DEF Finish, Release, One, syncVars, gateVars, localVars, coVars
<1>19. CASE UNCHANGED vars
  BY <1>19 DEF vars, syncVars, gateVars, localVars, coVars
<1> QED
  BY <1>1, <1>2, <1>3, <1>4, <1>5, <1>6, <1>7, <1>8, <1>9, <1>10, <1>11, <1>12, <1>13,
     <1>14, <1>15, <1>16, <1>17, <1>18, <1>19
  DEF Next, Proceed, Queue
LEMMA RefsStep == SyncInv /\ [Next]_vars => RefsExact'
<1> SUFFICES ASSUME SyncInv, [Next]_vars PROVE RefsExact'
  OBVIOUS
<1>a. \A t \in Task : Cardinality({u \in {last_task'} : u = t}) = LastCount(t)'
  BY LastSingle DEF LastCount
<1>p. \A t \in Task : Cardinality({x \in UNION {{a} \X result'[a] : a \in Agent} : x[2].task = t})
                        = Cardinality(Chained(result', t))
  BY ResultsTyped, ChainedPairs
<1> SUFFICES ASSUME NEW x \in Task PROVE refs'[x] = Referrers(x)'
  BY <1>a, <1>p DEF RefsExact, Referrers, Holding, Chained, Gates, ThreadCount
<1> DEFINE lastc == LastCount(x)
           sharc == Nodes(shared)[x]
           newc == Cardinality(Holding(new, x))
           repc == Cardinality(Holding(replaced, x))
           resc == Cardinality(Chained(result, x))
           gatec == Cardinality(Gates(x))
           thrc == ThreadCount(x)
<1>b. refs[x] = lastc + sharc + newc + repc + resc + gatec + thrc
  BY RefsSum DEF SyncInv, Referrers
<1>c. lastc \in Nat /\ sharc \in Nat /\ newc \in Nat /\ repc \in Nat /\ resc \in Nat /\ gatec \in Nat /\ thrc \in Nat
  BY CountsNat DEF SyncInv
<1>d. Referrers(x)' = lastc' + sharc' + newc' + repc' + resc' + gatec' + thrc'
  BY DEF Referrers
<1>e. /\ last_task' = last_task => lastc' = lastc
      /\ shared' = shared => sharc' = sharc
      /\ new' = new => newc' = newc
      /\ replaced' = replaced => repc' = repc
      /\ result' = result => resc' = resc
      /\ dependents' = dependents => gatec' = gatec
      /\ (pc'[x] \in {"none", "waiting"} <=> pc[x] \in {"none", "waiting"})
           /\ (RunsInline(x)' <=> RunsInline(x)) => thrc' = thrc
  BY DEF LastCount, Nodes, Holding, Chained, Gates, ThreadCount
<1>t. /\ pc \in [Agent -> Labels] /\ new \in [Agent -> TaskOrNone] /\ replaced \in [Agent -> TaskOrNone]
      /\ refs \in [Task -> Nat] /\ result \in [Agent -> SUBSET TaggedGate]
      /\ previous \in [Agent -> [task : TaskOrNone, tag : Tag]]
      /\ dependents \in [Task -> SUBSET Task] /\ gate_tag \in [Task -> Tag]
      /\ shared \in SUBSET TaggedGate /\ last_task \in TaskOrNone /\ last_task_tag \in Tag
  BY DEF SyncInv, TypeOK, Labels
<1>0. /\ \A t \in Task : t \in Agent /\ t \notin Client
      /\ \A c \in Client : c \in Agent /\ c \notin Task
      /\ None \notin Task
      /\ \A a \in Agent : /\ new[a] # None <=> pc[a] \in Queueing
                          /\ replaced[a] # None <=> pc[a] = "replaced"
                          /\ result[a] # {} => pc[a] \in Queueing \ {"addref"}
                          /\ a \in Client => pc[a] \in {"body"} \cup (Queueing \ {"addref"})
                          /\ a \in Task => pc[a] # "inline" /\ new[a] # a
      /\ \A t \in Task : state[t] = "Pooled" =>
           /\ pc[t] = "none" /\ (\A a \in Agent : new[a] # t) /\ \A g \in shared : g.task # t
      /\ \A u, p \in Task : u \in dependents[p] => prerequires[u] > 0 /\ pc[u] = "waiting"
      /\ CreatorsAlone
  BY SyncAssumption, NoGates
  DEF SyncInv, Stages, LocalsFollowPc, PooledUnreferenced, Agent
<1>n. x # None
  BY SyncAssumption
<1>f. ASSUME NEW a \in Agent, NEW u \in TaskOrNone, new' = [new EXCEPT ![a] = u]
      PROVE  newc' = newc - (IF new[a] = x THEN 1 ELSE 0) + (IF u = x THEN 1 ELSE 0)
  <2>1. new'[a] = u /\ \A b \in Agent : b # a => new'[b] = new[b]
    BY <1>t, <1>f
  <2>2. Moves(new, new', a, x)
    BY <2>1, HoldingChanges
  <2> QED
    BY <2>1, <2>2 DEF Moves
<1>i. ASSUME NEW a \in Agent, NEW u \in TaskOrNone, replaced' = [replaced EXCEPT ![a] = u]
      PROVE  repc' = repc - (IF replaced[a] = x THEN 1 ELSE 0) + (IF u = x THEN 1 ELSE 0)
  <2>1. replaced'[a] = u /\ \A b \in Agent : b # a => replaced'[b] = replaced[b]
    BY <1>t, <1>i
  <2>2. Moves(replaced, replaced', a, x)
    BY <2>1, HoldingChanges
  <2> QED
    BY <2>1, <2>2 DEF Moves
<1>g. ASSUME NEW a \in Agent, NEW S \in SUBSET TaggedGate, result' = [result EXCEPT ![a] = S]
      PROVE  resc' = resc - Nodes(result[a])[x] + Nodes(S)[x]
  <2>1. /\ result' \in [Agent -> SUBSET TaggedGate] /\ result'[a] = S
        /\ \A b \in Agent : b # a => result'[b] = result[b]
    BY <1>t, <1>0, <1>g
  <2>2. result \in [Agent -> SUBSET TaggedGate]
    BY <1>t
  <2> QED
    BY <2>1, <2>2, ChainedChanges
<1>h. ASSUME NEW g \in TaggedGate, g \notin shared, shared' = shared \cup {g}
      PROVE  sharc' = sharc + (IF x = g.task THEN 1 ELSE 0)
  <2>1. shared \in SUBSET TaggedGate
    BY <1>t
  <2>2. Nodes(shared \cup {g})[x] = Nodes(shared)[x] + (IF g.task = x THEN 1 ELSE 0)
    BY <1>h, <2>1, NodesAdded
  <2> QED
    BY <1>h, <2>2
<1>j. ASSUME NEW p \in Task, NEW D \in SUBSET Task, dependents' = [dependents EXCEPT ![p] = D]
      PROVE  gatec' = gatec - (IF x \in dependents[p] THEN 1 ELSE 0) + (IF x \in D THEN 1 ELSE 0)
  <2>1. dependents \in [Task -> SUBSET Task]
    BY <1>t
  <2> QED
    BY <1>j, <2>1, GatesChange
<1> HIDE DEF lastc, sharc, newc, repc, resc, gatec, thrc
<1> USE DEF Queueing, TaskOrNone
<1>1. ASSUME NEW t \in Task, NEW c \in Coroutine, StartCoroutine(c, t)
      PROVE  refs'[x] = Referrers(x)'
  <2>1. /\ UNCHANGED <<last_task, shared, new, replaced, result, dependents>> /\ pc[t] = "none"
        /\ pc' = [pc EXCEPT ![t] = "ready"] /\ refs' = [refs EXCEPT ![t] = @ + 1]
        /\ \A a \in Agent : new[a] # t
    BY <1>t, <1>0, <1>1 DEF StartCoroutine, Goto, localVars, gateVars, syncVars
  <2>2. thrc' = thrc + (IF x = t THEN 1 ELSE 0)
    BY <1>t, <1>0, <2>1 DEF thrc, ThreadCount, RunsInline
  <2>3. refs'[x] = refs[x] + (IF x = t THEN 1 ELSE 0)
    BY <1>t, <1>0, <2>1
  <2> QED
    BY <1>t, <1>0, <2>1, <2>2, <2>3, <1>b, <1>c, <1>d, <1>e
<1>2. ASSUME NEW t \in Task, Run(t)
      PROVE  refs'[x] = Referrers(x)'
  <2>1. PICK label \in {"body", "exclusive", "shared"} : pc[t] = "ready" /\ pc' = [pc EXCEPT ![t] = label]
    BY <1>t, <1>0, <1>2, RunGoesOn
  <2>2. UNCHANGED <<last_task, shared, new, replaced, result, dependents, refs>>
    BY <1>t, <1>0, <1>2 DEF Run, localVars, gateVars, syncVars
  <2>3. thrc' = thrc
    BY <1>t, <1>0, <2>1, <2>2 DEF thrc, ThreadCount, RunsInline
  <2> QED
    BY <2>2, <2>3, <1>b, <1>c, <1>d, <1>e
<1>3. ASSUME NEW t \in Task, TryExclusive(t)
      PROVE  refs'[x] = Referrers(x)'
  <2>1. /\ UNCHANGED <<shared, new, replaced, result, dependents>> /\ pc[t] = "body"
        /\ \E label \in {"exclusive", "suspend"} : pc' = [pc EXCEPT ![t] = label]
        /\ \/ UNCHANGED <<last_task, refs>>
           \/ last_task = None /\ last_task' = t /\ refs' = [refs EXCEPT ![t] = @ + 1]
    BY <1>t, <1>0, <1>3 DEF TryExclusive, Request, User, Suspend, Goto, localVars, gateVars, ExclusiveAvailable
  <2>2. thrc' = thrc
    BY <1>t, <1>0, <2>1 DEF thrc, ThreadCount, RunsInline
  <2>3. last_task = None /\ last_task' = t => lastc' = lastc + (IF x = t THEN 1 ELSE 0)
    BY <1>t, <1>0 DEF lastc, LastCount
  <2> QED
    BY <1>t, <1>0, <2>1, <2>2, <2>3, <1>b, <1>c, <1>d, <1>e
<1>4. ASSUME NEW t \in Task, TryShared(t)
      PROVE  refs'[x] = Referrers(x)'
  <2> DEFINE d == IF x = t THEN 1 ELSE 0
  <2>1. /\ UNCHANGED <<last_task, new, replaced, result, dependents>> /\ pc[t] = "body"
        /\ \E label \in {"shared", "suspend"} : pc' = [pc EXCEPT ![t] = label]
        /\ \/ UNCHANGED <<shared, refs>>
           \/ shared' = shared \cup {Gate(t)} /\ refs' = [refs EXCEPT ![t] = @ + 1]
    BY <1>4 DEF TryShared, Request, User, Suspend, Goto, localVars, gateVars
  <2>2. thrc' = thrc
    BY <1>t, <1>0, <2>1 DEF thrc, ThreadCount, RunsInline
  <2>3. Gate(t) \in TaggedGate /\ Gate(t) \notin shared /\ Gate(t).task = t
    BY <1>t, <2>1 DEF SyncInv, CollectionExact, Sharing, Gate, TaggedGate
  <2>4. CASE UNCHANGED <<shared, refs>>
    BY <2>1, <2>2, <2>4, <1>b, <1>c, <1>d, <1>e
  <2>5. CASE shared' = shared \cup {Gate(t)} /\ refs' = [refs EXCEPT ![t] = @ + 1]
    <3>1. refs'[x] = refs[x] + d
      BY <1>t, <2>5
    <3>2. sharc' = sharc + d
      BY <2>3, <2>5, <1>h
    <3>3. lastc' = lastc /\ newc' = newc /\ repc' = repc /\ resc' = resc /\ gatec' = gatec /\ d \in Nat
      BY <2>1, <1>e
    <3> HIDE DEF d
    <3> QED
      BY <2>2, <3>1, <3>2, <3>3, <1>b, <1>c, <1>d
  <2> QED
    BY <2>1, <2>4, <2>5
<1>20. ASSUME NEW a \in Agent, NEW u \in Task, SyncExclusive(a, u), pc[a] \in {"body", "suspend"}
       PROVE  refs'[x] = Referrers(x)'
  <2> DEFINE passed == IF shared # {} THEN last_task ELSE None
             d == IF x = u THEN 1 ELSE 0
             l == IF last_task = x THEN 1 ELSE 0
             w == Nodes(WaitsFor)[x]
  <2>1. /\ state[u] = "Pooled" /\ refs' = [refs EXCEPT ![u] = @ + 2] /\ new' = [new EXCEPT ![a] = u]
        /\ last_task' = u /\ UNCHANGED dependents
        /\ IF shared # {} THEN shared' = {} ELSE UNCHANGED shared
        /\ result' = [result EXCEPT ![a] = WaitsFor]
        /\ replaced' = [replaced EXCEPT ![a] = passed]
        /\ \E label \in {"handle", "replaced"} : pc' = [pc EXCEPT ![a] = label, ![u] = "waiting"]
    BY <1>20 DEF SyncExclusive, CreateTask, ClearShared, gateVars
  <2>2. new[a] = None /\ replaced[a] = None /\ result[a] = {}
    BY <1>t, <1>0, <1>20
  <2>3. WaitsFor \in SUBSET TaggedGate /\ passed \in TaskOrNone
    BY <1>t DEF WaitsFor, TaggedGate
  <2>4. thrc' = thrc
    <3>1. PICK label \in {"handle", "replaced"} : pc' = [pc EXCEPT ![a] = label, ![u] = "waiting"]
      BY <2>1
    <3>2. pc[u] = "none"
      BY <1>0, <2>1
    <3>3. pc'[x] \in {"none", "waiting"} <=> pc[x] \in {"none", "waiting"}
      BY <1>t, <1>20, <3>1, <3>2, <1>0
    <3>4. \A b \in Client : pc'[b] = "inline" <=> pc[b] = "inline"
      BY <1>t, <1>0, <1>20, <3>1
    <3>5. \A b \in Client : pc[b] = "inline" => new'[b] = new[b]
      <4>1. new' = [new EXCEPT ![a] = u]
        BY <2>1
      <4>2. \A b \in Client : pc[b] = "inline" => b # a /\ b \in Agent
        BY <1>0, <1>20
      <4> QED
        BY <1>t, <4>1, <4>2
    <3>6. RunsInline(x)' <=> RunsInline(x)
      BY <3>4, <3>5 DEF RunsInline
    <3> QED
      BY <3>3, <3>6, <1>e
  <2>5. newc' = newc + d
    <3>1. newc' = newc - (IF new[a] = x THEN 1 ELSE 0) + d
      <4>1. new' = [new EXCEPT ![a] = u] /\ u \in TaskOrNone
        BY <2>1
      <4> HIDE DEF TaskOrNone
      <4> QED
        BY <4>1, <1>f
    <3> QED
      BY <1>c, <1>n, <2>2, <3>1
  <2>6. repc' = repc + (IF passed = x THEN 1 ELSE 0)
    <3>1. repc' = repc - (IF replaced[a] = x THEN 1 ELSE 0) + (IF passed = x THEN 1 ELSE 0)
      BY <2>1, <2>3, <1>i
    <3> QED
      BY <1>c, <1>n, <2>2, <3>1
  <2>7. resc' = resc + w /\ w \in Nat
    <3>1. Nodes(result[a])[x] = 0 /\ w \in Nat
      BY <2>2, <2>3, NodesNone, NodesNat
    <3>2. resc' = resc - Nodes(result[a])[x] + w
      BY <2>1, <2>3, <1>g
    <3> QED
      BY <3>1, <3>2, <1>c
  <2>8. lastc' = d /\ lastc = l
    BY <2>1 DEF lastc, LastCount
  <2>9. refs'[x] = refs[x] + d + d /\ d \in Nat /\ l \in Nat
    BY <1>t, <2>1
  <2>10. CASE shared # {}
    <3>1. sharc' = 0 /\ w = sharc
      BY <2>1, <2>10, NodesNone DEF sharc, WaitsFor
    <3>2. repc' = repc + l
      BY <2>6, <2>10
    <3>3. gatec' = gatec
      BY <2>1, <1>e
    <3> HIDE DEF d, l, w
    <3> QED
      BY <2>4, <2>5, <2>7, <2>8, <2>9, <3>1, <3>2, <3>3, <1>b, <1>c, <1>d
  <2>11. CASE shared = {}
    <3>1. repc' = repc
      BY <1>0, <1>c, <2>2, <2>6, <2>11
    <3>2. w = l
      <4>1. CASE last_task = None
        BY <1>0, <2>11, <4>1, NodesNone DEF WaitsFor
      <4>2. CASE last_task # None
        <5>1. [task |-> last_task, tag |-> last_task_tag] \in TaggedGate
          BY <1>t, <4>2 DEF TaggedGate
        <5> QED
          BY <2>11, <4>2, <5>1, NodesSingle DEF WaitsFor
      <4> QED
        BY <4>1, <4>2
    <3>3. gatec' = gatec /\ sharc' = sharc
      BY <2>1, <2>11, <1>e
    <3>4. sharc = 0
      BY <2>11, NodesNone DEF sharc
    <3> HIDE DEF d, l, w
    <3> QED
      BY <2>4, <2>5, <2>7, <2>8, <2>9, <3>1, <3>2, <3>3, <3>4, <1>b, <1>c, <1>d
  <2> QED
    BY <2>10, <2>11
<1>5. ASSUME NEW t \in Task, NEW u \in Task, SuspendExclusive(t, u)
      PROVE  refs'[x] = Referrers(x)'
  BY <1>0, <1>5, <1>20 DEF SuspendExclusive
<1>6. ASSUME NEW t \in Task, NEW u \in Task, SuspendShared(t, u)
      PROVE  refs'[x] = Referrers(x)'
  <2> DEFINE d == IF x = u THEN 1 ELSE 0
  <2>1. /\ pc[t] = "suspend" /\ state[u] = "Pooled" /\ new' = [new EXCEPT ![t] = u]
        /\ refs' = [refs EXCEPT ![u] = @ + 2] /\ shared' = shared \cup {Gate(u)}
        /\ pc' = [pc EXCEPT ![t] = "addref", ![u] = "waiting"]
        /\ UNCHANGED <<last_task, replaced, result, dependents>>
    BY <1>6 DEF SuspendShared, CreateTask, gateVars
  <2>2. new[t] = None
    BY <1>t, <1>0, <2>1
  <2>3. thrc' = thrc
    <3>1. pc[u] = "none"
      BY <1>0, <2>1
    <3>2. pc'[x] \in {"none", "waiting"} <=> pc[x] \in {"none", "waiting"}
      BY <1>t, <1>0, <2>1, <3>1
    <3>3. \A b \in Client : pc'[b] = "inline" /\ new'[b] = x <=> pc[b] = "inline" /\ new[b] = x
      BY <1>t, <1>0, <2>1
    <3> QED
      BY <3>2, <3>3, <1>e DEF RunsInline
  <2>4. newc' = newc + d
    <3>0. t \in Agent /\ u \in TaskOrNone /\ new' = [new EXCEPT ![t] = u]
      BY <1>0, <2>1
    <3>1. newc' = newc - (IF new[t] = x THEN 1 ELSE 0) + d
      BY <3>0, <1>f
    <3> QED
      BY <1>c, <1>n, <2>2, <3>1
  <2>5. Gate(u) \in TaggedGate /\ Gate(u) \notin shared /\ Gate(u).task = u
    BY <1>t, <1>0, <2>1 DEF Gate, TaggedGate
  <2>6. sharc' = sharc + d
    BY <2>1, <2>5, <1>h
  <2>7. refs'[x] = refs[x] + d + d /\ d \in Nat
    BY <1>t, <2>1
  <2>8. lastc' = lastc /\ repc' = repc /\ resc' = resc /\ gatec' = gatec
    BY <2>1, <1>e
  <2> HIDE DEF d
  <2> QED
    BY <2>3, <2>4, <2>6, <2>7, <2>8, <1>b, <1>c, <1>d
<1>7. ASSUME NEW a \in Agent, NEW u \in Task, InitializeTaskOn(a, u)
      PROVE  refs'[x] = Referrers(x)'
  BY <1>7, <1>20 DEF InitializeTaskOn, Request, User
<1>8. ASSUME NEW a \in Agent, ReleaseReplaced(a)
      PROVE  refs'[x] = Referrers(x)'
  <2> DEFINE d == IF replaced[a] = x THEN 1 ELSE 0
  <2>1. /\ pc[a] = "replaced" /\ replaced' = [replaced EXCEPT ![a] = None]
        /\ pc' = [pc EXCEPT ![a] = "handle"] /\ refs'[x] = refs[x] - d
        /\ UNCHANGED <<last_task, shared, new, result, dependents>>
    BY <1>t, <1>8 DEF ReleaseReplaced, Release, One, Goto, syncVars, gateVars
  <2>2. repc' = repc - d /\ d \in Nat
    <3>1. repc' = repc - d + (IF None = x THEN 1 ELSE 0)
      BY <2>1, <1>i
    <3> QED
      BY <1>c, <1>n, <3>1
  <2>3. thrc' = thrc
    BY <1>t, <1>0, <2>1 DEF thrc, ThreadCount, RunsInline
  <2>4. lastc' = lastc /\ sharc' = sharc /\ newc' = newc /\ resc' = resc /\ gatec' = gatec
    BY <2>1, <1>e
  <2> HIDE DEF d
  <2> QED
    BY <2>1, <2>2, <2>3, <2>4, <1>b, <1>c, <1>d
<1>9. ASSUME NEW t \in Task, AddRefPrevious(t)
      PROVE  refs'[x] = Referrers(x)'
  <2> DEFINE d == IF previous[t].task = x THEN 1 ELSE 0
  <2>1. pc[t] = "addref" /\ UNCHANGED <<last_task, shared, new, replaced, dependents>> /\ result[t] = {}
    BY <1>t, <1>0, <1>9 DEF AddRefPrevious, syncVars, gateVars
  <2>2. CASE UNCHANGED <<refs, result, pc>>
    <3>1. thrc' = thrc
      BY <1>t, <1>0, <2>1, <2>2 DEF thrc, ThreadCount, RunsInline
    <3> QED
      BY <2>1, <2>2, <3>1, <1>b, <1>c, <1>d, <1>e
  <2>3. CASE /\ previous[t].task # None /\ refs' = [refs EXCEPT ![previous[t].task] = @ + 1]
             /\ result' = [result EXCEPT ![t] = {previous[t]}] /\ pc' = [pc EXCEPT ![t] = "handle"]
    <3>1. thrc' = thrc
      BY <1>t, <1>0, <2>1, <2>3 DEF thrc, ThreadCount, RunsInline
    <3>2. previous[t] \in TaggedGate
      BY <1>t, <1>0, <2>3 DEF TaggedGate
    <3>3. Nodes({previous[t]})[x] = d
      BY <3>2, NodesSingle
    <3>4. Nodes(result[t])[x] = 0
      BY <2>1, NodesNone
    <3>5. resc' = resc - Nodes(result[t])[x] + Nodes({previous[t]})[x]
      <4>1. {previous[t]} \in SUBSET TaggedGate /\ t \in Agent
        BY <1>0, <3>2
      <4> QED
        BY <2>3, <4>1, <1>g
    <3>6. refs'[x] = refs[x] + d /\ d \in Nat
      BY <1>t, <2>3
    <3> HIDE DEF d
    <3>7. resc' = resc + d
      BY <3>3, <3>4, <3>5, <3>6, <1>c
    <3>8. lastc' = lastc /\ sharc' = sharc /\ newc' = newc /\ repc' = repc /\ gatec' = gatec
      BY <2>1, <1>e
    <3> QED
      BY <3>1, <3>6, <3>7, <3>8, <1>b, <1>c, <1>d
  <2> QED
    BY <1>9, <2>2, <2>3 DEF AddRefPrevious, Goto
<1>21. ASSUME NEW a \in Agent, new[a] \in Task, pc[new[a]] = "waiting", new[a] # a, pc[a] \in {"handle", "add"},
              ProcessOnReady(a), UNCHANGED <<last_task, shared, new, replaced, result, dependents>>
       PROVE  refs'[x] = Referrers(x)'
  <2> DEFINE d == IF x = new[a] THEN 1 ELSE 0
  <2>1. lastc' = lastc /\ sharc' = sharc /\ newc' = newc /\ repc' = repc /\ resc' = resc /\ gatec' = gatec
    BY <1>21, <1>e
  <2>2. \A b \in Agent : new[b] = new[a] => b = a
    BY <1>0, <1>21 DEF CreatorsAlone
  <2>3. CASE /\ pc' = [pc EXCEPT ![a] = "release", ![new[a]] = "ready"]
             /\ refs' = [refs EXCEPT ![new[a]] = @ + 1]
    <3>1. thrc' = thrc + d /\ d \in Nat
      <4>1. CASE x = new[a]
        <5>1. ~RunsInline(x)'
          BY <1>t, <1>0, <1>21, <2>2, <2>3, <4>1 DEF RunsInline
        <5>2. pc'[x] = "ready"
          BY <1>t, <1>0, <1>21, <2>3, <4>1
        <5> QED
          BY <1>21, <4>1, <5>1, <5>2 DEF thrc, ThreadCount
      <4>2. CASE x # new[a]
        <5>1. pc'[x] \in {"none", "waiting"} <=> pc[x] \in {"none", "waiting"}
          BY <1>t, <1>0, <1>21, <2>3, <4>2
        <5>2. RunsInline(x)' <=> RunsInline(x)
          BY <1>t, <1>0, <1>21, <2>3, <4>2 DEF RunsInline
        <5> QED
          BY <4>2, <5>1, <5>2, <1>c, <1>e
      <4> QED
        BY <4>1, <4>2
    <3>2. refs'[x] = refs[x] + d
      BY <1>t, <1>21, <2>3
    <3> HIDE DEF d
    <3> QED
      BY <2>1, <3>1, <3>2, <1>b, <1>c, <1>d
  <2>4. CASE /\ a \in Client /\ UNCHANGED refs
             /\ pc' = [pc EXCEPT ![a] = "inline", ![new[a]] = "exclusive"]
    <3>1. thrc' = thrc
      <4>1. CASE x = new[a]
        <5>1. pc'[a] = "inline" /\ new'[a] = x
          BY <1>t, <1>0, <1>21, <2>4, <4>1
        <5>2. RunsInline(x)'
          BY <2>4, <5>1 DEF RunsInline
        <5> QED
          BY <1>21, <4>1, <5>2 DEF thrc, ThreadCount
      <4>2. CASE x # new[a]
        <5>1. pc'[x] \in {"none", "waiting"} <=> pc[x] \in {"none", "waiting"}
          BY <1>t, <1>0, <1>21, <2>4, <4>2
        <5>2. RunsInline(x)' <=> RunsInline(x)
          BY <1>t, <1>0, <1>21, <2>4, <4>2 DEF RunsInline
        <5> QED
          BY <5>1, <5>2, <1>e
      <4> QED
        BY <4>1, <4>2
    <3> QED
      BY <2>1, <2>4, <3>1, <1>b, <1>c, <1>d
  <2> QED
    BY <1>21, <2>3, <2>4 DEF ProcessOnReady
<1>10. ASSUME NEW a \in Agent, HandleOnTask(a)
      PROVE  refs'[x] = Referrers(x)'
  <2>1. UNCHANGED <<last_task, shared, new, replaced, result, dependents>> /\ pc[a] = "handle"
    BY <1>10 DEF HandleOnTask, syncVars, gateVars
  <2>2. new[a] \in Task /\ pc[new[a]] = "waiting" /\ new[a] # a
    BY <1>t, <1>0, <2>1 DEF CreatorsAlone, Early
  <2>3. CASE ProcessOnReady(a)
    BY <2>1, <2>2, <2>3, <1>21
  <2>4. CASE UNCHANGED refs /\ (UNCHANGED pc \/ pc' = [pc EXCEPT ![a] = "add"])
    <3>1. thrc' = thrc
      BY <1>t, <1>0, <2>1, <2>4 DEF thrc, ThreadCount, RunsInline
    <3> QED
      BY <2>1, <2>4, <3>1, <1>b, <1>c, <1>d, <1>e
  <2> QED
    BY <1>10, <2>3, <2>4 DEF HandleOnTask, Goto
<1>11. ASSUME NEW a \in Agent, NEW g \in todo[a], AddDependency(a, g)
      PROVE  refs'[x] = Referrers(x)'
  <2> DEFINE d == IF x = new[a] THEN 1 ELSE 0
  <2>1. /\ pc[a] = "add" /\ UNCHANGED <<last_task, shared, new, replaced, result, pc>>
        /\ g \in TaggedGate /\ new[a] \in Task
    BY <1>t, <1>0, <1>11 DEF AddDependency, syncVars, SyncInv, TypeOK
  <2>2. thrc' = thrc
    BY <2>1 DEF thrc, ThreadCount, RunsInline
  <2>3. lastc' = lastc /\ sharc' = sharc /\ newc' = newc /\ repc' = repc /\ resc' = resc
    BY <2>1, <1>e
  <2>4. CASE UNCHANGED <<dependents, refs>>
    BY <2>2, <2>3, <2>4, <1>b, <1>c, <1>d, <1>e
  <2>5. CASE /\ Blocks(g) /\ dependents' = [dependents EXCEPT ![g.task] = @ \cup {new[a]}]
             /\ refs' = [refs EXCEPT ![new[a]] = @ + 1]
    <3>1. g.task \in Task /\ Gate(g.task) = g
      BY <2>1, <2>5 DEF Blocks, Gate, TaggedGate
    <3>2. new[a] \notin dependents[g.task]
      BY <1>0, <1>11, <2>1, <3>1 DEF CreatorsAlone
    <3>3. gatec' = gatec + d /\ d \in Nat
      <4> DEFINE D == dependents[g.task] \cup {new[a]}
      <4>1. D \in SUBSET Task /\ dependents' = [dependents EXCEPT ![g.task] = D]
        BY <1>t, <2>1, <2>5, <3>1
      <4>2. gatec' = gatec - (IF x \in dependents[g.task] THEN 1 ELSE 0) + (IF x \in D THEN 1 ELSE 0)
        BY <3>1, <4>1, <1>j
      <4>3. x \in D <=> x = new[a] \/ x \in dependents[g.task]
        OBVIOUS
      <4> HIDE DEF D
      <4> QED
        BY <3>2, <4>2, <4>3, <1>c
    <3>4. refs'[x] = refs[x] + d
      BY <1>t, <2>1, <2>5
    <3> HIDE DEF d
    <3> QED
      BY <2>2, <2>3, <3>3, <3>4, <1>b, <1>c, <1>d
  <2> QED
    BY <1>11, <2>4, <2>5 DEF AddDependency
<1>12. ASSUME NEW a \in Agent, SubtractInactive(a)
      PROVE  refs'[x] = Referrers(x)'
  <2>1. UNCHANGED <<last_task, shared, new, replaced, result, dependents>> /\ pc[a] = "add"
    BY <1>12 DEF SubtractInactive, syncVars, gateVars
  <2>2. new[a] \in Task /\ new[a] # a
    BY <1>t, <1>0, <2>1
  <2>3. CASE ProcessOnReady(a) /\ inactive[a] > 0 /\ prerequires[new[a]] = inactive[a]
    <3>1. pc[new[a]] = "waiting"
      BY <2>2, <2>3 DEF SyncInv, Stages
    <3> QED
      BY <2>1, <2>2, <2>3, <3>1, <1>21
  <2>4. CASE UNCHANGED refs /\ pc' = [pc EXCEPT ![a] = "release"]
    <3>1. thrc' = thrc
      BY <1>t, <1>0, <2>1, <2>4 DEF thrc, ThreadCount, RunsInline
    <3> QED
      BY <2>1, <2>4, <3>1, <1>b, <1>c, <1>d, <1>e
  <2> QED
    BY <1>12, <2>3, <2>4 DEF SubtractInactive, Goto
<1>13. ASSUME NEW a \in Agent, ReleaseResult(a)
      PROVE  refs'[x] = Referrers(x)'
  <2> DEFINE d == IF new[a] = x THEN 1 ELSE 0
             n == Nodes(result[a])[x]
  <2>1. /\ pc[a] = "release" /\ UNCHANGED <<last_task, shared, replaced, dependents>>
        /\ new' = [new EXCEPT ![a] = None] /\ result' = [result EXCEPT ![a] = {}]
        /\ pc' = [pc EXCEPT ![a] = "body"] /\ refs'[x] = refs[x] - (n + d)
    BY <1>13 DEF ReleaseResult, Release, One, Goto, syncVars, gateVars
  <2>2. thrc' = thrc
    BY <1>t, <1>0, <2>1 DEF thrc, ThreadCount, RunsInline
  <2>3. newc' = newc - d /\ d \in Nat
    <3>1. newc' = newc - d + (IF None = x THEN 1 ELSE 0)
      BY <2>1, <1>f
    <3> QED
      BY <1>c, <1>n, <3>1
  <2>4. resc' = resc - n /\ n \in Nat
    <3>1. resc' = resc - n + Nodes({})[x]
      BY <2>1, <1>g
    <3>2. Nodes({})[x] = 0
      BY NodesNone
    <3>3. n \in Nat
      BY <1>t, NodesNat
    <3> QED
      BY <1>c, <3>1, <3>2, <3>3
  <2>5. lastc' = lastc /\ sharc' = sharc /\ repc' = repc /\ gatec' = gatec
    BY <2>1, <1>e
  <2>6. refs'[x] = refs[x] - (n + d)
    BY <2>1
  <2> HIDE DEF d, n
  <2> QED
    BY <2>2, <2>3, <2>4, <2>5, <2>6, <1>b, <1>c, <1>d
<1>14. ASSUME NEW t \in Task, ReleaseExclusive(t)
      PROVE  refs'[x] = Referrers(x)'
  <2> DEFINE d == IF x = t THEN 1 ELSE 0
  <2>1. /\ UNCHANGED <<shared, new, replaced, result, dependents>>
        /\ pc[t] \in {"clear", "exclusive"}
        /\ \E label \in {"finish", "leave"} : pc' = [pc EXCEPT ![t] = label]
        /\ \/ UNCHANGED <<last_task, refs>>
           \/ last_task = t /\ last_task' = None /\ refs' = [y \in Task |-> refs[y] - One(t)[y]]
    BY <1>14 DEF ReleaseExclusive, AfterRelease, Release, Goto, localVars, gateVars
  <2>2. thrc' = thrc
    BY <1>t, <1>0, <2>1 DEF thrc, ThreadCount, RunsInline
  <2>3. newc' = newc /\ sharc' = sharc /\ repc' = repc /\ resc' = resc /\ gatec' = gatec
    BY <2>1, <1>e
  <2>4. CASE UNCHANGED <<last_task, refs>>
    BY <2>2, <2>3, <2>4, <1>b, <1>c, <1>d, <1>e
  <2>5. CASE last_task = t /\ last_task' = None /\ refs' = [y \in Task |-> refs[y] - One(t)[y]]
    <3>1. refs'[x] = refs[x] - d /\ d \in Nat
      BY <2>5 DEF One
    <3>2. lastc = d /\ lastc' = 0
      BY <1>n, <2>5 DEF lastc, LastCount
    <3> HIDE DEF d
    <3> QED
      BY <2>2, <2>3, <3>1, <3>2, <1>b, <1>c, <1>d
  <2> QED
    BY <2>1, <2>4, <2>5
<1>15. ASSUME NEW t \in Task, ReleaseShared(t)
      PROVE  refs'[x] = Referrers(x)'
  <2>1. /\ UNCHANGED <<last_task, new, replaced, result, dependents>>
        /\ pc[t] = "shared" /\ pc' = [pc EXCEPT ![t] = "leaveShared"]
        /\ \/ UNCHANGED <<shared, refs>>
           \/ shared' = {} /\ refs' = [y \in Task |-> refs[y] - Nodes(shared)[y]]
    BY <1>15 DEF ReleaseShared, ClearShared, Release, Goto, localVars, gateVars
  <2>2. thrc' = thrc
    BY <1>t, <1>0, <2>1 DEF thrc, ThreadCount, RunsInline
  <2>3. newc' = newc /\ lastc' = lastc /\ repc' = repc /\ resc' = resc /\ gatec' = gatec
    BY <2>1, <1>e
  <2>4. CASE UNCHANGED <<shared, refs>>
    BY <2>2, <2>3, <2>4, <1>b, <1>c, <1>d, <1>e
  <2>5. CASE shared' = {} /\ refs' = [y \in Task |-> refs[y] - Nodes(shared)[y]]
    <3>1. refs'[x] = refs[x] - sharc
      BY <2>5 DEF sharc
    <3>2. sharc' = 0
      BY <2>5, NodesNone DEF sharc
    <3> QED
      BY <2>2, <2>3, <3>1, <3>2, <1>b, <1>c, <1>d
  <2> QED
    BY <2>1, <2>4, <2>5
<1>22. ASSUME NEW t \in Task, NEW s, NEW label \in {"body", "clear", "finish"}, UnblockDependents(t, s),
              Wake(t, label), pc[t] \notin {"none", "waiting"},
              UNCHANGED <<last_task, shared, new, replaced, result>>
       PROVE  refs'[x] = Referrers(x)'
  <2> DEFINE d == IF x \in dependents[t] THEN 1 ELSE 0
             w == IF x \in dependents[t] /\ prerequires[x] = 1 THEN 1 ELSE 0
  <2>1. newc' = newc /\ lastc' = lastc /\ repc' = repc /\ resc' = resc /\ sharc' = sharc
    BY <1>22, <1>e
  <2>2. gatec' = gatec - d /\ d \in Nat /\ w \in Nat
    <3>1. dependents' = [dependents EXCEPT ![t] = {}] /\ {} \in SUBSET Task /\ x \notin {}
      BY <1>22 DEF UnblockDependents
    <3>2. gatec' = gatec - d + (IF x \in {} THEN 1 ELSE 0)
      BY <3>1, <1>j
    <3> QED
      BY <3>1, <3>2, <1>c
  <2>3. refs'[x] = refs[x] - d + w
    <3>1. refs'[x] = IF x \in dependents[t] /\ prerequires[x] # 1 THEN refs[x] - 1 ELSE refs[x]
      BY <1>22 DEF UnblockDependents
    <3> QED
      BY <1>t, <3>1
  <2>4. thrc' = thrc + w
    <3>1. /\ pc'[t] = label
          /\ \A b \in Agent : b # t /\ (b \notin Task \/ pc[b] # "waiting") => pc'[b] = pc[b]
          /\ x # t => pc'[x] = IF x \in dependents[t] /\ prerequires[x] = 1 THEN "ready" ELSE pc[x]
      BY <1>22, WakesWaiting
    <3>2. \A b \in Client : pc'[b] = pc[b]
      BY <1>0, <3>1
    <3>3. RunsInline(x)' <=> RunsInline(x)
      BY <1>22, <3>2 DEF RunsInline
    <3>4. x \in dependents[t] => pc[x] = "waiting" /\ x # t
      BY <1>0, <1>22
    <3>5. CASE w = 0
      <4>1. pc'[x] \in {"none", "waiting"} <=> pc[x] \in {"none", "waiting"}
        BY <1>22, <3>1, <3>5
      <4> QED
        BY <3>3, <3>5, <4>1, <1>c, <1>e
    <3>6. CASE w = 1
      <4>1. x \in dependents[t] /\ prerequires[x] = 1
        BY <3>6
      <4>2. pc[x] = "waiting" /\ pc'[x] = "ready"
        BY <3>1, <3>4, <4>1
      <4>3. ~RunsInline(x)
        BY <1>0, <4>2 DEF RunsInline, CreatorsAlone
      <4> QED
        BY <3>3, <3>6, <4>2, <4>3 DEF thrc, ThreadCount
    <3> QED
      BY <3>5, <3>6
  <2> HIDE DEF d, w
  <2> QED
    BY <2>1, <2>2, <2>3, <2>4, <1>b, <1>c, <1>d
<1>16. ASSUME NEW t \in Task, LeaveScope(t)
      PROVE  refs'[x] = Referrers(x)'
  <2>1. UNCHANGED <<last_task, shared, new, replaced, result>> /\ pc[t] \in {"leave", "leaveShared"}
    BY <1>16 DEF LeaveScope, syncVars, localVars
  <2>2. CASE UNCHANGED <<pc, refs, dependents>>
    <3>1. thrc' = thrc
      BY <2>1, <2>2 DEF thrc, ThreadCount, RunsInline
    <3> QED
      BY <2>1, <2>2, <3>1, <1>b, <1>c, <1>d, <1>e
  <2>3. CASE UnblockDependents(t, "Pending") /\ Wake(t, "body")
    BY <2>1, <2>3, <1>22
  <2> QED
    BY <1>16, <2>2, <2>3 DEF LeaveScope, gateVars
<1>17. ASSUME NEW t \in Task, EndFunction(t)
      PROVE  refs'[x] = Referrers(x)'
  <2>1. UNCHANGED <<last_task, shared, new, replaced, result>> /\ pc[t] \in {"body", "exclusive"}
    BY <1>17 DEF EndFunction, InPlainTask, syncVars, localVars
  <2>2. UnblockDependents(t, "Done") /\ (Wake(t, "clear") \/ Wake(t, "finish"))
    BY <1>17 DEF EndFunction
  <2> QED
    BY <2>1, <2>2, <1>22
<1>18. ASSUME NEW t \in Task, Finish(t)
      PROVE  refs'[x] = Referrers(x)'
  <2> DEFINE d == IF x = t /\ ~RunsInline(t) THEN 1 ELSE 0
  <2>1. /\ UNCHANGED <<last_task, shared, new, replaced, result, dependents>> /\ pc[t] = "finish"
        /\ \A a \in Agent : pc'[a] = IF a = t THEN "none"
              ELSE IF pc[a] = "inline" /\ new[a] = t THEN "release" ELSE pc[a]
    BY <1>18 DEF Finish, syncVars, gateVars, localVars
  <2>2. refs'[x] = refs[x] - d
    <3>1. CASE RunsInline(t) /\ UNCHANGED refs
      BY <1>t, <3>1
    <3>2. CASE ~RunsInline(t) /\ Release(One(t))
      BY <3>2, <1>t DEF Release, One
    <3> QED
      BY <1>18, <3>1, <3>2 DEF Finish
  <2>3. newc' = newc /\ lastc' = lastc /\ repc' = repc /\ resc' = resc /\ sharc' = sharc /\ gatec' = gatec
    BY <2>1, <1>e
  <2>4. thrc' = thrc - d /\ d \in Nat
    <3>1. CASE x = t
      BY <1>0, <2>1, <3>1 DEF thrc, ThreadCount
    <3>2. CASE x # t
      <4>1. pc'[x] = pc[x]
        BY <1>0, <2>1, <3>2
      <4>2. RunsInline(x)' <=> RunsInline(x)
        BY <1>0, <2>1, <3>2 DEF RunsInline
      <4> QED
        BY <3>2, <4>1, <4>2, <1>c, <1>e
    <3> QED
      BY <3>1, <3>2
  <2> HIDE DEF d
  <2> QED
    BY <2>2, <2>3, <2>4, <1>b, <1>c, <1>d
<1>19. CASE UNCHANGED vars
  <2>1. UNCHANGED <<last_task, shared, new, replaced, result, dependents, refs, pc>>
    BY <1>19 DEF vars, syncVars, gateVars, localVars
  <2>2. thrc' = thrc
    BY <2>1 DEF thrc, ThreadCount, RunsInline
  <2> QED
    BY <2>1, <2>2, <1>b, <1>c, <1>d, <1>e
<1> QED
  BY <1>1, <1>2, <1>3, <1>4, <1>5, <1>6, <1>7, <1>8, <1>9, <1>10, <1>11, <1>12, <1>13,
     <1>14, <1>15, <1>16, <1>17, <1>18, <1>19
  DEF Next, Proceed, Queue
-----------------------------------------------------------------------------

\* The counter of a task whose creator is in the loop.
LEMMA CounterInLoop ==
  ASSUME SyncInv, NEW a \in Agent, pc[a] = "add"
  PROVE  /\ new[a] \in Task
         /\ prerequires[new[a]] = Cardinality(Gates(new[a])) + Cardinality(todo[a]) + inactive[a]
         /\ Cardinality(Gates(new[a])) \in Nat /\ Cardinality(todo[a]) \in Nat /\ inactive[a] \in Nat
<1>1. new[a] \in Task
  BY DEF SyncInv, LocalsFollowPc, Queueing, TypeOK, TaskOrNone
<1>2. a \in Unsettled(new[a])
  BY DEF Unsettled
<1>3. prerequires[new[a]] = Cardinality(Gates(new[a])) + Cardinality(todo[a]) + inactive[a]
  BY <1>1, <1>2 DEF SyncInv, CounterExact, Gates
<1>4. Gates(new[a]) \in SUBSET Task /\ todo[a] \in SUBSET TaggedGate /\ inactive[a] \in Nat
  BY DEF Gates, SyncInv, TypeOK
<1> QED
  BY <1>1, <1>3, <1>4, SubsetCounts

LEMMA InactiveWaits ==
  ASSUME SyncInv, NEW a \in Agent, pc[a] = "add", inactive[a] > 0
  PROVE  pc[new[a]] = "waiting"
<1>1. /\ prerequires[new[a]] = Cardinality(Gates(new[a])) + Cardinality(todo[a]) + inactive[a]
      /\ Cardinality(Gates(new[a])) \in Nat /\ Cardinality(todo[a]) \in Nat /\ inactive[a] \in Nat
      /\ new[a] \in Task
  BY CounterInLoop
<1>2. prerequires[new[a]] # 0
  <2> DEFINE n == Cardinality(Gates(new[a]))
             m == Cardinality(todo[a])
             k == inactive[a]
  <2>1. prerequires[new[a]] = n + m + k /\ n \in Nat /\ m \in Nat /\ k \in Nat /\ k > 0
    BY <1>1
  <2> HIDE DEF n, m, k
  <2> QED
    BY <2>1
<1> QED
  BY <1>1, <1>2 DEF SyncInv, Stages

\* The types of all but the reference counts, part by part.
WordTyped ==
  /\ last_task \in TaskOrNone /\ last_task_tag \in Tag
  /\ shared \subseteq TaggedGate /\ released \in Nat /\ sync_tag \in Tag
TasksTyped ==
  /\ state \in [Task -> {"Pooled", "Pending", "Done"}]
  /\ gate_tag \in [Task -> Tag] /\ dependents \in [Task -> SUBSET Task]
  /\ refs \in [Task -> Int] /\ prerequires \in [Task -> Nat]
ThreadsTyped ==
  /\ pc \in [Agent -> Labels]
  /\ coroutine \in [Task -> Coroutine \cup {None}]
LocalsTyped ==
  /\ new \in [Agent -> TaskOrNone] /\ replaced \in [Agent -> TaskOrNone]
  /\ previous \in [Agent -> [task : TaskOrNone, tag : Tag]]
  /\ result \in [Agent -> SUBSET TaggedGate] /\ todo \in [Agent -> SUBSET TaggedGate]
  /\ inactive \in [Agent -> Nat]
RequestsTyped ==
  /\ ask \in [Coroutine -> {"new", "none", "exclusive", "shared"}]
  /\ held_tag \in [Coroutine -> Tag] /\ left \in 0..Accesses
  /\ failed \in {"none", "no_previous", "gate_pooled", "unblocked"}
TypeButRefs == WordTyped /\ TasksTyped /\ ThreadsTyped /\ LocalsTyped /\ RequestsTyped

LEMMA TypeButRefsStep == SyncInv /\ [Next]_vars => TypeButRefs'
<1> SUFFICES ASSUME SyncInv, [Next]_vars PROVE TypeButRefs'
  OBVIOUS
<1>w. WordTyped /\ 0 \in Tag /\ (\A k \in Tag : Bump(k) \in Tag)
  BY SyncAssumption DEF SyncInv, TypeOK, WordTyped, Tag, Bump
<1>t. TasksTyped /\ \A u, p \in Task : u \in dependents[p] => prerequires[u] > 0
  BY NoGates DEF SyncInv, TypeOK, TasksTyped
<1>h. ThreadsTyped /\ \A t \in Task : t \in Agent
  BY DEF SyncInv, TypeOK, ThreadsTyped, Labels, Agent
<1>l. LocalsTyped /\ None \notin Task /\ \A a \in Agent : pc[a] \in Queueing => new[a] \in Task
  BY SyncAssumption DEF SyncInv, TypeOK, LocalsTyped, LocalsFollowPc, TaskOrNone
<1>r. RequestsTyped /\ \A t \in Task : pc[t] \in {"suspend", "shared"} => coroutine[t] \in Coroutine
  BY DEF SyncInv, TypeOK, RequestsTyped, CoroutinesPlaced
<1>g. /\ \A t \in Task : gate_tag[t] \in Tag /\ Gate(t) \in TaggedGate
      /\ WaitsFor \in SUBSET TaggedGate
  BY <1>w, <1>t DEF WordTyped, TasksTyped, Gate, TaggedGate, WaitsFor, TaskOrNone
<1>c. \A a \in Agent : result[a] \in SUBSET TaggedGate /\ Cardinality(result[a]) \in Nat
  BY <1>l, SubsetCounts DEF LocalsTyped
<1> USE DEF TaskOrNone, Labels, Queueing
<1>1. ASSUME NEW t \in Task, NEW c \in Coroutine, StartCoroutine(c, t)
      PROVE  TypeButRefs'
  <2>1. WordTyped'
    BY <1>1, <1>w DEF StartCoroutine, Goto, localVars, gateVars, syncVars, WordTyped
  <2>2. TasksTyped'
    BY <1>1, <1>w, <1>t, <1>l DEF StartCoroutine, Goto, localVars, gateVars, syncVars, TasksTyped
  <2>3. ThreadsTyped'
    BY <1>1, <1>h DEF StartCoroutine, Goto, localVars, gateVars, syncVars, ThreadsTyped
  <2>4. LocalsTyped'
    BY <1>1, <1>w, <1>l DEF StartCoroutine, Goto, localVars, gateVars, syncVars, LocalsTyped
  <2>5. RequestsTyped'
    BY <1>1, <1>r DEF StartCoroutine, Goto, localVars, gateVars, syncVars, RequestsTyped
  <2> QED
    BY <2>1, <2>2, <2>3, <2>4, <2>5 DEF TypeButRefs
<1>2. ASSUME NEW t \in Task, Run(t)
      PROVE  TypeButRefs'
  <2>1. WordTyped'
    BY <1>2, <1>w DEF Run, Goto, localVars, gateVars, syncVars, WordTyped
  <2>2. TasksTyped'
    BY <1>2, <1>w, <1>t, <1>l DEF Run, Goto, localVars, gateVars, syncVars, TasksTyped
  <2>3. ThreadsTyped'
    <3>1. PICK label \in {"body", "exclusive", "shared"} : pc' = [pc EXCEPT ![t] = label]
      BY <1>2, RunGoesOn
    <3>2. UNCHANGED coroutine
      BY <1>2 DEF Run
    <3> QED
      BY <1>h, <3>1, <3>2 DEF ThreadsTyped
  <2>4. LocalsTyped'
    BY <1>2, <1>w, <1>l DEF Run, Goto, localVars, gateVars, syncVars, LocalsTyped
  <2>5. RequestsTyped'
    BY <1>2, <1>r DEF Run, Goto, localVars, gateVars, syncVars, RequestsTyped
  <2> QED
    BY <2>1, <2>2, <2>3, <2>4, <2>5 DEF TypeButRefs
<1>3. ASSUME NEW t \in Task, TryExclusive(t)
      PROVE  TypeButRefs'
  <2>0. /\ pc[t] = "body" /\ left > 0 /\ left' = left - 1 /\ UNCHANGED <<held_tag, failed>>
        /\ coroutine[t] # None
        /\ ask' = ask \/ ask' = [ask EXCEPT ![coroutine[t]] = "exclusive"]
        /\ UNCHANGED <<shared, released, sync_tag>>
        /\ last_task' \in {last_task, t} /\ last_task_tag' \in {last_task_tag, gate_tag[t]}
    BY <1>3 DEF TryExclusive, Request, User, Suspend, Goto
  <2>1. WordTyped'
    BY <2>0, <1>w, <1>g DEF WordTyped
  <2>2. TasksTyped'
    BY <1>3, <1>w, <1>t, <1>l DEF TryExclusive, Request, User, Suspend, Goto, localVars, gateVars, TasksTyped
  <2>3. ThreadsTyped'
    BY <1>3, <1>h DEF TryExclusive, Request, User, Suspend, Goto, localVars, gateVars, ThreadsTyped
  <2>4. LocalsTyped'
    BY <1>3, <1>w, <1>l DEF TryExclusive, Request, User, Suspend, Goto, localVars, gateVars, LocalsTyped
  <2>5. RequestsTyped'
    BY <2>0, <1>r, <1>h, SyncAssumption DEF RequestsTyped, ThreadsTyped
  <2> QED
    BY <2>1, <2>2, <2>3, <2>4, <2>5 DEF TypeButRefs
<1>4. ASSUME NEW t \in Task, TryShared(t)
      PROVE  TypeButRefs'
  <2>0. /\ pc[t] = "body" /\ left > 0 /\ left' = left - 1 /\ UNCHANGED failed
        /\ coroutine[t] # None
        /\ ask' = ask \/ ask' = [ask EXCEPT ![coroutine[t]] = "shared"]
        /\ held_tag' = held_tag \/ held_tag' = [held_tag EXCEPT ![coroutine[t]] = sync_tag]
        /\ UNCHANGED <<last_task, last_task_tag, released, sync_tag>>
        /\ shared' \in {shared, shared \cup {Gate(t)}}
    BY <1>4 DEF TryShared, Request, User, Suspend, Goto
  <2>1. WordTyped'
    BY <2>0, <1>w, <1>g DEF WordTyped
  <2>2. TasksTyped'
    BY <1>4, <1>w, <1>t, <1>l DEF TryShared, Request, User, Suspend, Goto, localVars, gateVars, TasksTyped
  <2>3. ThreadsTyped'
    BY <1>4, <1>h DEF TryShared, Request, User, Suspend, Goto, localVars, gateVars, ThreadsTyped
  <2>4. LocalsTyped'
    BY <1>4, <1>w, <1>l DEF TryShared, Request, User, Suspend, Goto, localVars, gateVars, LocalsTyped
  <2>5. RequestsTyped'
    BY <2>0, <1>r, <1>h, <1>w, SyncAssumption DEF RequestsTyped, ThreadsTyped, WordTyped
  <2> QED
    BY <2>1, <2>2, <2>3, <2>4, <2>5 DEF TypeButRefs
<1>20. ASSUME NEW a \in Agent, NEW u \in Task, SyncExclusive(a, u)
       PROVE  WordTyped' /\ LocalsTyped'
  <2>1. /\ last_task' = u /\ last_task_tag' = gate_tag[u]
        /\ \/ UNCHANGED <<shared, released, sync_tag>>
           \/ shared' = {} /\ released' = 0 /\ sync_tag' = Bump(sync_tag)
        /\ result' = [result EXCEPT ![a] = WaitsFor] /\ new' = [new EXCEPT ![a] = u]
        /\ \E r \in {last_task, None} : replaced' = [replaced EXCEPT ![a] = r]
        /\ UNCHANGED <<previous, todo, inactive>>
    BY <1>20 DEF SyncExclusive, CreateTask, ClearShared
  <2>2. WordTyped'
    BY <2>1, <1>w, <1>g DEF WordTyped
  <2>3. LocalsTyped'
    BY <2>1, <1>w, <1>l, <1>g DEF LocalsTyped, WordTyped
  <2> QED
    BY <2>2, <2>3
<1>5. ASSUME NEW t \in Task, NEW u \in Task, SuspendExclusive(t, u)
      PROVE  TypeButRefs'
  <2>1. WordTyped' /\ LocalsTyped'
    BY <1>5, <1>20, <1>h DEF SuspendExclusive
  <2>2. TasksTyped'
    BY <1>5, <1>w, <1>t, <1>l DEF SuspendExclusive, SyncExclusive, CreateTask, gateVars, TasksTyped
  <2>3. ThreadsTyped'
    BY <1>5, <1>h DEF SuspendExclusive, SyncExclusive, CreateTask, MoveCoroutine, ThreadsTyped
  <2>5. RequestsTyped'
    BY <1>5, <1>r DEF SuspendExclusive, SyncExclusive, coVars, RequestsTyped
  <2> QED
    BY <2>1, <2>2, <2>3, <2>5 DEF TypeButRefs
<1>6. ASSUME NEW t \in Task, NEW u \in Task, SuspendShared(t, u)
      PROVE  TypeButRefs'
  <2>0. /\ pc[t] = "suspend" /\ shared' = shared \cup {Gate(u)} /\ new' = [new EXCEPT ![t] = u]
        /\ UNCHANGED <<last_task, last_task_tag, released, sync_tag>>
        /\ previous' = [previous EXCEPT ![t] = [task |-> last_task, tag |-> last_task_tag]]
        /\ UNCHANGED <<replaced, result, todo, inactive>>
        /\ held_tag' = [held_tag EXCEPT ![coroutine[t]] = sync_tag] /\ UNCHANGED <<ask, left, failed>>
    BY <1>6 DEF SuspendShared, CreateTask
  <2>1. WordTyped'
    BY <2>0, <1>w, <1>g DEF WordTyped
  <2>2. TasksTyped'
    BY <1>6, <1>w, <1>t, <1>l DEF SuspendShared, CreateTask, MoveCoroutine, gateVars, TasksTyped
  <2>3. ThreadsTyped'
    BY <1>6, <1>h DEF SuspendShared, CreateTask, MoveCoroutine, gateVars, ThreadsTyped
  <2>4. LocalsTyped'
    <3>1. [task |-> last_task, tag |-> last_task_tag] \in [task : TaskOrNone, tag : Tag]
      BY <1>w DEF WordTyped
    <3> QED
      BY <2>0, <3>1, <1>h, <1>l DEF LocalsTyped
  <2>5. RequestsTyped'
    BY <2>0, <1>r, <1>w DEF RequestsTyped, WordTyped
  <2> QED
    BY <2>1, <2>2, <2>3, <2>4, <2>5 DEF TypeButRefs
<1>7. ASSUME NEW a \in Agent, NEW u \in Task, InitializeTaskOn(a, u)
      PROVE  TypeButRefs'
  <2>1. WordTyped' /\ LocalsTyped'
    BY <1>7, <1>20 DEF InitializeTaskOn
  <2>2. TasksTyped'
    BY <1>7, <1>w, <1>t, <1>l DEF InitializeTaskOn, SyncExclusive, CreateTask, gateVars, TasksTyped
  <2>3. ThreadsTyped'
    BY <1>7, <1>h DEF InitializeTaskOn, SyncExclusive, CreateTask, ThreadsTyped
  <2>5. RequestsTyped'
    <3>1. left > 0 /\ left' = left - 1 /\ UNCHANGED <<ask, held_tag, failed>>
      BY <1>7 DEF InitializeTaskOn, Request, SyncExclusive
    <3> QED
      BY <3>1, <1>r, SyncAssumption DEF RequestsTyped
  <2> QED
    BY <2>1, <2>2, <2>3, <2>5 DEF TypeButRefs
<1>8. ASSUME NEW a \in Agent, ReleaseReplaced(a)
      PROVE  TypeButRefs'
  <2>1. WordTyped'
    BY <1>8, <1>w DEF ReleaseReplaced, Release, One, Goto, syncVars, gateVars, coVars, WordTyped
  <2>2. TasksTyped'
    BY <1>8, <1>w, <1>t, <1>l DEF ReleaseReplaced, Release, One, Goto, syncVars, gateVars, coVars, TasksTyped
  <2>3. ThreadsTyped'
    BY <1>8, <1>h DEF ReleaseReplaced, Release, One, Goto, syncVars, gateVars, coVars, ThreadsTyped
  <2>4. LocalsTyped'
    BY <1>8, <1>w, <1>l DEF ReleaseReplaced, Release, One, Goto, syncVars, gateVars, coVars, LocalsTyped
  <2>5. RequestsTyped'
    BY <1>8, <1>r DEF ReleaseReplaced, Release, One, Goto, syncVars, gateVars, coVars, RequestsTyped
  <2> QED
    BY <2>1, <2>2, <2>3, <2>4, <2>5 DEF TypeButRefs
<1>9. ASSUME NEW t \in Task, AddRefPrevious(t)
      PROVE  TypeButRefs'
  <2>1. WordTyped'
    BY <1>9, <1>w DEF AddRefPrevious, Goto, syncVars, gateVars, coVars, WordTyped
  <2>2. TasksTyped'
    BY <1>9, <1>w, <1>t, <1>l DEF AddRefPrevious, Goto, syncVars, gateVars, coVars, TasksTyped
  <2>3. ThreadsTyped'
    BY <1>9, <1>h DEF AddRefPrevious, Goto, syncVars, gateVars, coVars, ThreadsTyped
  <2>4. LocalsTyped'
    <3>1. /\ previous' = [previous EXCEPT ![t] = [task |-> None, tag |-> 0]]
          /\ UNCHANGED <<new, replaced, todo, inactive>>
          /\ UNCHANGED result \/ (previous[t].task # None /\ result' = [result EXCEPT ![t] = {previous[t]}])
      BY <1>9 DEF AddRefPrevious
    <3>2. previous[t].task # None => previous[t] \in TaggedGate
      BY <1>h, <1>l DEF LocalsTyped, TaggedGate
    <3>3. [task |-> None, tag |-> 0] \in [task : TaskOrNone, tag : Tag]
      BY <1>w
    <3> QED
      BY <3>1, <3>2, <3>3, <1>h, <1>l DEF LocalsTyped
  <2>5. RequestsTyped'
    BY <1>9, <1>r DEF AddRefPrevious, Goto, syncVars, gateVars, coVars, RequestsTyped
  <2> QED
    BY <2>1, <2>2, <2>3, <2>4, <2>5 DEF TypeButRefs
<1>10. ASSUME NEW a \in Agent, HandleOnTask(a)
      PROVE  TypeButRefs'
  <2>1. WordTyped'
    BY <1>10, <1>w DEF HandleOnTask, ProcessOnReady, Goto, syncVars, gateVars, coVars, WordTyped
  <2>2. TasksTyped'
    <3>1. /\ new[a] \in Task /\ UNCHANGED <<state, gate_tag, dependents>>
          /\ UNCHANGED refs \/ refs' = [refs EXCEPT ![new[a]] = @ + 1]
          /\ UNCHANGED prerequires \/ prerequires' = [prerequires EXCEPT ![new[a]] = Cardinality(result[a])]
      BY <1>10, <1>l DEF HandleOnTask, ProcessOnReady, gateVars
    <3> QED
      BY <3>1, <1>t, <1>c DEF TasksTyped
  <2>3. ThreadsTyped'
    BY <1>10, <1>h DEF HandleOnTask, ProcessOnReady, Goto, syncVars, gateVars, coVars, ThreadsTyped
  <2>4. LocalsTyped'
    BY <1>10, <1>w, <1>l DEF HandleOnTask, ProcessOnReady, Goto, syncVars, gateVars, coVars, LocalsTyped
  <2>5. RequestsTyped'
    BY <1>10, <1>r DEF HandleOnTask, ProcessOnReady, Goto, syncVars, gateVars, coVars, RequestsTyped
  <2> QED
    BY <2>1, <2>2, <2>3, <2>4, <2>5 DEF TypeButRefs
<1>11. ASSUME NEW a \in Agent, NEW g \in todo[a], AddDependency(a, g)
      PROVE  TypeButRefs'
  <2>1. WordTyped'
    BY <1>11, <1>w DEF AddDependency, syncVars, coVars, WordTyped
  <2>2. TasksTyped'
    BY <1>11, <1>w, <1>t, <1>l DEF AddDependency, syncVars, coVars, TasksTyped
  <2>3. ThreadsTyped'
    BY <1>11, <1>h DEF AddDependency, syncVars, coVars, ThreadsTyped
  <2>4. LocalsTyped'
    BY <1>11, <1>w, <1>l DEF AddDependency, syncVars, coVars, LocalsTyped
  <2>5. RequestsTyped'
    BY <1>11, <1>r DEF AddDependency, syncVars, coVars, RequestsTyped
  <2> QED
    BY <2>1, <2>2, <2>3, <2>4, <2>5 DEF TypeButRefs
<1>12. ASSUME NEW a \in Agent, SubtractInactive(a)
      PROVE  TypeButRefs'
  <2>1. WordTyped'
    BY <1>12, <1>w DEF SubtractInactive, ProcessOnReady, Goto, syncVars, gateVars, coVars, WordTyped
  <2>2. TasksTyped'
    <3>1. /\ pc[a] = "add" /\ UNCHANGED <<state, gate_tag, dependents>>
          /\ UNCHANGED refs \/ refs' = [refs EXCEPT ![new[a]] = @ + 1]
          /\ prerequires' = [prerequires EXCEPT ![new[a]] = @ - inactive[a]]
      BY <1>12, <1>l DEF SubtractInactive, ProcessOnReady, gateVars
    <3>2. new[a] \in Task /\ prerequires[new[a]] - inactive[a] \in Nat
      BY <3>1, CounterInLoop
    <3> QED
      BY <3>1, <3>2, <1>t DEF TasksTyped
  <2>3. ThreadsTyped'
    BY <1>12, <1>h DEF SubtractInactive, ProcessOnReady, Goto, syncVars, gateVars, coVars, ThreadsTyped
  <2>4. LocalsTyped'
    BY <1>12, <1>w, <1>l DEF SubtractInactive, ProcessOnReady, Goto, syncVars, gateVars, coVars, LocalsTyped
  <2>5. RequestsTyped'
    BY <1>12, <1>r DEF SubtractInactive, ProcessOnReady, Goto, syncVars, gateVars, coVars, RequestsTyped
  <2> QED
    BY <2>1, <2>2, <2>3, <2>4, <2>5 DEF TypeButRefs
<1>13. ASSUME NEW a \in Agent, ReleaseResult(a)
      PROVE  TypeButRefs'
  <2>1. WordTyped'
    BY <1>13, <1>w DEF ReleaseResult, Release, Goto, syncVars, gateVars, coVars, WordTyped
  <2>2. TasksTyped'
    <3>1. \A x \in Task : Nodes(result[a])[x] + One(new[a])[x] \in Int
      <4> SUFFICES ASSUME NEW x \in Task PROVE Nodes(result[a])[x] + One(new[a])[x] \in Int
        OBVIOUS
      <4>1. result[a] \in SUBSET TaggedGate /\ One(new[a])[x] \in Nat
        BY <1>c DEF One
      <4>2. Nodes(result[a])[x] \in Nat
        BY <4>1, NodesNat
      <4> QED
        BY <4>1, <4>2
    <3> DEFINE n == [x \in Task |-> Nodes(result[a])[x] + One(new[a])[x]]
    <3>2. Release(n) /\ UNCHANGED <<gate_tag, dependents, prerequires>>
      BY <1>13 DEF ReleaseResult, gateVars
    <3>3. \A x \in Task : n[x] \in Int
      BY <3>1
    <3> HIDE DEF n
    <3> QED
      BY <3>2, <3>3, <1>t DEF Release, TasksTyped
  <2>3. ThreadsTyped'
    BY <1>13, <1>h DEF ReleaseResult, Release, Goto, syncVars, gateVars, coVars, ThreadsTyped
  <2>4. LocalsTyped'
    BY <1>13, <1>w, <1>l DEF ReleaseResult, Release, Goto, syncVars, gateVars, coVars, LocalsTyped
  <2>5. RequestsTyped'
    BY <1>13, <1>r DEF ReleaseResult, Release, Goto, syncVars, gateVars, coVars, RequestsTyped
  <2> QED
    BY <2>1, <2>2, <2>3, <2>4, <2>5 DEF TypeButRefs
<1>14. ASSUME NEW t \in Task, ReleaseExclusive(t)
      PROVE  TypeButRefs'
  <2>1. WordTyped'
    BY <1>14, <1>w DEF ReleaseExclusive, AfterRelease, Release, One, InPlainTask, Goto, gateVars, localVars, coVars, WordTyped
  <2>2. TasksTyped'
    BY <1>14, <1>w, <1>t, <1>l DEF ReleaseExclusive, AfterRelease, Release, One, InPlainTask, Goto, gateVars, localVars, coVars, TasksTyped
  <2>3. ThreadsTyped'
    BY <1>14, <1>h DEF ReleaseExclusive, AfterRelease, Release, One, InPlainTask, Goto, gateVars, localVars, coVars, ThreadsTyped
  <2>4. LocalsTyped'
    BY <1>14, <1>w, <1>l DEF ReleaseExclusive, AfterRelease, Release, One, InPlainTask, Goto, gateVars, localVars, coVars, LocalsTyped
  <2>5. RequestsTyped'
    BY <1>14, <1>r DEF ReleaseExclusive, AfterRelease, Release, One, InPlainTask, Goto, gateVars, localVars, coVars, RequestsTyped
  <2> QED
    BY <2>1, <2>2, <2>3, <2>4, <2>5 DEF TypeButRefs
<1>15. ASSUME NEW t \in Task, ReleaseShared(t)
      PROVE  TypeButRefs'
  <2>1. WordTyped'
    BY <1>15, <1>w DEF ReleaseShared, Release, ClearShared, Goto, gateVars, localVars, coVars, WordTyped
  <2>2. TasksTyped'
    <3>1. \A x \in Task : Nodes(shared)[x] \in Int
      <4>1. shared \in SUBSET TaggedGate
        BY <1>w DEF WordTyped
      <4>2. \A x \in Task : Nodes(shared)[x] \in Nat
        BY <4>1, NodesNat
      <4> QED
        BY <4>2
    <3>2. UNCHANGED <<gate_tag, dependents, prerequires>> /\ (UNCHANGED <<refs, state>> \/ Release(Nodes(shared)))
      BY <1>15 DEF ReleaseShared, gateVars
    <3> QED
      BY <3>1, <3>2, <1>t DEF Release, TasksTyped
  <2>3. ThreadsTyped'
    BY <1>15, <1>h DEF ReleaseShared, Release, ClearShared, Goto, gateVars, localVars, coVars, ThreadsTyped
  <2>4. LocalsTyped'
    BY <1>15, <1>w, <1>l DEF ReleaseShared, Release, ClearShared, Goto, gateVars, localVars, coVars, LocalsTyped
  <2>5. RequestsTyped'
    BY <1>15, <1>r DEF ReleaseShared, Release, ClearShared, Goto, gateVars, localVars, coVars, RequestsTyped
  <2> QED
    BY <2>1, <2>2, <2>3, <2>4, <2>5 DEF TypeButRefs
<1>16. ASSUME NEW t \in Task, LeaveScope(t)
      PROVE  TypeButRefs'
  <2>1. WordTyped'
    BY <1>16, <1>w DEF LeaveScope, UnblockDependents, Wake, syncVars, localVars, coVars, gateVars, WordTyped
  <2>2. TasksTyped'
    BY <1>16, <1>w, <1>t, <1>l DEF LeaveScope, UnblockDependents, Wake, syncVars, localVars, coVars, gateVars, TasksTyped
  <2>3. ThreadsTyped'
    BY <1>16, <1>h DEF LeaveScope, UnblockDependents, Wake, syncVars, localVars, coVars, gateVars, ThreadsTyped
  <2>4. LocalsTyped'
    BY <1>16, <1>w, <1>l DEF LeaveScope, UnblockDependents, Wake, syncVars, localVars, coVars, gateVars, LocalsTyped
  <2>5. RequestsTyped'
    BY <1>16, <1>r DEF LeaveScope, UnblockDependents, Wake, syncVars, localVars, coVars, gateVars, RequestsTyped
  <2> QED
    BY <2>1, <2>2, <2>3, <2>4, <2>5 DEF TypeButRefs
<1>17. ASSUME NEW t \in Task, EndFunction(t)
      PROVE  TypeButRefs'
  <2>1. WordTyped'
    BY <1>17, <1>w DEF EndFunction, UnblockDependents, Wake, InPlainTask, syncVars, localVars, coVars, WordTyped
  <2>2. TasksTyped'
    BY <1>17, <1>w, <1>t, <1>l DEF EndFunction, UnblockDependents, Wake, InPlainTask, syncVars, localVars, coVars, TasksTyped
  <2>3. ThreadsTyped'
    BY <1>17, <1>h DEF EndFunction, UnblockDependents, Wake, InPlainTask, syncVars, localVars, coVars, ThreadsTyped
  <2>4. LocalsTyped'
    BY <1>17, <1>w, <1>l DEF EndFunction, UnblockDependents, Wake, InPlainTask, syncVars, localVars, coVars, LocalsTyped
  <2>5. RequestsTyped'
    BY <1>17, <1>r DEF EndFunction, UnblockDependents, Wake, InPlainTask, syncVars, localVars, coVars, RequestsTyped
  <2> QED
    BY <2>1, <2>2, <2>3, <2>4, <2>5 DEF TypeButRefs
<1>18. ASSUME NEW t \in Task, Finish(t)
      PROVE  TypeButRefs'
  <2>1. WordTyped'
    BY <1>18, <1>w DEF Finish, Release, One, syncVars, gateVars, localVars, coVars, WordTyped
  <2>2. TasksTyped'
    BY <1>18, <1>w, <1>t, <1>l DEF Finish, Release, One, syncVars, gateVars, localVars, coVars, TasksTyped
  <2>3. ThreadsTyped'
    BY <1>18, <1>h DEF Finish, Release, One, syncVars, gateVars, localVars, coVars, ThreadsTyped
  <2>4. LocalsTyped'
    BY <1>18, <1>w, <1>l DEF Finish, Release, One, syncVars, gateVars, localVars, coVars, LocalsTyped
  <2>5. RequestsTyped'
    BY <1>18, <1>r DEF Finish, Release, One, syncVars, gateVars, localVars, coVars, RequestsTyped
  <2> QED
    BY <2>1, <2>2, <2>3, <2>4, <2>5 DEF TypeButRefs
<1>19. CASE UNCHANGED vars
  BY <1>19, <1>w, <1>t, <1>h, <1>l, <1>r
  DEF vars, syncVars, gateVars, localVars, coVars, TypeButRefs, WordTyped, TasksTyped, ThreadsTyped,
      LocalsTyped, RequestsTyped
<1> QED
  BY <1>1, <1>2, <1>3, <1>4, <1>5, <1>6, <1>7, <1>8, <1>9, <1>10, <1>11, <1>12, <1>13,
     <1>14, <1>15, <1>16, <1>17, <1>18, <1>19
  DEF Next, Proceed, Queue
-----------------------------------------------------------------------------

LEMMA TypeStep == SyncInv /\ [Next]_vars => TypeOK'
<1> SUFFICES ASSUME SyncInv, [Next]_vars PROVE TypeOK'
  OBVIOUS
<1>1. TypeButRefs' /\ RefsExact'
  BY TypeButRefsStep, RefsStep
<1>2. \A t \in Task : Cardinality({u \in {last_task'} : u = t}) = LastCount(t)'
  BY LastSingle DEF LastCount
<1>3. ASSUME NEW t \in Task PROVE refs'[t] \in Nat
  <2> DEFINE lastc == LastCount(t)'
             sharc == Nodes(shared')[t]
             newc == Cardinality(Holding(new', t))
             repc == Cardinality(Holding(replaced', t))
             resc == Cardinality(Chained(result', t))
             gatec == Cardinality(Gates(t)')
             thrc == ThreadCount(t)'
  <2>p. Cardinality({x \in UNION {{a} \X result'[a] : a \in Agent} : x[2].task = t})
          = Cardinality(Chained(result', t))
    BY ResultsTyped, ChainedPairs
  <2>1. refs'[t] = lastc + sharc + newc + repc + resc + gatec + thrc
    BY <1>1, <1>2, <2>p DEF RefsExact, Holding, Gates, ThreadCount
  <2>2. lastc \in Nat /\ thrc \in Nat
    BY DEF LastCount, ThreadCount
  <2>3. shared' \in SUBSET TaggedGate
    BY <1>1 DEF TypeButRefs, WordTyped
  <2>4. sharc \in Nat
    BY <2>3, NodesNat
  <2>5. newc \in Nat /\ repc \in Nat /\ resc \in Nat /\ gatec \in Nat
    BY SubsetCounts DEF Holding, Chained, Gates
  <2> HIDE DEF lastc, sharc, newc, repc, resc, gatec, thrc
  <2> QED
    BY <2>1, <2>2, <2>4, <2>5
<1>4. refs' \in [Task -> Nat]
  BY <1>1, <1>3 DEF TypeButRefs, TasksTyped
<1> QED
  BY <1>1, <1>4 DEF TypeButRefs, WordTyped, TasksTyped, ThreadsTyped, LocalsTyped, RequestsTyped,
                    TypeOK, Labels

\* What a count of zero says.
Unreferenced ==
  \A t \in Task : refs[t] = 0 =>
    /\ last_task # t /\ \A g \in shared : g.task # t
    /\ \A a \in Agent :
         /\ new[a] # t /\ replaced[a] # t
         /\ \A g \in result[a] : g.task # t
    /\ \A p \in Task : t \notin dependents[p]
    /\ pc[t] \in {"none", "waiting"}

LEMMA ZeroRefs == TypeOK /\ RefsExact => Unreferenced
<1> SUFFICES ASSUME TypeOK, RefsExact, NEW t \in Task, refs[t] = 0
             PROVE  /\ last_task # t /\ \A g \in shared : g.task # t
                    /\ \A a \in Agent :
                         /\ new[a] # t /\ replaced[a] # t
                         /\ \A g \in result[a] : g.task # t
                    /\ \A p \in Task : t \notin dependents[p]
                    /\ pc[t] \in {"none", "waiting"}
  BY DEF Unreferenced
<1> DEFINE lastc == LastCount(t)
           sharc == Nodes(shared)[t]
           newc == Cardinality(Holding(new, t))
           repc == Cardinality(Holding(replaced, t))
           resc == Cardinality(Chained(result, t))
           gatec == Cardinality(Gates(t))
           thrc == ThreadCount(t)
<1>1. refs[t] = lastc + sharc + newc + repc + resc + gatec + thrc
  BY RefsSum DEF Referrers
<1>2. /\ lastc \in Nat /\ sharc \in Nat /\ newc \in Nat /\ repc \in Nat /\ resc \in Nat
      /\ gatec \in Nat /\ thrc \in Nat
  BY CountsNat
<1>3. lastc = 0 /\ sharc = 0 /\ newc = 0 /\ repc = 0 /\ resc = 0 /\ gatec = 0 /\ thrc = 0
  <2> HIDE DEF lastc, sharc, newc, repc, resc, gatec, thrc
  <2> QED
    BY <1>1, <1>2
<1>4. shared \in SUBSET TaggedGate
  BY DEF TypeOK
<1>5. \A g \in shared : g.task # t
  BY <1>3, <1>4, NodesZero
<1>6. Holding(new, t) = {} /\ Holding(replaced, t) = {} /\ Chained(result, t) = {} /\ Gates(t) = {}
  BY <1>3, SubsetCounts DEF Holding, Chained, Gates
<1>7. ~RunsInline(t)
  BY <1>6, SyncAssumption DEF RunsInline, Holding, Agent
<1>8. last_task # t /\ pc[t] \in {"none", "waiting"}
  BY <1>3, <1>7 DEF LastCount, ThreadCount
<1>9. ASSUME NEW a \in Agent PROVE \A g \in result[a] : g.task # t
  <2> SUFFICES ASSUME NEW g \in result[a], g.task = t PROVE FALSE
    OBVIOUS
  <2>1. g \in TaggedGate
    BY DEF TypeOK
  <2>2. <<a, g>> \in Chained(result, t)
    BY <2>1 DEF Chained
  <2> QED
    BY <2>2, <1>6
<1> QED
  BY <1>5, <1>6, <1>8, <1>9 DEF Holding, Gates

LEMMA ZeroRefsNext == (TypeOK /\ RefsExact)' => Unreferenced'
BY ZeroRefs, PTL
-----------------------------------------------------------------------------

LEMMA CoroutinesStep == SyncInv /\ [Next]_vars => CoroutinesPlaced'
<1> SUFFICES ASSUME SyncInv, [Next]_vars PROVE CoroutinesPlaced'
  OBVIOUS
<1>0. /\ pc \in [Agent -> Labels] /\ new \in [Agent -> TaskOrNone]
      /\ coroutine \in [Task -> Coroutine \cup {None}]
      /\ ask \in [Coroutine -> {"new", "none", "exclusive", "shared"}]
      /\ \A t \in Task : t \in Agent /\ t \notin Client /\ (state[t] = "Pooled" => pc[t] = "none")
      /\ None \notin Task /\ None \notin Coroutine
      /\ \A a \in Agent : pc[a] \in Queueing => new[a] \in Task
      /\ \A a \in Agent : pc[a] \in Early => pc[new[a]] = "waiting"
      /\ \A a \in Agent : a \in Client /\ new[a] # None => coroutine[new[a]] = None
      /\ CoroutinesPlaced
  BY SyncAssumption DEF SyncInv, TypeOK, Stages, CreatorsAlone, LocalsFollowPc, Agent, Labels, TaskOrNone
<1> USE <1>0 DEF CoroutinesPlaced, Queueing, Early
<1>1. ASSUME NEW t \in Task, NEW c \in Coroutine, StartCoroutine(c, t)
      PROVE  CoroutinesPlaced'
  BY <1>1 DEF StartCoroutine, Goto, localVars, gateVars, syncVars
<1>2. ASSUME NEW t \in Task, Run(t)
      PROVE  CoroutinesPlaced'
  BY <1>2 DEF Run, Goto, localVars, gateVars, syncVars
<1>3. ASSUME NEW t \in Task, TryExclusive(t)
      PROVE  CoroutinesPlaced'
  BY <1>3 DEF TryExclusive, Request, User, Suspend, Goto, localVars, gateVars
<1>4. ASSUME NEW t \in Task, TryShared(t)
      PROVE  CoroutinesPlaced'
  BY <1>4 DEF TryShared, Request, User, Suspend, Goto, localVars, gateVars
<1>5. ASSUME NEW t \in Task, NEW u \in Task, SuspendExclusive(t, u)
      PROVE  CoroutinesPlaced'
  BY <1>5 DEF SuspendExclusive, SyncExclusive, CreateTask, MoveCoroutine, ClearShared, gateVars, coVars
<1>6. ASSUME NEW t \in Task, NEW u \in Task, SuspendShared(t, u)
      PROVE  CoroutinesPlaced'
  BY <1>6 DEF SuspendShared, CreateTask, MoveCoroutine, gateVars
<1>7. ASSUME NEW a \in Agent, NEW u \in Task, InitializeTaskOn(a, u)
      PROVE  CoroutinesPlaced'
  BY <1>7 DEF InitializeTaskOn, Request, User, SyncExclusive, CreateTask, ClearShared, gateVars
<1>8. ASSUME NEW a \in Agent, ReleaseReplaced(a)
      PROVE  CoroutinesPlaced'
  BY <1>8 DEF ReleaseReplaced, Release, One, Goto, syncVars, gateVars, coVars
<1>9. ASSUME NEW t \in Task, AddRefPrevious(t)
      PROVE  CoroutinesPlaced'
  BY <1>9 DEF AddRefPrevious, Goto, syncVars, gateVars, coVars
<1>10. ASSUME NEW a \in Agent, HandleOnTask(a)
      PROVE  CoroutinesPlaced'
  BY <1>10 DEF HandleOnTask, ProcessOnReady, Goto, syncVars, gateVars, coVars
<1>11. ASSUME NEW a \in Agent, NEW g \in todo[a], AddDependency(a, g)
      PROVE  CoroutinesPlaced'
  BY <1>11 DEF AddDependency, syncVars, coVars
<1>12. ASSUME NEW a \in Agent, SubtractInactive(a)
      PROVE  CoroutinesPlaced'
  BY <1>12 DEF SubtractInactive, ProcessOnReady, Goto, syncVars, gateVars, coVars
<1>13. ASSUME NEW a \in Agent, ReleaseResult(a)
      PROVE  CoroutinesPlaced'
  BY <1>13 DEF ReleaseResult, Release, Goto, syncVars, gateVars, coVars
<1>14. ASSUME NEW t \in Task, ReleaseExclusive(t)
      PROVE  CoroutinesPlaced'
  BY <1>14 DEF ReleaseExclusive, AfterRelease, Release, One, InPlainTask, Goto, gateVars, localVars, coVars
<1>15. ASSUME NEW t \in Task, ReleaseShared(t)
      PROVE  CoroutinesPlaced'
  BY <1>15 DEF ReleaseShared, Release, ClearShared, Goto, gateVars, localVars, coVars
<1>16. ASSUME NEW t \in Task, LeaveScope(t)
      PROVE  CoroutinesPlaced'
  BY <1>16 DEF LeaveScope, UnblockDependents, Wake, syncVars, localVars, coVars, gateVars
<1>17. ASSUME NEW t \in Task, EndFunction(t)
      PROVE  CoroutinesPlaced'
  BY <1>17 DEF EndFunction, UnblockDependents, Wake, InPlainTask, syncVars, localVars, coVars
<1>18. ASSUME NEW t \in Task, Finish(t)
      PROVE  CoroutinesPlaced'
  BY <1>18 DEF Finish, Release, One, syncVars, gateVars, localVars, coVars
<1>19. CASE UNCHANGED vars
  BY <1>19 DEF vars, syncVars, gateVars, localVars, coVars
<1> QED
  BY <1>1, <1>2, <1>3, <1>4, <1>5, <1>6, <1>7, <1>8, <1>9, <1>10, <1>11, <1>12, <1>13,
     <1>14, <1>15, <1>16, <1>17, <1>18, <1>19
  DEF Next, Proceed, Queue
-----------------------------------------------------------------------------

\* CounterExact, for one task.
CounterOf(u) ==
  IF Unsettled(u) # {}
  THEN \A a \in Unsettled(u) :
         prerequires[u] = Cardinality(Gates(u)) + Cardinality(todo[a]) + inactive[a]
  ELSE prerequires[u] = Cardinality(Gates(u))

LEMMA CounterStep == SyncInv /\ [Next]_vars => CounterExact'
<1> SUFFICES ASSUME SyncInv, [Next]_vars, NEW x \in Task PROVE CounterOf(x)'
  BY DEF CounterExact, CounterOf, Gates
<1>c. CounterOf(x)
  BY DEF SyncInv, CounterExact, CounterOf, Gates
<1>t. /\ pc \in [Agent -> Labels] /\ new \in [Agent -> TaskOrNone]
      /\ prerequires \in [Task -> Nat] /\ dependents \in [Task -> SUBSET Task]
      /\ todo \in [Agent -> SUBSET TaggedGate] /\ result \in [Agent -> SUBSET TaggedGate]
      /\ inactive \in [Agent -> Nat]
      /\ \A t \in Task : t \in Agent /\ t \notin Client /\ (state[t] = "Pooled" => pc[t] = "none")
      /\ None \notin Task /\ (\A a \in Agent : pc[a] \in Queueing => new[a] \in Task)
  BY SyncAssumption DEF SyncInv, TypeOK, Stages, LocalsFollowPc, Agent, Labels, TaskOrNone
<1>d. dependents \in [Task -> SUBSET Task]
  BY <1>t
<1>w. \A a \in Agent : pc[a] \in Early => pc[new[a]] = "waiting" /\ prerequires[new[a]] = 0
  BY DEF SyncInv, CreatorsAlone
<1>s. \A a \in Agent : pc[a] = "add" /\ inactive[a] > 0 => pc[new[a]] = "waiting"
  BY InactiveWaits
\* What the counters are about stays, and so does who is in the loop.
<1>k. ASSUME UNCHANGED <<prerequires, dependents, todo, inactive>>,
             \A a \in Agent : /\ pc'[a] = "add" <=> pc[a] = "add"
                              /\ pc[a] = "add" => new'[a] = new[a]
      PROVE  CounterOf(x)'
  <2>1. Unsettled(x)' = Unsettled(x)
    BY <1>k DEF Unsettled
  <2>2. Gates(x)' = Gates(x)
    BY <1>k DEF Gates
  <2> QED
    BY <2>1, <2>2, <1>k, <1>c DEF CounterOf, Unsettled
\* The gate of t is emptied.
<1>u. ASSUME NEW t \in Task, UNCHANGED <<new, todo, inactive>>,
             dependents' = [dependents EXCEPT ![t] = {}],
             \A d \in Task : prerequires'[d] = IF d \in dependents[t] THEN prerequires[d] - 1 ELSE prerequires[d],
             \A a \in Agent : pc'[a] = "add" <=> pc[a] = "add"
      PROVE  CounterOf(x)'
  <2>1. Unsettled(x)' = Unsettled(x) /\ \A a \in Unsettled(x) : a \in Agent
    BY <1>u DEF Unsettled
  <2> DEFINE n == Cardinality(Gates(x))
             n2 == Cardinality(Gates(x)')
             size(a) == Cardinality(todo[a])
  <2>2. n2 = n - (IF x \in dependents[t] THEN 1 ELSE 0) + (IF x \in {} THEN 1 ELSE 0)
    <3> DEFINE none == {}
    <3>1. none \in SUBSET Task /\ dependents' = [dependents EXCEPT ![t] = none]
      BY <1>u
    <3> HIDE DEF none
    <3>2. n2 = n - (IF x \in dependents[t] THEN 1 ELSE 0) + (IF x \in none THEN 1 ELSE 0)
      BY <3>1, <1>d, GatesChange
    <3> QED
      BY <3>2 DEF none
  <2>3. n \in Nat /\ \A a \in Agent : size(a) \in Nat
    BY <1>t, SubsetCounts DEF Gates
  <2>4. CASE Unsettled(x) = {}
    <3>1. prerequires[x] = n /\ (CounterOf(x)' <=> prerequires'[x] = n2)
      BY <2>1, <2>4, <1>c DEF CounterOf
    <3> HIDE DEF n, n2
    <3> QED
      BY <3>1, <2>2, <2>3, <1>u
  <2>5. CASE Unsettled(x) # {}
    <3>1. \A a \in Unsettled(x) : prerequires[x] = n + size(a) + inactive[a] /\ inactive[a] \in Nat
      BY <2>1, <2>5, <1>c, <1>t DEF CounterOf
    <3>2. CounterOf(x)' <=> \A a \in Unsettled(x) : prerequires'[x] = n2 + size(a) + inactive[a]
      BY <2>1, <2>5, <1>u DEF CounterOf
    <3> HIDE DEF n, n2, size
    <3> QED
      BY <3>1, <3>2, <2>1, <2>2, <2>3, <1>u
  <2> QED
    BY <2>4, <2>5
<1>1. ASSUME NEW t \in Task, NEW c \in Coroutine, StartCoroutine(c, t)
      PROVE  CounterOf(x)'
  BY <1>1, <1>k, <1>t, <1>w DEF Queueing, Early, StartCoroutine, Goto, localVars, gateVars, syncVars
<1>2. ASSUME NEW t \in Task, Run(t)
      PROVE  CounterOf(x)'
  <2>1. PICK label \in {"body", "exclusive", "shared"} : pc[t] = "ready" /\ pc' = [pc EXCEPT ![t] = label]
    BY <1>2, RunGoesOn
  <2>2. UNCHANGED <<new, prerequires, dependents, todo, inactive>>
    BY <1>2 DEF Run, localVars, gateVars
  <2> QED
    BY <2>1, <2>2, <1>k, <1>t
<1>3. ASSUME NEW t \in Task, TryExclusive(t)
      PROVE  CounterOf(x)'
  BY <1>3, <1>k, <1>t, <1>w DEF Queueing, Early, TryExclusive, Request, User, Suspend, Goto, localVars, gateVars
<1>4. ASSUME NEW t \in Task, TryShared(t)
      PROVE  CounterOf(x)'
  BY <1>4, <1>k, <1>t, <1>w DEF Queueing, Early, TryShared, Request, User, Suspend, Goto, localVars, gateVars
<1>5. ASSUME NEW t \in Task, NEW u \in Task, SuspendExclusive(t, u)
      PROVE  CounterOf(x)'
  BY <1>5, <1>k, <1>t, <1>w DEF Queueing, Early, SuspendExclusive, SyncExclusive, CreateTask, MoveCoroutine, ClearShared, gateVars, coVars
<1>6. ASSUME NEW t \in Task, NEW u \in Task, SuspendShared(t, u)
      PROVE  CounterOf(x)'
  BY <1>6, <1>k, <1>t, <1>w DEF Queueing, Early, SuspendShared, CreateTask, MoveCoroutine, gateVars
<1>7. ASSUME NEW a \in Agent, NEW u \in Task, InitializeTaskOn(a, u)
      PROVE  CounterOf(x)'
  BY <1>7, <1>k, <1>t, <1>w DEF Queueing, Early, InitializeTaskOn, Request, User, SyncExclusive, CreateTask, ClearShared, gateVars
<1>8. ASSUME NEW a \in Agent, ReleaseReplaced(a)
      PROVE  CounterOf(x)'
  BY <1>8, <1>k, <1>t, <1>w DEF Queueing, Early, ReleaseReplaced, Release, One, Goto, syncVars, gateVars, coVars
<1>9. ASSUME NEW t \in Task, AddRefPrevious(t)
      PROVE  CounterOf(x)'
  BY <1>9, <1>k, <1>t, <1>w DEF Queueing, Early, AddRefPrevious, Goto, syncVars, gateVars, coVars
<1>10. ASSUME NEW a \in Agent, HandleOnTask(a)
      PROVE  CounterOf(x)'
  <2>1. /\ pc[a] = "handle" /\ UNCHANGED <<new, dependents, inactive>>
        /\ new[a] \in Task /\ pc[new[a]] = "waiting" /\ prerequires[new[a]] = 0
    BY <1>10, <1>t, <1>w DEF HandleOnTask, gateVars, Early, Queueing
  <2>2. \A b \in Agent : new[b] = new[a] => b = a
    BY <2>1, <1>t DEF SyncInv, CreatorsAlone
  <2>3. CASE UNCHANGED <<pc, prerequires, todo>>
    BY <2>1, <2>3, <1>k
  <2>4. CASE /\ prerequires' = [prerequires EXCEPT ![new[a]] = Cardinality(result[a])]
             /\ todo' = [todo EXCEPT ![a] = result[a]]
             /\ \/ result[a] = {} /\ ProcessOnReady(a)
                \/ pc' = [pc EXCEPT ![a] = "add"]
    <3>1. \A b \in Agent : b # a => (pc'[b] = "add" <=> pc[b] = "add") /\ todo'[b] = todo[b]
      BY <2>1, <2>4, <1>t DEF ProcessOnReady
    <3>2. CASE x # new[a]
      <4>1. Unsettled(x)' = Unsettled(x) /\ \A b \in Unsettled(x) : b \in Agent /\ b # a
        BY <2>1, <3>1, <3>2 DEF Unsettled
      <4>2. Gates(x)' = Gates(x) /\ prerequires'[x] = prerequires[x]
        BY <2>1, <2>4, <3>2, <1>t DEF Gates
      <4> QED
        BY <2>1, <3>1, <4>1, <4>2, <1>c DEF CounterOf
    <3>3. CASE x = new[a]
      <4>1. Gates(x)' = {} /\ Cardinality(Gates(x)') = 0
        <5>1. Gates(x)' = {}
          BY <2>1, <3>3, NoGates DEF Gates
        <5> QED
          BY <5>1, FS_EmptySet
      <4>2. prerequires'[x] = Cardinality(result[a]) /\ todo'[a] = result[a] /\ inactive[a] = 0
        BY <2>1, <2>4, <3>3, <1>t DEF SyncInv, LocalsFollowPc
      <4>3. Cardinality(result[a]) \in Nat
        BY <1>t, SubsetCounts
      <4>4. Unsettled(x)' \subseteq {a}
        BY <2>1, <2>2, <3>3 DEF Unsettled
      <4>5. CASE pc' = [pc EXCEPT ![a] = "add"]
        <5>1. Unsettled(x)' = {a}
          BY <2>1, <3>3, <4>4, <4>5, <1>t DEF Unsettled
        <5>2. CounterOf(x)' <=> prerequires'[x] = Cardinality(Gates(x)') + Cardinality(todo'[a]) + inactive'[a]
          BY <5>1 DEF CounterOf
        <5> QED
          BY <5>2, <4>1, <4>2, <4>3, <2>1
      <4>6. CASE result[a] = {} /\ ProcessOnReady(a)
        <5>1. Unsettled(x)' = {}
          BY <2>1, <3>3, <4>4, <4>6, <1>t DEF Unsettled, ProcessOnReady
        <5>2. Cardinality(result[a]) = 0
          BY <4>6, FS_EmptySet
        <5>3. CounterOf(x)' <=> prerequires'[x] = Cardinality(Gates(x)')
          BY <5>1 DEF CounterOf
        <5> QED
          BY <5>2, <5>3, <4>1, <4>2
      <4> QED
        BY <2>4, <4>5, <4>6
    <3> QED
      BY <3>2, <3>3
  <2> QED
    BY <1>10, <2>3, <2>4 DEF HandleOnTask, Goto
<1>11. ASSUME NEW a \in Agent, NEW g \in todo[a], AddDependency(a, g)
      PROVE  CounterOf(x)'
  <2>1. /\ pc[a] = "add" /\ UNCHANGED <<pc, new, prerequires, gate_tag>>
        /\ todo' = [todo EXCEPT ![a] = todo[a] \ {g}]
        /\ \/ /\ Blocks(g) /\ UNCHANGED inactive
              /\ dependents' = [dependents EXCEPT ![g.task] = dependents[g.task] \cup {new[a]}]
           \/ UNCHANGED dependents /\ inactive' = [inactive EXCEPT ![a] = inactive[a] + 1]
    BY <1>11 DEF AddDependency
  <2>2. g \in TaggedGate /\ new[a] \in Task
    BY <2>1, <1>t DEF Queueing
  <2>3. \A b \in Agent : new[b] = new[a] => b = a
    BY <2>1, <2>2, <1>t DEF SyncInv, CreatorsAlone
  <2>4. Unsettled(x)' = Unsettled(x)
    BY <2>1 DEF Unsettled
  <2>5. CASE x # new[a]
    <3>1. Gates(x)' = Gates(x)
      BY <2>1, <2>2, <2>5, <1>t DEF Gates, TaggedGate
    <3>2. \A b \in Unsettled(x) : todo'[b] = todo[b] /\ inactive'[b] = inactive[b]
      BY <2>1, <2>5, <1>t DEF Unsettled
    <3> QED
      BY <2>1, <2>4, <3>1, <3>2, <1>c DEF CounterOf
  <2>6. CASE x = new[a]
    <3>1. Unsettled(x) = {a}
      BY <2>1, <2>3, <2>6 DEF Unsettled
    <3> DEFINE n == Cardinality(Gates(x))
               n2 == Cardinality(Gates(x)')
               m == Cardinality(todo[a])
               m2 == Cardinality(todo'[a])
    <3>2. prerequires[x] = n + m + inactive[a]
      BY <3>1, <1>c DEF CounterOf
    <3>3. CounterOf(x)' <=> prerequires[x] = n2 + m2 + inactive'[a]
      BY <2>1, <2>4, <3>1 DEF CounterOf
    <3>4. n \in Nat /\ m \in Nat /\ inactive[a] \in Nat
      BY <1>t, SubsetCounts DEF Gates
    <3>5. m2 = m - 1
      <4>1. todo'[a] = todo[a] \ {g} /\ IsFiniteSet(todo[a])
        BY <2>1, <1>t, SubsetCounts
      <4> QED
        BY <4>1, FS_RemoveElement
    <3>6. CASE UNCHANGED dependents /\ inactive' = [inactive EXCEPT ![a] = inactive[a] + 1]
      <4>1. n2 = n /\ inactive'[a] = inactive[a] + 1
        BY <3>6, <1>t DEF Gates
      <4> HIDE DEF n, n2, m, m2
      <4> QED
        BY <3>2, <3>3, <3>4, <3>5, <4>1
    <3>7. CASE /\ Blocks(g) /\ UNCHANGED inactive
               /\ dependents' = [dependents EXCEPT ![g.task] = dependents[g.task] \cup {new[a]}]
      <4> DEFINE p == g.task
                 D == dependents[p] \cup {new[a]}
      <4>1. p \in Task /\ D \in SUBSET Task /\ dependents' = [dependents EXCEPT ![p] = D]
        BY <2>2, <3>7, <1>t DEF TaggedGate
      <4>2. g = Gate(p)
        BY <2>2, <3>7 DEF Blocks, Gate, TaggedGate
      <4>3. x \notin dependents[p] /\ x \in D
        <5>1. \A q \in Task : new[a] \in dependents[q] => Gate(q) \notin todo[a]
          BY <2>1 DEF SyncInv, CreatorsAlone
        <5> QED
          BY <5>1, <2>6, <4>1, <4>2
      <4> HIDE DEF p, D
      <4>4. n2 = n - (IF x \in dependents[p] THEN 1 ELSE 0) + (IF x \in D THEN 1 ELSE 0)
        BY <4>1, <1>d, GatesChange
      <4> HIDE DEF n, n2, m, m2
      <4>5. n2 = n + 1
        BY <4>3, <4>4, <3>4
      <4> QED
        BY <3>2, <3>3, <3>4, <3>5, <3>7, <4>5
    <3> QED
      BY <2>1, <3>6, <3>7
  <2> QED
    BY <2>5, <2>6
<1>12. ASSUME NEW a \in Agent, SubtractInactive(a)
      PROVE  CounterOf(x)'
  <2>1. /\ pc[a] = "add" /\ todo[a] = {} /\ UNCHANGED <<new, dependents, todo>>
        /\ prerequires' = [prerequires EXCEPT ![new[a]] = prerequires[new[a]] - inactive[a]]
        /\ inactive' = [inactive EXCEPT ![a] = 0]
        /\ \/ inactive[a] > 0 /\ ProcessOnReady(a)
           \/ pc' = [pc EXCEPT ![a] = "release"]
    BY <1>12 DEF SubtractInactive, Goto, gateVars
  <2>2. new[a] \in Task
    BY <2>1, <1>t DEF Queueing
  <2>3. \A b \in Agent : new[b] = new[a] => b = a
    BY <2>1, <2>2, <1>t DEF SyncInv, CreatorsAlone
  <2>4. /\ pc'[a] # "add"
        /\ \A b \in Agent : b # a => (pc'[b] = "add" <=> pc[b] = "add") /\ inactive'[b] = inactive[b]
    BY <2>1, <2>2, <1>t, <1>s DEF ProcessOnReady
  <2>5. CASE x # new[a]
    <3>1. Unsettled(x)' = Unsettled(x) /\ \A b \in Unsettled(x) : b \in Agent /\ b # a
      BY <2>1, <2>4, <2>5 DEF Unsettled
    <3>2. Gates(x)' = Gates(x) /\ prerequires'[x] = prerequires[x]
      BY <2>1, <2>5, <1>t DEF Gates
    <3> QED
      BY <2>1, <2>4, <3>1, <3>2, <1>c DEF CounterOf
  <2>6. CASE x = new[a]
    <3>1. Unsettled(x)' = {} /\ Gates(x)' = Gates(x)
      BY <2>1, <2>3, <2>4, <2>6 DEF Unsettled, Gates
    <3>2. CounterOf(x)' <=> prerequires'[x] = Cardinality(Gates(x))
      BY <3>1 DEF CounterOf
    <3>3. prerequires'[x] = prerequires[x] - inactive[a]
      BY <2>1, <2>6, <1>t
    <3> DEFINE n == Cardinality(Gates(x))
               m == Cardinality(todo[a])
    <3>4. prerequires[x] = n + m + inactive[a] /\ n \in Nat /\ m \in Nat /\ inactive[a] \in Nat
      BY <2>1, <2>6, CounterInLoop
    <3>5. m = 0
      BY <2>1, FS_EmptySet
    <3> HIDE DEF m
    <3>6. prerequires'[x] = n
      <4> HIDE DEF n
      <4> QED
        BY <3>3, <3>4, <3>5
    <3> QED
      BY <3>2, <3>6
  <2> QED
    BY <2>5, <2>6
<1>13. ASSUME NEW a \in Agent, ReleaseResult(a)
      PROVE  CounterOf(x)'
  BY <1>13, <1>k, <1>t, <1>w DEF Queueing, Early, ReleaseResult, Release, Goto, syncVars, gateVars, coVars
<1>14. ASSUME NEW t \in Task, ReleaseExclusive(t)
      PROVE  CounterOf(x)'
  BY <1>14, <1>k, <1>t, <1>w DEF Queueing, Early, ReleaseExclusive, AfterRelease, Release, One, InPlainTask, Goto, gateVars, localVars, coVars
<1>15. ASSUME NEW t \in Task, ReleaseShared(t)
      PROVE  CounterOf(x)'
  BY <1>15, <1>k, <1>t, <1>w DEF Queueing, Early, ReleaseShared, Release, ClearShared, Goto, gateVars, localVars, coVars
<1>16. ASSUME NEW t \in Task, LeaveScope(t)
      PROVE  CounterOf(x)'
  <2>1. UNCHANGED <<new, todo, inactive>> /\ pc[t] \in {"leave", "leaveShared"}
    BY <1>16 DEF LeaveScope, localVars
  <2>2. CASE UNCHANGED <<pc, gateVars, prerequires>>
    BY <2>1, <2>2, <1>k DEF gateVars
  <2>3. CASE UnblockDependents(t, "Pending") /\ Wake(t, "body")
    <3>1. \A a \in Agent : pc'[a] = "add" <=> pc[a] = "add"
      BY <2>1, <2>3, WakesWaiting, <1>t DEF Agent
    <3> QED
      BY <2>1, <2>3, <3>1, <1>u DEF UnblockDependents
  <2> QED
    BY <1>16, <2>2, <2>3 DEF LeaveScope
<1>17. ASSUME NEW t \in Task, EndFunction(t)
      PROVE  CounterOf(x)'
  <2>1. UNCHANGED <<new, todo, inactive>> /\ pc[t] \in {"body", "exclusive"} /\ UnblockDependents(t, "Done")
    BY <1>17 DEF EndFunction, InPlainTask, localVars
  <2>2. \E label \in {"clear", "finish"} : Wake(t, label)
    BY <1>17 DEF EndFunction
  <2>3. \A a \in Agent : pc'[a] = "add" <=> pc[a] = "add"
    BY <2>1, <2>2, WakesWaiting, <1>t DEF Agent
  <2> QED
    BY <2>1, <2>3, <1>u DEF UnblockDependents
<1>18. ASSUME NEW t \in Task, Finish(t)
      PROVE  CounterOf(x)'
  BY <1>18, <1>k, <1>t, <1>w DEF Queueing, Early, Finish, Release, One, syncVars, gateVars, localVars, coVars
<1>19. CASE UNCHANGED vars
  BY <1>19, <1>k, <1>t, <1>w DEF Queueing, Early, vars, syncVars, gateVars, localVars, coVars
<1> QED
  BY <1>1, <1>2, <1>3, <1>4, <1>5, <1>6, <1>7, <1>8, <1>9, <1>10, <1>11, <1>12, <1>13,
     <1>14, <1>15, <1>16, <1>17, <1>18, <1>19
  DEF Next, Proceed, Queue
-----------------------------------------------------------------------------

\* A task waits as long as its counter, or the creator that will set it, says so.
WaitingCounted ==
  \A t \in Task :
    /\ pc[t] = "waiting" => prerequires[t] > 0 \/ \E a \in Agent : new[a] = t /\ pc[a] \in Early
    /\ pc[t] # "waiting" => prerequires[t] = 0

LEMMA WaitingStep == SyncInv /\ [Next]_vars => WaitingCounted'
<1> SUFFICES ASSUME SyncInv, [Next]_vars PROVE WaitingCounted'
  OBVIOUS
<1>t. /\ pc \in [Agent -> Labels] /\ new \in [Agent -> TaskOrNone]
      /\ prerequires \in [Task -> Nat]
      /\ \A t \in Task : t \in Agent /\ t \notin Client /\ (state[t] = "Pooled" => pc[t] = "none")
      /\ None \notin Task /\ (\A a \in Agent : pc[a] \in Queueing => new[a] \in Task)
      /\ \A a \in Agent : a \in Task => pc[a] # "inline" /\ new[a] # a
  BY SyncAssumption DEF SyncInv, TypeOK, Stages, LocalsFollowPc, Agent, Labels, TaskOrNone
<1>w. \A a \in Agent : pc[a] \in Early => pc[new[a]] = "waiting" /\ prerequires[new[a]] = 0
  BY DEF SyncInv, CreatorsAlone
<1>c. WaitingCounted
  BY DEF SyncInv, Stages, WaitingCounted
<1>d. \A a, b \in Agent : new[a] = new[b] /\ new[a] # None => a = b
  BY DEF SyncInv, CreatorsAlone
<1>l. \A a \in Client : pc[a] \in {"body"} \cup (Queueing \ {"addref"})
  BY DEF SyncInv, LocalsFollowPc, Agent
<1>u. ASSUME NEW t \in Task, UNCHANGED new, NEW label, label \notin Early, label # "waiting", Wake(t, label),
              pc[t] \notin Early, pc[t] # "waiting",
              \A d \in Task : prerequires'[d] = IF d \in dependents[t] THEN prerequires[d] - 1 ELSE prerequires[d]
       PROVE  WaitingCounted'
  <2>1. /\ \A a \in Agent : a # t /\ (a \notin Task \/ pc[a] # "waiting") => pc'[a] = pc[a]
        /\ \A d \in Task : d # t =>
              pc'[d] = IF d \in dependents[t] /\ prerequires[d] = 1 THEN "ready" ELSE pc[d]
        /\ pc'[t] = label
    BY <1>u, WakesWaiting
  <2>2. \A d \in Task : d \in dependents[t] => prerequires[d] > 0 /\ pc[d] = "waiting"
    BY NoGates
  <2>3. \A b \in Agent : pc[b] \in Early => pc'[b] \in Early
    BY <1>u, <2>1 DEF Early
  <2> QED
    BY <1>u, <2>1, <2>2, <2>3, <1>t, <1>c DEF WaitingCounted
<1>1. ASSUME NEW t \in Task, NEW c \in Coroutine, StartCoroutine(c, t)
      PROVE  WaitingCounted'
  BY <1>1, <1>t, <1>w, <1>c, <1>d DEF WaitingCounted, Queueing, Early, StartCoroutine, Goto, localVars, gateVars, syncVars
<1>2. ASSUME NEW t \in Task, Run(t)
      PROVE  WaitingCounted'
  <2>1. PICK label \in {"body", "exclusive", "shared"} : pc[t] = "ready" /\ pc' = [pc EXCEPT ![t] = label]
    BY <1>2, RunGoesOn
  <2>2. UNCHANGED <<new, prerequires>>
    BY <1>2 DEF Run, localVars
  <2> QED
    BY <2>1, <2>2, <1>t, <1>c DEF WaitingCounted, Early
<1>3. ASSUME NEW t \in Task, TryExclusive(t)
      PROVE  WaitingCounted'
  BY <1>3, <1>t, <1>w, <1>c, <1>d DEF WaitingCounted, Queueing, Early, TryExclusive, Request, User, Suspend, Goto, localVars, gateVars
<1>4. ASSUME NEW t \in Task, TryShared(t)
      PROVE  WaitingCounted'
  BY <1>4, <1>t, <1>w, <1>c, <1>d DEF WaitingCounted, Queueing, Early, TryShared, Request, User, Suspend, Goto, localVars, gateVars
<1>5. ASSUME NEW t \in Task, NEW u \in Task, SuspendExclusive(t, u)
      PROVE  WaitingCounted'
  <2>1. PICK label \in {"replaced", "handle"} :
          /\ pc[t] = "suspend" /\ state[u] = "Pooled" /\ UNCHANGED prerequires
          /\ pc' = [pc EXCEPT ![t] = label, ![u] = "waiting"] /\ new' = [new EXCEPT ![t] = u]
    BY <1>5 DEF SuspendExclusive, SyncExclusive, CreateTask
  <2>2. pc[u] = "none" /\ u # t
    BY <1>t, <2>1
  <2> QED
    BY <1>t, <1>w, <1>c, <1>d, <2>1, <2>2 DEF WaitingCounted, Queueing, Early
<1>6. ASSUME NEW t \in Task, NEW u \in Task, SuspendShared(t, u)
      PROVE  WaitingCounted'
  BY <1>6, <1>t, <1>w, <1>c, <1>d DEF WaitingCounted, Queueing, Early, SuspendShared, CreateTask, MoveCoroutine, gateVars
<1>7. ASSUME NEW a \in Agent, NEW u \in Task, InitializeTaskOn(a, u)
      PROVE  WaitingCounted'
  <2>1. PICK label \in {"handle", "replaced"} :
          /\ pc[a] = "body" /\ state[u] = "Pooled" /\ new' = [new EXCEPT ![a] = u]
          /\ pc' = [pc EXCEPT ![a] = label, ![u] = "waiting"] /\ UNCHANGED prerequires
    BY <1>7 DEF InitializeTaskOn, Request, User, SyncExclusive, CreateTask
  <2>2. pc[u] = "none" /\ u # a
    BY <2>1, <1>t
  <2> QED
    BY <2>1, <2>2, <1>t, <1>c DEF WaitingCounted, Early
<1>8. ASSUME NEW a \in Agent, ReleaseReplaced(a)
      PROVE  WaitingCounted'
  BY <1>8, <1>t, <1>w, <1>c, <1>d DEF WaitingCounted, Queueing, Early, ReleaseReplaced, Release, One, Goto, syncVars, gateVars, coVars
<1>9. ASSUME NEW t \in Task, AddRefPrevious(t)
      PROVE  WaitingCounted'
  BY <1>9, <1>t, <1>w, <1>c, <1>d DEF WaitingCounted, Queueing, Early, AddRefPrevious, Goto, syncVars, gateVars, coVars
<1>10. ASSUME NEW a \in Agent, HandleOnTask(a)
      PROVE  WaitingCounted'
  <2>1. /\ pc[a] = "handle" /\ UNCHANGED new
        /\ new[a] \in Task /\ pc[new[a]] = "waiting" /\ prerequires[new[a]] = 0 /\ new[a] # a
    BY <1>10, <1>t, <1>w DEF HandleOnTask, Early, Queueing
  <2>2. \A b \in Agent : new[b] = new[a] => b = a
    BY <2>1, <1>t, <1>d
  <2>3. CASE UNCHANGED <<pc, prerequires>>
    BY <2>1, <2>3, <1>c DEF WaitingCounted
  <2>4. ASSUME prerequires' = [prerequires EXCEPT ![new[a]] = Cardinality(result[a])],
               \/ result[a] = {} /\ ProcessOnReady(a)
               \/ result[a] # {} /\ pc' = [pc EXCEPT ![a] = "add"]
        PROVE  WaitingCounted'
    <3>1. result[a] \in SUBSET TaggedGate
      BY DEF SyncInv, TypeOK
    <3>2. Cardinality(result[a]) \in Nat /\ (Cardinality(result[a]) = 0 <=> result[a] = {})
      BY <3>1, SubsetCounts
    <3>3. \A b \in Agent : b # a /\ b # new[a] => pc'[b] = pc[b]
      BY <2>1, <2>4, <1>t DEF ProcessOnReady
    <3>4. \A x \in Task : x # new[a] => prerequires'[x] = prerequires[x] /\ (x # a => pc'[x] = pc[x])
      BY <2>4, <3>3, <1>t
    <3>5. \A x \in Task : x # new[a] =>
             ((\E b \in Agent : new[b] = x /\ pc[b] \in Early) => (\E b \in Agent : new'[b] = x /\ pc'[b] \in Early))
      BY <2>1, <3>3, <1>w DEF Early
    <3>6. a \in Task => pc'[a] # "waiting" /\ pc[a] # "waiting"
      BY <2>1, <2>4, <1>t DEF ProcessOnReady
    <3>7. pc'[new[a]] = "waiting" <=> Cardinality(result[a]) > 0
      BY <2>1, <2>4, <3>2, <1>t DEF ProcessOnReady
    <3>8. prerequires'[new[a]] = Cardinality(result[a])
      BY <2>1, <2>4, <1>t
    <3> QED
      BY <3>2, <3>4, <3>5, <3>6, <3>7, <3>8, <1>c DEF WaitingCounted
  <2> QED
    BY <1>10, <2>3, <2>4 DEF HandleOnTask, Goto
<1>11. ASSUME NEW a \in Agent, NEW g \in todo[a], AddDependency(a, g)
      PROVE  WaitingCounted'
  BY <1>11, <1>t, <1>w, <1>c, <1>d DEF WaitingCounted, Queueing, Early, AddDependency, syncVars, coVars
<1>12. ASSUME NEW a \in Agent, SubtractInactive(a)
      PROVE  WaitingCounted'
  <2>1. /\ pc[a] = "add" /\ todo[a] = {} /\ UNCHANGED new
        /\ prerequires' = [prerequires EXCEPT ![new[a]] = prerequires[new[a]] - inactive[a]]
        /\ \/ inactive[a] > 0 /\ prerequires[new[a]] = inactive[a] /\ ProcessOnReady(a)
           \/ ~(inactive[a] > 0 /\ prerequires[new[a]] = inactive[a]) /\ pc' = [pc EXCEPT ![a] = "release"]
    BY <1>12 DEF SubtractInactive, Goto
  <2> DEFINE u == new[a]
             k == inactive[a]
  <2>2. u \in Task /\ u # a /\ \A b \in Agent : new[b] = u => b = a
    BY <2>1, <1>t, <1>d DEF Queueing
  <2>3. prerequires[u] - k \in Nat /\ k \in Nat
    <3> DEFINE n == Cardinality(Gates(u))
               m == Cardinality(todo[a])
    <3>1. prerequires[u] = n + m + k /\ n \in Nat /\ m \in Nat /\ k \in Nat
      BY <2>1, CounterInLoop
    <3> HIDE DEF n, m, u, k
    <3> QED
      BY <3>1
  <2>4. (k > 0 => pc[u] = "waiting") /\ (pc[u] = "waiting" => prerequires[u] > 0)
    <3>1. pc[u] # "waiting" => prerequires[u] = 0
      BY <2>2, <1>c DEF WaitingCounted
    <3>2. pc[u] = "waiting" => prerequires[u] > 0
      BY <2>1, <2>2, <1>c DEF WaitingCounted, Early
    <3> QED
      BY <3>1, <3>2, <2>3, <2>2, <1>t
  <2>5. \A b \in Agent : b # a /\ b # u => pc'[b] = pc[b]
    BY <2>1, <1>t DEF ProcessOnReady
  <2>6. \A x \in Task : x # u => prerequires'[x] = prerequires[x] /\ (x # a => pc'[x] = pc[x])
    BY <2>1, <2>5, <1>t
  <2>7. \A x \in Task : x # u =>
           ((\E b \in Agent : new[b] = x /\ pc[b] \in Early) => (\E b \in Agent : new'[b] = x /\ pc'[b] \in Early))
    <3>1. \A b \in Agent : pc[b] \in Early => b # a /\ (b = u => k = 0)
      BY <2>1, <2>3, <2>4 DEF Early
    <3>2. k = 0 => \A b \in Agent : b # a => pc'[b] = pc[b]
      BY <2>1, <1>t
    <3>3. \A b \in Agent : pc[b] \in Early => pc'[b] = pc[b]
      BY <2>5, <3>1, <3>2
    <3> QED
      BY <2>1, <3>3
  <2>8. a \in Task => pc'[a] # "waiting" /\ pc[a] # "waiting"
    BY <2>1, <2>2, <1>t DEF ProcessOnReady
  <2>9. prerequires'[u] = prerequires[u] - k
    BY <2>1, <2>2, <1>t
  <2>10. \/ k > 0 /\ prerequires[u] = k /\ pc'[u] # "waiting"
         \/ ~(k > 0 /\ prerequires[u] = k) /\ pc'[u] = pc[u]
    BY <2>1, <2>2, <1>t DEF ProcessOnReady
  <2>11. prerequires[u] \in Nat /\ (pc[u] # "waiting" => prerequires[u] = 0)
    BY <2>2, <1>t, <1>c DEF WaitingCounted
  <2> HIDE DEF u, k
  <2>12. (pc'[u] = "waiting" => prerequires'[u] > 0) /\ (pc'[u] # "waiting" => prerequires'[u] = 0)
    BY <2>3, <2>4, <2>9, <2>10, <2>11
  <2> QED
    BY <2>2, <2>6, <2>7, <2>8, <2>12, <1>c DEF WaitingCounted
<1>13. ASSUME NEW a \in Agent, ReleaseResult(a)
      PROVE  WaitingCounted'
  BY <1>13, <1>t, <1>w, <1>c, <1>d DEF WaitingCounted, Queueing, Early, ReleaseResult, Release, Goto, syncVars, gateVars, coVars
<1>14. ASSUME NEW t \in Task, ReleaseExclusive(t)
      PROVE  WaitingCounted'
  BY <1>14, <1>t, <1>w, <1>c, <1>d DEF WaitingCounted, Queueing, Early, ReleaseExclusive, AfterRelease, Release, One, InPlainTask, Goto, gateVars, localVars, coVars
<1>15. ASSUME NEW t \in Task, ReleaseShared(t)
      PROVE  WaitingCounted'
  BY <1>15, <1>t, <1>w, <1>c, <1>d DEF WaitingCounted, Queueing, Early, ReleaseShared, Release, ClearShared, Goto, gateVars, localVars, coVars
<1>16. ASSUME NEW t \in Task, LeaveScope(t)
      PROVE  WaitingCounted'
  <2>1. UNCHANGED new /\ pc[t] \in {"leave", "leaveShared"}
    BY <1>16 DEF LeaveScope, localVars
  <2>2. CASE UNCHANGED <<pc, prerequires>>
    BY <2>1, <2>2, <1>c DEF WaitingCounted
  <2>3. CASE UnblockDependents(t, "Pending") /\ Wake(t, "body")
    BY <2>1, <2>3, <1>u DEF UnblockDependents, Early
  <2> QED
    BY <1>16, <2>2, <2>3 DEF LeaveScope
<1>17. ASSUME NEW t \in Task, EndFunction(t)
      PROVE  WaitingCounted'
  <2>1. UNCHANGED new /\ pc[t] \in {"body", "exclusive"} /\ UnblockDependents(t, "Done")
    BY <1>17 DEF EndFunction, InPlainTask, localVars
  <2>2. \E label \in {"clear", "finish"} : Wake(t, label)
    BY <1>17 DEF EndFunction
  <2> QED
    BY <2>1, <2>2, <1>u DEF UnblockDependents, Early
<1>18. ASSUME NEW t \in Task, Finish(t)
      PROVE  WaitingCounted'
  BY <1>18, <1>t, <1>w, <1>c, <1>d DEF WaitingCounted, Queueing, Early, Finish, Release, One, syncVars, gateVars, localVars, coVars
<1>19. CASE UNCHANGED vars
  BY <1>19, <1>t, <1>w, <1>c, <1>d DEF WaitingCounted, Queueing, Early, vars, syncVars, gateVars, localVars, coVars
<1> QED
  BY <1>1, <1>2, <1>3, <1>4, <1>5, <1>6, <1>7, <1>8, <1>9, <1>10, <1>11, <1>12, <1>13,
     <1>14, <1>15, <1>16, <1>17, <1>18, <1>19
  DEF Next, Proceed, Queue
-----------------------------------------------------------------------------

\* The state of x goes with where x is, as far as x is not returned to the pool.
StateFollows(x) ==
  /\ state'[x] = "Pooled" => (state[x] = "Pooled" /\ pc'[x] = "none") \/ refs'[x] = 0
  /\ state'[x] # "Pooled" => (state'[x] = "Pending" <=> pc'[x] \notin {"none", "clear", "finish"})
  /\ dependents'[x] # {} => state[x] = "Pending" /\ state'[x] # "Done"
  /\ pc'[x] = "none" => pc[x] \in {"none", "finish"}

LEMMA StateStep == SyncInv /\ [Next]_vars => \A x \in Task : StateFollows(x)
<1> SUFFICES ASSUME SyncInv, [Next]_vars, NEW x \in Task PROVE StateFollows(x)
  OBVIOUS
<1>t. /\ pc \in [Agent -> Labels] /\ new \in [Agent -> TaskOrNone]
      /\ state \in [Task -> {"Pooled", "Pending", "Done"}] /\ refs \in [Task -> Nat]
      /\ dependents \in [Task -> SUBSET Task]
      /\ \A t \in Task : t \in Agent /\ t \notin Client
      /\ (\A a \in Agent : pc[a] \in Queueing => new[a] \in Task)
      /\ \A a \in Agent : a \in Task => pc[a] # "inline" /\ new[a] # a
  BY SyncAssumption DEF SyncInv, TypeOK, LocalsFollowPc, Agent, Labels, TaskOrNone
<1>w. \A a \in Agent : pc[a] \in Early => pc[new[a]] = "waiting"
  BY DEF SyncInv, CreatorsAlone
<1>c. \A t \in Task : /\ state[t] = "Pooled" => pc[t] = "none"
                      /\ state[t] = "Pending" <=> pc[t] \notin {"none", "clear", "finish"}
                      /\ dependents[t] # {} => state[t] = "Pending"
  BY DEF SyncInv, Stages
<1>u. ASSUME NEW t \in Task, NEW label, NEW new_state, UnblockDependents(t, new_state), Wake(t, label),
             pc[t] \notin {"none", "waiting", "clear", "finish"},
             \/ label = "body" /\ new_state = "Pending"
             \/ label \in {"clear", "finish"} /\ new_state = "Done"
      PROVE  StateFollows(x)
  <2>1. /\ pc'[t] = label
        /\ x # t => pc'[x] = IF x \in dependents[t] /\ prerequires[x] = 1 THEN "ready" ELSE pc[x]
    BY <1>u, WakesWaiting
  <2>2. \A d \in Task : d \in dependents[t] => pc[d] = "waiting"
    BY NoGates
  <2>3. /\ dependents' = [dependents EXCEPT ![t] = {}]
        /\ x = t => state'[x] = new_state
        /\ x # t => \/ state'[x] = state[x] 
                    \/ state'[x] = "Pooled" /\ refs'[x] = 0
    <3>1. x # t /\ state'[x] # state[x] => state'[x] = "Pooled" /\ refs'[x] = 0
      <4> SUFFICES ASSUME x # t, state'[x] # state[x] PROVE state'[x] = "Pooled" /\ refs'[x] = 0
        OBVIOUS
      <4>1. /\ x \in dependents[t] \ {d \in dependents[t] : prerequires[d] = 1} /\ refs[x] = 1
            /\ state'[x] = "Pooled"
        BY <1>u DEF UnblockDependents
      <4>2. refs'[x] = refs[x] - 1
        BY <4>1, <1>u DEF UnblockDependents
      <4> QED
        BY <4>1, <4>2
    <3> QED
      BY <1>u, <3>1 DEF UnblockDependents
  <2>4. CASE x = t
    BY <1>u, <2>1, <2>3, <2>4, <1>t, <1>c DEF StateFollows
  <2>5. CASE x # t
    BY <1>u, <2>1, <2>2, <2>3, <2>5, <1>t, <1>c DEF StateFollows
  <2> QED
    BY <2>4, <2>5
<1>1. ASSUME NEW t \in Task, NEW c \in Coroutine, StartCoroutine(c, t)
      PROVE  StateFollows(x)
  BY <1>1, <1>t, <1>w, <1>c DEF StateFollows, Queueing, Early, StartCoroutine, Goto, localVars, gateVars, syncVars
<1>2. ASSUME NEW t \in Task, Run(t)
      PROVE  StateFollows(x)
  <2>1. PICK label \in {"body", "exclusive", "shared"} : pc[t] = "ready" /\ pc' = [pc EXCEPT ![t] = label]
    BY <1>2, RunGoesOn
  <2>2. UNCHANGED <<state, refs, dependents>>
    BY <1>2 DEF Run, gateVars
  <2> QED
    BY <2>1, <2>2, <1>t, <1>c DEF StateFollows
<1>3. ASSUME NEW t \in Task, TryExclusive(t)
      PROVE  StateFollows(x)
  BY <1>3, <1>t, <1>w, <1>c DEF StateFollows, Queueing, Early, TryExclusive, Request, User, Suspend, Goto, localVars, gateVars
<1>4. ASSUME NEW t \in Task, TryShared(t)
      PROVE  StateFollows(x)
  BY <1>4, <1>t, <1>w, <1>c DEF StateFollows, Queueing, Early, TryShared, Request, User, Suspend, Goto, localVars, gateVars
<1>5. ASSUME NEW t \in Task, NEW u \in Task, SuspendExclusive(t, u)
      PROVE  StateFollows(x)
  BY <1>5, <1>t, <1>w, <1>c DEF StateFollows, Queueing, Early, SuspendExclusive, SyncExclusive, CreateTask, MoveCoroutine, ClearShared, gateVars, coVars
<1>6. ASSUME NEW t \in Task, NEW u \in Task, SuspendShared(t, u)
      PROVE  StateFollows(x)
  BY <1>6, <1>t, <1>w, <1>c DEF StateFollows, Queueing, Early, SuspendShared, CreateTask, MoveCoroutine, gateVars
<1>7. ASSUME NEW a \in Agent, NEW u \in Task, InitializeTaskOn(a, u)
      PROVE  StateFollows(x)
  BY <1>7, <1>t, <1>w, <1>c DEF StateFollows, Queueing, Early, InitializeTaskOn, Request, User, SyncExclusive, CreateTask, ClearShared, gateVars
<1>8. ASSUME NEW a \in Agent, ReleaseReplaced(a)
      PROVE  StateFollows(x)
  BY <1>8, <1>t, <1>w, <1>c DEF StateFollows, Queueing, Early, ReleaseReplaced, Release, One, Goto, syncVars, gateVars, coVars
<1>9. ASSUME NEW t \in Task, AddRefPrevious(t)
      PROVE  StateFollows(x)
  BY <1>9, <1>t, <1>w, <1>c DEF StateFollows, Queueing, Early, AddRefPrevious, Goto, syncVars, gateVars, coVars
<1>10. ASSUME NEW a \in Agent, HandleOnTask(a)
      PROVE  StateFollows(x)
  BY <1>10, <1>t, <1>w, <1>c DEF StateFollows, Queueing, Early, HandleOnTask, ProcessOnReady, Goto, syncVars, gateVars, coVars
<1>11. ASSUME NEW a \in Agent, NEW g \in todo[a], AddDependency(a, g)
      PROVE  StateFollows(x)
  <2>1. UNCHANGED <<state, pc>>
    BY <1>11 DEF AddDependency
  <2>2. dependents'[x] # dependents[x] => state[x] = "Pending"
    BY <1>11, <1>t DEF AddDependency, Blocks
  <2> QED
    BY <2>1, <2>2, <1>t, <1>c DEF StateFollows
<1>12. ASSUME NEW a \in Agent, SubtractInactive(a)
      PROVE  StateFollows(x)
  <2>1. UNCHANGED <<state, dependents>>
    BY <1>12 DEF SubtractInactive, gateVars
  <2>2. pc[a] = "add" /\ new[a] \in Task
    BY <1>12, <1>t DEF SubtractInactive, Queueing
  <2>3. CASE inactive[a] > 0 /\ ProcessOnReady(a)
    <3>1. pc[new[a]] = "waiting"
      BY <2>2, <2>3, InactiveWaits
    <3> QED
      BY <2>1, <2>2, <2>3, <3>1, <1>t, <1>c DEF StateFollows, ProcessOnReady
  <2>4. CASE Goto(a, "release")
    BY <2>1, <2>2, <2>4, <1>t, <1>c DEF StateFollows, Goto
  <2> QED
    BY <1>12, <2>3, <2>4 DEF SubtractInactive
<1>13. ASSUME NEW a \in Agent, ReleaseResult(a)
      PROVE  StateFollows(x)
  BY <1>13, <1>t, <1>w, <1>c DEF StateFollows, Queueing, Early, ReleaseResult, Release, Goto, syncVars, gateVars, coVars
<1>14. ASSUME NEW t \in Task, ReleaseExclusive(t)
      PROVE  StateFollows(x)
  BY <1>14, <1>t, <1>w, <1>c DEF StateFollows, Queueing, Early, ReleaseExclusive, AfterRelease, Release, One, InPlainTask, Goto, gateVars, localVars, coVars
<1>15. ASSUME NEW t \in Task, ReleaseShared(t)
      PROVE  StateFollows(x)
  BY <1>15, <1>t, <1>w, <1>c DEF StateFollows, Queueing, Early, ReleaseShared, Release, ClearShared, Goto, gateVars, localVars, coVars
<1>16. ASSUME NEW t \in Task, LeaveScope(t)
      PROVE  StateFollows(x)
  <2>1. pc[t] \in {"leave", "leaveShared"}
    BY <1>16 DEF LeaveScope
  <2>2. CASE UNCHANGED <<pc, gateVars, state>>
    BY <2>2, <1>t, <1>c DEF gateVars, StateFollows
  <2>3. CASE UnblockDependents(t, "Pending") /\ Wake(t, "body")
    BY <2>1, <2>3, <1>u
  <2> QED
    BY <1>16, <2>2, <2>3 DEF LeaveScope
<1>17. ASSUME NEW t \in Task, EndFunction(t)
      PROVE  StateFollows(x)
  <2>1. pc[t] \in {"body", "exclusive"} /\ UnblockDependents(t, "Done")
    BY <1>17 DEF EndFunction, InPlainTask
  <2>2. \E label \in {"clear", "finish"} : Wake(t, label)
    BY <1>17 DEF EndFunction
  <2> QED
    BY <2>1, <2>2, <1>u
<1>18. ASSUME NEW t \in Task, Finish(t)
      PROVE  StateFollows(x)
  BY <1>18, <1>t, <1>w, <1>c DEF StateFollows, Queueing, Early, Finish, Release, One, syncVars, gateVars, localVars, coVars
<1>19. CASE UNCHANGED vars
  BY <1>19, <1>t, <1>w, <1>c DEF StateFollows, Queueing, Early, vars, syncVars, gateVars, localVars, coVars
<1> QED
  BY <1>1, <1>2, <1>3, <1>4, <1>5, <1>6, <1>7, <1>8, <1>9, <1>10, <1>11, <1>12, <1>13,
     <1>14, <1>15, <1>16, <1>17, <1>18, <1>19
  DEF Next, Proceed, Queue

LEMMA ZeroRefsAtRest ==
  TypeOK /\ RefsExact /\ CounterExact /\ WaitingCounted => \A t \in Task : refs[t] = 0 => pc[t] = "none"
<1> SUFFICES ASSUME TypeOK, RefsExact, CounterExact, WaitingCounted, NEW t \in Task, refs[t] = 0, pc[t] = "waiting"
             PROVE  FALSE
  BY ZeroRefs DEF Unreferenced
<1>1. Unsettled(t) = {} /\ Gates(t) = {} /\ \A a \in Agent : new[a] # t
  BY ZeroRefs DEF Unreferenced, Unsettled, Gates
<1>2. prerequires[t] = 0
  BY <1>1, FS_EmptySet DEF CounterExact, Gates
<1> QED
  BY <1>1, <1>2 DEF WaitingCounted

LEMMA ZeroRefsAtRestNext ==
  (TypeOK /\ RefsExact /\ CounterExact /\ WaitingCounted)' =>
     (\A t \in Task : refs[t] = 0 => pc[t] = "none")'
BY ZeroRefsAtRest, PTL

LEMMA StagesStep == SyncInv /\ [Next]_vars => Stages'
<1> SUFFICES ASSUME SyncInv, [Next]_vars PROVE Stages'
  OBVIOUS
<1>1. TypeOK' /\ RefsExact' /\ CounterExact' /\ WaitingCounted'
  BY TypeStep, RefsStep, CounterStep, WaitingStep
<1>2. \A t \in Task : refs'[t] = 0 => pc'[t] = "none"
  BY <1>1, ZeroRefsAtRestNext
<1>3. \A t \in Task : StateFollows(t)
  BY StateStep
<1>4. \A t \in Task : /\ state'[t] \in {"Pooled", "Pending", "Done"}
                      /\ pc[t] \in {"none", "finish"} => state[t] # "Pending"
  BY <1>1 DEF TypeOK, SyncInv, Stages
<1> QED
  BY <1>1, <1>2, <1>3, <1>4 DEF Stages, StateFollows, WaitingCounted

\* PooledUnreferenced, for one task.
PooledAlone(t) ==
  /\ last_task # t /\ \A g \in shared : g.task # t
  /\ \A a \in Agent :
       /\ new[a] # t /\ replaced[a] # t
       /\ \A g \in result[a] : g.task = t => pc[a] = "handle" /\ Sharing(new[a])
  /\ \A p \in Task : t \notin dependents[p]

LEMMA PooledStep == SyncInv /\ [Next]_vars => PooledUnreferenced'
<1> SUFFICES ASSUME SyncInv, [Next]_vars, NEW x \in Task, state'[x] = "Pooled" PROVE PooledAlone(x)'
  BY DEF PooledUnreferenced, PooledAlone, Sharing
<1>1. CASE refs'[x] = 0
  <2>1. Unreferenced'
    BY ZeroRefsNext, TypeStep, RefsStep
  <2> QED
    BY <1>1, <2>1 DEF Unreferenced, PooledAlone
<1>2. (state[x] = "Pooled" /\ pc'[x] = "none") \/ refs'[x] = 0
  BY StateStep DEF StateFollows
<1> SUFFICES ASSUME state[x] = "Pooled" PROVE PooledAlone(x)'
  BY <1>1, <1>2
<1>p. PooledAlone(x)
  BY DEF SyncInv, PooledUnreferenced, PooledAlone, Sharing
<1>t. /\ pc \in [Agent -> Labels] /\ new \in [Agent -> TaskOrNone] /\ replaced \in [Agent -> TaskOrNone]
      /\ previous \in [Agent -> [task : TaskOrNone, tag : Tag]]
      /\ result \in [Agent -> SUBSET TaggedGate] /\ dependents \in [Task -> SUBSET Task]
      /\ \A t \in Task : t \in Agent /\ t \notin Client /\ (state[t] = "Pooled" => pc[t] = "none")
      /\ None \notin Task
      /\ \A a \in Agent : pc[a] \in Queueing => new[a] \in Task
      /\ \A a \in Agent : a \in Task => pc[a] # "inline" /\ new[a] # a
  BY SyncAssumption DEF SyncInv, TypeOK, Stages, LocalsFollowPc, Agent, Labels, TaskOrNone
<1>w. \A a \in Agent : pc[a] \in Early => pc[new[a]] = "waiting"
  BY DEF SyncInv, CreatorsAlone
\* Who is about to look at a result goes on to look at it.
<1>s. \A a \in Agent : pc[a] \in Early /\ pc'[a] \in Early /\ new'[a] = new[a] /\ Sharing(new[a])
                          => Sharing(new[a])'
  <2> SUFFICES ASSUME NEW a \in Agent, pc[a] \in Early, pc'[a] \in Early, new'[a] = new[a], Sharing(new[a])
               PROVE  Sharing(new[a])'
    OBVIOUS
  <2>1. pc[new[a]] = "waiting" /\ pc'[new[a]] = "waiting" /\ new[a] \in Task
    BY <1>t, <1>w, CreatorsStep DEF CreatorsAlone, Early, Queueing
  <2> QED
    BY <2>1, RequestsStep DEF RequestsKept, Sharing
<1> USE DEF PooledAlone, Queueing, Early
<1>e. ASSUME NEW a \in Agent, NEW u \in Task, SyncExclusive(a, u), pc[a] \in {"body", "suspend"}
      PROVE  PooledAlone(x)'
  <2>1. /\ state[u] = "Pooled" /\ state' = [state EXCEPT ![u] = "Pending"]
        /\ last_task' = u /\ shared' \in {shared, {}} /\ new' = [new EXCEPT ![a] = u]
        /\ result' = [result EXCEPT ![a] = WaitsFor] /\ UNCHANGED dependents
        /\ \E r \in {last_task, None} : replaced' = [replaced EXCEPT ![a] = r]
        /\ \E label \in {"handle", "replaced"} : pc' = [pc EXCEPT ![a] = label, ![u] = "waiting"]
    BY <1>e DEF SyncExclusive, CreateTask, ClearShared, gateVars
  <2>2. u # x
    <3>1. state'[u] = "Pending"
      BY <2>1 DEF SyncInv, TypeOK
    <3> QED
      BY <3>1
  <2>3. \A g \in WaitsFor : g.task # x
    BY <1>p DEF WaitsFor
  <2>4. pc[u] = "none"
    BY <2>1, <1>t
  <2>5. \A b \in Agent : b # a => result'[b] = result[b] /\ new'[b] = new[b] /\ (pc[b] = "handle" => pc'[b] = "handle")
    BY <2>1, <2>4, <1>t
  <2>6. result'[a] = WaitsFor
    BY <2>1, <1>t
  <2>7. ASSUME NEW b \in Agent PROVE \A g \in result'[b] : g.task = x => pc'[b] = "handle" /\ Sharing(new[b])'
    BY <2>3, <2>5, <2>6, <1>p, <1>s
  <2> QED
    BY <2>1, <2>2, <2>7, <1>p, <1>t DEF Sharing
<1>o. ASSUME UNCHANGED <<last_task, shared, new, replaced, result>>,
             \A p \in Task : dependents'[p] \subseteq dependents[p],
             \A b \in Agent : pc[b] = "handle" => pc'[b] = "handle"
      PROVE  PooledAlone(x)'
  <2>1. ASSUME NEW b \in Agent PROVE \A h \in result'[b] : h.task = x => pc'[b] = "handle" /\ Sharing(new[b])'
    BY <1>o, <1>p, <1>s
  <2> QED
    BY <1>o, <2>1, <1>p DEF Sharing
<1>21. ASSUME NEW t \in Task, NEW c \in Coroutine, StartCoroutine(c, t)
      PROVE  PooledAlone(x)'
  BY <1>21, <1>p, <1>t, <1>w, <1>s DEF StartCoroutine, Goto, localVars, gateVars, syncVars
<1>22. ASSUME NEW t \in Task, Run(t)
      PROVE  PooledAlone(x)'
  BY <1>22, <1>p, <1>t, <1>w, <1>s DEF Run, Goto, localVars, gateVars, syncVars
<1>3. ASSUME NEW t \in Task, TryExclusive(t)
      PROVE  PooledAlone(x)'
  BY <1>3, <1>p, <1>t, <1>w, <1>s DEF TryExclusive, Request, User, Suspend, Goto, localVars, gateVars
<1>4. ASSUME NEW t \in Task, TryShared(t)
      PROVE  PooledAlone(x)'
  <2>1. /\ pc[t] = "body" /\ (shared' = shared \/ shared' = shared \cup {Gate(t)})
        /\ \E label \in {"shared", "suspend"} : pc' = [pc EXCEPT ![t] = label]
        /\ UNCHANGED <<last_task, new, replaced, result, dependents>>
    BY <1>4 DEF TryShared, Request, User, Suspend, Goto, localVars, gateVars
  <2>2. \A g \in shared' : g.task # x
    BY <2>1, <1>p, <1>t DEF Gate
  <2> QED
    BY <2>1, <2>2, <1>p, <1>t, <1>w, <1>s
<1>5. ASSUME NEW t \in Task, NEW u \in Task, SuspendExclusive(t, u)
      PROVE  PooledAlone(x)'
  BY <1>5, <1>e, <1>t DEF SuspendExclusive
<1>6. ASSUME NEW t \in Task, NEW u \in Task, SuspendShared(t, u)
      PROVE  PooledAlone(x)'
  <2>1. /\ pc[t] = "suspend" /\ state[u] = "Pooled" /\ state' = [state EXCEPT ![u] = "Pending"]
        /\ shared' = shared \cup {Gate(u)} /\ new' = [new EXCEPT ![t] = u]
        /\ pc' = [pc EXCEPT ![t] = "addref", ![u] = "waiting"]
        /\ UNCHANGED <<last_task, replaced, result, dependents>>
    BY <1>6 DEF SuspendShared, CreateTask, gateVars
  <2>2. u # x
    <3>1. state'[u] = "Pending"
      BY <2>1 DEF SyncInv, TypeOK
    <3> QED
      BY <3>1
  <2>3. \A g \in shared' : g.task # x
    BY <2>1, <2>2, <1>p DEF Gate
  <2>4. pc[u] = "none"
    BY <2>1, <1>t
  <2>5. \A b \in Agent : pc[b] = "handle" => pc'[b] = "handle" /\ new'[b] = new[b]
    BY <2>1, <2>4, <1>t
  <2>7. ASSUME NEW b \in Agent PROVE \A g \in result'[b] : g.task = x => pc'[b] = "handle" /\ Sharing(new[b])'
    BY <2>1, <2>5, <1>p, <1>s
  <2> QED
    BY <2>1, <2>2, <2>3, <2>7, <1>p, <1>t DEF Sharing
<1>7. ASSUME NEW a \in Agent, NEW u \in Task, InitializeTaskOn(a, u)
      PROVE  PooledAlone(x)'
  BY <1>7, <1>e DEF InitializeTaskOn, Request, User
<1>8. ASSUME NEW a \in Agent, ReleaseReplaced(a)
      PROVE  PooledAlone(x)'
  BY <1>8, <1>p, <1>t, <1>w, <1>s DEF ReleaseReplaced, Release, One, Goto, syncVars, gateVars, coVars
<1>9. ASSUME NEW t \in Task, AddRefPrevious(t)
      PROVE  PooledAlone(x)'
  <2>1. /\ pc[t] = "addref" /\ UNCHANGED <<last_task, shared, new, replaced, dependents>>
        /\ \/ UNCHANGED <<result, pc>>
           \/ result' = [result EXCEPT ![t] = {previous[t]}] /\ pc' = [pc EXCEPT ![t] = "handle"]
    BY <1>9 DEF AddRefPrevious, Goto, syncVars, gateVars
  <2>2. Sharing(new[t])
    BY <2>1 DEF SyncInv, CreatorsAlone, Agent
  <2>3. \A b \in Agent : b # t => result'[b] = result[b] /\ (pc[b] = "handle" => pc'[b] = "handle")
    BY <2>1, <1>t
  <2>4. CASE UNCHANGED <<result, pc>>
    BY <2>1, <2>4, <1>p, <1>s DEF Sharing
  <2>5. CASE pc' = [pc EXCEPT ![t] = "handle"]
    <3>1. pc'[t] = "handle" /\ Sharing(new[t])'
      BY <2>1, <2>2, <2>5, <1>t, <1>s
    <3>2. ASSUME NEW b \in Agent PROVE \A g \in result'[b] : g.task = x => pc'[b] = "handle" /\ Sharing(new[b])'
      BY <2>1, <2>3, <3>1, <1>p, <1>s
    <3> QED
      BY <2>1, <3>2, <1>p DEF Sharing
  <2> QED
    BY <2>1, <2>4, <2>5
<1>10. ASSUME NEW a \in Agent, HandleOnTask(a)
      PROVE  PooledAlone(x)'
  BY <1>10, <1>p, <1>t, <1>w, <1>s DEF HandleOnTask, ProcessOnReady, Goto, syncVars, gateVars, coVars
<1>11. ASSUME NEW a \in Agent, NEW g \in todo[a], AddDependency(a, g)
      PROVE  PooledAlone(x)'
  <2>1. /\ pc[a] = "add" /\ UNCHANGED <<pc, last_task, shared, new, replaced, result>>
        /\ \/ dependents' = [dependents EXCEPT ![g.task] = @ \cup {new[a]}]
           \/ UNCHANGED dependents
    BY <1>11 DEF AddDependency, syncVars
  <2>2. \A p \in Task : x \notin dependents'[p]
    <3>1. x # new[a] /\ \A p \in Task : x \notin dependents[p]
      BY <1>p
    <3>2. \A p \in Task : dependents'[p] \subseteq dependents[p] \cup {new[a]}
      BY <2>1, <1>t
    <3> QED
      BY <3>1, <3>2
  <2>3. ASSUME NEW b \in Agent PROVE \A h \in result'[b] : h.task = x => pc'[b] = "handle" /\ Sharing(new[b])'
    BY <2>1, <1>p, <1>s
  <2> QED
    BY <2>1, <2>2, <2>3, <1>p DEF Sharing
<1>12. ASSUME NEW a \in Agent, SubtractInactive(a)
      PROVE  PooledAlone(x)'
  <2>1. /\ pc[a] = "add" /\ UNCHANGED <<last_task, shared, new, replaced, result, dependents>>
        /\ \/ inactive[a] > 0 /\ ProcessOnReady(a)
           \/ pc' = [pc EXCEPT ![a] = "release"]
    BY <1>12 DEF SubtractInactive, Goto, syncVars, gateVars
  <2>2. inactive[a] > 0 => pc[new[a]] = "waiting"
    BY <2>1, InactiveWaits
  <2>3. \A b \in Agent : pc[b] = "handle" => pc'[b] = "handle"
    BY <2>1, <2>2, <1>t DEF ProcessOnReady
  <2> QED
    BY <2>1, <2>3, <1>o
<1>13. ASSUME NEW a \in Agent, ReleaseResult(a)
      PROVE  PooledAlone(x)'
  BY <1>13, <1>p, <1>t, <1>w, <1>s DEF ReleaseResult, Release, Goto, syncVars, gateVars, coVars
<1>14. ASSUME NEW t \in Task, ReleaseExclusive(t)
      PROVE  PooledAlone(x)'
  BY <1>14, <1>p, <1>t, <1>w, <1>s DEF ReleaseExclusive, AfterRelease, Release, One, InPlainTask, Goto, gateVars, localVars, coVars
<1>15. ASSUME NEW t \in Task, ReleaseShared(t)
      PROVE  PooledAlone(x)'
  BY <1>15, <1>p, <1>t, <1>w, <1>s DEF ReleaseShared, Release, ClearShared, Goto, gateVars, localVars, coVars
<1>16. ASSUME NEW t \in Task, LeaveScope(t)
      PROVE  PooledAlone(x)'
  <2>1. UNCHANGED <<last_task, shared, new, replaced, result>> /\ pc[t] \in {"leave", "leaveShared"}
    BY <1>16 DEF LeaveScope, localVars, syncVars
  <2>2. CASE UNCHANGED <<pc, gateVars>>
    BY <2>1, <2>2, <1>o DEF gateVars
  <2>3. CASE UnblockDependents(t, "Pending") /\ Wake(t, "body")
    <3>1. \A b \in Agent : pc[b] = "handle" => pc'[b] = "handle"
      BY <2>1, <2>3, WakesWaiting
    <3> QED
      BY <2>1, <2>3, <3>1, <1>t, <1>o DEF UnblockDependents
  <2> QED
    BY <1>16, <2>2, <2>3 DEF LeaveScope
<1>17. ASSUME NEW t \in Task, EndFunction(t)
      PROVE  PooledAlone(x)'
  <2>1. /\ UNCHANGED <<last_task, shared, new, replaced, result>>
        /\ pc[t] \in {"body", "exclusive"} /\ UnblockDependents(t, "Done")
    BY <1>17 DEF EndFunction, InPlainTask, localVars, syncVars
  <2>2. \E label \in {"clear", "finish"} : Wake(t, label)
    BY <1>17 DEF EndFunction
  <2>3. \A b \in Agent : pc[b] = "handle" => pc'[b] = "handle"
    BY <2>1, <2>2, WakesWaiting
  <2> QED
    BY <2>1, <2>3, <1>t, <1>o DEF UnblockDependents
<1>18. ASSUME NEW t \in Task, Finish(t)
      PROVE  PooledAlone(x)'
  BY <1>18, <1>p, <1>t, <1>w, <1>s DEF Finish, Release, One, syncVars, gateVars, localVars, coVars
<1>19. CASE UNCHANGED vars
  BY <1>19, <1>p, <1>t, <1>w, <1>s DEF vars, syncVars, gateVars, localVars, coVars
<1> QED
  BY <1>21, <1>22, <1>3, <1>4, <1>5, <1>6, <1>7, <1>8, <1>9, <1>10, <1>11, <1>12, <1>13,
     <1>14, <1>15, <1>16, <1>17, <1>18, <1>19
  DEF Next, Proceed, Queue
-----------------------------------------------------------------------------
(* Each access bumps a tag once, so that with fewer accesses than tags no tag *)
(* comes back.                                                                *)

\* A step asks for an access, or leaves one and bumps the gate, or neither.
AccessSpent ==
  \/ UNCHANGED <<left, gate_tag>> /\ Accessing' \subseteq Accessing
  \/ /\ left > 0 /\ left' = left - 1 /\ UNCHANGED gate_tag
     /\ Accessing' \subseteq Accessing \/ \E c \in Coroutine : Accessing' \subseteq Accessing \cup {c}
  \/ /\ UNCHANGED left
     /\ \E t \in Task : /\ coroutine[t] \in Accessing /\ Accessing' \subseteq Accessing \ {coroutine[t]}
                        /\ gate_tag' = [gate_tag EXCEPT ![t] = Bump(gate_tag[t])]

LEMMA AccessSpentStep == SyncInv /\ [Next]_vars => AccessSpent
<1> SUFFICES ASSUME SyncInv, [Next]_vars PROVE AccessSpent
  OBVIOUS
<1>t. /\ pc \in [Agent -> Labels] /\ new \in [Agent -> TaskOrNone]
      /\ coroutine \in [Task -> Coroutine \cup {None}]
      /\ ask \in [Coroutine -> {"new", "none", "exclusive", "shared"}]
      /\ \A t \in Task : t \in Agent /\ t \notin Client /\ (state[t] = "Pooled" => pc[t] = "none")
      /\ None \notin Task /\ None \notin Coroutine
      /\ \A a \in Agent : pc[a] \in Queueing => new[a] \in Task
      /\ \A a \in Agent : pc[a] \in Early => pc[new[a]] = "waiting"
      /\ \A a \in Agent : a \in Client /\ new[a] # None => coroutine[new[a]] = None
      /\ CoroutinesPlaced
  BY SyncAssumption DEF SyncInv, TypeOK, Stages, CreatorsAlone, LocalsFollowPc, Agent, Labels, TaskOrNone
\* Where coroutines use the resource, and what they ask for.
<1> DEFINE Inside(t) == pc[t] \in {"exclusive", "shared", "leave", "leaveShared"}
<1>k. ASSUME UNCHANGED <<left, gate_tag>>,
             \A c \in Coroutine : ask'[c] \in {"exclusive", "shared"} => c \in Accessing,
             \A t \in Task : coroutine'[t] \in Coroutine /\ Inside(t)' => coroutine'[t] \in Accessing
      PROVE  AccessSpent
  BY <1>k DEF AccessSpent, Accessing
<1> USE DEF Queueing, Early, CoroutinesPlaced, Accessing
<1>n. ASSUME left > 0, left' = left - 1, UNCHANGED gate_tag, NEW d \in Coroutine,
             \A c \in Coroutine : c # d /\ ask'[c] \in {"exclusive", "shared"} => c \in Accessing,
             \A t \in Task : coroutine'[t] \in Coroutine /\ coroutine'[t] # d /\ Inside(t)' => coroutine'[t] \in Accessing
      PROVE  AccessSpent
  <2>1. Accessing' \subseteq Accessing \cup {d}
    BY <1>n
  <2> QED
    BY <1>n, <2>1 DEF AccessSpent
<1>1. ASSUME NEW t \in Task, NEW c \in Coroutine, StartCoroutine(c, t)
      PROVE  AccessSpent
  BY <1>1, <1>t, <1>k DEF StartCoroutine, Goto, localVars, gateVars, syncVars
<1>2. ASSUME NEW t \in Task, Run(t)
      PROVE  AccessSpent
  BY <1>2, <1>t, <1>k DEF Run, Goto, localVars, gateVars, syncVars
<1>3. ASSUME NEW t \in Task, TryExclusive(t)
      PROVE  AccessSpent
  <2>1. /\ left > 0 /\ left' = left - 1 /\ UNCHANGED <<coroutine, gate_tag>> /\ coroutine[t] \in Coroutine
        /\ ask' = ask \/ ask' = [ask EXCEPT ![coroutine[t]] = "exclusive"]
        /\ \E label : pc' = [pc EXCEPT ![t] = label]
    BY <1>3, <1>t DEF TryExclusive, Request, User, Suspend, Goto, gateVars
  <2> DEFINE d == coroutine[t]
  <2>2. \A c \in Coroutine : c # d => ask'[c] = ask[c]
    BY <2>1, <1>t
  <2>3. \A x \in Task : coroutine[x] \in Coroutine /\ coroutine[x] # d => pc'[x] = pc[x]
    BY <2>1, <1>t
  <2>4. d \in Coroutine
    BY <2>1
  <2> QED
    BY <2>1, <2>2, <2>3, <2>4, <1>n
<1>4. ASSUME NEW t \in Task, TryShared(t)
      PROVE  AccessSpent
  <2>1. /\ left > 0 /\ left' = left - 1 /\ UNCHANGED <<coroutine, gate_tag>> /\ coroutine[t] \in Coroutine
        /\ ask' = ask \/ ask' = [ask EXCEPT ![coroutine[t]] = "shared"]
        /\ \E label : pc' = [pc EXCEPT ![t] = label]
    BY <1>4, <1>t DEF TryShared, Request, User, Suspend, Goto, gateVars
  <2> DEFINE d == coroutine[t]
  <2>2. \A c \in Coroutine : c # d => ask'[c] = ask[c]
    BY <2>1, <1>t
  <2>3. \A x \in Task : coroutine[x] \in Coroutine /\ coroutine[x] # d => pc'[x] = pc[x]
    BY <2>1, <1>t
  <2>4. d \in Coroutine
    BY <2>1
  <2> QED
    BY <2>1, <2>2, <2>3, <2>4, <1>n
<1>5. ASSUME NEW t \in Task, NEW u \in Task, SuspendExclusive(t, u)
      PROVE  AccessSpent
  BY <1>5, <1>t, <1>k DEF SuspendExclusive, SyncExclusive, CreateTask, MoveCoroutine, ClearShared, gateVars, coVars
<1>6. ASSUME NEW t \in Task, NEW u \in Task, SuspendShared(t, u)
      PROVE  AccessSpent
  BY <1>6, <1>t, <1>k DEF SuspendShared, CreateTask, MoveCoroutine, gateVars
<1>7. ASSUME NEW a \in Agent, NEW u \in Task, InitializeTaskOn(a, u)
      PROVE  AccessSpent
  <2>1. PICK label \in {"handle", "replaced"} :
          /\ left > 0 /\ left' = left - 1 /\ UNCHANGED <<coroutine, ask, gate_tag>>
          /\ pc' = [pc EXCEPT ![a] = label, ![u] = "waiting"]
    BY <1>7 DEF InitializeTaskOn, Request, User, SyncExclusive, CreateTask, gateVars
  <2>2. Accessing' \subseteq Accessing
    BY <2>1, <1>t
  <2> QED
    BY <2>1, <2>2 DEF AccessSpent
<1>8. ASSUME NEW a \in Agent, ReleaseReplaced(a)
      PROVE  AccessSpent
  BY <1>8, <1>t, <1>k DEF ReleaseReplaced, Release, One, Goto, syncVars, gateVars, coVars
<1>9. ASSUME NEW t \in Task, AddRefPrevious(t)
      PROVE  AccessSpent
  BY <1>9, <1>t, <1>k DEF AddRefPrevious, Goto, syncVars, gateVars, coVars
<1>10. ASSUME NEW a \in Agent, HandleOnTask(a)
      PROVE  AccessSpent
  BY <1>10, <1>t, <1>k DEF HandleOnTask, ProcessOnReady, Goto, syncVars, gateVars, coVars
<1>11. ASSUME NEW a \in Agent, NEW g \in todo[a], AddDependency(a, g)
      PROVE  AccessSpent
  BY <1>11, <1>t, <1>k DEF AddDependency, syncVars, coVars
<1>12. ASSUME NEW a \in Agent, SubtractInactive(a)
      PROVE  AccessSpent
  BY <1>12, <1>t, <1>k DEF SubtractInactive, ProcessOnReady, Goto, syncVars, gateVars, coVars
<1>13. ASSUME NEW a \in Agent, ReleaseResult(a)
      PROVE  AccessSpent
  BY <1>13, <1>t, <1>k DEF ReleaseResult, Release, Goto, syncVars, gateVars, coVars
<1>14. ASSUME NEW t \in Task, ReleaseExclusive(t)
      PROVE  AccessSpent
  BY <1>14, <1>t, <1>k DEF ReleaseExclusive, AfterRelease, Release, One, InPlainTask, Goto, gateVars, localVars, coVars
<1>15. ASSUME NEW t \in Task, ReleaseShared(t)
      PROVE  AccessSpent
  BY <1>15, <1>t, <1>k DEF ReleaseShared, Release, ClearShared, Goto, gateVars, localVars, coVars
<1>16. ASSUME NEW t \in Task, LeaveScope(t)
      PROVE  AccessSpent
  <2>1. UNCHANGED <<coroutine, ask, left>> /\ pc[t] \in {"leave", "leaveShared"}
    BY <1>16 DEF LeaveScope, coVars
  <2>2. CASE UNCHANGED <<pc, gateVars>>
    BY <2>1, <2>2, <1>k, <1>t DEF gateVars
  <2>3. CASE /\ Wake(t, "body") /\ gate_tag' = [gate_tag EXCEPT ![t] = Bump(gate_tag[t])]
    <3>1. /\ pc'[t] = "body"
          /\ \A x \in Task : x # t => (Inside(x)' <=> Inside(x))
      <4>1. /\ pc'[t] = "body"
            /\ \A x \in Task : x # t => pc'[x] = pc[x] \/ (pc'[x] = "ready" /\ pc[x] = "waiting")
        BY <2>3, WakesWaiting, NoGates
      <4> QED
        BY <4>1
    <3>2. coroutine[t] \in Coroutine /\ coroutine[t] \in Accessing
      BY <2>1, <1>t
    <3>3. \A c \in Coroutine : c \in Accessing' => c \in Accessing /\ c # coroutine[t]
      BY <2>1, <3>1, <3>2, <1>t
    <3>4. Accessing' \subseteq Accessing \ {coroutine[t]}
      BY <3>3
    <3> QED
      BY <2>1, <2>3, <3>2, <3>4 DEF AccessSpent
  <2> QED
    BY <1>16, <2>2, <2>3 DEF LeaveScope
<1>17. ASSUME NEW t \in Task, EndFunction(t)
      PROVE  AccessSpent
  BY <1>17, <1>t, <1>k DEF EndFunction, UnblockDependents, Wake, InPlainTask, syncVars, localVars, coVars
<1>18. ASSUME NEW t \in Task, Finish(t)
      PROVE  AccessSpent
  BY <1>18, <1>t, <1>k DEF Finish, Release, One, syncVars, gateVars, localVars, coVars
<1>19. CASE UNCHANGED vars
  BY <1>19, <1>t, <1>k DEF vars, syncVars, gateVars, localVars, coVars
<1> QED
  BY <1>1, <1>2, <1>3, <1>4, <1>5, <1>6, <1>7, <1>8, <1>9, <1>10, <1>11, <1>12, <1>13,
     <1>14, <1>15, <1>16, <1>17, <1>18, <1>19
  DEF Next, Proceed, Queue

\* The same for the collection: a request for it begins it at most once, and once at
\* most it is handed over or returned.
CollectionSpent ==
  \/ /\ UNCHANGED <<left, sync_tag>> /\ (shared = {} => shared' = {})
     /\ Joining' \subseteq Joining
  \/ /\ left > 0 /\ left' = left - 1 /\ UNCHANGED sync_tag
     /\ \/ UNCHANGED shared /\ \E t \in Task : Joining' \subseteq Joining \cup {t}
        \/ Joining' \subseteq Joining
  \/ /\ UNCHANGED left \/ (left > 0 /\ left' = left - 1)
     /\ shared # {} /\ shared' = {} /\ sync_tag' = Bump(sync_tag) /\ Joining' \subseteq Joining
  \/ /\ UNCHANGED <<left, sync_tag>>
     /\ \E t \in Joining : Joining' \subseteq Joining \ {t}

LEMMA CollectionSpentStep == SyncInv /\ [Next]_vars => CollectionSpent
<1> SUFFICES ASSUME SyncInv, [Next]_vars PROVE CollectionSpent
  OBVIOUS
<1>t. /\ pc \in [Agent -> Labels] /\ new \in [Agent -> TaskOrNone]
      /\ \A t \in Task : t \in Agent /\ t \notin Client
      /\ \A a \in Agent : pc[a] \in Queueing => new[a] \in Task
  BY SyncAssumption DEF SyncInv, TypeOK, LocalsFollowPc, Agent, Labels, TaskOrNone
<1> USE DEF Queueing, Joining
<1>k. ASSUME UNCHANGED <<left, sync_tag, shared>>, \A t \in Task : pc'[t] = "suspend" => pc[t] = "suspend"
      PROVE  CollectionSpent
  BY <1>k DEF CollectionSpent
<1>e. ASSUME NEW a \in Agent, NEW u \in Task, SyncExclusive(a, u)
      PROVE  /\ Joining' \subseteq Joining \ {a}
             /\ \/ UNCHANGED <<shared, sync_tag>>
                \/ shared # {} /\ shared' = {} /\ sync_tag' = Bump(sync_tag)
  <2>1. PICK label \in {"handle", "replaced"} : pc' = [pc EXCEPT ![a] = label, ![u] = "waiting"]
    BY <1>e DEF SyncExclusive
  <2>2. Joining' \subseteq Joining \ {a}
    BY <2>1, <1>t
  <2> QED
    BY <1>e, <2>2 DEF SyncExclusive, ClearShared
<1>1. ASSUME NEW t \in Task, NEW c \in Coroutine, StartCoroutine(c, t)
      PROVE  CollectionSpent
  BY <1>1, <1>t, <1>k DEF StartCoroutine, Goto, localVars, gateVars, syncVars
<1>2. ASSUME NEW t \in Task, Run(t)
      PROVE  CollectionSpent
  <2>1. \E label \in {"body", "exclusive", "shared"} : pc' = [pc EXCEPT ![t] = label]
    BY <1>2, RunGoesOn
  <2>2. UNCHANGED <<left, sync_tag, shared>>
    BY <1>2 DEF Run, syncVars
  <2> QED
    BY <2>1, <2>2, <1>t, <1>k
<1>3. ASSUME NEW t \in Task, TryExclusive(t)
      PROVE  CollectionSpent
  <2>1. /\ left > 0 /\ left' = left - 1 /\ UNCHANGED <<sync_tag, shared>>
        /\ \E label : pc' = [pc EXCEPT ![t] = label]
    BY <1>3 DEF TryExclusive, Request, User, Suspend, Goto
  <2>2. Joining' \subseteq Joining \cup {t}
    BY <2>1, <1>t
  <2> QED
    BY <2>1, <2>2 DEF CollectionSpent
<1>4. ASSUME NEW t \in Task, TryShared(t)
      PROVE  CollectionSpent
  <2>1. /\ left > 0 /\ left' = left - 1 /\ UNCHANGED sync_tag
        /\ \/ pc' = [pc EXCEPT ![t] = "shared"]
           \/ pc' = [pc EXCEPT ![t] = "suspend"] /\ UNCHANGED shared
    BY <1>4 DEF TryShared, Request, User, Suspend, Goto
  <2>2. CASE pc' = [pc EXCEPT ![t] = "shared"]
    <3>1. Joining' \subseteq Joining
      BY <2>2, <1>t
    <3> QED
      BY <2>1, <3>1 DEF CollectionSpent
  <2>3. CASE pc' = [pc EXCEPT ![t] = "suspend"] /\ UNCHANGED shared
    <3>1. Joining' \subseteq Joining \cup {t}
      BY <2>3, <1>t
    <3> QED
      BY <2>1, <2>3, <3>1 DEF CollectionSpent
  <2> QED
    BY <2>1, <2>2, <2>3
<1>5. ASSUME NEW t \in Task, NEW u \in Task, SuspendExclusive(t, u)
      PROVE  CollectionSpent
  <2>1. SyncExclusive(t, u) /\ t \in Joining /\ UNCHANGED left
    BY <1>5 DEF SuspendExclusive, coVars
  <2> QED
    BY <2>1, <1>e, <1>t DEF CollectionSpent
<1>6. ASSUME NEW t \in Task, NEW u \in Task, SuspendShared(t, u)
      PROVE  CollectionSpent
  <2>1. t \in Joining /\ UNCHANGED <<left, sync_tag>> /\ pc' = [pc EXCEPT ![t] = "addref", ![u] = "waiting"]
    BY <1>6 DEF SuspendShared
  <2>2. Joining' \subseteq Joining \ {t}
    BY <2>1, <1>t
  <2> QED
    BY <2>1, <2>2 DEF CollectionSpent
<1>7. ASSUME NEW a \in Agent, NEW u \in Task, InitializeTaskOn(a, u)
      PROVE  CollectionSpent
  <2>1. SyncExclusive(a, u) /\ left > 0 /\ left' = left - 1
    BY <1>7 DEF InitializeTaskOn, Request
  <2> QED
    BY <2>1, <1>e DEF CollectionSpent
<1>8. ASSUME NEW a \in Agent, ReleaseReplaced(a)
      PROVE  CollectionSpent
  BY <1>8, <1>t, <1>k DEF ReleaseReplaced, Release, One, Goto, syncVars, gateVars, coVars
<1>9. ASSUME NEW t \in Task, AddRefPrevious(t)
      PROVE  CollectionSpent
  BY <1>9, <1>t, <1>k DEF AddRefPrevious, Goto, syncVars, gateVars, coVars
<1>10. ASSUME NEW a \in Agent, HandleOnTask(a)
      PROVE  CollectionSpent
  BY <1>10, <1>t, <1>k DEF HandleOnTask, ProcessOnReady, Goto, syncVars, gateVars, coVars
<1>11. ASSUME NEW a \in Agent, NEW g \in todo[a], AddDependency(a, g)
      PROVE  CollectionSpent
  BY <1>11, <1>t, <1>k DEF AddDependency, syncVars, coVars
<1>12. ASSUME NEW a \in Agent, SubtractInactive(a)
      PROVE  CollectionSpent
  BY <1>12, <1>t, <1>k DEF SubtractInactive, ProcessOnReady, Goto, syncVars, gateVars, coVars
<1>13. ASSUME NEW a \in Agent, ReleaseResult(a)
      PROVE  CollectionSpent
  BY <1>13, <1>t, <1>k DEF ReleaseResult, Release, Goto, syncVars, gateVars, coVars
<1>14. ASSUME NEW t \in Task, ReleaseExclusive(t)
      PROVE  CollectionSpent
  BY <1>14, <1>t, <1>k DEF ReleaseExclusive, AfterRelease, Release, One, InPlainTask, Goto, gateVars, localVars, coVars
<1>15. ASSUME NEW t \in Task, ReleaseShared(t)
      PROVE  CollectionSpent
  <2>1. UNCHANGED left /\ pc' = [pc EXCEPT ![t] = "leaveShared"]
    BY <1>15 DEF ReleaseShared, Goto, coVars
  <2>2. Joining' \subseteq Joining
    BY <2>1, <1>t
  <2>3. \/ UNCHANGED <<shared, sync_tag>>
        \/ released + 1 = Cardinality(shared) /\ shared' = {} /\ sync_tag' = Bump(sync_tag)
    BY <1>15 DEF ReleaseShared, ClearShared
  <2>4. released + 1 = Cardinality(shared) => shared # {}
    <3>1. released \in Nat /\ (shared = {} => Cardinality(shared) = 0)
      BY FS_EmptySet DEF SyncInv, TypeOK
    <3> QED
      BY <3>1
  <2> QED
    BY <2>1, <2>2, <2>3, <2>4 DEF CollectionSpent
<1>16. ASSUME NEW t \in Task, LeaveScope(t)
      PROVE  CollectionSpent
  BY <1>16, <1>t, <1>k DEF LeaveScope, UnblockDependents, Wake, syncVars, localVars, coVars, gateVars
<1>17. ASSUME NEW t \in Task, EndFunction(t)
      PROVE  CollectionSpent
  BY <1>17, <1>t, <1>k DEF EndFunction, UnblockDependents, Wake, InPlainTask, syncVars, localVars, coVars
<1>18. ASSUME NEW t \in Task, Finish(t)
      PROVE  CollectionSpent
  BY <1>18, <1>t, <1>k DEF Finish, Release, One, syncVars, gateVars, localVars, coVars
<1>19. CASE UNCHANGED vars
  BY <1>19, <1>t, <1>k DEF vars, syncVars, gateVars, localVars, coVars
<1> QED
  BY <1>1, <1>2, <1>3, <1>4, <1>5, <1>6, <1>7, <1>8, <1>9, <1>10, <1>11, <1>12, <1>13,
     <1>14, <1>15, <1>16, <1>17, <1>18, <1>19
  DEF Next, Proceed, Queue

\* Before a tag is bumped it has not come to its last value.
LEMMA NothingWraps ==
  ASSUME Accesses < TagMod, NEW tag \in Tag, NEW n \in Nat, n > 0, NEW k \in Nat, tag + n + k <= Accesses
  PROVE  Bump(tag) = tag + 1
<1>1. tag \in Nat /\ tag + 1 <= Accesses /\ Accesses \in Nat /\ TagMod \in Nat
  BY SyncAssumption DEF Tag
<1>2. tag + 1 < TagMod
  BY <1>1
<1>3. (tag + 1) % TagMod = tag + 1
  BY <1>1, <1>2
<1> QED
  BY <1>3 DEF Bump

LEMMA TagsStep ==
  ASSUME Accesses < TagMod, SyncInv, [Next]_vars
  PROVE  /\ TagsLeft'
         /\ \A t \in Task : gate_tag'[t] \in {gate_tag[t], gate_tag[t] + 1}
         /\ sync_tag' \in {sync_tag, sync_tag + 1}
         /\ sync_tag' # sync_tag => sync_tag' = sync_tag + 1 /\ shared' = {}
<1>1. AccessSpent /\ CollectionSpent /\ TypeOK'
  BY AccessSpentStep, CollectionSpentStep, TypeStep
<1>t. /\ gate_tag \in [Task -> Tag] /\ sync_tag \in Tag /\ left \in Nat /\ left' \in Nat
      /\ \A t \in Task : gate_tag[t] \in Nat
      /\ sync_tag \in Nat /\ Accesses \in Nat
  BY <1>1, SyncAssumption DEF SyncInv, TypeOK, Tag
<1> DEFINE acc == Cardinality(Accessing)
           acc2 == Cardinality(Accessing')
           joi == Cardinality(Joining)
           joi2 == Cardinality(Joining')
<1>f. /\ IsFiniteSet(Accessing) /\ IsFiniteSet(Accessing') /\ IsFiniteSet(Joining) /\ IsFiniteSet(Joining')
      /\ acc \in Nat /\ acc2 \in Nat /\ joi \in Nat /\ joi2 \in Nat
  <2>1. Accessing \in SUBSET Coroutine /\ Accessing' \in SUBSET Coroutine
        /\ Joining \in SUBSET Task /\ Joining' \in SUBSET Task
    BY DEF Accessing, Joining
  <2> QED
    BY <2>1, SyncAssumption, FS_Subset, FS_CardinalityType
\* Sets that grow by one element at most, or lose one.
<1>s. ASSUME NEW S, NEW T, IsFiniteSet(S), IsFiniteSet(T)
      PROVE  /\ T \subseteq S => Cardinality(T) <= Cardinality(S)
             /\ \A x : T \subseteq S \cup {x} => Cardinality(T) <= Cardinality(S) + 1
             /\ \A x : x \in S /\ T \subseteq S \ {x} => Cardinality(T) + 1 <= Cardinality(S)
  <2>1. \A A, B : IsFiniteSet(A) /\ B \subseteq A => Cardinality(B) <= Cardinality(A)
    BY FS_Subset
  <2>2. Cardinality(S) \in Nat /\ Cardinality(T) \in Nat
    BY <1>s, FS_CardinalityType
  <2>3. ASSUME NEW x, T \subseteq S \cup {x} PROVE Cardinality(T) <= Cardinality(S) + 1
    <3>1. IsFiniteSet(S \cup {x}) /\ Cardinality(S \cup {x}) \in {Cardinality(S), Cardinality(S) + 1}
      BY <1>s, FS_AddElement
    <3>2. Cardinality(T) <= Cardinality(S \cup {x})
      BY <2>1, <2>3, <3>1
    <3> QED
      BY <2>2, <3>1, <3>2
  <2>4. ASSUME NEW x, x \in S, T \subseteq S \ {x} PROVE Cardinality(T) + 1 <= Cardinality(S)
    <3>1. IsFiniteSet(S \ {x}) /\ Cardinality(S \ {x}) = Cardinality(S) - 1
      BY <1>s, <2>4, FS_RemoveElement
    <3>2. Cardinality(T) <= Cardinality(S \ {x})
      BY <2>1, <2>4, <3>1
    <3> QED
      BY <2>2, <3>1, <3>2
  <2> QED
    BY <1>s, <2>1, <2>3, <2>4
<1>a. \A t \in Task : gate_tag[t] + acc + left <= Accesses
  BY DEF SyncInv, TagsLeft
<1>c. sync_tag + Collected + joi + left <= Accesses
  BY DEF SyncInv, TagsLeft
<1>2. /\ \A t \in Task : gate_tag'[t] \in {gate_tag[t], gate_tag[t] + 1}
      /\ \A t \in Task : gate_tag'[t] + acc2 + left' <= Accesses
  <2>1. CASE UNCHANGED <<left, gate_tag>> /\ Accessing' \subseteq Accessing
    <3>1. acc2 <= acc
      BY <2>1, <1>f, <1>s
    <3> HIDE DEF acc, acc2
    <3> QED
      BY <2>1, <3>1, <1>a, <1>f, <1>t
  <2>2. CASE /\ left > 0 /\ left' = left - 1 /\ UNCHANGED gate_tag
             /\ Accessing' \subseteq Accessing \/ \E c \in Coroutine : Accessing' \subseteq Accessing \cup {c}
    <3>1. acc2 <= acc + 1
      <4>1. acc2 <= acc \/ acc2 <= acc + 1
        BY <2>2, <1>f, <1>s
      <4> HIDE DEF acc, acc2
      <4> QED
        BY <4>1, <1>f
    <3> HIDE DEF acc, acc2
    <3> QED
      BY <2>2, <3>1, <1>a, <1>f, <1>t
  <2>3. ASSUME UNCHANGED left, NEW t \in Task, coroutine[t] \in Accessing,
               Accessing' \subseteq Accessing \ {coroutine[t]},
               gate_tag' = [gate_tag EXCEPT ![t] = Bump(gate_tag[t])]
        PROVE  /\ \A x \in Task : gate_tag'[x] \in {gate_tag[x], gate_tag[x] + 1}
               /\ \A x \in Task : gate_tag'[x] + acc2 + left' <= Accesses
    <3>1. acc2 + 1 <= acc
      BY <2>3, <1>f, <1>s
    <3> HIDE DEF acc, acc2
    <3>2. acc > 0
      BY <3>1, <1>f
    <3>3. Bump(gate_tag[t]) = gate_tag[t] + 1
      BY <3>2, <1>a, <1>f, <1>t, NothingWraps
    <3>4. \A x \in Task : gate_tag'[x] = IF x = t THEN gate_tag[x] + 1 ELSE gate_tag[x]
      BY <2>3, <3>3, <1>t
    <3> QED
      BY <2>3, <3>1, <3>4, <1>a, <1>f, <1>t
  <2> QED
    BY <1>1, <2>1, <2>2, <2>3 DEF AccessSpent
<1>3. /\ sync_tag' \in {sync_tag, sync_tag + 1}
      /\ sync_tag' # sync_tag => sync_tag' = sync_tag + 1 /\ shared' = {}
      /\ sync_tag' + Collected' + joi2 + left' <= Accesses
  <2>1. CASE UNCHANGED <<left, sync_tag>> /\ (shared = {} => shared' = {}) /\ Joining' \subseteq Joining
    <3>1. joi2 <= joi
      BY <2>1, <1>f, <1>s
    <3> HIDE DEF joi, joi2
    <3> QED
      BY <2>1, <3>1, <1>c, <1>f, <1>t DEF Collected
  <2>2. CASE /\ left > 0 /\ left' = left - 1 /\ UNCHANGED sync_tag
             /\ UNCHANGED shared /\ \E t \in Task : Joining' \subseteq Joining \cup {t}
    <3>1. joi2 <= joi + 1
      BY <2>2, <1>f, <1>s
    <3> HIDE DEF joi, joi2
    <3> QED
      BY <2>2, <3>1, <1>c, <1>f, <1>t DEF Collected
  <2>3. CASE left > 0 /\ left' = left - 1 /\ UNCHANGED sync_tag /\ Joining' \subseteq Joining
    <3>1. joi2 <= joi
      BY <2>3, <1>f, <1>s
    <3> HIDE DEF joi, joi2
    <3> QED
      BY <2>3, <3>1, <1>c, <1>f, <1>t DEF Collected
  <2>4. CASE /\ UNCHANGED left \/ (left > 0 /\ left' = left - 1)
             /\ shared # {} /\ shared' = {} /\ sync_tag' = Bump(sync_tag) /\ Joining' \subseteq Joining
    <3>1. joi2 <= joi
      BY <2>4, <1>f, <1>s
    <3> HIDE DEF joi, joi2
    <3>2. Collected = 1 /\ Collected' = 0
      BY <2>4 DEF Collected
    <3>3. sync_tag + 1 + (joi + left) <= Accesses /\ joi + left \in Nat
      BY <3>2, <1>c, <1>f, <1>t
    <3>4. Bump(sync_tag) = sync_tag + 1
      BY <3>3, <1>t, NothingWraps
    <3>5. left' <= left
      BY <2>4, <1>t
    <3>6. sync_tag' = sync_tag + 1 /\ shared' = {}
      BY <2>4, <3>4
    <3>7. (sync_tag + 1) + 0 + joi2 + left' <= Accesses
      <4> DEFINE now == left
                 next == left'
                 tag == sync_tag
      <4>1. joi \in Nat /\ joi2 \in Nat /\ now \in Nat /\ next \in Nat /\ tag \in Nat /\ Accesses \in Nat
        BY <1>f, <1>t
      <4>2. joi2 <= joi /\ next <= now /\ tag + 1 + (joi + now) <= Accesses
        BY <3>1, <3>3, <3>5
      <4> HIDE DEF now, next, tag
      <4>3. (tag + 1) + 0 + joi2 + next <= Accesses
        BY <4>1, <4>2
      <4> QED
        BY <4>3 DEF now, next, tag
    <3> QED
      BY <3>2, <3>6, <3>7
  <2>5. ASSUME UNCHANGED <<left, sync_tag>>, NEW t \in Joining, Joining' \subseteq Joining \ {t}
        PROVE  sync_tag' = sync_tag /\ sync_tag' + Collected' + joi2 + left' <= Accesses
    <3>1. joi2 + 1 <= joi
      BY <2>5, <1>f, <1>s
    <3> HIDE DEF joi, joi2
    <3> QED
      BY <2>5, <3>1, <1>c, <1>f, <1>t DEF Collected
  <2> QED
    BY <1>1, <2>1, <2>2, <2>3, <2>4, <2>5 DEF CollectionSpent
<1>4. TagsLeft'
  BY <1>2, <1>3 DEF TagsLeft
<1> QED
  BY <1>2, <1>3, <1>4

Word == [task |-> last_task, tag |-> last_task_tag]

\* A tag that is read is that of its gate now, or was read before.
TagsCome ==
  /\ \A g \in shared' : g \in shared \/ \E t \in Task : g = Gate(t)
  /\ \A a \in Agent : \A g \in result'[a] : g \in result[a] \/ g \in shared \/ g = Word \/ g = previous[a]
  /\ Word' = Word \/ last_task' = None \/ \E t \in Task : Word' = Gate(t)
  /\ \A a \in Agent :
       previous'[a] = previous[a] \/ previous'[a].task = None \/ previous'[a] = Word

LEMMA TagsComeStep == SyncInv /\ [Next]_vars => TagsCome
<1> SUFFICES ASSUME SyncInv, [Next]_vars PROVE TagsCome
  OBVIOUS
<1>t. /\ previous \in [Agent -> [task : TaskOrNone, tag : Tag]] /\ result \in [Agent -> SUBSET TaggedGate]
      /\ \A t \in Task : t \in Agent
  BY DEF SyncInv, TypeOK, Agent
<1> USE DEF TagsCome, Word, Gate
<1>e. ASSUME NEW a \in Agent, NEW u \in Task, SyncExclusive(a, u)
      PROVE  TagsCome
  <2>1. /\ Word' = Gate(u) /\ shared' \subseteq shared /\ UNCHANGED previous
        /\ result' = [result EXCEPT ![a] = WaitsFor]
    BY <1>e DEF SyncExclusive, ClearShared
  <2>2. \A g \in WaitsFor : g \in shared \/ g = Word
    BY DEF WaitsFor
  <2>3. \A b \in Agent : \A g \in result'[b] : g \in result[b] \/ g \in shared \/ g = Word
    BY <2>1, <2>2, <1>t
  <2> HIDE DEF Word, Gate
  <2> QED
    BY <2>1, <2>3
<1>1. ASSUME NEW t \in Task, NEW c \in Coroutine, StartCoroutine(c, t)
      PROVE  TagsCome
  BY <1>1, <1>t DEF StartCoroutine, Goto, localVars, gateVars, syncVars
<1>2. ASSUME NEW t \in Task, Run(t)
      PROVE  TagsCome
  BY <1>2, <1>t DEF Run, Goto, localVars, gateVars, syncVars
<1>3. ASSUME NEW t \in Task, TryExclusive(t)
      PROVE  TagsCome
  BY <1>3, <1>t DEF TryExclusive, Request, User, Suspend, Goto, localVars, gateVars
<1>4. ASSUME NEW t \in Task, TryShared(t)
      PROVE  TagsCome
  BY <1>4, <1>t DEF TryShared, Request, User, Suspend, Goto, localVars, gateVars
<1>5. ASSUME NEW t \in Task, NEW u \in Task, SuspendExclusive(t, u)
      PROVE  TagsCome
  BY <1>5, <1>e, <1>t DEF SuspendExclusive
<1>6. ASSUME NEW t \in Task, NEW u \in Task, SuspendShared(t, u)
      PROVE  TagsCome
  BY <1>6, <1>t DEF SuspendShared, CreateTask, MoveCoroutine, gateVars
<1>7. ASSUME NEW a \in Agent, NEW u \in Task, InitializeTaskOn(a, u)
      PROVE  TagsCome
  BY <1>7, <1>e DEF InitializeTaskOn
<1>8. ASSUME NEW a \in Agent, ReleaseReplaced(a)
      PROVE  TagsCome
  BY <1>8, <1>t DEF ReleaseReplaced, Release, One, Goto, syncVars, gateVars, coVars
<1>9. ASSUME NEW t \in Task, AddRefPrevious(t)
      PROVE  TagsCome
  BY <1>9, <1>t DEF AddRefPrevious, Goto, syncVars, gateVars, coVars
<1>10. ASSUME NEW a \in Agent, HandleOnTask(a)
      PROVE  TagsCome
  BY <1>10, <1>t DEF HandleOnTask, ProcessOnReady, Goto, syncVars, gateVars, coVars
<1>11. ASSUME NEW a \in Agent, NEW g \in todo[a], AddDependency(a, g)
      PROVE  TagsCome
  BY <1>11, <1>t DEF AddDependency, syncVars, coVars
<1>12. ASSUME NEW a \in Agent, SubtractInactive(a)
      PROVE  TagsCome
  BY <1>12, <1>t DEF SubtractInactive, ProcessOnReady, Goto, syncVars, gateVars, coVars
<1>13. ASSUME NEW a \in Agent, ReleaseResult(a)
      PROVE  TagsCome
  BY <1>13, <1>t DEF ReleaseResult, Release, Goto, syncVars, gateVars, coVars
<1>14. ASSUME NEW t \in Task, ReleaseExclusive(t)
      PROVE  TagsCome
  BY <1>14, <1>t DEF ReleaseExclusive, AfterRelease, Release, One, InPlainTask, Goto, gateVars, localVars, coVars
<1>15. ASSUME NEW t \in Task, ReleaseShared(t)
      PROVE  TagsCome
  BY <1>15, <1>t DEF ReleaseShared, Release, ClearShared, Goto, gateVars, localVars, coVars
<1>16. ASSUME NEW t \in Task, LeaveScope(t)
      PROVE  TagsCome
  BY <1>16, <1>t DEF LeaveScope, UnblockDependents, Wake, syncVars, localVars, coVars, gateVars
<1>17. ASSUME NEW t \in Task, EndFunction(t)
      PROVE  TagsCome
  BY <1>17, <1>t DEF EndFunction, UnblockDependents, Wake, InPlainTask, syncVars, localVars, coVars
<1>18. ASSUME NEW t \in Task, Finish(t)
      PROVE  TagsCome
  BY <1>18, <1>t DEF Finish, Release, One, syncVars, gateVars, localVars, coVars
<1>19. CASE UNCHANGED vars
  BY <1>19, <1>t DEF vars, syncVars, gateVars, localVars, coVars
<1> QED
  BY <1>1, <1>2, <1>3, <1>4, <1>5, <1>6, <1>7, <1>8, <1>9, <1>10, <1>11, <1>12, <1>13,
     <1>14, <1>15, <1>16, <1>17, <1>18, <1>19
  DEF Next, Proceed, Queue
LEMMA TagsReadStep ==
  ASSUME Accesses < TagMod, SyncInv, [Next]_vars
  PROVE  TagsRead'
<1>m. \A t \in Task : gate_tag[t] \in Nat /\ gate_tag'[t] \in Nat /\ gate_tag[t] <= gate_tag'[t]
  <2>1. \A t \in Task : gate_tag[t] \in Nat /\ gate_tag'[t] \in {gate_tag[t], gate_tag[t] + 1}
    BY TagsStep DEF SyncInv, TypeOK, Tag
  <2> QED
    BY <2>1
<1>t. /\ last_task \in TaskOrNone /\ last_task_tag \in Tag /\ shared \subseteq TaggedGate
      /\ last_task' \in TaskOrNone
      /\ previous \in [Agent -> [task : TaskOrNone, tag : Tag]] /\ result \in [Agent -> SUBSET TaggedGate]
      /\ previous' \in [Agent -> [task : TaskOrNone, tag : Tag]] /\ result' \in [Agent -> SUBSET TaggedGate]
      /\ None \notin Task /\ \A tag \in Tag : tag \in Nat
  BY SyncAssumption, TypeStep DEF SyncInv, TypeOK, TaskOrNone, Tag
<1> DEFINE Old(g) == g.task # None => g.tag <= gate_tag[g.task]
           Now(g) == g.task # None => g.tag <= gate_tag'[g.task]
           Words == [task : TaskOrNone, tag : Tag]
<1>1. \A g \in Words : Old(g) => Now(g)
  BY <1>m, <1>t DEF TaskOrNone
<1>2. \A t \in Task : Now(Gate(t))
  BY <1>m DEF Gate
<1>3. /\ \A g \in shared : g \in Words /\ Old(g)
      /\ \A a \in Agent : \A g \in result[a] : g \in Words /\ Old(g)
      /\ Word \in Words /\ Old(Word)
      /\ \A a \in Agent : previous[a] \in Words /\ Old(previous[a])
  BY <1>t DEF SyncInv, TagsRead, Word, TaggedGate, TaskOrNone
<1>4. TagsCome
  BY TagsComeStep
<1>5. /\ \A g \in shared' : Now(g)
      /\ \A a \in Agent : \A g \in result'[a] : Now(g)
      /\ last_task' # None => Now(Word')
      /\ \A a \in Agent : previous'[a].task # None => Now(previous'[a])
  <2> HIDE DEF Old, Now, Words
  <2> QED
    BY <1>1, <1>2, <1>3, <1>4 DEF TagsCome
<1>6. \A g \in shared' : g.task \in Task
  BY TypeStep DEF TypeOK, TaggedGate
<1>7. \A a \in Agent : \A g \in result'[a] : g.task \in Task
  BY <1>t DEF TaggedGate
<1> QED
  BY <1>5, <1>6, <1>7, <1>t DEF TagsRead, Word

LEMMA GateBumps ==
  ASSUME Accesses < TagMod, SyncInv, NEW t \in Task, pc[t] \in {"leave", "leaveShared"}
  PROVE  gate_tag[t] \in Nat /\ Bump(gate_tag[t]) = gate_tag[t] + 1
<1>1. gate_tag[t] \in Tag /\ gate_tag[t] \in Nat /\ left \in Nat
  BY DEF SyncInv, TypeOK, Tag
<1>2. coroutine[t] \in Coroutine
  BY DEF SyncInv, TypeOK, CoroutinesPlaced
<1>3. Accessing # {} /\ Accessing \in SUBSET Coroutine
  BY <1>2 DEF Accessing
<1> DEFINE n == Cardinality(Accessing)
<1>4. n \in Nat /\ n # 0
  BY <1>3, SyncAssumption, FS_Subset, FS_CardinalityType, FS_EmptySet
<1>5. gate_tag[t] + n + left <= Accesses
  BY DEF SyncInv, TagsLeft
<1> HIDE DEF n
<1> QED
  BY <1>1, <1>4, <1>5, NothingWraps

LEMMA CollectionBumps ==
  ASSUME Accesses < TagMod, SyncInv, shared # {}
  PROVE  sync_tag \in Nat /\ Bump(sync_tag) = sync_tag + 1
<1>1. sync_tag \in Tag /\ sync_tag \in Nat /\ left \in Nat
  BY DEF SyncInv, TypeOK, Tag
<1> DEFINE n == Cardinality(Joining)
           k == n + left
<1>2. n \in Nat
  <2>1. Joining \in SUBSET Task
    BY DEF Joining
  <2> QED
    BY <2>1, SubsetCounts
<1>3. sync_tag + 1 + n + left <= Accesses
  BY DEF SyncInv, TagsLeft, Collected
<1> HIDE DEF n
<1>4. k \in Nat /\ sync_tag + 1 + k <= Accesses
  BY <1>1, <1>2, <1>3
<1> HIDE DEF k
<1> QED
  <2> DEFINE one == 1
  <2>1. one \in Nat /\ one > 0 /\ sync_tag + one + k <= Accesses
    BY <1>4
  <2> HIDE DEF one
  <2> QED
    BY <2>1, <1>1, <1>4, NothingWraps
-----------------------------------------------------------------------------
(* The collection counts its members. *)

SharingStays(x) ==
  /\ Sharing(x)' <=> Sharing(x)
  /\ Sharing(x) => coroutine'[x] = coroutine[x]
  /\ pc[x] = "leaveShared" => pc'[x] = "leaveShared"

\* Who does not run goes on sharing, or not.
LEMMA SharingFollowsPc ==
  ASSUME SyncInv, [Next]_vars, NEW x \in Task,
         \/ pc[x] = "waiting" /\ pc'[x] = "ready"
         \/ pc'[x] = pc[x] /\ coroutine'[x] = coroutine[x]
         \/ pc'[x] = pc[x] /\ pc[x] # "shared"
         \/ ~Sharing(x) /\ ~Sharing(x)' /\ pc[x] # "leaveShared"
  PROVE  SharingStays(x)
BY RequestsStep DEF SharingStays, Sharing, RequestsKept

LEMMA CollectionStep ==
  ASSUME Accesses < TagMod, SyncInv, [Next]_vars
  PROVE  CollectionExact'
<1>t. /\ pc \in [Agent -> Labels] /\ new \in [Agent -> TaskOrNone]
      /\ coroutine \in [Task -> Coroutine \cup {None}]
      /\ ask \in [Coroutine -> {"new", "none", "exclusive", "shared"}]
      /\ \A t \in Task : t \in Agent /\ t \notin Client /\ (state[t] = "Pooled" => pc[t] = "none")
      /\ \A a \in Agent : pc[a] \in Queueing => new[a] \in Task
      /\ \A a \in Agent : pc[a] \in Early => pc[new[a]] = "waiting"
      /\ \A a \in Agent : a \in Client /\ new[a] # None => coroutine[new[a]] = None
      /\ \A a \in Agent : a \in Task => pc[a] # "inline" /\ new[a] # a
  BY SyncAssumption DEF SyncInv, TypeOK, Stages, CreatorsAlone, LocalsFollowPc, Agent, Labels, TaskOrNone
<1>n. /\ gate_tag \in [Task -> Tag] /\ sync_tag \in Nat /\ held_tag \in [Coroutine -> Tag]
      /\ \A c \in Coroutine : held_tag[c] \in Nat
      /\ shared \subseteq TaggedGate /\ released \in Nat
      /\ IsFiniteSet(shared) /\ IsFiniteSet(Members) /\ Members \subseteq shared
      /\ Cardinality(shared) \in Nat /\ Cardinality(Members) \in Nat
  <2>1. shared \in SUBSET TaggedGate /\ Members \in SUBSET TaggedGate /\ Members \subseteq shared
    BY DEF SyncInv, TypeOK, Members
  <2> QED
    BY <2>1, SubsetCounts DEF SyncInv, TypeOK, Tag
<1>c. CollectionExact
  BY DEF SyncInv
<1>s. \A t \in Task : Sharing(t) => coroutine[t] \in Coroutine
  BY DEF SyncInv, TypeOK, CoroutinesPlaced, Sharing
<1>p. CoroutinesPlaced
  BY DEF SyncInv
\* Neither the collection nor who shares it changes.
<1>k. ASSUME UNCHANGED <<shared, released, sync_tag, gate_tag, held_tag>>, \A x \in Task : SharingStays(x)
      PROVE  CollectionExact'
  <2>1. \A x \in Task : Gate(x)' = Gate(x)
    BY <1>k DEF Gate
  <2>2. Members' = Members
    BY <1>k, <1>n, <2>1 DEF Members, SharingStays, TaggedGate
  <2> QED
    BY <1>k, <1>c, <2>1, <2>2 DEF CollectionExact, SharingStays
\* The collection begins anew.
<1>z. ASSUME shared # {}, shared' = {}, released' = 0, sync_tag' = Bump(sync_tag), UNCHANGED held_tag,
             \A x \in Task : Sharing(x)' => Sharing(x) /\ coroutine'[x] = coroutine[x]
      PROVE  CollectionExact'
  <2>1. Members' = {} /\ Cardinality(Members') = 0 /\ Cardinality(shared') = 0
    BY <1>z, FS_EmptySet DEF Members
  <2>2. sync_tag' = sync_tag + 1
    BY <1>z, CollectionBumps
  <2>3. \A x \in Task : Sharing(x)' =>
          held_tag'[coroutine'[x]] <= sync_tag' /\ held_tag'[coroutine'[x]] # sync_tag'
    <3> SUFFICES ASSUME NEW x \in Task, Sharing(x)'
                 PROVE  held_tag'[coroutine'[x]] <= sync_tag' /\ held_tag'[coroutine'[x]] # sync_tag'
      OBVIOUS
    <3>1. held_tag'[coroutine'[x]] = held_tag[coroutine[x]] /\ coroutine[x] \in Coroutine
      BY <1>z, <1>s
    <3>2. held_tag[coroutine[x]] <= sync_tag /\ held_tag[coroutine[x]] \in Nat /\ sync_tag \in Nat
      BY <1>z, <1>c, <1>n, <3>1 DEF CollectionExact
    <3> QED
      BY <2>2, <3>1, <3>2
  <2> QED
    BY <1>z, <2>1, <2>3 DEF CollectionExact
\* u joins.
<1>j. ASSUME NEW u \in Task, ~Sharing(u), pc[u] # "leaveShared", Sharing(u)', shared' = shared \cup {Gate(u)},
             UNCHANGED <<released, sync_tag, gate_tag>>, held_tag'[coroutine'[u]] = sync_tag,
             \A x \in Task : x # u =>
               /\ SharingStays(x)
               /\ Sharing(x) => held_tag'[coroutine[x]] = held_tag[coroutine[x]]
      PROVE  CollectionExact'
  <2>1. \A x \in Task : Gate(x)' = Gate(x) /\ Gate(x).task = x
    BY <1>j DEF Gate
  <2>2. Gate(u) \notin shared
    BY <1>j, <1>c DEF CollectionExact
  <2>3. Members' = Members \cup {Gate(u)}
    <3>1. \A g \in shared : g # Gate(u) /\ g = Gate(g.task) => g.task # u
      OBVIOUS
    <3>2. \A g \in shared : g.task \in Task
      BY <1>n DEF TaggedGate
    <3>3. \A g \in shared : (g = Gate(g.task)' /\ Sharing(g.task)') <=> (g = Gate(g.task) /\ Sharing(g.task))
      BY <1>j, <2>1, <2>2, <3>1, <3>2 DEF SharingStays
    <3> QED
      BY <1>j, <2>1, <3>3 DEF Members
  <2>4. /\ Cardinality(Members') = Cardinality(Members) + 1
        /\ Cardinality(shared') = Cardinality(shared) + 1
    BY <1>j, <1>n, <2>2, <2>3, FS_AddElement
  <2>5. Cardinality(Members') + released' = Cardinality(shared')
    <3> DEFINE m == Cardinality(Members)
               n == Cardinality(shared)
               m2 == Cardinality(Members')
               n2 == Cardinality(shared')
    <3>1. m \in Nat /\ n \in Nat /\ m + released = n /\ m2 = m + 1 /\ n2 = n + 1
      BY <1>n, <1>c, <2>4 DEF CollectionExact
    <3> HIDE DEF m, n, m2, n2
    <3>2. m2 + released' = n2
      BY <1>j, <1>n, <3>1
    <3> QED
      BY <3>2 DEF m2, n2
  <2>6. \A x \in Task : Gate(x)' \in shared' => Sharing(x)' \/ pc'[x] = "leaveShared"
    BY <1>j, <1>c, <2>1 DEF CollectionExact, SharingStays
  <2>7. \A x \in Task : Sharing(x)' =>
          /\ held_tag'[coroutine'[x]] <= sync_tag'
          /\ held_tag'[coroutine'[x]] = sync_tag' <=> Gate(x)' \in shared'
    <3> SUFFICES ASSUME NEW x \in Task, Sharing(x)'
                 PROVE  /\ held_tag'[coroutine'[x]] <= sync_tag'
                        /\ held_tag'[coroutine'[x]] = sync_tag' <=> Gate(x)' \in shared'
      OBVIOUS
    <3>1. CASE x = u
      BY <1>j, <1>n, <2>1, <3>1
    <3>2. CASE x # u
      BY <1>j, <1>c, <2>1, <3>2 DEF CollectionExact, SharingStays
    <3> QED
      BY <3>1, <3>2
  <2> QED
    BY <2>3, <2>5, <2>6, <2>7 DEF CollectionExact
<1>e. ASSUME NEW a \in Agent, NEW u \in Task, SyncExclusive(a, u), pc[a] \in {"body", "suspend"},
             Exclusive(u)', UNCHANGED held_tag,
             \A x \in Task : x # u /\ x # a => coroutine'[x] = coroutine[x]
      PROVE  CollectionExact'
  <2>1. PICK label \in {"handle", "replaced"} :
          /\ state[u] = "Pooled" /\ UNCHANGED gate_tag
          /\ pc' = [pc EXCEPT ![a] = label, ![u] = "waiting"]
          /\ \/ UNCHANGED <<shared, released, sync_tag>>
             \/ shared # {} /\ shared' = {} /\ released' = 0 /\ sync_tag' = Bump(sync_tag)
    BY <1>e DEF SyncExclusive, CreateTask, ClearShared, gateVars
  <2>2. pc[u] = "none" /\ u # a
    BY <2>1, <1>t, <1>e
  <2>3. \A x \in Task : SharingStays(x)
    <3> SUFFICES ASSUME NEW x \in Task PROVE SharingStays(x)
      OBVIOUS
    <3>1. CASE x = u
      <4>1. ~Sharing(u) /\ ~Sharing(u)'
        BY <1>e, <2>1, <2>2, <1>t DEF Sharing, Exclusive
      <4> QED
        BY <3>1, <4>1, <2>2, SharingFollowsPc
    <3>2. CASE x = a
      <4>1. ~Sharing(x) /\ ~Sharing(x)' /\ pc[x] # "leaveShared"
        BY <1>e, <2>1, <2>2, <3>2, <1>t DEF Sharing
      <4> QED
        BY <4>1, SharingFollowsPc
    <3>3. CASE x # u /\ x # a
      <4>1. pc'[x] = pc[x] /\ coroutine'[x] = coroutine[x]
        BY <1>e, <2>1, <3>3, <1>t
      <4> QED
        BY <4>1, SharingFollowsPc
    <3> QED
      BY <3>1, <3>2, <3>3
  <2> QED
    BY <1>e, <2>1, <2>3, <1>k, <1>z DEF SharingStays
<1>w. ASSUME NEW a \in Agent, NEW label, label \notin {"shared", "waiting", "ready"},
             UNCHANGED <<shared, released, sync_tag, gate_tag, held_tag, coroutine>>,
             pc[a] \notin {"shared", "waiting", "ready", "leaveShared"},
             \/ pc' = [pc EXCEPT ![a] = label]
             \/ new[a] \in Task /\ new[a] # a /\ pc[new[a]] = "waiting"
                /\ pc' = [pc EXCEPT ![a] = label, ![new[a]] = "ready"]
             \/ new[a] \in Task /\ new[a] # a /\ pc[new[a]] = "waiting" /\ coroutine[new[a]] = None
                /\ pc' = [pc EXCEPT ![a] = label, ![new[a]] = "exclusive"]
      PROVE  CollectionExact'
  <2> SUFFICES ASSUME NEW x \in Task PROVE SharingStays(x)
    BY <1>w, <1>k
  <2>1. CASE x = a
    <3>1. ~Sharing(x) /\ ~Sharing(x)' /\ pc[x] # "leaveShared"
      BY <1>w, <2>1, <1>t DEF Sharing
    <3> QED
      BY <3>1, SharingFollowsPc
  <2>2. CASE x # a
    <3>1. \/ pc'[x] = pc[x] \/ (pc[x] = "waiting" /\ pc'[x] = "ready")
          \/ (pc[x] = "waiting" /\ pc'[x] = "exclusive" /\ coroutine[x] = None)
      BY <1>w, <2>2, <1>t
    <3>2. CASE pc[x] = "waiting" /\ pc'[x] = "exclusive" /\ coroutine[x] = None
      BY <3>2 DEF SharingStays, Sharing
    <3> QED
      BY <1>w, <3>1, <3>2, SharingFollowsPc
  <2> QED
    BY <2>1, <2>2
<1>v. ASSUME NEW a \in Agent, NEW label, pc' = [pc EXCEPT ![a] = label],
             label \notin {"shared", "waiting", "ready"}, pc[a] \notin {"shared", "waiting", "ready", "leaveShared"},
             UNCHANGED <<shared, released, sync_tag, gate_tag, held_tag, coroutine>>
      PROVE  CollectionExact'
  BY <1>v, <1>w
<1>1. ASSUME NEW t \in Task, NEW c \in Coroutine, StartCoroutine(c, t)
      PROVE  CollectionExact'
  BY <1>1, <1>k, <1>t, <1>p, SharingFollowsPc DEF Sharing, Queueing, Early,  StartCoroutine, Goto, localVars, gateVars, syncVars
<1>2. ASSUME NEW t \in Task, Run(t)
      PROVE  CollectionExact'
  <2>1. PICK label \in {"body", "exclusive", "shared"} :
          pc[t] = "ready" /\ pc' = [pc EXCEPT ![t] = label] /\ (label = "shared" <=> Sharing(t))
    BY <1>2, RunGoesOn
  <2>2. UNCHANGED <<shared, released, sync_tag, gate_tag, held_tag, coroutine>>
    BY <1>2 DEF Run, syncVars, gateVars
  <2>3. SharingStays(t)
    BY <2>1, <2>2, <1>t DEF SharingStays, Sharing
  <2>4. \A x \in Task : x # t => SharingStays(x)
    BY <2>1, <2>2, <1>t, SharingFollowsPc
  <2> QED
    BY <2>2, <2>3, <2>4, <1>k
<1>3. ASSUME NEW t \in Task, TryExclusive(t)
      PROVE  CollectionExact'
  BY <1>3, <1>k, <1>t, <1>p, SharingFollowsPc DEF Sharing, Queueing, Early,  TryExclusive, Request, User, Suspend, Goto, localVars, gateVars
<1>4. ASSUME NEW t \in Task, TryShared(t)
      PROVE  CollectionExact'
  <2>1. /\ pc[t] = "body" /\ coroutine[t] \in Coroutine /\ UNCHANGED <<released, sync_tag, gate_tag, coroutine>>
        /\ \/ /\ pc' = [pc EXCEPT ![t] = "suspend"] /\ UNCHANGED <<shared, held_tag>>
           \/ /\ pc' = [pc EXCEPT ![t] = "shared"] /\ shared' = shared \cup {Gate(t)}
              /\ held_tag' = [held_tag EXCEPT ![coroutine[t]] = sync_tag]
    BY <1>4, <1>t DEF TryShared, Request, User, Suspend, Goto, gateVars
  <2>2. ~Sharing(t) /\ \A x \in Task : x # t => SharingStays(x)
    BY <2>1, <1>t, SharingFollowsPc DEF Sharing
  <2>3. CASE pc' = [pc EXCEPT ![t] = "suspend"] /\ UNCHANGED <<shared, held_tag>>
    <3>1. SharingStays(t)
      BY <2>1, <2>2, <2>3, <1>t DEF SharingStays, Sharing
    <3> QED
      BY <2>1, <2>2, <2>3, <3>1, <1>k
  <2>4. CASE /\ pc' = [pc EXCEPT ![t] = "shared"] /\ shared' = shared \cup {Gate(t)}
             /\ held_tag' = [held_tag EXCEPT ![coroutine[t]] = sync_tag]
    <3>1. Sharing(t)'
      BY <2>4, <1>t DEF Sharing
    <3>2. held_tag'[coroutine'[t]] = sync_tag
      BY <2>1, <2>4, <1>n
    <3>3. \A x \in Task : x # t /\ Sharing(x) => held_tag'[coroutine[x]] = held_tag[coroutine[x]]
      <4>1. \A x \in Task : x # t /\ Sharing(x) => coroutine[x] \in Coroutine /\ coroutine[x] # coroutine[t]
        BY <2>1, <1>s, <1>p, SyncAssumption DEF CoroutinesPlaced
      <4> QED
        BY <2>1, <2>4, <4>1, <1>n
    <3> QED
      BY <2>1, <2>2, <2>4, <3>1, <3>2, <3>3, <1>j
  <2> QED
    BY <2>1, <2>3, <2>4
<1>5. ASSUME NEW t \in Task, NEW u \in Task, SuspendExclusive(t, u)
      PROVE  CollectionExact'
  <2>1. /\ pc[t] = "suspend" /\ SyncExclusive(t, u) /\ pc'[u] = "waiting" /\ UNCHANGED <<held_tag, ask>>
        /\ coroutine' = [coroutine EXCEPT ![u] = coroutine[t], ![t] = None] /\ ask[coroutine[t]] = "exclusive"
    BY <1>5, <1>t DEF SuspendExclusive, SyncExclusive, MoveCoroutine, coVars
  <2>2. u # t
    BY <2>1, <1>t DEF SyncExclusive, CreateTask
  <2>3. Exclusive(u)'
    BY <2>1, <2>2, <1>t DEF Exclusive
  <2>4. \A x \in Task : x # u /\ x # t => coroutine'[x] = coroutine[x]
    BY <2>1, <1>t
  <2> QED
    BY <2>1, <2>3, <2>4, <1>t, <1>e
<1>6. ASSUME NEW t \in Task, NEW u \in Task, SuspendShared(t, u)
      PROVE  CollectionExact'
  <2>1. /\ pc[t] = "suspend" /\ ask[coroutine[t]] = "shared" /\ UNCHANGED <<released, sync_tag, gate_tag, ask>>
        /\ coroutine' = [coroutine EXCEPT ![u] = coroutine[t], ![t] = None]
        /\ pc' = [pc EXCEPT ![t] = "addref", ![u] = "waiting"] /\ shared' = shared \cup {Gate(u)}
        /\ held_tag' = [held_tag EXCEPT ![coroutine[t]] = sync_tag] /\ state[u] = "Pooled"
    BY <1>6 DEF SuspendShared, CreateTask, MoveCoroutine, gateVars
  <2>2. pc[u] = "none" /\ u # t /\ coroutine[t] \in Coroutine
    BY <2>1, <1>t, <1>p DEF CoroutinesPlaced
  <2>3. ~Sharing(u) /\ Sharing(u)' /\ coroutine'[u] = coroutine[t]
    BY <2>1, <2>2, <1>t, SyncAssumption DEF Sharing
  <2>4. held_tag'[coroutine'[u]] = sync_tag
    BY <2>1, <2>2, <2>3, <1>n
  <2>5. ASSUME NEW x \in Task, x # u
        PROVE  SharingStays(x) /\ (Sharing(x) => held_tag'[coroutine[x]] = held_tag[coroutine[x]])
    <3>1. CASE x = t
      <4>1. ~Sharing(x) /\ ~Sharing(x)' /\ pc[x] # "leaveShared"
        BY <2>1, <2>2, <3>1, <1>t DEF Sharing
      <4> QED
        BY <4>1, SharingFollowsPc
    <3>2. CASE x # t
      <4>1. pc'[x] = pc[x] /\ coroutine'[x] = coroutine[x]
        BY <2>1, <2>5, <3>2, <1>t
      <4>2. SharingStays(x)
        BY <4>1, SharingFollowsPc
      <4>3. Sharing(x) => coroutine[x] # coroutine[t]
        BY <2>2, <3>2, <1>s, <1>p, SyncAssumption DEF CoroutinesPlaced
      <4> QED
        BY <4>2, <4>3, <2>1, <1>n, <1>s
    <3> QED
      BY <3>1, <3>2
  <2> QED
    BY <2>1, <2>2, <2>3, <2>4, <2>5, <1>j
<1>7. ASSUME NEW a \in Agent, NEW u \in Task, InitializeTaskOn(a, u)
      PROVE  CollectionExact'
  <2>1. pc[a] = "body" /\ SyncExclusive(a, u) /\ pc'[u] = "waiting" /\ UNCHANGED <<held_tag, coroutine>>
    BY <1>7, <1>t DEF InitializeTaskOn, Request, User, SyncExclusive
  <2>2. coroutine[u] = None
    BY <2>1, <1>t, <1>p DEF SyncExclusive, CreateTask, CoroutinesPlaced
  <2>3. Exclusive(u)'
    BY <2>1, <2>2 DEF Exclusive
  <2> QED
    BY <2>1, <2>3, <1>e
<1>8. ASSUME NEW a \in Agent, ReleaseReplaced(a)
      PROVE  CollectionExact'
  BY <1>8, <1>k, <1>t, <1>p, SharingFollowsPc DEF Sharing, Queueing, Early,  ReleaseReplaced, Release, One, Goto, syncVars, gateVars, coVars
<1>9. ASSUME NEW t \in Task, AddRefPrevious(t)
      PROVE  CollectionExact'
  BY <1>9, <1>k, <1>t, <1>p, SharingFollowsPc DEF Sharing, Queueing, Early,  AddRefPrevious, Goto, syncVars, gateVars, coVars
<1>10. ASSUME NEW a \in Agent, HandleOnTask(a)
      PROVE  CollectionExact'
  <2>1. /\ pc[a] = "handle" /\ UNCHANGED <<shared, released, sync_tag, gate_tag, held_tag, coroutine>>
        /\ new[a] \in Task /\ pc[new[a]] = "waiting" /\ new[a] # a
    BY <1>10, <1>t DEF HandleOnTask, syncVars, gateVars, coVars, Early, Queueing
  <2>2. CASE UNCHANGED pc
    BY <2>1, <2>2, <1>k, SharingFollowsPc
  <2>3. CASE ProcessOnReady(a)
    <3>1. a \in Client => coroutine[new[a]] = None
      BY <2>1, <1>t, SyncAssumption
    <3> QED
      BY <2>1, <2>3, <3>1, <1>w DEF ProcessOnReady
  <2>4. CASE Goto(a, "add")
    BY <2>1, <2>4, <1>v DEF Goto
  <2> QED
    BY <1>10, <2>2, <2>3, <2>4 DEF HandleOnTask
<1>11. ASSUME NEW a \in Agent, NEW g \in todo[a], AddDependency(a, g)
      PROVE  CollectionExact'
  BY <1>11, <1>k, <1>t, <1>p, SharingFollowsPc DEF Sharing, Queueing, Early,  AddDependency, syncVars, coVars
<1>12. ASSUME NEW a \in Agent, SubtractInactive(a)
      PROVE  CollectionExact'
  <2>1. /\ pc[a] = "add" /\ UNCHANGED <<shared, released, sync_tag, gate_tag, held_tag, coroutine>>
        /\ new[a] \in Task /\ new[a] # a
    BY <1>12, <1>t DEF SubtractInactive, syncVars, gateVars, coVars, Queueing
  <2>2. CASE inactive[a] > 0 /\ ProcessOnReady(a)
    <3>1. pc[new[a]] = "waiting"
      BY <2>1, <2>2, InactiveWaits
    <3>2. a \in Client => coroutine[new[a]] = None
      BY <2>1, <1>t, SyncAssumption
    <3> QED
      BY <2>1, <2>2, <3>1, <3>2, <1>w DEF ProcessOnReady
  <2>3. CASE Goto(a, "release")
    BY <2>1, <2>3, <1>v DEF Goto
  <2> QED
    BY <1>12, <2>2, <2>3 DEF SubtractInactive
<1>13. ASSUME NEW a \in Agent, ReleaseResult(a)
      PROVE  CollectionExact'
  BY <1>13, <1>k, <1>t, <1>p, SharingFollowsPc DEF Sharing, Queueing, Early,  ReleaseResult, Release, Goto, syncVars, gateVars, coVars
<1>14. ASSUME NEW t \in Task, ReleaseExclusive(t)
      PROVE  CollectionExact'
  BY <1>14, <1>k, <1>t, <1>p, SharingFollowsPc DEF Sharing, Queueing, Early,  ReleaseExclusive, AfterRelease, Release, One, InPlainTask, Goto, gateVars, localVars, coVars
<1>15. ASSUME NEW t \in Task, ReleaseShared(t)
      PROVE  CollectionExact'
  <2>1. /\ pc[t] = "shared" /\ pc' = [pc EXCEPT ![t] = "leaveShared"]
        /\ UNCHANGED <<gate_tag, held_tag, coroutine, ask>>
    BY <1>15 DEF ReleaseShared, Goto, gateVars, coVars
  <2>2. Sharing(t) /\ ~Sharing(t)' /\ coroutine[t] \in Coroutine /\ pc'[t] = "leaveShared"
    BY <2>1, <1>t, <1>s DEF Sharing
  <2>3. \A x \in Task : x # t => SharingStays(x)
    BY <2>1, <1>t, SharingFollowsPc
  <2>4. \A x \in Task : Gate(x)' = Gate(x) /\ Gate(x).task = x
    BY <2>1 DEF Gate
  <2>5. held_tag[coroutine[t]] = sync_tag <=> Gate(t) \in shared
    BY <2>2, <1>c DEF CollectionExact
  <2>6. \A g \in shared : g.task \in Task
    BY <1>n DEF TaggedGate
  <2>7. UNCHANGED shared => Members' = Members \ {Gate(t)}
    <3> SUFFICES ASSUME UNCHANGED shared PROVE Members' = Members \ {Gate(t)}
      OBVIOUS
    <3>1. \A g \in shared : (g = Gate(g.task)' /\ Sharing(g.task)') <=> (g = Gate(g.task) /\ Sharing(g.task) /\ g # Gate(t))
      BY <2>2, <2>3, <2>4, <2>6 DEF SharingStays
    <3> QED
      BY <3>1 DEF Members
  <2>8. CASE ~SameCollection(t) /\ UNCHANGED <<shared, released, sync_tag>>
    <3>1. Gate(t) \notin shared
      BY <2>5, <2>8 DEF SameCollection
    <3>2. Members' = Members
      BY <2>7, <2>8, <3>1 DEF Members
    <3> QED
      BY <2>1, <2>2, <2>3, <2>4, <2>8, <3>1, <3>2, <1>c DEF CollectionExact, SharingStays
  <2>9. CASE SameCollection(t) /\ shared' = {} /\ released' = 0 /\ sync_tag' = Bump(sync_tag)
    <3>1. shared # {}
      BY <2>5, <2>9 DEF SameCollection
    <3> QED
      BY <2>1, <2>2, <2>3, <2>9, <3>1, <1>z DEF SharingStays
  <2>10. CASE /\ SameCollection(t) /\ released + 1 # Cardinality(shared)
              /\ released' = released + 1 /\ UNCHANGED <<shared, sync_tag>>
    <3>1. Gate(t) \in shared /\ Gate(t) \in Members
      BY <2>2, <2>4, <2>5, <2>10 DEF SameCollection, Members
    <3>2. IsFiniteSet(Members') /\ Cardinality(Members') = Cardinality(Members) - 1
      BY <2>7, <2>10, <3>1, <1>n, FS_RemoveElement
    <3>3. Cardinality(Members') + released' = Cardinality(shared') /\ Cardinality(Members') # 0
      <4> DEFINE m == Cardinality(Members)
                 n == Cardinality(shared)
                 m2 == Cardinality(Members')
                 n2 == Cardinality(shared')
      <4>1. /\ m \in Nat /\ n \in Nat /\ m + released = n /\ m2 = m - 1 /\ n2 = n
            /\ released \in Nat /\ released' = released + 1 /\ released + 1 # n
        BY <2>10, <3>2, <1>n, <1>c DEF CollectionExact
      <4> HIDE DEF m, n, m2, n2
      <4>2. m2 + released' = n2 /\ m2 # 0
        BY <4>1
      <4> QED
        BY <4>2 DEF m2, n2
    <3>4. Members' # {}
      BY <3>3, FS_EmptySet
    <3> QED
      BY <2>1, <2>2, <2>3, <2>4, <2>10, <3>3, <3>4, <1>c DEF CollectionExact, SharingStays
  <2> QED
    BY <1>15, <2>8, <2>9, <2>10 DEF ReleaseShared, ClearShared
<1>16. ASSUME NEW t \in Task, LeaveScope(t)
      PROVE  CollectionExact'
  <2>1. UNCHANGED <<shared, released, sync_tag, held_tag, coroutine, ask>> /\ pc[t] \in {"leave", "leaveShared"}
    BY <1>16 DEF LeaveScope, syncVars, coVars
  <2>2. CASE UNCHANGED <<pc, gateVars>>
    BY <2>1, <2>2, <1>k, SharingFollowsPc DEF gateVars
  <2>3. CASE Wake(t, "body") /\ gate_tag' = [gate_tag EXCEPT ![t] = Bump(gate_tag[t])]
    <3>1. /\ pc'[t] = "body"
          /\ \A x \in Task : x # t => pc'[x] = pc[x] \/ (pc[x] = "waiting" /\ pc'[x] = "ready")
      BY <2>3, WakesWaiting, NoGates
    <3>2. ~Sharing(t) /\ ~Sharing(t)' /\ \A x \in Task : x # t => SharingStays(x)
      BY <2>1, <3>1, SharingFollowsPc DEF Sharing
    <3>3. /\ \A x \in Task : x # t => Gate(x)' = Gate(x)
          /\ Gate(t)'.tag = gate_tag[t] + 1 /\ Gate(t)'.task = t
      BY <2>1, <2>3, <1>n, GateBumps DEF Gate
    <3>4. Gate(t)' \notin shared
      <4>1. \A g \in shared : g.task = t => g.tag <= gate_tag[t] /\ g.tag \in Nat
        BY <1>n DEF SyncInv, TagsRead, TaggedGate, Tag
      <4>2. gate_tag[t] \in Nat
        BY <2>1, GateBumps
      <4> QED
        BY <3>3, <4>1, <4>2
    <3>5. Members' = Members
      <4>1. \A g \in shared : g.task \in Task
        BY <1>n DEF TaggedGate
      <4>2. \A g \in shared : (g = Gate(g.task)' /\ Sharing(g.task)') <=> (g = Gate(g.task) /\ Sharing(g.task))
        BY <3>2, <3>3, <3>4, <4>1 DEF SharingStays
      <4> QED
        BY <2>1, <4>2 DEF Members
    <3> QED
      BY <2>1, <3>2, <3>3, <3>4, <3>5, <1>c DEF CollectionExact, SharingStays
  <2> QED
    BY <1>16, <2>2, <2>3 DEF LeaveScope
<1>17. ASSUME NEW t \in Task, EndFunction(t)
      PROVE  CollectionExact'
  <2>1. /\ UNCHANGED <<shared, released, sync_tag, gate_tag, held_tag, coroutine>>
        /\ pc[t] \in {"body", "exclusive"}
    BY <1>17 DEF EndFunction, InPlainTask, syncVars, coVars
  <2>2. \E label \in {"clear", "finish"} : Wake(t, label)
    BY <1>17 DEF EndFunction
  <2>3. /\ pc'[t] \in {"clear", "finish"}
        /\ \A x \in Task : x # t => pc'[x] = pc[x] \/ (pc[x] = "waiting" /\ pc'[x] = "ready")
    BY <2>2, WakesWaiting, NoGates
  <2>4. ~Sharing(t) /\ ~Sharing(t)' /\ pc[t] # "leaveShared"
    BY <2>1, <2>3 DEF Sharing
  <2> QED
    BY <2>1, <2>3, <2>4, <1>k, SharingFollowsPc
<1>18. ASSUME NEW t \in Task, Finish(t)
      PROVE  CollectionExact'
  BY <1>18, <1>k, <1>t, <1>p, SharingFollowsPc DEF Sharing, Queueing, Early,  Finish, Release, One, syncVars, gateVars, localVars, coVars
<1>19. CASE UNCHANGED vars
  BY <1>19, <1>k, <1>t, <1>p, SharingFollowsPc DEF Sharing, Queueing, Early,  vars, syncVars, gateVars, localVars, coVars
<1> QED
  BY <1>1, <1>2, <1>3, <1>4, <1>5, <1>6, <1>7, <1>8, <1>9, <1>10, <1>11, <1>12, <1>13,
     <1>14, <1>15, <1>16, <1>17, <1>18, <1>19
  DEF Next, Proceed, Queue
-----------------------------------------------------------------------------

LEMMA InitSync == Init => SyncInv
<1> SUFFICES ASSUME Init PROVE SyncInv
  OBVIOUS
<1>a. /\ None \notin Task /\ None \notin Coroutine /\ 0 \in Tag /\ Accesses \in Nat
      /\ \A t \in Task : t \in Agent /\ t \notin Client
  BY SyncAssumption DEF Tag, Agent
<1>p. /\ \A a \in Agent : /\ pc[a] = IF a \in Client THEN "body" ELSE "none"
                          /\ new[a] = None /\ replaced[a] = None /\ previous[a].task = None
                          /\ result[a] = {} /\ todo[a] = {} /\ inactive[a] = 0
      /\ \A t \in Task : /\ pc[t] = "none" /\ state[t] = "Pooled" /\ gate_tag[t] = 0 /\ dependents[t] = {}
                         /\ refs[t] = 0 /\ prerequires[t] = 0 /\ coroutine[t] = None
  BY <1>a DEF Init
<1>q. /\ last_task = None /\ shared = {} /\ released = 0 /\ sync_tag = 0 /\ left = Accesses
      /\ \A c \in Coroutine : ask[c] = "new"
  BY DEF Init
<1>1. TypeOK
  <2>1. previous \in [Agent -> [task : TaskOrNone, tag : Tag]]
    BY <1>a DEF Init, TaskOrNone
  <2> QED
    BY <1>a, <2>1 DEF Init, TypeOK, TaskOrNone
<1>2. RefsExact
  <2> SUFFICES ASSUME NEW t \in Task PROVE refs[t] = Referrers(t)
    BY <1>1, RefsSum
  <2>1. Holding(new, t) = {} /\ Holding(replaced, t) = {} /\ Chained(result, t) = {} /\ Gates(t) = {}
    BY <1>a, <1>p DEF Holding, Chained, Gates
  <2>2. LastCount(t) = 0 /\ ThreadCount(t) = 0 /\ Nodes(shared)[t] = 0 /\ refs[t] = 0
    BY <1>a, <1>p, <1>q, NodesNone DEF LastCount, ThreadCount
  <2> QED
    BY <2>1, <2>2, FS_EmptySet DEF Referrers
<1>3. CounterExact
  <2> SUFFICES ASSUME NEW u \in Task PROVE Unsettled(u) = {} /\ prerequires[u] = Cardinality(Gates(u))
    BY DEF CounterExact, Gates
  <2>1. Unsettled(u) = {} /\ Gates(u) = {}
    BY <1>a, <1>p DEF Unsettled, Gates
  <2> QED
    BY <2>1, <1>p, FS_EmptySet
<1>4. LocalsFollowPc
  BY <1>a, <1>p DEF LocalsFollowPc, Queueing
<1>5. CreatorsAlone
  BY <1>a, <1>p DEF CreatorsAlone, Early
<1>6. Stages
  BY <1>p DEF Stages
<1>7. CoroutinesPlaced
  BY <1>a, <1>p, <1>q DEF CoroutinesPlaced
<1>8. PooledUnreferenced
  BY <1>a, <1>p, <1>q DEF PooledUnreferenced
<1>9. TagsLeft
  <2>1. Accessing = {} /\ Joining = {} /\ Collected = 0
    BY <1>a, <1>p, <1>q DEF Accessing, Joining, Collected
  <2>2. Cardinality(Accessing) = 0 /\ Cardinality(Joining) = 0
    BY <2>1, FS_EmptySet
  <2> QED
    BY <2>1, <2>2, <1>a, <1>p, <1>q DEF TagsLeft
<1>10. TagsRead
  BY <1>p, <1>q DEF TagsRead
<1>11. CollectionExact
  <2>1. Members = {} /\ Cardinality(Members) = 0 /\ Cardinality(shared) = 0
    BY <1>q, FS_EmptySet DEF Members
  <2>2. \A t \in Task : ~Sharing(t)
    BY <1>p DEF Sharing
  <2> QED
    BY <2>1, <2>2, <1>q DEF CollectionExact
<1> QED
  BY <1>1, <1>2, <1>3, <1>4, <1>5, <1>6, <1>7, <1>8, <1>9, <1>10, <1>11 DEF SyncInv

LEMMA SyncStep == Accesses < TagMod => (SyncInv /\ [Next]_vars => SyncInv')
<1> SUFFICES ASSUME Accesses < TagMod, SyncInv, [Next]_vars PROVE SyncInv'
  OBVIOUS
<1> QED
  BY TypeStep, RefsStep, CounterStep, LocalsStep, CreatorsStep, StagesStep, CoroutinesStep, PooledStep,
     TagsStep, TagsReadStep, CollectionStep
  DEF SyncInv

\* The inductive invariant of the synchroniser and its tasks.
THEOREM SyncInvariance == ASSUME Accesses < TagMod PROVE Spec => []SyncInv
<1>1. Init => SyncInv
  BY InitSync
<1>2. SyncInv /\ [Next]_vars => SyncInv'
  BY SyncStep
<1> QED
  BY <1>1, <1>2, PTL DEF Spec

\* Every variable keeps its type: no reference count or prerequisite counter goes
\* below zero, whatever ReleaseChain, Unblock and SubtractInactive take from it.
THEOREM SyncTypesCorrect == ASSUME Accesses < TagMod PROVE Spec => []TypeOK
<1>1. SyncInv => TypeOK
  BY DEF SyncInv
<1> QED
  BY <1>1, SyncInvariance, PTL

\* A task's reference count is the number of places in the code that hold one: the
\* word and the collection of the synchroniser, results, handles, dependency nodes and
\* the thread that runs it.  So it goes back to the pool with its last use.
THEOREM ReferencesExact == ASSUME Accesses < TagMod PROVE Spec => []RefsExact
<1>1. SyncInv => RefsExact
  BY DEF SyncInv
<1> QED
  BY <1>1, SyncInvariance, PTL

\* The counter of a queued task is the number of gates that hold a node of it, with
\* those that HandlePrerequires has not settled: access is granted exactly once.
THEOREM CountersExact == ASSUME Accesses < TagMod PROVE Spec => []CounterExact
<1>1. SyncInv => CounterExact
  BY DEF SyncInv
<1> QED
  BY <1>1, SyncInvariance, PTL

\* The word of the synchroniser is sane: fewer releases than members of the
\* collection, and no member or last task has gone back to the pool.
THEOREM WordStaysSane == ASSUME Accesses < TagMod PROVE Spec => []WordSane
<1>1. SyncInv => WordSane
  <2> SUFFICES ASSUME SyncInv PROVE WordSane
    OBVIOUS
  <2>1. TypeOK /\ CollectionExact /\ PooledUnreferenced
    BY DEF SyncInv
  <2>2. shared \in SUBSET TaggedGate /\ Members \in SUBSET TaggedGate /\ Members \subseteq shared /\ released \in Nat
    BY <2>1 DEF TypeOK, Members
  <2> DEFINE m == Cardinality(Members)
             n == Cardinality(shared)
  <2>3. m \in Nat /\ n \in Nat /\ (m = 0 <=> Members = {}) /\ (n = 0 <=> shared = {})
    BY <2>2, SubsetCounts
  <2>4. m + released = n /\ (shared # {} => Members # {})
    BY <2>1 DEF CollectionExact
  <2> HIDE DEF m, n
  <2>5. released < n \/ (released = 0 /\ shared = {})
    BY <2>2, <2>3, <2>4
  <2>6. \A g \in shared : g.task \in Task
    BY <2>2 DEF TaggedGate
  <2> QED
    BY <2>1, <2>5, <2>6 DEF WordSane, PooledUnreferenced, TypeOK, TaskOrNone, n
<1> QED
  BY <1>1, SyncInvariance, PTL
=============================================================================
