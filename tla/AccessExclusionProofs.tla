----------------------- MODULE AccessExclusionProofs -----------------------
(***************************************************************************)
(* Proofs about AccessSynchronizer: scopes exclude each other, and a       *)
(* request is queued behind holders only, for any number of tasks,         *)
(* coroutines, clients and accesses, as long as no tag wraps.  The order   *)
(* of the requests, which the code keeps in gates and nodes only, is       *)
(* recovered as a rank of each request that is present.                    *)
(***************************************************************************)
EXTENDS AccessSynchronizerProofs

\* t uses the resource, or waits for it.
Present(t) == Exclusive(t) \/ Sharing(t)

\* t has released the resource, and its scope has still to unblock its gate.
Leaving(t) == pc[t] \in {"leave", "leaveShared"}

\* The gates that the creator a has still to put a node into.
Asked(a) ==
  CASE pc[a] = "add" -> todo[a]
    [] pc[a] \in {"replaced", "handle"} -> result[a]
    [] pc[a] = "addref" -> {previous[a]}
    [] OTHER -> {}

\* u has a node in the gate of s, or its creator is about to put one there.
Awaits(u, s) ==
  u \in dependents[s] \/ \E a \in Agent : new[a] = u /\ Gate(s) \in Asked(a)

\* u waits for s: the gate of a task that is over, or in its pool, blocks no one.
Behind(u, s) == state[s] = "Pending" /\ Awaits(u, s)

\* The last task of the word has the resource or waits for it.
LastPresent == last_task # None /\ Exclusive(last_task)

\* A last task that is over has not yet released: a plain task does so at its end.
LastSane ==
  last_task # None =>
    \/ Exclusive(last_task) /\ last_task_tag = gate_tag[last_task]
    \/ pc[last_task] = "clear"

\* The requests that are present have ranks without a gap: who is one above another
\* one is behind it, and only those who share have the same.
RanksInOrder(r) ==
  \A s, u \in Task : Present(s) /\ Present(u) =>
    /\ r[u] = r[s] + 1 => Behind(u, s)
    /\ r[s] < r[u] => \E p \in Task : Present(p) /\ r[p] + 1 = r[u]
    /\ r[u] = r[s] /\ u # s => Sharing(u) /\ Sharing(s)

\* The collection is on top, just above the last task...
CollectionOnTop(r) ==
  \A t \in Task : Gate(t) \in shared =>
    /\ \A s \in Task : Present(s) \/ Gate(s) \in shared => r[s] <= r[t]
    /\ LastPresent => r[t] = r[last_task] + 1

\* ... which is above all others.
LastOnTop(r) ==
  \A t \in Task : Present(t) /\ Gate(t) \notin shared => LastPresent /\ r[t] <= r[last_task]

\* An exclusive request is behind those only who have the rank below.
BehindRankBelow(r) ==
  \A s, u \in Task : Behind(u, s) /\ Exclusive(u) =>
    (Present(s) \/ Leaving(s)) /\ r[u] = r[s] + 1

Ranked(r) == RanksInOrder(r) /\ CollectionOnTop(r) /\ LastOnTop(r) /\ BehindRankBelow(r)

RankInv == LastSane /\ \E r \in [Task -> Nat] : Ranked(r)

ExclusionInv == SyncInv /\ RankInv
-----------------------------------------------------------------------------

\* The standing of t is what it was.
Same(t) ==
  /\ Exclusive(t)' <=> Exclusive(t)
  /\ Sharing(t)' <=> Sharing(t)
  /\ Leaving(t)' <=> Leaving(t)

LEMMA ExclusiveNotSharing == \A t : ~(Exclusive(t) /\ Sharing(t))
<1> QED
  BY DEF Exclusive, Sharing

LEMMA PresentPending ==
  SyncInv => \A t \in Task : Present(t) \/ Leaving(t) => state[t] = "Pending"
<1> QED
  BY DEF Present, Leaving, Exclusive, Sharing, SyncInv, Stages

LEMMA PresentPendingNext ==
  SyncInv' => (\A t \in Task : Present(t) \/ Leaving(t) => state[t] = "Pending")'
BY PresentPending, PTL

\* Where the thread does not change, nor wakes, the standing stays.
LEMMA StandingStays ==
  ASSUME SyncInv, [Next]_vars, NEW x \in Task,
         pc'[x] = pc[x] \/ (pc[x] = "waiting" /\ pc'[x] = "ready")
  PROVE  Same(x)
<1> QED
  BY RequestsStep DEF Same, Exclusive, Sharing, Leaving, RequestsKept

\* Who waits for a gate has not been woken.
LEMMA AwaitingWaits ==
  SyncInv => \A u, s \in Task : Awaits(u, s) => pc[u] = "waiting"
<1> SUFFICES ASSUME SyncInv, NEW u \in Task, NEW s \in Task, Awaits(u, s)
             PROVE  pc[u] = "waiting"
  OBVIOUS
<1>1. CASE u \in dependents[s]
  BY <1>1, NoGates
<1>2. ASSUME NEW a \in Agent, new[a] = u, Gate(s) \in Asked(a)
      PROVE  pc[u] = "waiting"
  <2>1. CASE pc[a] \in Early
    BY <1>2, <2>1 DEF SyncInv, CreatorsAlone
  <2>2. CASE pc[a] = "add"
    <3>1. todo[a] # {} /\ todo[a] \in SUBSET TaggedGate
      BY <1>2, <2>2 DEF Asked, SyncInv, TypeOK
    <3> DEFINE n == Cardinality(Gates(new[a]))
               m == Cardinality(todo[a])
    <3>2. m # 0
      BY <3>1, SubsetCounts
    <3>3. prerequires[u] = n + m + inactive[a] /\ n \in Nat /\ m \in Nat /\ inactive[a] \in Nat
      BY <1>2, <2>2, CounterInLoop
    <3> HIDE DEF n, m
    <3>4. prerequires[u] # 0
      BY <3>2, <3>3
    <3> QED
      BY <3>4 DEF SyncInv, Stages
  <2>3. CASE pc[a] \notin Early \cup {"add"}
    BY <1>2, <2>3 DEF Asked, Early
  <2> QED
    BY <2>1, <2>2, <2>3
<1> QED
  BY <1>1, <1>2 DEF Awaits

LEMMA AwaitingWaitsNext ==
  SyncInv' => (\A u, s \in Task : Awaits(u, s) => pc[u] = "waiting")'
BY AwaitingWaits, PTL

\* Only a shared request can meet a task that is back in the pool.
LEMMA AwaitsPooled ==
  ASSUME SyncInv, NEW u \in Task, NEW s \in Task, state[s] = "Pooled", Awaits(u, s)
  PROVE  Sharing(u)
<1>1. dependents[s] = {}
  BY DEF SyncInv, Stages
<1>2. PICK a \in Agent : new[a] = u /\ Gate(s) \in Asked(a)
  BY <1>1 DEF Awaits
<1>3. /\ \A g \in result[a] : g.task = s => pc[a] = "handle" /\ Sharing(new[a])
      /\ todo[a] \subseteq result[a]
      /\ pc[a] = "addref" => Sharing(new[a])
  BY DEF SyncInv, PooledUnreferenced, LocalsFollowPc, CreatorsAlone
<1>4. Gate(s).task = s
  BY DEF Gate
<1> QED
  BY <1>2, <1>3, <1>4 DEF Asked

\* Whoever is not waiting has the lowest rank.
LEMMA FrontIsLowest ==
  ASSUME SyncInv, NEW r \in [Task -> Nat], Ranked(r),
         NEW t \in Task, Present(t), pc[t] # "waiting"
  PROVE  \A s \in Task : Present(s) => r[t] <= r[s]
<1> SUFFICES ASSUME NEW s \in Task, Present(s), r[s] < r[t] PROVE FALSE
  OBVIOUS
<1>1. PICK p \in Task : Present(p) /\ r[p] + 1 = r[t]
  BY DEF Ranked, RanksInOrder
<1>2. Awaits(t, p)
  BY <1>1 DEF Ranked, RanksInOrder, Behind
<1> QED
  BY <1>2, AwaitingWaits

LEMMA FrontIsAlone ==
  ASSUME SyncInv, NEW r \in [Task -> Nat], Ranked(r),
         NEW t \in Task, Exclusive(t), pc[t] # "waiting"
  PROVE  \A s \in Task : Present(s) /\ s # t => r[t] < r[s]
<1> SUFFICES ASSUME NEW s \in Task, Present(s), s # t PROVE r[t] < r[s]
  OBVIOUS
<1>1. Present(t)
  BY DEF Present
<1>2. r[t] <= r[s]
  BY <1>1, FrontIsLowest
<1>3. r[t] # r[s]
  BY <1>1, ExclusiveNotSharing DEF Ranked, RanksInOrder
<1> QED
  BY <1>2, <1>3
-----------------------------------------------------------------------------
(* Steps in which no one arrives. *)

LEMMA NobodyArrives ==
  ASSUME NEW r \in [Task -> Nat], Ranked(r), last_task \in TaskOrNone,
         \A t \in Task : (Exclusive(t)' => Exclusive(t)) /\ (Sharing(t)' => Sharing(t)),
         \A s, u \in Task : Present(s)' /\ Present(u)' /\ Behind(u, s) => Behind(u, s)',
         \A s, u \in Task : Behind(u, s)' /\ Exclusive(u)' =>
           Behind(u, s) /\ (Present(s) \/ Leaving(s) => Present(s)' \/ Leaving(s)'),
         \A s, u, p \in Task :
           Present(s)' /\ Present(u)' /\ Present(p) /\ r[s] < r[u] /\ r[p] + 1 = r[u] =>
             \E q \in Task : Present(q)' /\ r[q] + 1 = r[u],
         \A t \in Task : Gate(t)' \in shared' => Gate(t) \in shared,
         LastPresent' => LastPresent /\ last_task' = last_task,
         \A t \in Task : Present(t)' /\ Gate(t)' \notin shared' =>
           LastPresent' /\ r[t] <= r[last_task']
  PROVE  Ranked(r)'
<1>1. \A t \in Task : Present(t)' => Present(t)
  BY DEF Present
<1>2. RanksInOrder(r)'
  <2> SUFFICES ASSUME NEW s \in Task, NEW u \in Task, Present(s)', Present(u)'
               PROVE  /\ r[u] = r[s] + 1 => Behind(u, s)'
                      /\ r[s] < r[u] => \E p \in Task : Present(p)' /\ r[p] + 1 = r[u]
                      /\ r[u] = r[s] /\ u # s => Sharing(u)' /\ Sharing(s)'
    BY DEF RanksInOrder
  <2>1. /\ r[u] = r[s] + 1 => Behind(u, s)
        /\ r[s] < r[u] => \E p \in Task : Present(p) /\ r[p] + 1 = r[u]
        /\ r[u] = r[s] /\ u # s => Sharing(u) /\ Sharing(s)
    BY <1>1 DEF Ranked, RanksInOrder
  <2>2. Sharing(u) => Sharing(u)'
    BY ExclusiveNotSharing DEF Present
  <2>3. Sharing(s) => Sharing(s)'
    BY ExclusiveNotSharing DEF Present
  <2> QED
    BY <2>1, <2>2, <2>3
<1>3. CollectionOnTop(r)'
  BY <1>1 DEF Ranked, CollectionOnTop
<1>4. LastOnTop(r)'
  BY DEF LastOnTop
<1>5. BehindRankBelow(r)'
  BY DEF Ranked, BehindRankBelow
<1> QED
  BY <1>2, <1>3, <1>4, <1>5 DEF Ranked

\* No one comes or goes, and the creators ask as before.
LEMMA QuietStep ==
  ASSUME SyncInv, SyncInv', NEW r \in [Task -> Nat], Ranked(r),
         \A t \in Task : Same(t),
         \A s, u \in Task : Awaits(u, s)' => Awaits(u, s),
         \A s, u \in Task : Present(s) /\ Awaits(u, s) => Awaits(u, s)',
         \A s \in Task : state'[s] = "Pending" => state[s] \in {"Pending", "Pooled"},
         last_task' = last_task \/ ~(LastPresent \/ LastPresent'),
         UNCHANGED <<shared, gate_tag>>
  PROVE  Ranked(r)'
<1>1. \A t \in Task : /\ Exclusive(t)' <=> Exclusive(t)
                      /\ Sharing(t)' <=> Sharing(t)
                      /\ Present(t)' <=> Present(t)
                      /\ Leaving(t)' <=> Leaving(t)
                      /\ Gate(t)' = Gate(t)
  BY DEF Same, Present, Gate
<1>2. \A s, u \in Task : Present(s)' /\ Present(u)' /\ Behind(u, s) => Behind(u, s)'
  BY <1>1, PresentPendingNext DEF Behind
<1>3. ASSUME NEW s \in Task, NEW u \in Task, Behind(u, s)', Exclusive(u)'
      PROVE  Behind(u, s) /\ (Present(s) \/ Leaving(s) => Present(s)' \/ Leaving(s)')
  <2>1. Awaits(u, s) /\ state[s] \in {"Pending", "Pooled"}
    BY <1>3 DEF Behind
  <2>2. state[s] # "Pooled"
    BY <2>1, <1>1, <1>3, AwaitsPooled, ExclusiveNotSharing
  <2> QED
    BY <1>1, <2>1, <2>2 DEF Behind
<1>4. last_task \in TaskOrNone
  BY DEF SyncInv, TypeOK
<1>5. LastPresent' <=> LastPresent
  BY <1>1, <1>4 DEF LastPresent, TaskOrNone
<1>7. LastPresent' => LastPresent /\ last_task' = last_task
  BY <1>5
<1>6. \A t \in Task : Present(t)' /\ Gate(t)' \notin shared' => LastPresent' /\ r[t] <= r[last_task']
  BY <1>1, <1>5 DEF Ranked, LastOnTop
<1> QED
  BY <1>1, <1>2, <1>3, <1>4, <1>6, <1>7, NobodyArrives

\* The calls of creators look alike: none of these changes who asks for what.
LEMMA AskedStays ==
  ASSUME \A a \in Agent : /\ new'[a] = new[a] \/ (Asked(a) = {} /\ Asked(a)' = {})
                          /\ Asked(a)' = Asked(a),
         UNCHANGED <<dependents, gate_tag>>
  PROVE  \A s, u \in Task : Awaits(u, s)' <=> Awaits(u, s)
<1> QED
  BY DEF Awaits, Gate

LEMMA Places ==
  SyncInv =>
    /\ pc \in [Agent -> Labels] /\ new \in [Agent -> TaskOrNone]
    /\ coroutine \in [Task -> Coroutine \cup {None}]
    /\ ask \in [Coroutine -> {"new", "none", "exclusive", "shared"}]
    /\ result \in [Agent -> SUBSET TaggedGate] /\ todo \in [Agent -> SUBSET TaggedGate]
    /\ state \in [Task -> {"Pooled", "Pending", "Done"}]
    /\ dependents \in [Task -> SUBSET Task] /\ gate_tag \in [Task -> Tag]
    /\ last_task \in TaskOrNone /\ shared \in SUBSET TaggedGate
    /\ None \notin Task /\ None \notin Coroutine
    /\ \A t \in Task : t \in Agent /\ t \notin Client /\ (state[t] = "Pooled" => pc[t] = "none")
<1> QED
  BY SyncAssumption DEF SyncInv, TypeOK, Stages, Agent, Labels

\* A task that is not where requests are is not among them, and asks for no gate.
LEMMA StartCoroutineRanks ==
  ASSUME SyncInv, SyncInv', [Next]_vars, NEW r \in [Task -> Nat], Ranked(r),
         NEW t \in Task, NEW c \in Coroutine, StartCoroutine(c, t)
  PROVE  Ranked(r)'
<1>1. /\ pc[t] = "none" /\ pc' = [pc EXCEPT ![t] = "ready"] /\ coroutine'[t] = c /\ ask'[c] = "none"
      /\ state' = [state EXCEPT ![t] = "Pending"] /\ state[t] = "Pooled"
      /\ UNCHANGED <<syncVars, gateVars, localVars>>
  BY Places DEF StartCoroutine, Goto
<1>2. \A x \in Task : x # t => Same(x)
  BY <1>1, StandingStays, Places
<1>3. Same(t)
  BY <1>1, Places DEF Same, Exclusive, Sharing, Leaving
<1>4. \A a \in Agent : new'[a] = new[a] /\ Asked(a)' = Asked(a)
  BY <1>1, Places DEF Asked, localVars
<1>5. \A s, u \in Task : Awaits(u, s)' <=> Awaits(u, s)
  BY <1>1, <1>4, AskedStays DEF gateVars
<1>6. \A s \in Task : state'[s] = "Pending" => state[s] \in {"Pending", "Pooled"}
  BY <1>1, Places
<1> QED
  BY <1>1, <1>2, <1>3, <1>5, <1>6, QuietStep DEF syncVars, gateVars

LEMMA RunRanks ==
  ASSUME SyncInv, SyncInv', [Next]_vars, NEW r \in [Task -> Nat], Ranked(r),
         NEW t \in Task, Run(t)
  PROVE  Ranked(r)'
<1>1. PICK label \in {"body", "exclusive", "shared"} :
        /\ pc[t] = "ready" /\ pc' = [pc EXCEPT ![t] = label]
        /\ label = "exclusive" <=> Exclusive(t)
        /\ label = "shared" <=> Sharing(t)
  BY RunGoesOn
<1>2. UNCHANGED <<syncVars, gateVars, localVars, state>>
  BY DEF Run
<1>3. \A x \in Task : x # t => Same(x)
  BY <1>1, StandingStays, Places
<1>4. Same(t)
  BY <1>1, Places DEF Same, Exclusive, Sharing, Leaving
<1>5. \A a \in Agent : new'[a] = new[a] /\ Asked(a)' = Asked(a)
  BY <1>1, <1>2, Places DEF Asked, localVars
<1>6. \A s, u \in Task : Awaits(u, s)' <=> Awaits(u, s)
  BY <1>2, <1>5, AskedStays DEF gateVars
<1> QED
  BY <1>2, <1>3, <1>4, <1>6, QuietStep DEF syncVars, gateVars

LEMMA SuspendRanks ==
  ASSUME SyncInv, SyncInv', [Next]_vars, NEW r \in [Task -> Nat], Ranked(r),
         NEW t \in Task, NEW mode, Suspend(t, mode), pc[t] = "body",
         UNCHANGED <<last_task, shared, state, gateVars, localVars>>
  PROVE  Ranked(r)'
<1>1. pc' = [pc EXCEPT ![t] = "suspend"]
  BY DEF Suspend, Goto
<1>2. \A x \in Task : x # t => Same(x)
  BY <1>1, StandingStays, Places
<1>3. Same(t)
  BY <1>1, Places DEF Same, Exclusive, Sharing, Leaving
<1>4. \A a \in Agent : new'[a] = new[a] /\ Asked(a)' = Asked(a)
  BY <1>1, Places DEF Asked, localVars
<1>5. \A s, u \in Task : Awaits(u, s)' <=> Awaits(u, s)
  BY <1>4, AskedStays DEF gateVars
<1> QED
  BY <1>2, <1>3, <1>5, QuietStep DEF gateVars

LEMMA ReleaseReplacedRanks ==
  ASSUME SyncInv, SyncInv', [Next]_vars, NEW r \in [Task -> Nat], Ranked(r),
         NEW a \in Agent, ReleaseReplaced(a)
  PROVE  Ranked(r)'
<1>1. /\ pc[a] = "replaced" /\ pc' = [pc EXCEPT ![a] = "handle"]
      /\ UNCHANGED <<syncVars, gateVars, new, previous, result, todo>>
      /\ \A x \in Task : state'[x] \in {state[x], "Pooled"}
  BY DEF ReleaseReplaced, Release, Goto
<1>2. \A x \in Task : Same(x)
  <2>1. \A x \in Task : x # a => Same(x)
    BY <1>1, StandingStays, Places
  <2>2. a \in Task => Same(a)
    BY <1>1, Places DEF Same, Exclusive, Sharing, Leaving
  <2> QED
    BY <2>1, <2>2
<1>3. \A b \in Agent : new'[b] = new[b] /\ Asked(b)' = Asked(b)
  BY <1>1, Places DEF Asked
<1>4. \A s, u \in Task : Awaits(u, s)' <=> Awaits(u, s)
  BY <1>1, <1>3, AskedStays DEF gateVars
<1>5. \A s \in Task : state'[s] = "Pending" => state[s] \in {"Pending", "Pooled"}
  BY <1>1
<1> QED
  BY <1>1, <1>2, <1>4, <1>5, QuietStep DEF syncVars, gateVars

LEMMA AddRefPreviousRanks ==
  ASSUME SyncInv, SyncInv', [Next]_vars, NEW r \in [Task -> Nat], Ranked(r),
         NEW t \in Task, AddRefPrevious(t)
  PROVE  Ranked(r)'
<1>1. /\ pc[t] = "addref" /\ pc' \in {pc, [pc EXCEPT ![t] = "handle"]}
      /\ UNCHANGED <<syncVars, gateVars, new, state, todo>>
  BY DEF AddRefPrevious, Goto
<1>2. \A x \in Task : Same(x)
  <2>1. \A x \in Task : x # t => Same(x)
    BY <1>1, StandingStays, Places
  <2>2. Same(t)
    BY <1>1, Places DEF Same, Exclusive, Sharing, Leaving
  <2> QED
    BY <2>1, <2>2
<1>3. \A b \in Agent : b # t => new'[b] = new[b] /\ Asked(b)' = Asked(b)
  BY <1>1, Places DEF Asked, AddRefPrevious
<1>4. /\ Asked(t) = {previous[t]}
      /\ Asked(t)' = {previous[t]} \/ (previous[t].task = None /\ Asked(t)' = {[task |-> None, tag |-> 0]})
  <2>1. Asked(t) = {previous[t]}
    BY <1>1 DEF Asked
  <2>2. CASE previous[t].task = None
    <3>1. pc'[t] = "addref" /\ previous'[t] = [task |-> None, tag |-> 0]
      BY <1>1, <2>2 DEF AddRefPrevious, SyncInv, TypeOK
    <3> QED
      BY <2>1, <2>2, <3>1 DEF Asked
  <2>3. CASE previous[t].task # None
    <3>1. pc'[t] = "handle" /\ result'[t] = {previous[t]}
      BY <1>1, <2>3, Places DEF AddRefPrevious, Goto
    <3> QED
      BY <2>1, <3>1 DEF Asked
  <2> QED
    BY <2>1, <2>2, <2>3
<1>5. \A s \in Task : Gate(s) \in Asked(t)' <=> Gate(s) \in Asked(t)
  BY <1>4, Places DEF Gate
<1>6. \A s, u \in Task : Awaits(u, s)' <=> Awaits(u, s)
  BY <1>1, <1>3, <1>5 DEF Awaits, Gate, gateVars
<1> QED
  BY <1>1, <1>2, <1>6, QuietStep DEF syncVars, gateVars

\* The new task is ready, or runs in its creator.
LEMMA ProcessOnReadyStanding ==
  ASSUME SyncInv, [Next]_vars, NEW a \in Agent, pc[a] \in {"handle", "add"}, ProcessOnReady(a),
         pc[new[a]] = "waiting", coroutine' = coroutine, ask' = ask
  PROVE  \A x \in Task : Same(x)
<1>1. /\ new[a] \in Task /\ new[a] # a
      /\ a \in Client => coroutine[new[a]] = None
  BY Places DEF SyncInv, LocalsFollowPc, CreatorsAlone, Queueing, TaskOrNone
<1>2. /\ pc'[a] \in {"release", "inline"} /\ \A x \in Task : x \notin {a, new[a]} => pc'[x] = pc[x]
      /\ pc'[new[a]] = "ready" \/ (a \in Client /\ pc'[new[a]] = "exclusive")
  BY <1>1, Places DEF ProcessOnReady
<1>3. \A x \in Task : x \notin {a, new[a]} => Same(x)
  BY <1>2, StandingStays
<1>4. a \in Task => Same(a)
  BY <1>2 DEF Same, Exclusive, Sharing, Leaving
<1>5. ASSUME NEW x \in Task, x = new[a] PROVE Same(x)
  BY <1>1, <1>2, <1>5 DEF Same, Exclusive, Sharing, Leaving
<1> QED
  BY <1>3, <1>4, <1>5
LEMMA HandleOnTaskRanks ==
  ASSUME SyncInv, SyncInv', [Next]_vars, NEW r \in [Task -> Nat], Ranked(r),
         NEW a \in Agent, HandleOnTask(a)
  PROVE  Ranked(r)'
<1>1. /\ pc[a] = "handle" /\ new[a] \in Task /\ pc[new[a]] = "waiting" /\ new[a] # a
      /\ UNCHANGED <<syncVars, gateVars, new, previous, result, state, coroutine, ask>>
  BY Places DEF HandleOnTask, SyncInv, LocalsFollowPc, CreatorsAlone, Queueing, Early, TaskOrNone, coVars
<1>2. /\ \A x \in Task : Same(x)
      /\ \A b \in Agent : Asked(b)' = Asked(b)
  <2>1. CASE pc' = pc /\ todo' = todo
    BY <1>1, <2>1, StandingStays DEF Asked
  <2>2. CASE result[a] = {} /\ ProcessOnReady(a) /\ todo' = [todo EXCEPT ![a] = result[a]]
    <3>1. \A x \in Task : Same(x)
      BY <1>1, <2>2, ProcessOnReadyStanding
    <3>2. \A b \in Agent : b \notin {a, new[a]} => pc'[b] = pc[b] /\ todo'[b] = todo[b]
      BY <2>2, Places DEF ProcessOnReady
    <3>3. pc'[a] \in {"release", "inline"} /\ pc'[new[a]] \in {"ready", "exclusive"}
      BY <1>1, <2>2, Places DEF ProcessOnReady
    <3> QED
      BY <1>1, <2>2, <3>1, <3>2, <3>3 DEF Asked
  <2>3. CASE pc' = [pc EXCEPT ![a] = "add"] /\ todo' = [todo EXCEPT ![a] = result[a]]
    <3>1. \A b \in Agent : Asked(b)' = Asked(b)
      BY <1>1, <2>3, Places DEF Asked
    <3>2. \A x \in Task : x # a => Same(x)
      BY <2>3, StandingStays, Places
    <3>3. a \in Task => Same(a)
      BY <1>1, <2>3, Places DEF Same, Exclusive, Sharing, Leaving
    <3> QED
      BY <3>1, <3>2, <3>3
  <2> QED
    BY <2>1, <2>2, <2>3 DEF HandleOnTask, Goto
<1>3. \A s, u \in Task : Awaits(u, s)' <=> Awaits(u, s)
  BY <1>1, <1>2, AskedStays DEF gateVars
<1> QED
  BY <1>1, <1>2, <1>3, QuietStep DEF syncVars, gateVars

\* A node enters the gate of a task that is present, or the gate is over.
LEMMA AddDependencyRanks ==
  ASSUME SyncInv, SyncInv', [Next]_vars, NEW r \in [Task -> Nat], Ranked(r),
         NEW a \in Agent, NEW g \in todo[a], AddDependency(a, g)
  PROVE  Ranked(r)'
<1>1. /\ pc[a] = "add" /\ new[a] \in Task /\ todo' = [todo EXCEPT ![a] = @ \ {g}]
      /\ g \in TaggedGate /\ g.task \in Task
      /\ UNCHANGED <<syncVars, state, gate_tag, pc, new, previous, result>>
  BY Places DEF AddDependency, SyncInv, LocalsFollowPc, Queueing, TaskOrNone, TaggedGate
<1>2. \A x \in Task : Same(x)
  BY <1>1, StandingStays
<1>3. \A b \in Agent : Asked(b)' = IF b = a THEN Asked(b) \ {g} ELSE Asked(b)
  BY <1>1, Places DEF Asked
<1>4. g \in Asked(a)
  BY <1>1 DEF Asked
<1>5. CASE Blocks(g)
  <2>1. dependents' = [dependents EXCEPT ![g.task] = @ \cup {new[a]}]
    BY <1>5 DEF AddDependency
  <2>2. g = Gate(g.task)
    BY <1>1, <1>5 DEF Blocks, Gate, TaggedGate
  <2>3. \A s, u \in Task : Awaits(u, s)' => Awaits(u, s)
    BY <1>1, <1>3, <1>4, <2>1, <2>2, Places DEF Awaits, Gate
  <2>4. \A s, u \in Task : Awaits(u, s) => Awaits(u, s)'
    BY <1>1, <1>3, <2>1, Places DEF Awaits, Gate
  <2> QED
    BY <1>1, <1>2, <2>3, <2>4, Places, QuietStep DEF syncVars
<1>6. CASE ~Blocks(g)
  <2>1. dependents' = dependents
    BY <1>6 DEF AddDependency
  <2>2. \A s, u \in Task : Awaits(u, s)' => Awaits(u, s)
    BY <1>1, <1>3, <2>1 DEF Awaits, Gate
  <2>3. \A s \in Task : Present(s) => Gate(s) # g
    BY <1>6, PresentPending DEF Blocks, Gate
  <2>4. \A s, u \in Task : Present(s) /\ Awaits(u, s) => Awaits(u, s)'
    BY <1>1, <1>3, <2>1, <2>3 DEF Awaits, Gate
  <2> QED
    BY <1>1, <1>2, <2>2, <2>4, Places, QuietStep DEF syncVars
<1> QED
  BY <1>5, <1>6

LEMMA SubtractInactiveRanks ==
  ASSUME SyncInv, SyncInv', [Next]_vars, NEW r \in [Task -> Nat], Ranked(r),
         NEW a \in Agent, SubtractInactive(a)
  PROVE  Ranked(r)'
<1>1. /\ pc[a] = "add" /\ todo[a] = {} /\ new[a] \in Task /\ new[a] # a
      /\ UNCHANGED <<syncVars, state, gateVars, new, previous, result, todo, coroutine, ask>>
  BY Places DEF SubtractInactive, SyncInv, LocalsFollowPc, Queueing, TaskOrNone, coVars
<1>2. /\ \A x \in Task : Same(x)
      /\ \A b \in Agent : Asked(b)' = Asked(b)
  <2>1. CASE inactive[a] > 0 /\ ProcessOnReady(a)
    <3>1. pc[new[a]] = "waiting"
      BY <1>1, <2>1, InactiveWaits
    <3>2. \A x \in Task : Same(x)
      BY <1>1, <2>1, <3>1, ProcessOnReadyStanding
    <3>3. \A b \in Agent : b \notin {a, new[a]} => pc'[b] = pc[b]
      BY <2>1, Places DEF ProcessOnReady
    <3>4. pc'[a] \in {"release", "inline"} /\ pc'[new[a]] \in {"ready", "exclusive"}
      BY <1>1, <2>1, Places DEF ProcessOnReady
    <3> QED
      BY <1>1, <3>1, <3>2, <3>3, <3>4 DEF Asked
  <2>2. CASE pc' = [pc EXCEPT ![a] = "release"]
    <3>1. \A b \in Agent : Asked(b)' = Asked(b)
      BY <1>1, <2>2, Places DEF Asked
    <3>2. \A x \in Task : x # a => Same(x)
      BY <2>2, StandingStays, Places
    <3>3. a \in Task => Same(a)
      BY <1>1, <2>2, Places DEF Same, Exclusive, Sharing, Leaving
    <3> QED
      BY <3>1, <3>2, <3>3
  <2> QED
    BY <2>1, <2>2 DEF SubtractInactive, Goto
<1>3. \A s, u \in Task : Awaits(u, s)' <=> Awaits(u, s)
  BY <1>1, <1>2, AskedStays DEF gateVars
<1> QED
  BY <1>1, <1>2, <1>3, QuietStep DEF syncVars, gateVars

LEMMA ReleaseResultRanks ==
  ASSUME SyncInv, SyncInv', [Next]_vars, NEW r \in [Task -> Nat], Ranked(r),
         NEW a \in Agent, ReleaseResult(a)
  PROVE  Ranked(r)'
<1>1. /\ pc[a] = "release" /\ pc' = [pc EXCEPT ![a] = "body"] /\ new' = [new EXCEPT ![a] = None]
      /\ result' = [result EXCEPT ![a] = {}]
      /\ UNCHANGED <<syncVars, gateVars, previous, todo>>
      /\ \A x \in Task : state'[x] \in {state[x], "Pooled"}
  BY DEF ReleaseResult, Release, Goto
<1>2. \A x \in Task : Same(x)
  <2>1. \A x \in Task : x # a => Same(x)
    BY <1>1, StandingStays, Places
  <2>2. a \in Task => Same(a)
    BY <1>1, Places DEF Same, Exclusive, Sharing, Leaving
  <2> QED
    BY <2>1, <2>2
<1>3. /\ \A b \in Agent : b # a => new'[b] = new[b] /\ Asked(b)' = Asked(b)
      /\ Asked(a) = {} /\ Asked(a)' = {}
  BY <1>1, Places DEF Asked
<1>4. \A s, u \in Task : Awaits(u, s)' <=> Awaits(u, s)
  BY <1>1, <1>3, AskedStays DEF gateVars
<1>5. \A s \in Task : state'[s] = "Pending" => state[s] \in {"Pending", "Pooled"}
  BY <1>1
<1> QED
  BY <1>1, <1>2, <1>4, <1>5, QuietStep DEF syncVars, gateVars

LEMMA FinishRanks ==
  ASSUME SyncInv, SyncInv', [Next]_vars, NEW r \in [Task -> Nat], Ranked(r),
         NEW t \in Task, Finish(t)
  PROVE  Ranked(r)'
<1>1. /\ pc[t] = "finish"
      /\ pc' = [a \in Agent |-> IF a = t THEN "none"
                  ELSE IF pc[a] = "inline" /\ new[a] = t THEN "release" ELSE pc[a]]
      /\ UNCHANGED <<syncVars, gateVars, localVars>>
      /\ \A x \in Task : state'[x] \in {state[x], "Pooled"}
  BY DEF Finish, Release
<1>2. \A x \in Task : x # t => Same(x)
  <2> SUFFICES ASSUME NEW x \in Task, x # t PROVE Same(x)
    OBVIOUS
  <2>1. CASE pc'[x] = pc[x]
    BY <2>1, StandingStays
  <2>2. CASE pc[x] = "inline" /\ pc'[x] = "release"
    BY <2>2 DEF Same, Exclusive, Sharing, Leaving
  <2> QED
    BY <1>1, <2>1, <2>2, Places
<1>3. Same(t)
  BY <1>1, Places DEF Same, Exclusive, Sharing, Leaving
<1>4. \A b \in Agent : new'[b] = new[b] /\ Asked(b)' = Asked(b)
  BY <1>1, Places DEF Asked, localVars
<1>5. \A s, u \in Task : Awaits(u, s)' <=> Awaits(u, s)
  BY <1>1, <1>4, AskedStays DEF gateVars
<1>6. \A s \in Task : state'[s] = "Pending" => state[s] \in {"Pending", "Pooled"}
  BY <1>1
<1> QED
  BY <1>1, <1>2, <1>3, <1>5, <1>6, QuietStep DEF syncVars, gateVars

\* Whoever leaves had the lowest rank: those above close up, and an exclusive one
\* leaves no one at its rank.
LEMMA LeavingStep ==
  ASSUME SyncInv, SyncInv', NEW r \in [Task -> Nat], Ranked(r),
         NEW t \in Task, Present(t), pc[t] # "waiting", ~Present(t)',
         \A x \in Task : x # t => Same(x),
         Leaving(t)' \/ state'[t] # "Pending",
         \A s, u \in Task : Awaits(u, s)' => Awaits(u, s),
         \A s, u \in Task : s # t /\ Awaits(u, s) => Awaits(u, s)',
         \A s \in Task : state'[s] = "Pending" => state[s] \in {"Pending", "Pooled"},
         last_task' = last_task \/ (last_task = t /\ last_task' = None),
         shared' = shared \/ (shared' = {} /\ \A x \in Task : Present(x) /\ x # t => Gate(x) \notin shared),
         gate_tag' = gate_tag
  PROVE  Ranked(r)'
<1>1. /\ ~Exclusive(t)' /\ ~Sharing(t)'
      /\ \A x \in Task : x # t => /\ Exclusive(x)' <=> Exclusive(x)
                                  /\ Sharing(x)' <=> Sharing(x)
                                  /\ Present(x)' <=> Present(x)
                                  /\ Leaving(x)' <=> Leaving(x)
      /\ \A x \in Task : Gate(x)' = Gate(x)
      /\ \A x \in Task : Present(x)' => x # t /\ Present(x)
  BY DEF Same, Present, Gate
<1>2. \A s, u \in Task : Present(s)' /\ Present(u)' /\ Behind(u, s) => Behind(u, s)'
  BY <1>1, PresentPendingNext DEF Behind
<1>3. ASSUME NEW s \in Task, NEW u \in Task, Behind(u, s)', Exclusive(u)'
      PROVE  Behind(u, s) /\ (Present(s) \/ Leaving(s) => Present(s)' \/ Leaving(s)')
  <2>1. Awaits(u, s) /\ state[s] \in {"Pending", "Pooled"} /\ state'[s] = "Pending"
    BY <1>3 DEF Behind
  <2>2. Exclusive(u)
    BY <1>1, <1>3
  <2>3. state[s] # "Pooled"
    BY <2>1, <2>2, AwaitsPooled, ExclusiveNotSharing
  <2> QED
    BY <1>1, <2>1, <2>3 DEF Behind
<1>4. last_task \in TaskOrNone /\ None \notin Task
  BY Places
<1>5. ASSUME NEW x \in Task, Present(x)', Gate(x)' \notin shared'
      PROVE  LastPresent' /\ r[x] <= r[last_task']
  <2>1. x # t /\ Present(x) /\ Gate(x) \notin shared
    BY <1>1, <1>5
  <2>2. LastPresent /\ r[x] <= r[last_task] /\ last_task \in Task
    BY <2>1, <1>4 DEF Ranked, LastOnTop, LastPresent, TaskOrNone
  <2>3. last_task # t
    <3> SUFFICES ASSUME last_task = t PROVE FALSE
      OBVIOUS
    <3>1. Exclusive(t) /\ r[x] <= r[t]
      BY <2>2 DEF LastPresent
    <3>2. r[t] < r[x]
      BY <2>1, <3>1, FrontIsAlone
    <3> QED
      BY <3>1, <3>2
  <2>4. last_task' = last_task
    BY <2>3
  <2> QED
    BY <1>1, <1>4, <2>2, <2>3, <2>4 DEF LastPresent
<1>6. LastPresent' => LastPresent /\ last_task' = last_task
  BY <1>1, <1>4 DEF LastPresent, TaskOrNone
<1>7. ASSUME NEW s \in Task, NEW u \in Task, NEW p \in Task,
             Present(s)', Present(u)', Present(p), r[s] < r[u], r[p] + 1 = r[u]
      PROVE  \E q \in Task : Present(q)' /\ r[q] + 1 = r[u]
  <2>1. CASE p # t
    BY <1>1, <1>7, <2>1
  <2>2. CASE p = t
    <3>1. r[t] <= r[s] /\ r[s] \in Nat /\ r[t] \in Nat /\ r[u] \in Nat
      BY <1>1, <1>7, FrontIsLowest
    <3>2. r[s] + 1 = r[u]
      BY <1>7, <2>2, <3>1
    <3> QED
      BY <1>7, <3>2
  <2> QED
    BY <2>1, <2>2
<1>8. \A x \in Task : Gate(x)' \in shared' => Gate(x) \in shared
  BY <1>1
<1>9. \A x \in Task : (Exclusive(x)' => Exclusive(x)) /\ (Sharing(x)' => Sharing(x))
  BY <1>1
<1> QED
  BY <1>2, <1>3, <1>4, <1>5, <1>6, <1>7, <1>8, <1>9, NobodyArrives

LEMMA ReleaseExclusiveRanks ==
  ASSUME SyncInv, SyncInv', [Next]_vars, NEW r \in [Task -> Nat], Ranked(r),
         NEW t \in Task, ReleaseExclusive(t)
  PROVE  Ranked(r)'
<1>1. /\ pc[t] = "clear" \/ pc[t] = "exclusive"
      /\ pc' = [pc EXCEPT ![t] = IF pc[t] = "clear" THEN "finish" ELSE "leave"]
      /\ last_task' = last_task \/ (last_task = t /\ last_task' = None)
      /\ UNCHANGED <<shared, gateVars, localVars>>
      /\ \A x \in Task : state'[x] \in {state[x], "Pooled"}
  BY DEF ReleaseExclusive, AfterRelease, Release, Goto
<1>2. \A x \in Task : x # t => Same(x)
  BY <1>1, StandingStays, Places
<1>3. \A b \in Agent : new'[b] = new[b] /\ Asked(b)' = Asked(b)
  BY <1>1, Places DEF Asked, localVars
<1>4. \A s, u \in Task : Awaits(u, s)' <=> Awaits(u, s)
  BY <1>1, <1>3, AskedStays DEF gateVars
<1>5. \A s \in Task : state'[s] = "Pending" => state[s] \in {"Pending", "Pooled"}
  BY <1>1
<1>6. CASE pc[t] = "clear"
  <2>1. Same(t) /\ ~Exclusive(t) /\ ~Exclusive(t)'
    BY <1>1, <1>6, Places DEF Same, Exclusive, Sharing, Leaving
  <2>2. last_task' = last_task \/ ~(LastPresent \/ LastPresent')
    BY <1>1, <2>1 DEF LastPresent
  <2> QED
    BY <1>1, <1>2, <1>4, <1>5, <2>1, <2>2, QuietStep DEF gateVars
<1>7. CASE pc[t] = "exclusive"
  <2>1. Present(t) /\ ~Present(t)' /\ Leaving(t)'
    BY <1>1, <1>7, Places DEF Present, Exclusive, Sharing, Leaving
  <2> QED
    BY <1>1, <1>2, <1>4, <1>5, <1>7, <2>1, LeavingStep DEF gateVars
<1> QED
  BY <1>1, <1>6, <1>7

\* The last release finds no other member of the collection.
LEMMA LastMember ==
  ASSUME SyncInv, NEW t \in Task, pc[t] = "shared", SameCollection(t),
         released + 1 = Cardinality(shared)
  PROVE  \A x \in Task : Present(x) /\ x # t => Gate(x) \notin shared
<1> SUFFICES ASSUME NEW x \in Task, Present(x), x # t, Gate(x) \in shared PROVE FALSE
  OBVIOUS
<1>1. Sharing(t) /\ Gate(t) \in shared
  BY DEF Sharing, SameCollection, SyncInv, CollectionExact
<1>2. Sharing(x)
  BY DEF SyncInv, CollectionExact, Present, Exclusive, Sharing
<1>3. Gate(x) \in Members /\ Gate(t) \in Members /\ Gate(x) # Gate(t)
  BY <1>1, <1>2 DEF Members, Gate
<1>4. Cardinality({Gate(x), Gate(t)}) = 2
  <2> DEFINE g == Gate(x)
             h == Gate(t)
  <2>1. g # h
    BY <1>3
  <2> HIDE DEF g, h
  <2>2. {g, h} = {g} \cup {h} /\ h \notin {g}
    BY <2>1
  <2>3. IsFiniteSet({g}) /\ Cardinality({g}) = 1
    BY FS_Singleton
  <2>4. Cardinality({g} \cup {h}) = Cardinality({g}) + 1
    BY <2>2, <2>3, FS_AddElement
  <2> QED
    BY <2>2, <2>3, <2>4 DEF g, h
<1>5. Members \in SUBSET TaggedGate /\ {Gate(x), Gate(t)} \subseteq Members
  BY <1>3, Places DEF Members
<1>6. Cardinality({Gate(x), Gate(t)}) <= Cardinality(Members) /\ Cardinality(Members) \in Nat
  BY <1>5, SubsetCounts, FS_Subset
<1>7. Cardinality(Members) + released = Cardinality(shared) /\ released \in Nat
  BY DEF SyncInv, CollectionExact, TypeOK
<1> QED
  BY <1>4, <1>6, <1>7
LEMMA ReleaseSharedRanks ==
  ASSUME SyncInv, SyncInv', [Next]_vars, NEW r \in [Task -> Nat], Ranked(r),
         NEW t \in Task, ReleaseShared(t)
  PROVE  Ranked(r)'
<1>1. /\ pc[t] = "shared" /\ pc' = [pc EXCEPT ![t] = "leaveShared"]
      /\ UNCHANGED <<last_task, gateVars, localVars>>
      /\ \A x \in Task : state'[x] \in {state[x], "Pooled"}
      /\ \/ shared' = shared
         \/ shared' = {} /\ SameCollection(t) /\ released + 1 = Cardinality(shared)
  BY DEF ReleaseShared, ClearShared, Release, Goto
<1>2. \A x \in Task : x # t => Same(x)
  BY <1>1, StandingStays, Places
<1>3. Present(t) /\ ~Present(t)' /\ Leaving(t)'
  BY <1>1, Places DEF Present, Exclusive, Sharing, Leaving
<1>4. \A b \in Agent : new'[b] = new[b] /\ Asked(b)' = Asked(b)
  BY <1>1, Places DEF Asked, localVars
<1>5. \A s, u \in Task : Awaits(u, s)' <=> Awaits(u, s)
  BY <1>1, <1>4, AskedStays DEF gateVars
<1>6. \A s \in Task : state'[s] = "Pending" => state[s] \in {"Pending", "Pooled"}
  BY <1>1
<1>7. \/ shared' = shared
      \/ shared' = {} /\ \A x \in Task : Present(x) /\ x # t => Gate(x) \notin shared
  BY <1>1, LastMember
<1> QED
  BY <1>1, <1>2, <1>3, <1>5, <1>6, <1>7, LeavingStep DEF gateVars

\* Who is woken keeps its standing, and asks for no gate.
LEMMA UnblockAwaits ==
  ASSUME SyncInv, [Next]_vars, NEW t \in Task, NEW label, NEW new_state,
         UnblockDependents(t, new_state), Wake(t, label), UNCHANGED localVars,
         pc[t] \notin {"addref", "replaced", "handle", "add"},
         label \notin {"addref", "replaced", "handle", "add"}
  PROVE  /\ \A x \in Task : x # t => Same(x)
         /\ \A b \in Agent : Asked(b)' = Asked(b) /\ new'[b] = new[b]
         /\ dependents' = [dependents EXCEPT ![t] = {}]
<1>1. \A x \in Task : x # t =>
        pc'[x] = pc[x] \/ (pc[x] = "waiting" /\ pc'[x] = "ready")
  BY WakesWaiting, NoGates
<1>2. \A x \in Task : x # t => Same(x)
  BY <1>1, StandingStays
<1>3. pc'[t] = label /\ \A b \in Agent : b # t =>
        pc'[b] = pc[b] \/ (pc[b] = "waiting" /\ pc'[b] = "ready")
  BY <1>1, WakesWaiting
<1>4. \A b \in Agent : Asked(b)' = Asked(b) /\ new'[b] = new[b]
  BY <1>3 DEF Asked, localVars
<1> QED
  BY <1>2, <1>4 DEF UnblockDependents

LEMMA EndFunctionRanks ==
  ASSUME SyncInv, SyncInv', [Next]_vars, NEW r \in [Task -> Nat], Ranked(r),
         NEW t \in Task, EndFunction(t)
  PROVE  Ranked(r)'
<1> DEFINE label == IF InPlainTask(t) THEN "clear" ELSE "finish"
<1>1. /\ pc[t] = "body" \/ InPlainTask(t)
      /\ UnblockDependents(t, "Done") /\ Wake(t, label)
      /\ UNCHANGED <<syncVars, gate_tag, localVars>>
  BY DEF EndFunction
<1>2. /\ \A x \in Task : x # t => Same(x)
      /\ \A b \in Agent : Asked(b)' = Asked(b) /\ new'[b] = new[b]
      /\ dependents' = [dependents EXCEPT ![t] = {}]
  BY <1>1, UnblockAwaits DEF InPlainTask
<1>3. pc'[t] = label
  BY <1>1, WakesWaiting
<1>4. /\ \A s, u \in Task : Awaits(u, s)' => Awaits(u, s)
      /\ \A s, u \in Task : s # t /\ Awaits(u, s) => Awaits(u, s)'
  BY <1>1, <1>2, Places DEF Awaits, Gate
<1>5. state'[t] = "Done" /\ \A s \in Task : state'[s] = "Pending" => state[s] \in {"Pending", "Pooled"}
  BY <1>1 DEF UnblockDependents
<1>6. CASE pc[t] = "body"
  <2>1. Same(t) /\ ~Present(t)
    BY <1>3, <1>6 DEF Same, Exclusive, Sharing, Leaving, InPlainTask, Present
  <2> QED
    BY <1>1, <1>2, <1>4, <1>5, <2>1, QuietStep DEF syncVars
<1>7. CASE InPlainTask(t)
  <2>1. Present(t) /\ ~Present(t)' /\ pc[t] # "waiting"
    BY <1>3, <1>7 DEF Exclusive, Sharing, InPlainTask, Present
  <2> QED
    BY <1>1, <1>2, <1>4, <1>5, <2>1, LeavingStep DEF syncVars
<1> QED
  BY <1>1, <1>6, <1>7

\* The gate of a scope that is left has a tag nobody has read.
LEMMA NewTagUnread ==
  ASSUME Accesses < TagMod, SyncInv, NEW t \in Task, pc[t] \in {"leave", "leaveShared"}
  PROVE  LET g == [task |-> t, tag |-> Bump(gate_tag[t])]
         IN  g \notin shared /\ \A a \in Agent : g \notin Asked(a)
<1> DEFINE g == [task |-> t, tag |-> Bump(gate_tag[t])]
<1>1. gate_tag[t] \in Nat /\ g.task = t /\ g.tag = gate_tag[t] + 1
  BY GateBumps
<1>2. ~(g.tag <= gate_tag[t])
  BY <1>1
<1>3. g \notin shared
  BY <1>1, <1>2 DEF SyncInv, TagsRead
<1>4. ASSUME NEW a \in Agent PROVE g \notin Asked(a)
  <2>1. g \notin result[a] /\ todo[a] \subseteq result[a]
    BY <1>1, <1>2 DEF SyncInv, TagsRead, LocalsFollowPc
  <2>2. g # previous[a]
    BY <1>1, <1>2, Places DEF SyncInv, TagsRead
  <2> HIDE DEF g
  <2> QED
    BY <2>1, <2>2 DEF Asked
<1> QED
  BY <1>3, <1>4

LEMMA LeaveScopeRanks ==
  ASSUME Accesses < TagMod, SyncInv, SyncInv', [Next]_vars, NEW r \in [Task -> Nat], Ranked(r),
         NEW t \in Task, LeaveScope(t)
  PROVE  Ranked(r)'
<1>1. /\ pc[t] \in {"leave", "leaveShared"}
      /\ UNCHANGED <<syncVars, localVars>>
  BY DEF LeaveScope
<1>2. CASE UNCHANGED <<pc, gateVars, state>>
  <2>1. \A x \in Task : Same(x)
    BY <1>2, StandingStays
  <2>2. \A b \in Agent : new'[b] = new[b] /\ Asked(b)' = Asked(b)
    BY <1>1, <1>2 DEF Asked, localVars
  <2>3. \A s, u \in Task : Awaits(u, s)' <=> Awaits(u, s)
    BY <1>2, <2>2, AskedStays DEF gateVars
  <2> QED
    BY <1>1, <1>2, <2>1, <2>3, QuietStep, Places DEF syncVars, gateVars
<1>3. CASE /\ UnblockDependents(t, "Pending") /\ Wake(t, "body")
           /\ gate_tag' = [gate_tag EXCEPT ![t] = Bump(@)]
  <2>1. /\ \A x \in Task : x # t => Same(x)
        /\ \A b \in Agent : Asked(b)' = Asked(b) /\ new'[b] = new[b]
        /\ dependents' = [dependents EXCEPT ![t] = {}]
    BY <1>1, <1>3, UnblockAwaits
  <2>2. pc'[t] = "body"
    BY <1>3, WakesWaiting
  <2>3. ~Present(t) /\ ~Present(t)' /\ ~Exclusive(t)'
    BY <1>1, <2>2 DEF Exclusive, Sharing, Present
  <2>4. \A x \in Task : /\ Exclusive(x)' <=> Exclusive(x)
                        /\ Sharing(x)' <=> Sharing(x)
                        /\ Present(x)' <=> Present(x)
    BY <2>1, <2>3 DEF Same, Present
  <2>5. /\ \A x \in Task : x # t => Gate(x)' = Gate(x) /\ (Leaving(x)' <=> Leaving(x))
        /\ Gate(t)' = [task |-> t, tag |-> Bump(gate_tag[t])]
    BY <1>3, <2>1, Places DEF Gate, Same
  <2>6. Gate(t)' \notin shared /\ \A a \in Agent : Gate(t)' \notin Asked(a)
    BY <1>1, <2>5, NewTagUnread
  <2>7. \A u \in Task : ~Awaits(u, t)'
    BY <2>1, <2>6, Places DEF Awaits
  <2>8. \A s, u \in Task : s # t => (Awaits(u, s)' <=> Awaits(u, s))
    BY <2>1, <2>5, Places DEF Awaits
  <2>9. \A s \in Task : state'[s] = "Pending" => state[s] \in {"Pending", "Pooled"} \/ s = t
    BY <1>3 DEF UnblockDependents
  <2>10. \A s, u \in Task : Present(s)' /\ Present(u)' /\ Behind(u, s) => Behind(u, s)'
    BY <2>3, <2>8, PresentPendingNext DEF Behind
  <2>11. ASSUME NEW s \in Task, NEW u \in Task, Behind(u, s)', Exclusive(u)'
         PROVE  Behind(u, s) /\ (Present(s) \/ Leaving(s) => Present(s)' \/ Leaving(s)')
    <3>1. s # t /\ Awaits(u, s) /\ state[s] \in {"Pending", "Pooled"} /\ Exclusive(u)
      BY <2>4, <2>7, <2>8, <2>9, <2>11 DEF Behind
    <3>2. state[s] # "Pooled"
      BY <3>1, AwaitsPooled, ExclusiveNotSharing
    <3> QED
      BY <2>4, <2>5, <3>1, <3>2 DEF Behind
  <2>12. last_task \in TaskOrNone /\ last_task' = last_task /\ shared' = shared
    BY <1>1, Places DEF syncVars
  <2>13. LastPresent' <=> LastPresent
    BY <2>4, <2>12 DEF LastPresent, TaskOrNone
  <2>14. \A x \in Task : Gate(x)' \in shared' => Gate(x) \in shared
    BY <2>5, <2>6, <2>12
  <2>15. \A x \in Task : Present(x)' /\ Gate(x)' \notin shared' => LastPresent' /\ r[x] <= r[last_task']
    BY <2>3, <2>4, <2>5, <2>12, <2>13 DEF Ranked, LastOnTop
  <2>16. LastPresent' => LastPresent /\ last_task' = last_task
    BY <2>12, <2>13
  <2> QED
    BY <2>4, <2>10, <2>11, <2>12, <2>14, <2>15, <2>16, NobodyArrives
<1> QED
  BY <1>2, <1>3 DEF LeaveScope
-----------------------------------------------------------------------------
(* Steps in which a request arrives. *)

\* The collection has the highest rank, and the last task the one below.
LEMMA TopOfCollection ==
  ASSUME SyncInv, LastSane, NEW r \in [Task -> Nat], Ranked(r),
         NEW m \in Task, Gate(m) \in shared, Sharing(m)
  PROVE  \A s \in Task :
           /\ Present(s) \/ Gate(s) \in shared => r[s] <= r[m]
           /\ Gate(s) \in shared => r[s] = r[m]
           /\ Present(s) /\ r[s] = r[m] => Gate(s) \in shared /\ Sharing(s)
           /\ Present(s) /\ r[s] + 1 = r[m] => s = last_task /\ Gate(s) = Word
<1> SUFFICES ASSUME NEW s \in Task
             PROVE  /\ Present(s) \/ Gate(s) \in shared => r[s] <= r[m]
                    /\ Gate(s) \in shared => r[s] = r[m]
                    /\ Present(s) /\ r[s] = r[m] => Gate(s) \in shared /\ Sharing(s)
                    /\ Present(s) /\ r[s] + 1 = r[m] => s = last_task /\ Gate(s) = Word
  OBVIOUS
<1>1. Present(m)
  BY DEF Present
<1>2. /\ Present(s) \/ Gate(s) \in shared => r[s] <= r[m]
      /\ Gate(s) \in shared => r[m] <= r[s]
      /\ LastPresent => r[m] = r[last_task] + 1
  BY <1>1 DEF Ranked, CollectionOnTop
<1>3. Present(s) /\ Gate(s) \notin shared => LastPresent /\ r[s] <= r[last_task]
  BY DEF Ranked, LastOnTop
<1>4. LastPresent => last_task \in Task /\ Present(last_task) /\ Gate(last_task) = Word
  BY Places DEF LastPresent, LastSane, Present, Exclusive, Gate, Word, TaskOrNone
<1>5. Present(s) /\ r[s] = r[m] => Gate(s) \in shared
  BY <1>2, <1>3, <1>4
<1>6. Present(s) /\ r[s] = r[m] => Sharing(s)
  BY <1>1 DEF Ranked, RanksInOrder
<1>7. ASSUME Present(s), r[s] + 1 = r[m] PROVE s = last_task /\ Gate(s) = Word
  <2>1. LastPresent /\ r[s] = r[last_task]
    BY <1>2, <1>3, <1>4, <1>7
  <2>2. s = last_task
    BY <1>4, <1>7, <2>1, ExclusiveNotSharing DEF Ranked, RanksInOrder, LastPresent
  <2> QED
    BY <1>4, <2>1, <2>2
<1> QED
  BY <1>2, <1>5, <1>6, <1>7

\* Without a collection the last task is on top, and no one without it.
LEMMA TopWithoutCollection ==
  ASSUME SyncInv, LastSane, NEW r \in [Task -> Nat], Ranked(r), shared = {},
         NEW s \in Task, Present(s)
  PROVE  /\ LastPresent /\ last_task \in Task /\ Present(last_task)
         /\ r[s] <= r[last_task]
         /\ r[s] = r[last_task] => s = last_task /\ Gate(s) = Word
<1>1. LastPresent /\ r[s] <= r[last_task]
  BY DEF Ranked, LastOnTop
<1>2. last_task \in Task /\ Present(last_task) /\ Gate(last_task) = Word
  BY <1>1, Places DEF LastPresent, LastSane, Present, Exclusive, Gate, Word, TaskOrNone
<1>3. r[s] = r[last_task] => s = last_task
  BY <1>1, <1>2, ExclusiveNotSharing DEF Ranked, RanksInOrder, LastPresent
<1> QED
  BY <1>1, <1>2, <1>3

LEMMA SomeMember ==
  ASSUME SyncInv, shared # {}
  PROVE  \E m \in Task : Gate(m) \in shared /\ Sharing(m)
<1>1. PICK g \in Members : TRUE
  BY DEF SyncInv, CollectionExact
<1> QED
  BY <1>1, Places DEF Members, TaggedGate

\* A newcomer on top of those it is behind.
LEMMA ArrivingStep ==
  ASSUME SyncInv, SyncInv', NEW r \in [Task -> Nat], Ranked(r),
         NEW u \in Task, ~Present(u), NEW h \in [Task -> Nat],
         \A x \in Task : x # u => h[x] = r[x] /\ Same(x) /\ state'[x] = state[x],
         \A s, w \in Task : s # u /\ w # u => (Awaits(w, s)' <=> Awaits(w, s)),
         \A w \in Task : Exclusive(w)' => ~Behind(w, u)',
         \A s \in Task : Behind(u, s)' /\ Exclusive(u)' =>
           (Present(s) \/ Leaving(s)) /\ h[u] = r[s] + 1,
         \A s \in Task : Present(s) =>
           /\ r[s] <= h[u]
           /\ h[u] = r[s] + 1 => Behind(u, s)'
           /\ r[s] < h[u] => \E p \in Task : Present(p) /\ r[p] + 1 = h[u]
           /\ r[s] = h[u] => Sharing(s) /\ Sharing(u)'
  PROVE  RanksInOrder(h)' /\ BehindRankBelow(h)'
<1>1. \A x \in Task : x # u => /\ Exclusive(x)' <=> Exclusive(x)
                               /\ Sharing(x)' <=> Sharing(x)
                               /\ Present(x)' <=> Present(x)
                               /\ Leaving(x)' <=> Leaving(x)
  BY DEF Same, Present
<1>2. \A s, w \in Task : s # u /\ w # u => (Behind(w, s)' <=> Behind(w, s))
  BY DEF Behind
<1>3. BehindRankBelow(h)'
  <2> SUFFICES ASSUME NEW s \in Task, NEW w \in Task, Behind(w, s)', Exclusive(w)'
               PROVE  (Present(s)' \/ Leaving(s)') /\ h[w] = h[s] + 1
    BY DEF BehindRankBelow
  <2>1. s # u
    OBVIOUS
  <2>2. CASE w = u
    BY <1>1, <2>1, <2>2
  <2>3. CASE w # u
    <3>1. Behind(w, s) /\ Exclusive(w)
      BY <1>1, <1>2, <2>1, <2>3
    <3>2. (Present(s) \/ Leaving(s)) /\ r[w] = r[s] + 1
      BY <3>1 DEF Ranked, BehindRankBelow
    <3> QED
      BY <1>1, <2>1, <2>3, <3>2
  <2> QED
    BY <2>2, <2>3
<1>4. RanksInOrder(h)'
  <2> SUFFICES ASSUME NEW s \in Task, NEW w \in Task, Present(s)', Present(w)'
               PROVE  /\ h[w] = h[s] + 1 => Behind(w, s)'
                      /\ h[s] < h[w] => \E p \in Task : Present(p)' /\ h[p] + 1 = h[w]
                      /\ h[w] = h[s] /\ w # s => Sharing(w)' /\ Sharing(s)'
    BY DEF RanksInOrder
  <2>0. h[s] \in Nat /\ h[w] \in Nat /\ r[s] \in Nat /\ r[w] \in Nat
    OBVIOUS
  <2>1. CASE s # u /\ w # u
    <3>1. Present(s) /\ Present(w) /\ h[s] = r[s] /\ h[w] = r[w]
      BY <1>1, <2>1
    <3>2. /\ r[w] = r[s] + 1 => Behind(w, s)
          /\ r[s] < r[w] => \E p \in Task : Present(p) /\ r[p] + 1 = r[w]
          /\ r[w] = r[s] /\ w # s => Sharing(w) /\ Sharing(s)
      BY <3>1 DEF Ranked, RanksInOrder
    <3>3. \A p \in Task : Present(p) => Present(p)' /\ h[p] = r[p]
      BY <1>1
    <3> QED
      BY <1>1, <1>2, <2>1, <3>1, <3>2, <3>3
  <2>2. CASE s # u /\ w = u
    <3>1. Present(s) /\ h[s] = r[s]
      BY <1>1, <2>2
    <3>2. \A p \in Task : Present(p) => Present(p)' /\ h[p] = r[p]
      BY <1>1
    <3> QED
      BY <1>1, <2>2, <3>1, <3>2
  <2>3. CASE s = u /\ w # u
    <3>1. Present(w) /\ h[w] = r[w] /\ r[w] <= h[u]
      BY <1>1, <2>3
    <3>2. h[w] # h[s] + 1 /\ ~(h[s] < h[w])
      BY <2>0, <2>3, <3>1
    <3> QED
      BY <1>1, <2>3, <3>1, <3>2
  <2>4. CASE s = u /\ w = u
    BY <2>0, <2>4
  <2> QED
    BY <2>1, <2>2, <2>3, <2>4
<1> QED
  BY <1>3, <1>4

LEMMA ArrivingCreatesNothing ==
  ASSUME SyncInv, SyncInv', [Next]_vars, NEW t \in Task, pc[t] = "body",
         NEW label \in {"exclusive", "shared"}, pc' = [pc EXCEPT ![t] = label],
         coroutine[t] # None, UNCHANGED <<state, gateVars, localVars, coroutine>>
  PROVE  /\ ~Present(t)
         /\ label = "exclusive" <=> Exclusive(t)'
         /\ label = "shared" <=> Sharing(t)'
         /\ \A x \in Task : x # t => Same(x) /\ state'[x] = state[x]
         /\ \A s, w \in Task : Awaits(w, s)' <=> Awaits(w, s)
         /\ \A s \in Task : ~Behind(t, s)'
<1>1. pc'[t] = label
  BY Places
<1>2. \A x \in Task : x # t => Same(x)
  BY StandingStays, Places
<1>3. \A b \in Agent : new'[b] = new[b] /\ Asked(b)' = Asked(b)
  BY Places DEF Asked, localVars
<1>4. \A s, w \in Task : Awaits(w, s)' <=> Awaits(w, s)
  BY <1>3, AskedStays DEF gateVars
<1>5. \A s \in Task : ~Behind(t, s)'
  BY <1>1, AwaitingWaitsNext DEF Behind
<1> QED
  BY <1>1, <1>2, <1>4, <1>5 DEF Present, Exclusive, Sharing

\* The resource is available when no one is present.
LEMMA TryExclusiveRanks ==
  ASSUME SyncInv, SyncInv', [Next]_vars, NEW r \in [Task -> Nat], Ranked(r),
         NEW t \in Task, TryExclusive(t)
  PROVE  \E h \in [Task -> Nat] : Ranked(h)'
<1>1. pc[t] = "body" /\ coroutine[t] # None
  BY DEF TryExclusive, Request, User, Agent
<1>2. CASE ~ExclusiveAvailable
  <2>1. Suspend(t, "exclusive") /\ UNCHANGED <<last_task, shared, state, gateVars, localVars>>
    BY <1>2 DEF TryExclusive
  <2>2. Ranked(r)'
    BY <1>1, <2>1, SuspendRanks
  <2> QED
    BY <2>2
<1>3. CASE ExclusiveAvailable
  <2>1. /\ last_task = None /\ last_task' = t /\ shared = {} /\ shared' = {}
        /\ pc' = [pc EXCEPT ![t] = "exclusive"]
        /\ UNCHANGED <<state, gateVars, localVars, coroutine>>
    BY <1>3 DEF TryExclusive, ExclusiveAvailable, Goto
  <2>2. /\ ~Present(t) /\ Exclusive(t)'
        /\ \A x \in Task : x # t => Same(x) /\ state'[x] = state[x]
        /\ \A s, w \in Task : Awaits(w, s)' <=> Awaits(w, s)
        /\ \A s \in Task : ~Behind(t, s)'
    BY <1>1, <2>1, ArrivingCreatesNothing
  <2>3. \A x \in Task : ~Present(x)
    BY <2>1 DEF Ranked, LastOnTop, LastPresent
  <2>4. \A x \in Task : x # t => ~Present(x)' /\ ~Exclusive(x)'
    BY <2>2, <2>3 DEF Same, Present
  <2>5. \A w \in Task : Exclusive(w)' => ~Behind(w, t)'
    BY <2>2, <2>4
  <2>6. RanksInOrder(r)' /\ BehindRankBelow(r)'
    BY <2>2, <2>3, <2>5, ArrivingStep
  <2>7. CollectionOnTop(r)'
    BY <2>1 DEF CollectionOnTop
  <2>8. LastPresent'
    BY <2>1, <2>2, Places DEF LastPresent
  <2>9. LastOnTop(r)'
    BY <2>1, <2>4, <2>8 DEF LastOnTop
  <2> QED
    BY <2>6, <2>7, <2>9 DEF Ranked
<1> QED
  BY <1>2, <1>3

\* Without a last task everyone who is present is in the collection.
LEMMA TrySharedRanks ==
  ASSUME SyncInv, LastSane, SyncInv', [Next]_vars, NEW r \in [Task -> Nat], Ranked(r),
         NEW t \in Task, TryShared(t)
  PROVE  \E h \in [Task -> Nat] : Ranked(h)'
<1>1. pc[t] = "body" /\ coroutine[t] # None
  BY DEF TryShared, Request, User, Agent
<1>2. CASE last_task # None
  <2>1. Suspend(t, "shared") /\ UNCHANGED <<last_task, shared, state, gateVars, localVars>>
    BY <1>2 DEF TryShared
  <2>2. Ranked(r)'
    BY <1>1, <2>1, SuspendRanks
  <2> QED
    BY <2>2
<1>3. CASE last_task = None
  <2>1. /\ last_task' = None /\ shared' = shared \cup {Gate(t)}
        /\ pc' = [pc EXCEPT ![t] = "shared"]
        /\ UNCHANGED <<state, gateVars, localVars, coroutine>>
    BY <1>3 DEF TryShared, Goto
  <2>2. /\ ~Present(t) /\ Sharing(t)' /\ ~Exclusive(t)'
        /\ \A x \in Task : x # t => Same(x) /\ state'[x] = state[x]
        /\ \A s, w \in Task : Awaits(w, s)' <=> Awaits(w, s)
        /\ \A s \in Task : ~Behind(t, s)'
    BY <1>1, <2>1, ArrivingCreatesNothing
  <2>3. ~LastPresent /\ ~LastPresent'
    BY <1>3, <2>1 DEF LastPresent
  <2>4. \A x \in Task : Present(x) => Gate(x) \in shared /\ Sharing(x) /\ ~Exclusive(x)
    <3> SUFFICES ASSUME NEW x \in Task, Present(x)
                 PROVE  Gate(x) \in shared /\ Sharing(x) /\ ~Exclusive(x)
      OBVIOUS
    <3>1. Gate(x) \in shared
      BY <2>3 DEF Ranked, LastOnTop
    <3>2. Sharing(x) \/ pc[x] = "leaveShared"
      BY <3>1 DEF SyncInv, CollectionExact
    <3> QED
      BY <3>1, <3>2, ExclusiveNotSharing DEF Present, Exclusive, Sharing
  <2>5. \A x \in Task : /\ Gate(x)' = Gate(x)
                        /\ x # t => /\ Present(x)' <=> Present(x)
                                    /\ Exclusive(x)' <=> Exclusive(x)
    BY <2>1, <2>2 DEF Same, Present, Gate, gateVars
  <2>6. \A w \in Task : Exclusive(w)' => ~Behind(w, t)'
    BY <2>2, <2>4, <2>5 DEF Present
  <2>7. \A x \in Task : Gate(x)' \in shared' => x = t \/ Gate(x) \in shared
    BY <2>1, <2>5 DEF Gate
  <2>8. \A h \in [Task -> Nat] : LastOnTop(h)'
    BY <2>1, <2>2, <2>4, <2>5 DEF LastOnTop
  <2>9. CASE shared = {}
    <3>1. \A x \in Task : ~Present(x)
      BY <2>4, <2>9
    <3>2. RanksInOrder(r)' /\ BehindRankBelow(r)'
      BY <2>2, <2>6, <3>1, ArrivingStep
    <3>3. CollectionOnTop(r)'
      BY <2>3, <2>5, <2>7, <2>9, <3>1 DEF CollectionOnTop
    <3> QED
      BY <2>8, <3>2, <3>3 DEF Ranked
  <2>10. CASE shared # {}
    <3>1. PICK m \in Task : Gate(m) \in shared /\ Sharing(m)
      BY <2>10, SomeMember
    <3>2. \A s \in Task : Gate(s) \in shared => r[s] = r[m]
      BY <3>1, TopOfCollection
    <3> DEFINE h == [r EXCEPT ![t] = r[m]]
    <3>3. h \in [Task -> Nat] /\ h[t] = r[m] /\ r[m] \in Nat /\ \A x \in Task : x # t => h[x] = r[x]
      OBVIOUS
    <3> HIDE DEF h
    <3>4. \A s \in Task : Present(s) => r[s] = r[m] /\ Sharing(s)
      BY <2>4, <3>2
    <3>5. \A s \in Task : Present(s) =>
            /\ r[s] <= h[t]
            /\ h[t] = r[s] + 1 => Behind(t, s)'
            /\ r[s] < h[t] => \E p \in Task : Present(p) /\ r[p] + 1 = h[t]
            /\ r[s] = h[t] => Sharing(s) /\ Sharing(t)'
      BY <2>2, <3>3, <3>4
    <3>6. RanksInOrder(h)' /\ BehindRankBelow(h)'
      BY <2>2, <2>6, <3>3, <3>5, ArrivingStep
    <3>7. \A s \in Task : Present(s)' \/ Gate(s)' \in shared' => h[s] = r[m]
      BY <2>4, <2>5, <2>7, <3>2, <3>3
    <3>8. CollectionOnTop(h)'
      BY <2>3, <3>3, <3>7 DEF CollectionOnTop
    <3> QED
      BY <2>8, <3>3, <3>6, <3>8 DEF Ranked
  <2> QED
    BY <2>9, <2>10
<1> QED
  BY <1>2, <1>3

\* The creation of u by a, and what it leaves as it was.
Queues(a, u) ==
  /\ ~Present(u) /\ pc[u] = "none" /\ state'[u] = "Pending"
  /\ pc'[u] = "waiting" /\ new'[a] = u
  /\ last_task # u /\ \A g \in shared : g.task # u
  /\ \A x \in Task : x # u => Same(x) /\ state'[x] = state[x]
  /\ \A x \in Task : Gate(x)' = Gate(x)
  /\ \A s, w \in Task : w # u => (Awaits(w, s)' <=> Awaits(w, s))
  /\ \A s \in Task : Awaits(u, s)' <=> Gate(s) \in Asked(a)'
  /\ \A w \in Task : w # u /\ Exclusive(w)' => ~Behind(w, u)'

\* A new task queues: it asks for the gates that its creator a got as a result.
LEMMA QueueingStanding ==
  ASSUME SyncInv, SyncInv', [Next]_vars, NEW a \in Agent, pc[a] \in {"body", "suspend"},
         NEW u \in Task, CreateTask(a, u), UNCHANGED gateVars, UNCHANGED todo,
         NEW label \in {"addref", "replaced", "handle"},
         pc' = [pc EXCEPT ![a] = label, ![u] = "waiting"],
         \A b \in Agent : b # a => result'[b] = result[b] /\ previous'[b] = previous[b]
  PROVE  Queues(a, u) /\ pc'[a] = label
<1>1. /\ state[u] = "Pooled" /\ pc[u] = "none" /\ u # a
      /\ state' = [state EXCEPT ![u] = "Pending"] /\ new' = [new EXCEPT ![a] = u]
  BY Places DEF CreateTask
<1>2. /\ pc'[a] = label /\ pc'[u] = "waiting" /\ new'[a] = u
      /\ state'[u] = "Pending" /\ \A x \in Task : x # u => state'[x] = state[x]
      /\ \A b \in Agent : b \notin {a, u} => pc'[b] = pc[b]
      /\ \A b \in Agent : b # a => new'[b] = new[b]
  BY <1>1, Places
<1>3. ~Present(u)
  BY <1>1 DEF Present, Exclusive, Sharing
<1>4. \A x \in Task : x # u => Same(x)
  <2>1. \A x \in Task : x \notin {a, u} => Same(x)
    BY <1>2, StandingStays, Places
  <2>2. a \in Task => Same(a)
    BY <1>2 DEF Same, Exclusive, Sharing, Leaving
  <2> QED
    BY <2>1, <2>2
<1>5. \A x \in Task : Gate(x)' = Gate(x)
  BY DEF Gate, gateVars
<1>6. \A b \in Agent : b # a => Asked(b)' = Asked(b)
  BY <1>1, <1>2 DEF Asked
<1>7. Asked(a) = {}
  BY DEF Asked
<1>8. /\ last_task # u /\ \A g \in shared : g.task # u
      /\ \A b \in Agent : new[b] # u
      /\ \A p \in Task : u \notin dependents[p]
  BY <1>1 DEF SyncInv, PooledUnreferenced
<1>9. \A s, w \in Task : w # u => (Awaits(w, s)' <=> Awaits(w, s))
  BY <1>2, <1>5, <1>6, <1>7 DEF Awaits, gateVars
<1>10. \A s \in Task : Awaits(u, s)' <=> Gate(s) \in Asked(a)'
  BY <1>2, <1>5, <1>8 DEF Awaits, gateVars
<1>11. ASSUME NEW w \in Task, w # u, Exclusive(w)' PROVE ~Behind(w, u)'
  <2>1. Exclusive(w)
    BY <1>4, <1>11 DEF Same
  <2>2. ~Awaits(w, u)
    BY <1>1, <2>1, AwaitsPooled, ExclusiveNotSharing
  <2> QED
    BY <1>9, <1>11, <2>2 DEF Behind
<1> QED
  BY <1>1, <1>2, <1>3, <1>4, <1>5, <1>8, <1>9, <1>10, <1>11 DEF Queues

\* An exclusive request goes on top: of the collection, or else of the last task.
LEMMA SyncExclusiveRanks ==
  ASSUME SyncInv, LastSane, SyncInv', [Next]_vars, NEW r \in [Task -> Nat], Ranked(r),
         NEW a \in Agent, pc[a] \in {"body", "suspend"}, NEW u \in Task, SyncExclusive(a, u),
         Exclusive(u)'
  PROVE  \E h \in [Task -> Nat] : Ranked(h)'
<1>1. /\ CreateTask(a, u) /\ UNCHANGED gateVars /\ UNCHANGED todo /\ UNCHANGED previous
      /\ last_task' = u /\ result' = [result EXCEPT ![a] = WaitsFor] /\ shared' = {}
      /\ \E label \in {"replaced", "handle"} : pc' = [pc EXCEPT ![a] = label, ![u] = "waiting"]
  BY DEF SyncExclusive, ClearShared
<1>2. /\ ~Present(u) /\ pc[u] = "none" /\ state'[u] = "Pending"
      /\ pc'[a] \in {"replaced", "handle"}
      /\ last_task # u /\ \A g \in shared : g.task # u
      /\ \A x \in Task : x # u => Same(x) /\ state'[x] = state[x]
      /\ \A x \in Task : Gate(x)' = Gate(x)
      /\ \A s, w \in Task : w # u => (Awaits(w, s)' <=> Awaits(w, s))
      /\ \A s \in Task : Awaits(u, s)' <=> Gate(s) \in Asked(a)'
      /\ \A w \in Task : w # u /\ Exclusive(w)' => ~Behind(w, u)'
  <2>1. PICK label \in {"replaced", "handle"} : pc' = [pc EXCEPT ![a] = label, ![u] = "waiting"]
    BY <1>1
  <2>2. \A b \in Agent : b # a => result'[b] = result[b] /\ previous'[b] = previous[b]
    BY <1>1, Places
  <2>3. label \in {"addref", "replaced", "handle"}
    OBVIOUS
  <2>4. Queues(a, u) /\ pc'[a] = label
    BY <1>1, <2>1, <2>2, <2>3, QueueingStanding
  <2> QED
    BY <2>4 DEF Queues
<1>3. Asked(a)' = WaitsFor
  BY <1>1, <1>2, Places DEF Asked
<1>4. \A s \in Task : Awaits(u, s)' <=> Gate(s) \in WaitsFor
  BY <1>2, <1>3
<1>5. ~Awaits(u, u)'
  BY <1>2, <1>4 DEF WaitsFor, Gate
<1>6. \A w \in Task : Exclusive(w)' => ~Behind(w, u)'
  BY <1>2, <1>5 DEF Behind
<1>7. \A x \in Task : x # u => (Present(x)' <=> Present(x))
  BY <1>2 DEF Same, Present
<1>8. LastPresent'
  BY <1>1, Places DEF LastPresent
<1>9. \A h \in [Task -> Nat] : CollectionOnTop(h)'
  BY <1>1 DEF CollectionOnTop
<1>10. ASSUME NEW h \in [Task -> Nat],
              \A x \in Task : x # u => h[x] = r[x],
              \A s \in Task : Behind(u, s)' => (Present(s) \/ Leaving(s)) /\ h[u] = r[s] + 1,
              \A s \in Task : Present(s) =>
                /\ r[s] < h[u]
                /\ h[u] = r[s] + 1 => Gate(s) \in WaitsFor
                /\ \E p \in Task : Present(p) /\ r[p] + 1 = h[u]
       PROVE  Ranked(h)'
  <2>1. \A s \in Task : Present(s) => s # u /\ state'[s] = "Pending"
    BY <1>2, PresentPending
  <2>2. \A s \in Task : Present(s) =>
          /\ r[s] <= h[u]
          /\ h[u] = r[s] + 1 => Behind(u, s)'
          /\ r[s] < h[u] => \E p \in Task : Present(p) /\ r[p] + 1 = h[u]
          /\ r[s] = h[u] => Sharing(s) /\ Sharing(u)'
    <3> SUFFICES ASSUME NEW s \in Task, Present(s)
                 PROVE  /\ r[s] <= h[u]
                        /\ h[u] = r[s] + 1 => Behind(u, s)'
                        /\ \E p \in Task : Present(p) /\ r[p] + 1 = h[u]
                        /\ r[s] # h[u]
      OBVIOUS
    <3>1. r[s] < h[u] /\ r[s] \in Nat /\ h[u] \in Nat
      BY <1>10
    <3>2. h[u] = r[s] + 1 => Behind(u, s)'
      BY <1>4, <1>10, <2>1 DEF Behind
    <3>3. \E p \in Task : Present(p) /\ r[p] + 1 = h[u]
      BY <1>10
    <3> QED
      BY <3>1, <3>2, <3>3
  <2>3. RanksInOrder(h)' /\ BehindRankBelow(h)'
    BY <1>2, <1>6, <1>10, <2>2, ArrivingStep
  <2>4. LastOnTop(h)'
    <3> SUFFICES ASSUME NEW x \in Task, Present(x)' PROVE h[x] <= h[u]
      BY <1>1, <1>8 DEF LastOnTop
    <3>1. CASE x = u
      BY <3>1
    <3>2. CASE x # u
      <4>1. Present(x) /\ h[x] = r[x]
        BY <1>7, <1>10, <3>2
      <4>2. r[x] <= h[u]
        BY <2>2, <4>1
      <4> QED
        BY <4>1, <4>2
    <3> QED
      BY <3>1, <3>2
  <2> QED
    BY <1>9, <2>3, <2>4 DEF Ranked
<1>11. CASE shared # {}
  <2>1. PICK m \in Task : Gate(m) \in shared /\ Sharing(m)
    BY <1>11, SomeMember
  <2>2. /\ WaitsFor = shared /\ Present(m)
        /\ \A s \in Task : /\ Present(s) => r[s] <= r[m]
                           /\ Gate(s) \in shared => r[s] = r[m]
                           /\ Present(s) /\ r[s] = r[m] => Gate(s) \in shared
    BY <1>11, <2>1, TopOfCollection DEF WaitsFor, Present
  <2> DEFINE h == [r EXCEPT ![u] = r[m] + 1]
  <2>3. h \in [Task -> Nat] /\ h[u] = r[m] + 1 /\ r[m] \in Nat /\ \A x \in Task : x # u => h[x] = r[x]
    OBVIOUS
  <2> HIDE DEF h
  <2>4. ASSUME NEW s \in Task, Behind(u, s)'
        PROVE  (Present(s) \/ Leaving(s)) /\ h[u] = r[s] + 1
    <3>1. Gate(s) \in shared
      BY <1>4, <2>2, <2>4 DEF Behind
    <3>2. Sharing(s) \/ pc[s] = "leaveShared"
      BY <3>1 DEF SyncInv, CollectionExact
    <3> QED
      BY <2>2, <2>3, <3>1, <3>2 DEF Present, Leaving
  <2>5. ASSUME NEW s \in Task, Present(s)
        PROVE  /\ r[s] < h[u]
               /\ h[u] = r[s] + 1 => Gate(s) \in WaitsFor
               /\ \E p \in Task : Present(p) /\ r[p] + 1 = h[u]
    <3>1. r[s] <= r[m] /\ r[s] \in Nat
      BY <2>2, <2>5
    <3>2. h[u] = r[s] + 1 => r[s] = r[m]
      BY <2>3, <3>1
    <3> QED
      BY <2>2, <2>3, <2>5, <3>1, <3>2
  <2>6. Ranked(h)'
    BY <1>10, <2>3, <2>4, <2>5
  <2> QED
    BY <2>3, <2>6
<1>12. CASE shared = {} /\ LastPresent
  <2>1. last_task \in Task /\ Present(last_task) /\ WaitsFor = {Word}
    BY <1>12, Places DEF LastPresent, Present, WaitsFor, Word, TaskOrNone
  <2>2. \A s \in Task : Present(s) =>
          r[s] <= r[last_task] /\ (r[s] = r[last_task] => Gate(s) = Word)
    BY <1>12, TopWithoutCollection
  <2>0. PICK k \in Nat : k = r[last_task]
    BY <2>1
  <2> DEFINE h == [r EXCEPT ![u] = k + 1]
  <2>3. /\ h \in [Task -> Nat] /\ h[u] = r[last_task] + 1 /\ r[last_task] \in Nat
        /\ \A x \in Task : x # u => h[x] = r[x]
    BY <2>0, <2>1
  <2> HIDE DEF h
  <2>4. ASSUME NEW s \in Task, Behind(u, s)'
        PROVE  (Present(s) \/ Leaving(s)) /\ h[u] = r[s] + 1
    <3>1. s = last_task
      BY <1>4, <2>1, <2>4 DEF Behind, Gate, Word
    <3> QED
      BY <2>1, <2>3, <3>1
  <2>5. ASSUME NEW s \in Task, Present(s)
        PROVE  /\ r[s] < h[u]
               /\ h[u] = r[s] + 1 => Gate(s) \in WaitsFor
               /\ \E p \in Task : Present(p) /\ r[p] + 1 = h[u]
    <3>1. r[s] <= r[last_task] /\ r[s] \in Nat
      BY <2>2, <2>5
    <3>2. h[u] = r[s] + 1 => r[s] = r[last_task]
      BY <2>3, <3>1
    <3> QED
      BY <2>1, <2>2, <2>3, <2>5, <3>1, <3>2
  <2>6. Ranked(h)'
    BY <1>10, <2>3, <2>4, <2>5
  <2> QED
    BY <2>3, <2>6
<1>13. CASE shared = {} /\ ~LastPresent
  <2>1. \A s \in Task : ~Present(s)
    BY <1>13, TopWithoutCollection
  <2>2. \A s \in Task : ~Behind(u, s)'
    <3> SUFFICES ASSUME NEW s \in Task, Behind(u, s)' PROVE FALSE
      OBVIOUS
    <3>1. s = last_task /\ last_task # None /\ state'[s] = "Pending"
      BY <1>4, <1>13 DEF Behind, WaitsFor, Gate
    <3>2. state[s] = "Pending"
      BY <1>2, <3>1
    <3>3. pc[s] = "clear"
      BY <1>13, <3>1 DEF LastSane, LastPresent
    <3> QED
      BY <3>2, <3>3 DEF SyncInv, Stages
  <2>3. Ranked(r)'
    BY <1>10, <2>1, <2>2
  <2> QED
    BY <2>3
<1> QED
  BY <1>11, <1>12, <1>13

\* A shared request goes on top, or joins the collection that is there.
LEMMA SuspendSharedRanks ==
  ASSUME SyncInv, LastSane, SyncInv', [Next]_vars, NEW r \in [Task -> Nat], Ranked(r),
         NEW t \in Task, NEW u \in Task, SuspendShared(t, u)
  PROVE  \E h \in [Task -> Nat] : Ranked(h)'
<1>1. /\ pc[t] = "suspend" /\ CreateTask(t, u) /\ UNCHANGED gateVars /\ UNCHANGED todo
      /\ last_task' = last_task /\ shared' = shared \cup {Gate(u)}
      /\ previous' = [previous EXCEPT ![t] = Word] /\ UNCHANGED result
      /\ pc' = [pc EXCEPT ![t] = "addref", ![u] = "waiting"]
  BY DEF SuspendShared, Word
<1>2. Queues(t, u) /\ pc'[t] = "addref"
  <2>1. \A b \in Agent : b # t => result'[b] = result[b] /\ previous'[b] = previous[b]
    BY <1>1, Places
  <2>2. t \in Agent /\ pc[t] \in {"body", "suspend"}
    BY <1>1, Places
  <2> QED
    BY <1>1, <2>1, <2>2, QueueingStanding
<1>3. /\ ~Present(u) /\ pc[u] = "none" /\ state'[u] = "Pending" /\ pc'[u] = "waiting"
      /\ last_task # u /\ \A g \in shared : g.task # u
      /\ \A x \in Task : x # u => Same(x) /\ state'[x] = state[x]
      /\ \A x \in Task : Gate(x)' = Gate(x)
      /\ \A s, w \in Task : w # u => (Awaits(w, s)' <=> Awaits(w, s))
      /\ \A s \in Task : Awaits(u, s)' <=> Gate(s) \in Asked(t)'
      /\ \A w \in Task : w # u /\ Exclusive(w)' => ~Behind(w, u)'
  BY <1>2 DEF Queues
<1>4. Sharing(u)' /\ ~Exclusive(u)' /\ Present(u)'
  <2>1. coroutine' = [coroutine EXCEPT ![u] = coroutine[t], ![t] = None] /\ ask' = ask
    BY DEF SuspendShared, MoveCoroutine
  <2>2. ask[coroutine[t]] = "shared" /\ coroutine[t] # None /\ u # t
    BY <1>1, <1>3 DEF SuspendShared, SyncInv, CoroutinesPlaced
  <2>3. coroutine'[u] = coroutine[t]
    BY <2>1, <2>2, Places
  <2> QED
    BY <1>3, <2>1, <2>2, <2>3 DEF Sharing, Exclusive, Present
<1>5. Asked(t)' = {Word}
  <2>1. previous'[t] = Word
    BY <1>1, Places DEF SyncInv, TypeOK
  <2> QED
    BY <1>2, <2>1 DEF Asked
<1>6. \A s \in Task : Present(s) /\ Gate(s) = Word => Behind(u, s)'
  BY <1>3, <1>5, PresentPending DEF Behind
<1>7. \A w \in Task : Exclusive(w)' => ~Behind(w, u)'
  BY <1>3, <1>4
<1>8. \A x \in Task : x # u => /\ Present(x)' <=> Present(x)
                               /\ Exclusive(x)' <=> Exclusive(x)
  BY <1>3 DEF Same, Present
<1>9. /\ LastPresent' <=> LastPresent
      /\ LastPresent => last_task \in Task /\ last_task # u /\ Present(last_task)
  BY <1>1, <1>3, <1>8, Places DEF LastPresent, Present, TaskOrNone
<1>10. \A x \in Task : /\ Gate(x)' \in shared' => x = u \/ Gate(x) \in shared
                       /\ Gate(x)' \notin shared' => x # u /\ Gate(x) \notin shared
  BY <1>1, <1>3 DEF Gate
<1>11. ASSUME NEW h \in [Task -> Nat], \A x \in Task : x # u => h[x] = r[x],
              \A s \in Task : Present(s) =>
                /\ r[s] <= h[u]
                /\ h[u] = r[s] + 1 => Gate(s) = Word
                /\ r[s] < h[u] => \E p \in Task : Present(p) /\ r[p] + 1 = h[u]
                /\ r[s] = h[u] => Sharing(s),
              \A s \in Task : Gate(s) \in shared => r[s] = h[u],
              LastPresent => h[u] = r[last_task] + 1
       PROVE  Ranked(h)'
  <2>1. \A s \in Task : Present(s) =>
          /\ r[s] <= h[u]
          /\ h[u] = r[s] + 1 => Behind(u, s)'
          /\ r[s] < h[u] => \E p \in Task : Present(p) /\ r[p] + 1 = h[u]
          /\ r[s] = h[u] => Sharing(s) /\ Sharing(u)'
    BY <1>4, <1>6, <1>11
  <2>2. /\ \A x \in Task : x # u => h[x] = r[x] /\ Same(x) /\ state'[x] = state[x]
        /\ \A s, w \in Task : s # u /\ w # u => (Awaits(w, s)' <=> Awaits(w, s))
        /\ \A s \in Task : Behind(u, s)' /\ Exclusive(u)' =>
             (Present(s) \/ Leaving(s)) /\ h[u] = r[s] + 1
    BY <1>3, <1>4, <1>11
  <2>3. RanksInOrder(h)' /\ BehindRankBelow(h)'
    BY <1>3, <1>7, <2>1, <2>2, ArrivingStep
  <2>4. CollectionOnTop(h)'
    <3>1. \A s \in Task : Gate(s)' \in shared' => h[s] = h[u]
      BY <1>10, <1>11
    <3>2. ASSUME NEW s \in Task, Present(s)' \/ Gate(s)' \in shared' PROVE h[s] <= h[u]
      <4>1. CASE s = u \/ Gate(s)' \in shared'
        BY <3>1, <4>1
      <4>2. CASE s # u /\ Present(s)'
        BY <1>8, <1>11, <4>2
      <4> QED
        BY <3>2, <4>1, <4>2
    <3>3. LastPresent' => h[u] = h[last_task'] + 1
      BY <1>1, <1>9, <1>11
    <3> QED
      BY <3>1, <3>2, <3>3 DEF CollectionOnTop
  <2>5. LastOnTop(h)'
    <3> SUFFICES ASSUME NEW x \in Task, Present(x)', Gate(x)' \notin shared'
                 PROVE  LastPresent' /\ h[x] <= h[last_task']
      BY DEF LastOnTop
    <3>1. x # u /\ Present(x) /\ Gate(x) \notin shared
      BY <1>8, <1>10
    <3>2. LastPresent /\ r[x] <= r[last_task]
      BY <3>1 DEF Ranked, LastOnTop
    <3> QED
      BY <1>1, <1>9, <1>11, <3>1, <3>2
  <2> QED
    BY <2>3, <2>4, <2>5 DEF Ranked
<1>12. CASE shared # {}
  <2>1. PICK m \in Task : Gate(m) \in shared /\ Sharing(m)
    BY <1>12, SomeMember
  <2>2. /\ Present(m)
        /\ \A s \in Task : /\ Present(s) => r[s] <= r[m]
                           /\ Gate(s) \in shared => r[s] = r[m]
                           /\ Present(s) /\ r[s] = r[m] => Sharing(s)
                           /\ Present(s) /\ r[s] + 1 = r[m] => Gate(s) = Word
    BY <2>1, TopOfCollection DEF Present
  <2>3. LastPresent => r[m] = r[last_task] + 1
    BY <2>1 DEF Ranked, CollectionOnTop
  <2> DEFINE h == [r EXCEPT ![u] = r[m]]
  <2>4. h \in [Task -> Nat] /\ h[u] = r[m] /\ \A x \in Task : x # u => h[x] = r[x]
    OBVIOUS
  <2> HIDE DEF h
  <2>5. \A s \in Task : Present(s) /\ r[s] < r[m] => \E p \in Task : Present(p) /\ r[p] + 1 = r[m]
    BY <2>2 DEF Ranked, RanksInOrder
  <2>6. Ranked(h)'
    BY <1>11, <2>2, <2>3, <2>4, <2>5
  <2> QED
    BY <2>4, <2>6
<1>13. CASE shared = {} /\ LastPresent
  <2>1. PICK k \in Nat : k = r[last_task]
    BY <1>9, <1>13
  <2>2. \A s \in Task : Present(s) => r[s] <= k /\ (r[s] = k => Gate(s) = Word)
    BY <1>13, <2>1, TopWithoutCollection
  <2> DEFINE h == [r EXCEPT ![u] = k + 1]
  <2>3. h \in [Task -> Nat] /\ h[u] = k + 1 /\ \A x \in Task : x # u => h[x] = r[x]
    OBVIOUS
  <2> HIDE DEF h
  <2>4. \A s \in Task : Present(s) =>
          /\ r[s] <= h[u]
          /\ h[u] = r[s] + 1 => Gate(s) = Word
          /\ r[s] < h[u] => \E p \in Task : Present(p) /\ r[p] + 1 = h[u]
          /\ r[s] = h[u] => Sharing(s)
    <3>1. \E p \in Task : Present(p) /\ r[p] + 1 = h[u]
      BY <1>9, <1>13, <2>1, <2>3
    <3> QED
      BY <2>2, <2>3, <3>1
  <2>5. Ranked(h)'
    BY <1>11, <1>13, <2>1, <2>3, <2>4
  <2> QED
    BY <2>3, <2>5
<1>14. CASE shared = {} /\ ~LastPresent
  <2>1. \A s \in Task : ~Present(s)
    BY <1>14, TopWithoutCollection
  <2>2. Ranked(r)'
    BY <1>11, <1>14, <2>1
  <2> QED
    BY <2>2
<1> QED
  BY <1>12, <1>13, <1>14
-----------------------------------------------------------------------------

\* The last task stays so, through its use or up to its release.
LEMMA LastStays ==
  ASSUME SyncInv, LastSane, [Next]_vars, UNCHANGED <<last_task, last_task_tag>>,
         \A x \in Task : x = last_task =>
           \/ ~Exclusive(x) /\ pc[x] # "clear"
           \/ /\ gate_tag'[x] = gate_tag[x]
              /\ \/ pc'[x] = pc[x] \/ (pc[x] = "waiting" /\ pc'[x] = "ready")
                 \/ Exclusive(x) /\ (Exclusive(x)' \/ pc'[x] = "clear")
  PROVE  LastSane'
<1> SUFFICES ASSUME last_task # None
             PROVE  \/ Exclusive(last_task)' /\ last_task_tag = gate_tag'[last_task]
                    \/ pc'[last_task] = "clear"
  BY DEF LastSane, Exclusive
<1>1. PICK x \in Task : x = last_task
  BY Places DEF TaskOrNone
<1>2. (Exclusive(x) /\ last_task_tag = gate_tag[x]) \/ pc[x] = "clear"
  BY <1>1 DEF LastSane
<1>3. pc'[x] = pc[x] \/ (pc[x] = "waiting" /\ pc'[x] = "ready") => (Exclusive(x)' <=> Exclusive(x))
  BY StandingStays DEF Same
<1>4. /\ gate_tag'[x] = gate_tag[x]
      /\ \/ pc'[x] = pc[x] \/ (pc[x] = "waiting" /\ pc'[x] = "ready")
         \/ Exclusive(x) /\ (Exclusive(x)' \/ pc'[x] = "clear")
  BY <1>1, <1>2
<1>5. CASE pc[x] = "clear"
  BY <1>1, <1>4, <1>5 DEF Exclusive
<1>6. CASE pc[x] # "clear"
  <2>1. Exclusive(x) /\ last_task_tag = gate_tag[x]
    BY <1>2, <1>6
  <2>2. Exclusive(x)' \/ pc'[x] = "clear"
    BY <1>3, <1>4, <2>1
  <2> QED
    BY <1>1, <1>4, <2>1, <2>2 DEF Exclusive
<1> QED
  BY <1>5, <1>6

\* What SyncExclusive has queued asks for the resource for itself.
LEMMA ExclusiveQueues ==
  ASSUME SyncInv, NEW t \in Task, NEW u \in Task, SuspendExclusive(t, u)
  PROVE  Exclusive(u)' /\ pc[t] = "suspend"
<1>1. /\ pc[t] = "suspend" /\ ask[coroutine[t]] = "exclusive" /\ state[u] = "Pooled" /\ ask' = ask
      /\ coroutine' = [coroutine EXCEPT ![u] = coroutine[t], ![t] = None]
      /\ \E label : pc' = [pc EXCEPT ![t] = label, ![u] = "waiting"]
  BY DEF SuspendExclusive, SyncExclusive, CreateTask, MoveCoroutine, coVars
<1>2. u # t
  BY <1>1, Places
<1>3. coroutine'[u] = coroutine[t] /\ pc'[u] = "waiting"
  BY <1>1, <1>2, Places
<1> QED
  BY <1>1, <1>3 DEF Exclusive

LEMMA InitializedExclusive ==
  ASSUME SyncInv, NEW a \in Agent, NEW u \in Task, InitializeTaskOn(a, u)
  PROVE  Exclusive(u)' /\ pc[a] = "body"
<1>1. /\ pc[a] = "body" /\ state[u] = "Pooled" /\ coroutine' = coroutine
      /\ \E label : pc' = [pc EXCEPT ![a] = label, ![u] = "waiting"]
  BY DEF InitializeTaskOn, Request, User, SyncExclusive, CreateTask
<1>2. pc[u] = "none" /\ u # a /\ pc'[u] = "waiting"
  BY <1>1, Places
<1>3. coroutine[u] = None
  BY <1>2, Places DEF SyncInv, CoroutinesPlaced
<1> QED
  BY <1>1, <1>2, <1>3 DEF Exclusive

LEMMA LastSaneStep ==
  ASSUME SyncInv, LastSane, [Next]_vars PROVE LastSane'
<1>e. ASSUME NEW a \in Agent, NEW u \in Task, SyncExclusive(a, u), Exclusive(u)'
      PROVE  LastSane'
  <2>1. last_task' = u /\ last_task_tag' = gate_tag[u] /\ gate_tag' = gate_tag
    BY <1>e DEF SyncExclusive, gateVars
  <2> QED
    BY <1>e, <2>1 DEF LastSane, Exclusive
<1>p. ASSUME NEW a \in Agent, pc[a] \in {"handle", "add"}, ProcessOnReady(a), pc[new[a]] = "waiting",
             UNCHANGED <<syncVars, gateVars, coroutine>>
      PROVE  LastSane'
  <2>1. new[a] \in Task /\ (a \in Client => coroutine[new[a]] = None)
    BY <1>p, Places DEF SyncInv, LocalsFollowPc, CreatorsAlone, Queueing, TaskOrNone
  <2>2. \A x \in Task : x # a =>
          \/ pc'[x] = pc[x] \/ (pc[x] = "waiting" /\ pc'[x] = "ready")
          \/ pc[x] = "waiting" /\ pc'[x] = "exclusive" /\ coroutine[x] = None
    <3> SUFFICES ASSUME NEW x \in Task, x # a
                 PROVE  \/ pc'[x] = pc[x] \/ (pc[x] = "waiting" /\ pc'[x] = "ready")
                        \/ pc[x] = "waiting" /\ pc'[x] = "exclusive" /\ coroutine[x] = None
      OBVIOUS
    <3>1. CASE x # new[a]
      BY <1>p, <2>1, <3>1, Places DEF ProcessOnReady
    <3>2. CASE x = new[a]
      <4>1. pc'[x] = "ready" \/ (a \in Client /\ pc'[x] = "exclusive")
        BY <1>p, <2>1, <3>2, Places DEF ProcessOnReady
      <4> QED
        BY <1>p, <2>1, <3>2, <4>1
    <3> QED
      BY <3>1, <3>2
  <2> QED
    BY <1>p, <2>2, LastStays DEF syncVars, gateVars, Exclusive
<1>1. ASSUME NEW t \in Task, NEW c \in Coroutine, StartCoroutine(c, t)
      PROVE  LastSane'
  <2>1. /\ pc[t] = "none" /\ pc' = [pc EXCEPT ![t] = "ready"]
        /\ UNCHANGED <<syncVars, gateVars>>
    BY <1>1, Places DEF StartCoroutine, Goto
  <2> QED
    BY <2>1, Places, LastStays DEF syncVars, gateVars, Exclusive
<1>2. ASSUME NEW t \in Task, Run(t)
      PROVE  LastSane'
  <2>1. PICK label \in {"body", "exclusive", "shared"} :
          pc[t] = "ready" /\ pc' = [pc EXCEPT ![t] = label] /\ (label = "exclusive" <=> Exclusive(t))
    BY <1>2, RunGoesOn
  <2>2. UNCHANGED <<syncVars, gateVars>>
    BY <1>2 DEF Run
  <2>3. Exclusive(t) => Exclusive(t)'
    BY <2>1, Places DEF Exclusive
  <2> QED
    BY <2>1, <2>2, <2>3, Places, LastStays DEF syncVars, gateVars
<1>3. ASSUME NEW t \in Task, TryExclusive(t)
      PROVE  LastSane'
  <2>1. pc[t] = "body" /\ UNCHANGED gateVars
    BY <1>3 DEF TryExclusive, Request, User
  <2>2. CASE Suspend(t, "exclusive") /\ UNCHANGED <<last_task, last_task_tag>>
    BY <2>1, <2>2, Places, LastStays DEF Suspend, Goto, gateVars, Exclusive
  <2>3. CASE last_task' = t /\ last_task_tag' = gate_tag[t] /\ Goto(t, "exclusive")
    BY <2>1, <2>3, Places DEF LastSane, Goto, gateVars, Exclusive
  <2> QED
    BY <1>3, <2>2, <2>3 DEF TryExclusive
<1>4. ASSUME NEW t \in Task, TryShared(t)
      PROVE  LastSane'
  <2>1. pc[t] = "body" /\ UNCHANGED <<gateVars, last_task, last_task_tag>>
    BY <1>4 DEF TryShared, Request, User
  <2>2. pc' \in {[pc EXCEPT ![t] = "suspend"], [pc EXCEPT ![t] = "shared"]}
    BY <1>4 DEF TryShared, Suspend, Goto
  <2> QED
    BY <2>1, <2>2, Places, LastStays DEF gateVars, Exclusive
<1>5. ASSUME NEW t \in Task, NEW u \in Task, SuspendExclusive(t, u)
      PROVE  LastSane'
  BY <1>5, <1>e, ExclusiveQueues, Places DEF SuspendExclusive
<1>6. ASSUME NEW t \in Task, NEW u \in Task, SuspendShared(t, u)
      PROVE  LastSane'
  <2>1. /\ pc[t] = "suspend" /\ pc[u] = "none" /\ pc' = [pc EXCEPT ![t] = "addref", ![u] = "waiting"]
        /\ UNCHANGED <<gateVars, last_task, last_task_tag>>
    BY <1>6, Places DEF SuspendShared, CreateTask
  <2> QED
    BY <2>1, Places, LastStays DEF gateVars, Exclusive
<1>7. ASSUME NEW a \in Agent, NEW u \in Task, InitializeTaskOn(a, u)
      PROVE  LastSane'
  BY <1>7, <1>e, InitializedExclusive DEF InitializeTaskOn
<1>8. ASSUME NEW a \in Agent, ReleaseReplaced(a)
      PROVE  LastSane'
  <2>1. pc[a] = "replaced" /\ pc' = [pc EXCEPT ![a] = "handle"] /\ UNCHANGED <<syncVars, gateVars>>
    BY <1>8 DEF ReleaseReplaced, Goto
  <2> QED
    BY <2>1, Places, LastStays DEF syncVars, gateVars, Exclusive
<1>9. ASSUME NEW t \in Task, AddRefPrevious(t)
      PROVE  LastSane'
  <2>1. pc[t] = "addref" /\ pc' \in {pc, [pc EXCEPT ![t] = "handle"]} /\ UNCHANGED <<syncVars, gateVars>>
    BY <1>9 DEF AddRefPrevious, Goto
  <2> QED
    BY <2>1, Places, LastStays DEF syncVars, gateVars, Exclusive
<1>10. ASSUME NEW a \in Agent, HandleOnTask(a)
      PROVE  LastSane'
  <2>1. pc[a] = "handle" /\ pc[new[a]] = "waiting" /\ UNCHANGED <<syncVars, gateVars, coroutine>>
    BY <1>10 DEF HandleOnTask, SyncInv, CreatorsAlone, Early
  <2>2. CASE ProcessOnReady(a)
    BY <1>p, <2>1, <2>2
  <2>3. CASE pc' = pc \/ Goto(a, "add")
    BY <2>1, <2>3, Places, LastStays DEF syncVars, gateVars, Exclusive, Goto
  <2> QED
    BY <1>10, <2>2, <2>3 DEF HandleOnTask
<1>11. ASSUME NEW a \in Agent, NEW g \in todo[a], AddDependency(a, g)
      PROVE  LastSane'
  <2>1. UNCHANGED <<syncVars, gate_tag, pc>>
    BY <1>11 DEF AddDependency
  <2> QED
    BY <2>1, LastStays DEF syncVars
<1>12. ASSUME NEW a \in Agent, SubtractInactive(a)
      PROVE  LastSane'
  <2>1. pc[a] = "add" /\ UNCHANGED <<syncVars, gateVars, coroutine>>
    BY <1>12 DEF SubtractInactive
  <2>2. CASE inactive[a] > 0 /\ ProcessOnReady(a)
    <3>1. pc[new[a]] = "waiting"
      BY <1>12, <2>1, <2>2, InactiveWaits DEF SubtractInactive
    <3> QED
      BY <1>p, <2>1, <2>2, <3>1
  <2>3. CASE Goto(a, "release")
    BY <2>1, <2>3, Places, LastStays DEF syncVars, gateVars, Exclusive, Goto
  <2> QED
    BY <1>12, <2>2, <2>3 DEF SubtractInactive
<1>13. ASSUME NEW a \in Agent, ReleaseResult(a)
      PROVE  LastSane'
  <2>1. pc[a] = "release" /\ pc' = [pc EXCEPT ![a] = "body"] /\ UNCHANGED <<syncVars, gateVars>>
    BY <1>13 DEF ReleaseResult, Goto
  <2> QED
    BY <2>1, Places, LastStays DEF syncVars, gateVars, Exclusive
<1>14. ASSUME NEW t \in Task, ReleaseExclusive(t)
      PROVE  LastSane'
  <2>1. CASE last_task = t
    BY <1>14, <2>1 DEF ReleaseExclusive, LastSane
  <2>2. CASE last_task # t
    <3>1. /\ UNCHANGED <<gateVars, last_task, last_task_tag>>
          /\ \E label \in {"finish", "leave"} : pc' = [pc EXCEPT ![t] = label]
      BY <1>14, <2>2 DEF ReleaseExclusive, AfterRelease, Goto
    <3> QED
      BY <2>2, <3>1, Places, LastStays DEF gateVars
  <2> QED
    BY <2>1, <2>2
<1>15. ASSUME NEW t \in Task, ReleaseShared(t)
      PROVE  LastSane'
  <2>1. /\ pc[t] = "shared" /\ pc' = [pc EXCEPT ![t] = "leaveShared"]
        /\ UNCHANGED <<gateVars, last_task, last_task_tag>>
    BY <1>15 DEF ReleaseShared, Goto
  <2> QED
    BY <2>1, Places, LastStays DEF gateVars, Exclusive
<1>16. ASSUME NEW t \in Task, LeaveScope(t)
      PROVE  LastSane'
  <2>1. pc[t] \in {"leave", "leaveShared"} /\ UNCHANGED syncVars
    BY <1>16 DEF LeaveScope
  <2>2. CASE UNCHANGED <<pc, gateVars>>
    BY <2>1, <2>2, LastStays DEF syncVars, gateVars
  <2>3. CASE Wake(t, "body") /\ gate_tag' = [gate_tag EXCEPT ![t] = Bump(@)]
    <3>1. \A x \in Task : x # t => pc'[x] = pc[x] \/ (pc[x] = "waiting" /\ pc'[x] = "ready")
      BY <2>3, WakesWaiting, NoGates
    <3> QED
      BY <2>1, <2>3, <3>1, Places, LastStays DEF syncVars, Exclusive
  <2> QED
    BY <1>16, <2>2, <2>3 DEF LeaveScope
<1>17. ASSUME NEW t \in Task, EndFunction(t)
      PROVE  LastSane'
  <2>1. UNCHANGED <<syncVars, gate_tag>> /\ (pc[t] = "body" \/ InPlainTask(t))
    BY <1>17 DEF EndFunction
  <2>2. Wake(t, IF InPlainTask(t) THEN "clear" ELSE "finish")
    BY <1>17 DEF EndFunction
  <2>3. \A x \in Task : x # t => pc'[x] = pc[x] \/ (pc[x] = "waiting" /\ pc'[x] = "ready")
    BY <2>2, WakesWaiting, NoGates
  <2>4. pc'[t] = IF InPlainTask(t) THEN "clear" ELSE "finish"
    BY <2>2, WakesWaiting
  <2> QED
    BY <2>1, <2>3, <2>4, LastStays DEF syncVars, Exclusive
<1>18. ASSUME NEW t \in Task, Finish(t)
      PROVE  LastSane'
  <2>1. /\ pc[t] = "finish" /\ UNCHANGED <<syncVars, gateVars>>
        /\ pc' = [a \in Agent |-> IF a = t THEN "none"
                    ELSE IF pc[a] = "inline" /\ new[a] = t THEN "release" ELSE pc[a]]
    BY <1>18 DEF Finish
  <2> QED
    BY <2>1, Places, LastStays DEF syncVars, gateVars, Exclusive
<1>19. CASE UNCHANGED vars
  BY <1>19, LastStays DEF vars, syncVars, gateVars
<1> QED
  BY <1>1, <1>2, <1>3, <1>4, <1>5, <1>6, <1>7, <1>8, <1>9, <1>10, <1>11, <1>12, <1>13,
     <1>14, <1>15, <1>16, <1>17, <1>18, <1>19
  DEF Next, Proceed, Queue
-----------------------------------------------------------------------------

LEMMA InitRanks == Init => RankInv
<1> SUFFICES ASSUME Init PROVE RankInv
  OBVIOUS
<1>1. /\ last_task = None /\ shared = {}
      /\ \A t \in Task : pc[t] = "none" /\ ~Present(t)
      /\ \A t \in Task : state[t] = "Pooled"
  BY SyncAssumption DEF Init, Agent, Present, Exclusive, Sharing
<1> DEFINE r == [t \in Task |-> 0]
<1>2. r \in [Task -> Nat]
  OBVIOUS
<1> HIDE DEF r
<1>3. Ranked(r)
  BY <1>1 DEF Ranked, RanksInOrder, CollectionOnTop, LastOnTop, BehindRankBelow, Behind
<1> QED
  BY <1>1, <1>2, <1>3 DEF RankInv, LastSane

LEMMA RankStep ==
  ASSUME Accesses < TagMod, SyncInv, RankInv, [Next]_vars PROVE RankInv'
<1>s. SyncInv'
  BY SyncStep
<1>l. LastSane /\ LastSane'
  BY LastSaneStep DEF RankInv
<1>r. PICK r \in [Task -> Nat] : Ranked(r)
  BY DEF RankInv
<1> SUFFICES \E h \in [Task -> Nat] : Ranked(h)'
  BY <1>l DEF RankInv
<1>1. ASSUME NEW t \in Task, NEW c \in Coroutine, StartCoroutine(c, t)
      PROVE  \E h \in [Task -> Nat] : Ranked(h)'
  BY <1>s, <1>l, <1>r, <1>1, StartCoroutineRanks
<1>2. ASSUME NEW t \in Task, Run(t)
      PROVE  \E h \in [Task -> Nat] : Ranked(h)'
  BY <1>s, <1>l, <1>r, <1>2, RunRanks
<1>3. ASSUME NEW t \in Task, TryExclusive(t)
      PROVE  \E h \in [Task -> Nat] : Ranked(h)'
  BY <1>s, <1>r, <1>3, TryExclusiveRanks
<1>4. ASSUME NEW t \in Task, TryShared(t)
      PROVE  \E h \in [Task -> Nat] : Ranked(h)'
  BY <1>s, <1>l, <1>r, <1>4, TrySharedRanks
<1>5. ASSUME NEW t \in Task, NEW u \in Task, SuspendExclusive(t, u)
      PROVE  \E h \in [Task -> Nat] : Ranked(h)'
  <2>1. t \in Agent /\ SyncExclusive(t, u) /\ Exclusive(u)' /\ pc[t] \in {"body", "suspend"}
    BY <1>5, ExclusiveQueues, Places DEF SuspendExclusive
  <2> QED
    BY <1>s, <1>l, <1>r, <2>1, SyncExclusiveRanks
<1>6. ASSUME NEW t \in Task, NEW u \in Task, SuspendShared(t, u)
      PROVE  \E h \in [Task -> Nat] : Ranked(h)'
  BY <1>s, <1>l, <1>r, <1>6, SuspendSharedRanks
<1>7. ASSUME NEW a \in Agent, NEW u \in Task, InitializeTaskOn(a, u)
      PROVE  \E h \in [Task -> Nat] : Ranked(h)'
  <2>1. SyncExclusive(a, u) /\ Exclusive(u)' /\ pc[a] \in {"body", "suspend"}
    BY <1>7, InitializedExclusive DEF InitializeTaskOn
  <2> QED
    BY <1>s, <1>l, <1>r, <2>1, SyncExclusiveRanks
<1>8. ASSUME NEW a \in Agent, ReleaseReplaced(a)
      PROVE  \E h \in [Task -> Nat] : Ranked(h)'
  BY <1>s, <1>l, <1>r, <1>8, ReleaseReplacedRanks
<1>9. ASSUME NEW t \in Task, AddRefPrevious(t)
      PROVE  \E h \in [Task -> Nat] : Ranked(h)'
  BY <1>s, <1>l, <1>r, <1>9, AddRefPreviousRanks
<1>10. ASSUME NEW a \in Agent, HandleOnTask(a)
      PROVE  \E h \in [Task -> Nat] : Ranked(h)'
  BY <1>s, <1>l, <1>r, <1>10, HandleOnTaskRanks
<1>11. ASSUME NEW a \in Agent, NEW g \in todo[a], AddDependency(a, g)
      PROVE  \E h \in [Task -> Nat] : Ranked(h)'
  BY <1>s, <1>l, <1>r, <1>11, AddDependencyRanks
<1>12. ASSUME NEW a \in Agent, SubtractInactive(a)
      PROVE  \E h \in [Task -> Nat] : Ranked(h)'
  BY <1>s, <1>l, <1>r, <1>12, SubtractInactiveRanks
<1>13. ASSUME NEW a \in Agent, ReleaseResult(a)
      PROVE  \E h \in [Task -> Nat] : Ranked(h)'
  BY <1>s, <1>l, <1>r, <1>13, ReleaseResultRanks
<1>14. ASSUME NEW t \in Task, ReleaseExclusive(t)
      PROVE  \E h \in [Task -> Nat] : Ranked(h)'
  BY <1>s, <1>l, <1>r, <1>14, ReleaseExclusiveRanks
<1>15. ASSUME NEW t \in Task, ReleaseShared(t)
      PROVE  \E h \in [Task -> Nat] : Ranked(h)'
  BY <1>s, <1>l, <1>r, <1>15, ReleaseSharedRanks
<1>16. ASSUME NEW t \in Task, LeaveScope(t)
      PROVE  \E h \in [Task -> Nat] : Ranked(h)'
  BY <1>s, <1>l, <1>r, <1>16, LeaveScopeRanks
<1>17. ASSUME NEW t \in Task, EndFunction(t)
      PROVE  \E h \in [Task -> Nat] : Ranked(h)'
  BY <1>s, <1>l, <1>r, <1>17, EndFunctionRanks
<1>18. ASSUME NEW t \in Task, Finish(t)
      PROVE  \E h \in [Task -> Nat] : Ranked(h)'
  BY <1>s, <1>l, <1>r, <1>18, FinishRanks
<1>19. CASE UNCHANGED vars
  <2>1. \A x \in Task : Same(x)
    BY <1>19, StandingStays DEF vars
  <2>2. \A b \in Agent : new'[b] = new[b] /\ Asked(b)' = Asked(b)
    BY <1>19 DEF vars, localVars, Asked
  <2>3. \A s, u \in Task : Awaits(u, s)' <=> Awaits(u, s)
    BY <1>19, <2>2, AskedStays DEF vars, gateVars
  <2>4. Ranked(r)'
    BY <1>s, <1>r, <1>19, <2>1, <2>3, QuietStep, Places DEF vars, syncVars, gateVars
  <2> QED
    BY <2>4
<1> QED
  BY <1>1, <1>2, <1>3, <1>4, <1>5, <1>6, <1>7, <1>8, <1>9, <1>10, <1>11, <1>12, <1>13,
     <1>14, <1>15, <1>16, <1>17, <1>18, <1>19
  DEF Next, Proceed, Queue

\* The requests that are present have ranks: in which order they came, which the code
\* keeps in the nodes of their gates only.
THEOREM ExclusionInvariance == ASSUME Accesses < TagMod PROVE Spec => []ExclusionInv
<1>1. Init => ExclusionInv
  BY InitSync, InitRanks DEF ExclusionInv
<1>2. ExclusionInv /\ [Next]_vars => ExclusionInv'
  BY SyncStep, RankStep DEF ExclusionInv
<1> QED
  BY <1>1, <1>2, PTL DEF Spec

LEMMA HoldersExclude ==
  ASSUME ExclusionInv, NEW t \in Holders("exclusive"), NEW s \in Task,
         pc[s] \in {"exclusive", "shared"}
  PROVE  s = t
<1> SUFFICES ASSUME s # t PROVE FALSE
  OBVIOUS
<1>1. PICK r \in [Task -> Nat] : Ranked(r)
  BY DEF ExclusionInv, RankInv
<1>2. t \in Task /\ Exclusive(t) /\ Present(t) /\ pc[t] # "waiting"
  BY DEF Holders, Exclusive, Present
<1>3. Present(s) /\ pc[s] # "waiting"
  BY DEF Exclusive, Sharing, Present
<1>4. r[t] < r[s]
  BY <1>1, <1>2, <1>3, FrontIsAlone DEF ExclusionInv
<1>5. r[s] <= r[t]
  BY <1>1, <1>2, <1>3, FrontIsLowest DEF ExclusionInv
<1> QED
  BY <1>1, <1>2, <1>4, <1>5

\* Whoever is in an exclusive scope on the resource is alone with it: those who are not
\* waiting have the lowest rank, which an exclusive request shares with no one.
THEOREM ScopesExclude == ASSUME Accesses < TagMod PROVE Spec => []MutualExclusion
<1>1. ExclusionInv => MutualExclusion
  <2> SUFFICES ASSUME ExclusionInv PROVE MutualExclusion
    OBVIOUS
  <2>1. CASE Holders("exclusive") = {}
    BY <2>1, FS_EmptySet DEF MutualExclusion
  <2>2. CASE Holders("exclusive") # {}
    <3>1. PICK t \in Holders("exclusive") : TRUE
      BY <2>2
    <3>2. Holders("exclusive") = {t} /\ Holders("shared") = {}
      BY <3>1, HoldersExclude DEF Holders
    <3>3. Cardinality({t}) = 1
      BY FS_Singleton
    <3> QED
      BY <3>2, <3>3 DEF MutualExclusion
  <2> QED
    BY <2>1, <2>2
<1> QED
  BY <1>1, ExclusionInvariance, PTL

\* An exclusive request is queued behind holders only, each of which has one such
\* successor at most: it has the rank just above theirs, and has it alone.
THEOREM SuccessorsBehindHolders == ASSUME Accesses < TagMod PROVE Spec => []ExclusiveSuccessor
<1>1. ExclusionInv => ExclusiveSuccessor
  <2> SUFFICES ASSUME ExclusionInv, NEW t \in Task
               PROVE  /\ Cardinality({u \in dependents[t] : AsksExclusive(u)}) <= 1
                      /\ OutsideScope(t) => \A u \in dependents[t] : ~AsksExclusive(u)
    BY DEF ExclusiveSuccessor
  <2> DEFINE Successors == {u \in dependents[t] : AsksExclusive(u)}
  <2>0. SyncInv
    BY DEF ExclusionInv
  <2>1. PICK r \in [Task -> Nat] : Ranked(r)
    BY DEF ExclusionInv, RankInv
  <2>2. ASSUME NEW u \in Successors
        PROVE  u \in Task /\ Exclusive(u) /\ (Present(t) \/ Leaving(t)) /\ r[u] = r[t] + 1
    <3>1. u \in Task /\ u \in dependents[t]
      BY <2>0, Places
    <3>2. pc[u] = "waiting"
      BY <2>0, <3>1, NoGates
    <3>3. Exclusive(u)
      BY <2>0, <3>1, <3>2 DEF AsksExclusive, Exclusive, SyncInv, CoroutinesPlaced
    <3>4. Behind(u, t)
      BY <2>0, <3>1 DEF Behind, Awaits, SyncInv, Stages
    <3> QED
      BY <2>1, <3>1, <3>3, <3>4 DEF Ranked, BehindRankBelow
  <2>3. OutsideScope(t) => Successors = {}
    BY <2>2 DEF OutsideScope, Present, Exclusive, Sharing, Leaving
  <2>4. \A u, w \in Successors : u = w
    <3> SUFFICES ASSUME NEW u \in Successors, NEW w \in Successors, u # w PROVE FALSE
      OBVIOUS
    <3>1. Exclusive(u) /\ Exclusive(w) /\ r[u] = r[w] /\ u \in Task /\ w \in Task
      BY <2>2
    <3> QED
      BY <2>1, <3>1, ExclusiveNotSharing DEF Ranked, RanksInOrder, Present
  <2>5. Cardinality(Successors) <= 1
    <3>1. CASE Successors = {}
      BY <3>1, FS_EmptySet
    <3>2. CASE Successors # {}
      <4>1. PICK u \in Successors : TRUE
        BY <3>2
      <4>2. Successors = {u}
        BY <2>4, <4>1
      <4>3. Cardinality({u}) = 1
        BY FS_Singleton
      <4> HIDE DEF Successors
      <4> QED
        BY <4>2, <4>3
    <3> QED
      BY <3>1, <3>2
  <2> QED
    BY <2>3, <2>5
<1> QED
  BY <1>1, ExclusionInvariance, PTL
=============================================================================
