--------------------------- MODULE WorkersProofs ---------------------------
(***************************************************************************)
(* Proofs about Workers: what shutdown and WaitForAllTasks may rely on     *)
(* holds for every number of threads and tasks.                            *)
(***************************************************************************)
EXTENDS Workers, FiniteSetTheorems, TLAPS

Marked == {w \in Worker : marked[w]}

\* marked_as_used follows the place of the worker in its loop.
MarkedWhereExpected ==
  /\ \A w \in Worker : pc[w] \in {"mark", "check", "exited"} => ~marked[w]
  /\ \A w \in Worker : pc[w] \in {"execute", "unmark"} => marked[w]

\* While a task pushed by a task is ready, some worker will pop once more.
PusherPopsAgain ==
  ready \cap byTask # {} => \E w \in Worker : pc[w] \in {"pop", "mark", "execute"}

JoinedMeansExited == main = "joined" => \A w \in Worker : pc[w] = "exited"

WorkersInv ==
  /\ TypeOK
  /\ UsedExact
  /\ MarkedWhereExpected
  /\ fresh \cap byTask = {}
  /\ PusherPopsAgain
  /\ JoinedMeansExited
-----------------------------------------------------------------------------
\* Marking a worker adds one to the number of marked workers, unmarking takes
\* one away: fetch_add and fetch_sub keep used_threads_ exact.
LEMMA MarkCounts ==
  ASSUME TypeOK, UsedExact, NEW w \in Worker, ~marked[w],
         marked' = [marked EXCEPT ![w] = TRUE], used' = used + 1
  PROVE  UsedExact' /\ used' \in Nat
<1>1. IsFiniteSet(Marked)
  BY FS_Subset, WorkersAssumption DEF Marked
<1>2. Marked' = Marked \cup {w} /\ w \notin Marked
  BY DEF Marked, TypeOK
<1>3. Cardinality(Marked') = Cardinality(Marked) + 1
  BY <1>1, <1>2, FS_AddElement
<1> QED
  BY <1>3 DEF UsedExact, Marked, TypeOK

LEMMA UnmarkCounts ==
  ASSUME TypeOK, UsedExact, NEW w \in Worker, marked[w],
         marked' = [marked EXCEPT ![w] = FALSE], used' = used - 1
  PROVE  UsedExact' /\ used' \in Nat
<1>1. IsFiniteSet(Marked)
  BY FS_Subset, WorkersAssumption DEF Marked
<1>2. Marked' = Marked \ {w} /\ w \in Marked
  BY DEF Marked, TypeOK
<1>3. Cardinality(Marked') = Cardinality(Marked) - 1
  BY <1>1, <1>2, FS_RemoveElement
<1>4. Cardinality(Marked) \in Nat /\ Cardinality(Marked) # 0
  BY <1>1, <1>2, FS_CardinalityType, FS_EmptySet
<1> QED
  BY <1>3, <1>4 DEF UsedExact, Marked, TypeOK

LEMMA WorkersInit == Init => WorkersInv
<1> SUFFICES ASSUME Init PROVE WorkersInv
  OBVIOUS
<1>1. Marked = {}
  BY DEF Init, Marked
<1>2. UsedExact
  BY <1>1, FS_EmptySet DEF Init, UsedExact, Marked
<1> QED
  BY <1>2 DEF Init, WorkersInv, TypeOK, MarkedWhereExpected, PusherPopsAgain,
              JoinedMeansExited

LEMMA WorkersStep == WorkersInv /\ [Next]_vars => WorkersInv'
<1> SUFFICES ASSUME WorkersInv, [Next]_vars PROVE WorkersInv'
  OBVIOUS
<1> USE DEF WorkersInv, TypeOK, MarkedWhereExpected, PusherPopsAgain, JoinedMeansExited,
            Goto
<1>1. ASSUME NEW w \in Worker, PopTask(w) PROVE WorkersInv'
  BY <1>1 DEF PopTask, UsedExact
<1>2. ASSUME NEW w \in Worker, PopNothing(w) PROVE WorkersInv'
  BY <1>2 DEF PopNothing, UsedExact
<1>3. ASSUME NEW w \in Worker, MarkUsed(w) PROVE WorkersInv'
  <2>1. UsedExact' /\ used' \in Nat
    BY <1>3, MarkCounts DEF MarkUsed
  <2> QED
    BY <1>3, <2>1 DEF MarkUsed
<1>4. ASSUME NEW w \in Worker, FinishTask(w) PROVE WorkersInv'
  BY <1>4 DEF FinishTask, UsedExact
<1>5. ASSUME NEW w \in Worker, UnmarkUsed(w) PROVE WorkersInv'
  <2>1. UsedExact' /\ used' \in Nat
    BY <1>5, UnmarkCounts DEF UnmarkUsed
  <2> QED
    BY <1>5, <2>1 DEF UnmarkUsed
<1>6. ASSUME NEW w \in Worker, CheckWorking(w) PROVE WorkersInv'
  BY <1>6 DEF CheckWorking, UsedExact
<1>7. ASSUME NEW w \in Worker, NEW t \in Task, PushFromTask(w, t) PROVE WorkersInv'
  BY <1>7 DEF PushFromTask, UsedExact
<1>8. ASSUME NEW t \in Task, PushFromMain(t) PROVE WorkersInv'
  BY <1>8 DEF PushFromMain, UsedExact
<1>9. CASE \/ CallWaitForAllTasks \/ WaitForAllTasks \/ AssertEmpty
           \/ StopWorkerThreadsNoWait
  BY <1>9 DEF CallWaitForAllTasks, WaitForAllTasks, AssertEmpty, StopWorkerThreadsNoWait,
              UsedExact
<1>10. CASE WaitForWorkerThreadsToJoin
  BY <1>10 DEF WaitForWorkerThreadsToJoin, UsedExact
<1>11. CASE UNCHANGED vars
  BY <1>11 DEF vars, UsedExact
<1> QED
  BY <1>1, <1>2, <1>3, <1>4, <1>5, <1>6, <1>7, <1>8, <1>9, <1>10, <1>11
  DEF Next, WorkerStep

LEMMA WorkersInvariant == Spec => []WorkersInv
<1> QED
  BY WorkersInit, WorkersStep, PTL DEF Spec
-----------------------------------------------------------------------------
\* The variables of the worker loop keep their types; in particular used_threads_
\* is not decremented below zero, where the uint8 of the code would wrap.
THEOREM WorkersTypesCorrect == Spec => []TypeOK
<1>1. WorkersInv => TypeOK
  BY DEF WorkersInv
<1> QED
  BY <1>1, WorkersInvariant, PTL

\* used_threads_ is the number of workers that have marked themselves, for any
\* number of workers and through any interleaving of their loops.
THEOREM UsedIsExact == Spec => [](TypeOK /\ UsedExact)
<1>1. WorkersInv => TypeOK /\ UsedExact
  BY DEF WorkersInv
<1> QED
  BY <1>1, WorkersInvariant, PTL

\* A worker inside a task's function is counted in used_threads_, so that the
\* loop of WaitForAllTasks does not end while it runs.
THEOREM ExecutingCounted == Spec => []ExecutingIsCounted
<1>1. WorkersInv => ExecutingIsCounted
  <2> SUFFICES ASSUME WorkersInv, NEW w \in Worker, pc[w] = "execute"
               PROVE  marked[w] /\ used > 0
    BY DEF ExecutingIsCounted
  <2>1. marked[w]
    BY DEF WorkersInv, MarkedWhereExpected
  <2>2. IsFiniteSet(Marked) /\ Marked # {}
    BY <2>1, FS_Subset, WorkersAssumption DEF Marked
  <2>3. Cardinality(Marked) # 0 /\ Cardinality(Marked) \in Nat
    BY <2>2, FS_EmptySet, FS_CardinalityType
  <2> QED
    BY <2>1, <2>3 DEF WorkersInv, UsedExact, Marked
<1> QED
  BY <1>1, WorkersInvariant, PTL

\* When the workers have been joined, every task that a task made ready has
\* been taken by a worker: shutdown loses at most tasks of the main thread.
THEOREM TasksOfTasksAreRun == Spec => []TasksOfTasksRun
<1>1. WorkersInv => TasksOfTasksRun
  BY DEF WorkersInv, TasksOfTasksRun, PusherPopsAgain, JoinedMeansExited
<1> QED
  BY <1>1, WorkersInvariant, PTL
=============================================================================
