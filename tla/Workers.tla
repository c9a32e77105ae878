------------------------------ MODULE Workers ------------------------------
(***************************************************************************)
(* The life of the worker threads (Task.cpp): the loop that pops and       *)
(* executes ready tasks, used_threads_ by which WaitForAllTasks decides    *)
(* that everything is done, the working_ switch, and the join.  What a     *)
(* task waits for is TaskSystem's matter: here a task is not created yet,  *)
(* ready, executed or finished, and executing one may make others ready.   *)
(* working_ is a plain bool read by the workers while the main thread      *)
(* writes it; the loop also reads atomics, so the build reloads it and a   *)
(* read returns the current value.                                         *)
(***************************************************************************)
EXTENDS Naturals, FiniteSets

CONSTANTS Worker,  \* threads_ (kWorkeThreadsNum of them)
          Task     \* the tasks one run of the program creates

ASSUME WorkersAssumption == IsFiniteSet(Worker) /\ IsFiniteSet(Task)

VARIABLES
  pc,       \* pc[w]: where worker w is in the loop
  marked,   \* marked[w]: marked_as_used
  run,      \* run[w]: the tasks w executes before it pops again (at most one)
  used,     \* used_threads_
  working,  \* working_
  ready,    \* ready_to_execute_
  fresh,    \* tasks not ready yet: not created, or behind unfinished gates
  byTask,   \* tasks that became ready through a task's execution
  main      \* where the main thread is
vars == <<pc, marked, run, used, working, ready, fresh, byTask, main>>

TypeOK ==
  /\ pc \in [Worker -> {"pop", "mark", "execute", "unmark", "check", "exited"}]
  /\ marked \in [Worker -> BOOLEAN]
  /\ run \in [Worker -> SUBSET Task]
  /\ used \in Nat
  /\ working \in BOOLEAN
  /\ ready \subseteq Task /\ fresh \subseteq Task /\ byTask \subseteq Task
  /\ main \in {"running", "waiting", "asserting", "waited", "joining", "joined"}

\* StartWorkerThreads has set working_ and started the threads.
Init ==
  /\ pc = [w \in Worker |-> "pop"]
  /\ marked = [w \in Worker |-> FALSE]
  /\ run = [w \in Worker |-> {}]
  /\ used = 0
  /\ working = TRUE
  /\ ready = {} /\ fresh = Task /\ byTask = {}
  /\ main = "running"

Goto(w, label) == pc' = [pc EXCEPT ![w] = label]

\* Pop: a task to execute, or nothing.
PopTask(w) ==
  /\ pc[w] = "pop"
  /\ \E t \in ready :
       /\ ready' = ready \ {t}
       /\ run' = [run EXCEPT ![w] = {t}]
  /\ Goto(w, IF marked[w] THEN "execute" ELSE "mark")
  /\ UNCHANGED <<marked, used, working, fresh, byTask, main>>

PopNothingMutant(w) ==
  /\ pc[w] = "pop" /\ ready = {}
  /\ Goto(w, "unmark")
  /\ UNCHANGED <<marked, run, used, working, ready, fresh, byTask, main>>

PopNothing(w) ==
  /\ pc[w] = "pop" /\ ready = {}
  /\ Goto(w, IF marked[w] THEN "unmark" ELSE "check")
  /\ UNCHANGED <<marked, run, used, working, ready, fresh, byTask, main>>

\* A worker that marks itself with every task it pops after an empty stack.
MarkUsedMutant(w) ==
  /\ pc[w] = "mark"
  /\ used' = used + 1
  /\ Goto(w, "execute")
  /\ UNCHANGED <<marked, run, working, ready, fresh, byTask, main>>

MarkUsed(w) ==
  /\ pc[w] = "mark"
  /\ marked' = [marked EXCEPT ![w] = TRUE]
  /\ used' = used + 1
  /\ Goto(w, "execute")
  /\ UNCHANGED <<run, working, ready, fresh, byTask, main>>

\* The function of the executed task, or the unblocking after it, pushes t.
PushFromTask(w, t) ==
  /\ pc[w] = "execute" /\ t \in fresh
  /\ fresh' = fresh \ {t}
  /\ ready' = ready \cup {t}
  /\ byTask' = byTask \cup {t}
  /\ UNCHANGED <<pc, marked, run, used, working, main>>

\* Execute returns; the worker goes on with the task it unblocked first, if any.
FinishTask(w) ==
  /\ pc[w] = "execute"
  /\ \/ /\ run' = [run EXCEPT ![w] = {}]
        /\ Goto(w, "pop")
        /\ UNCHANGED <<fresh, byTask>>
     \/ \E next \in fresh :
        /\ run' = [run EXCEPT ![w] = {next}]
        /\ fresh' = fresh \ {next}
        /\ byTask' = byTask \cup {next}
        /\ UNCHANGED pc
  /\ UNCHANGED <<marked, used, working, ready, main>>

\* A worker that leaves as soon as it finds nothing to do.
UnmarkUsedMutant(w) ==
  /\ pc[w] = "unmark"
  /\ marked' = [marked EXCEPT ![w] = FALSE]
  /\ used' = used - 1
  /\ Goto(w, "exited")
  /\ UNCHANGED <<run, working, ready, fresh, byTask, main>>

UnmarkUsed(w) ==
  /\ pc[w] = "unmark"
  /\ marked' = [marked EXCEPT ![w] = FALSE]
  /\ used' = used - 1
  /\ Goto(w, "check")
  /\ UNCHANGED <<run, working, ready, fresh, byTask, main>>

\* A worker that looks at working_ before it pops.
CheckWorkingMutant(w) ==
  /\ \/ pc[w] = "check" /\ Goto(w, IF working THEN "pop" ELSE "exited")
     \/ pc[w] = "pop" /\ ~marked[w] /\ ~working /\ Goto(w, "exited")
     \/ pc[w] = "pop" /\ marked[w] /\ ~working /\ Goto(w, "unmark")
  /\ UNCHANGED <<marked, run, used, working, ready, fresh, byTask, main>>

\* A worker that leaves only if it finds tasks it may not execute any longer.
CheckWorkingMutant2(w) ==
  /\ pc[w] = "check"
  /\ Goto(w, IF working \/ ready = {} THEN "pop" ELSE "exited")
  /\ UNCHANGED <<marked, run, used, working, ready, fresh, byTask, main>>

CheckWorking(w) ==
  /\ pc[w] = "check"
  /\ Goto(w, IF working THEN "pop" ELSE "exited")
  /\ UNCHANGED <<marked, run, used, working, ready, fresh, byTask, main>>

\* The main thread creates a task that is ready at once.
PushFromMain(t) ==
  /\ main \in {"running", "waited"} /\ t \in fresh
  /\ fresh' = fresh \ {t}
  /\ ready' = ready \cup {t}
  /\ UNCHANGED <<pc, marked, run, used, working, byTask, main>>

CallWaitForAllTasks ==
  /\ main = "running"
  /\ main' = "waiting"
  /\ UNCHANGED <<pc, marked, run, used, working, ready, fresh, byTask>>

\* WaitForAllTasks leaves its loop: used_threads_ reads zero.
WaitForAllTasks ==
  /\ main = "waiting" /\ used = 0
  /\ main' = "asserting"
  /\ UNCHANGED <<pc, marked, run, used, working, ready, fresh, byTask>>

\* AssertEmpty looks at the pool, and the call returns.
AssertEmpty ==
  /\ main = "asserting"
  /\ main' = "waited"
  /\ UNCHANGED <<pc, marked, run, used, working, ready, fresh, byTask>>

\* StopWorkerThreadsNoWait, followed by WaitForWorkerThreadsToJoin.
StopWorkerThreadsNoWait ==
  /\ main \in {"running", "waited"}
  /\ working' = FALSE
  /\ main' = "joining"
  /\ UNCHANGED <<pc, marked, run, used, ready, fresh, byTask>>

\* The last join returns.
WaitForWorkerThreadsToJoin ==
  /\ main = "joining" /\ \A w \in Worker : pc[w] = "exited"
  /\ main' = "joined"
  /\ UNCHANGED <<pc, marked, run, used, working, ready, fresh, byTask>>

WorkerStep(w) ==
  \/ PopTask(w) \/ PopNothing(w) \/ MarkUsed(w) \/ FinishTask(w)
  \/ UnmarkUsed(w) \/ CheckWorking(w)

Next ==
  \/ \E w \in Worker : WorkerStep(w) \/ \E t \in Task : PushFromTask(w, t)
  \/ \E t \in Task : PushFromMain(t)
  \/ CallWaitForAllTasks \/ WaitForAllTasks \/ AssertEmpty
  \/ StopWorkerThreadsNoWait \/ WaitForWorkerThreadsToJoin

Spec == Init /\ [][Next]_vars

\* The scheduler runs every worker again and again, functions end, and a main
\* thread that waits looks at the counter and joins again and again.
FairSpec ==
  /\ Spec
  /\ \A w \in Worker : WF_vars(WorkerStep(w))
  /\ WF_vars(WaitForAllTasks) /\ WF_vars(WaitForWorkerThreadsToJoin)
-----------------------------------------------------------------------------
\* used_threads_ counts the workers that have marked themselves, through every
\* interleaving of marking and unmarking, and never goes below zero or wraps.
UsedExact == used = Cardinality({w \in Worker : marked[w]})

\* What WaitForAllTasks can rely on: a worker inside a task's function, or in a
\* chain of tasks it unblocked, is counted, so the wait outlasts it.
ExecutingIsCounted ==
  \A w \in Worker : pc[w] = "execute" => marked[w] /\ used > 0

\* What shutdown can rely on: tasks that became ready through other tasks are
\* executed before the workers exit, even when working_ is already FALSE,
\* since their pusher pops once more; only a task of the main thread is left.
TasksOfTasksRun ==
  main = "joined" => ready \cap byTask = {}

\* While the workers are not told to stop, every ready task gets executed.
ReadyRuns == \A t \in Task : (t \in ready) ~> (t \notin ready \/ ~working)

\* Once working_ is FALSE all workers exit and the join returns.
StopsJoined == (main = "joining") ~> (main = "joined")

\* The assertion of AssertEmpty in WaitForAllTasks: when its loop ends, no ready
\* task is left in the stack or with a worker.
WaitMeansDone ==
  main = "asserting" => ready = {} /\ \A w \in Worker : run[w] = {}
=============================================================================
