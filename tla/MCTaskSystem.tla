--------------------------- MODULE MCTaskSystem ---------------------------
(***************************************************************************)
(* TaskSystem on small instances: a budget bounds how many tasks and       *)
(* futures the program creates before it stops creating.                   *)
(***************************************************************************)
EXTENDS TaskSystem, TLC

CONSTANTS Budget  \* bound: creations in one run

VARIABLE budget   \* creations left

mcVars == <<vars, budget>>

Symmetric == Permutations(Task) \cup Permutations(Worker) \cup Permutations(Future)

Creations == {o \in Object : state[o] = "Pooled" /\ state'[o] = "Pending"}

MCInit == Init /\ budget = Budget
MCNext == Next /\ budget' = budget - Cardinality(Creations) /\ budget' >= 0
MCSpec == MCInit /\ [][MCNext]_mcVars

\* Every thread goes on with what it has begun, workers go on popping, task
\* functions end, and a program keeps the promises it made with futures.
MCFairSpec ==
  /\ MCSpec
  /\ \A th \in Thread :
       /\ WF_mcVars(SystemStep(th) /\ UNCHANGED budget)
       /\ WF_mcVars((\E f \in Future : FutureDone(th, f)) /\ UNCHANGED budget)
  /\ \A w \in Worker :
       /\ WF_mcVars((\E t \in Task : Pop(w, t)) /\ UNCHANGED budget)
       /\ WF_mcVars((\E o \in Object : DropHandle(w, o)) /\ UNCHANGED budget)
  /\ \A c \in Client :
       WF_mcVars((\E t \in Task : ExecuteATask(c, t)) /\ UNCHANGED budget)

\* Every task that is created runs to its end: no unblocking is lost between
\* the creator that adds a node and the gate that is consumed meanwhile.
TasksFinish == \A t \in Task : (state[t] = "Pending") ~> (state[t] # "Pending")
=============================================================================
