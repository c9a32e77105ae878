----------------------------- MODULE TaskGraph -----------------------------
(***************************************************************************)
(* What the task system promises to its callers, with no thread, counter,  *)
(* reference or queue: a task is created behind a set of gates (tasks and  *)
(* promise futures), starts once all of them have finished, runs once and  *)
(* finishes once.  TaskSystem implements this specification.               *)
(***************************************************************************)
EXTENDS Naturals

CONSTANTS Task,    \* the slots of the task pool
          Future   \* the slots of the future pool (TaskSystem::MakeFuture)

Gated == Task \cup Future

VARIABLES phase,   \* phase[o]: where the life of o stands
          needs    \* needs[t]: the unfinished gates task t was created behind
graphVars == <<phase, needs>>

Phases == {"free", "waiting", "running", "finished"}

GraphTypeOK ==
  /\ phase \in [Gated -> Phases]
  /\ needs \in [Task -> SUBSET Gated]

GraphInit ==
  /\ phase = [o \in Gated |-> "free"]
  /\ needs = [t \in Task |-> {}]

Unfinished(o) == phase[o] \in {"waiting", "running"}

\* A promise future exists unfinished from the start: nothing executes it.
NewFuture(f) ==
  /\ phase[f] = "free"
  /\ phase' = [phase EXCEPT ![f] = "waiting"]
  /\ UNCHANGED needs

NewTask(t, P) ==
  /\ phase[t] = "free"
  /\ \A p \in P : phase[p] # "free"
  /\ phase' = [phase EXCEPT ![t] = "waiting"]
  /\ needs' = [needs EXCEPT ![t] = {p \in P : Unfinished(p)}]

Start(t) ==
  /\ phase[t] = "waiting"
  /\ needs[t] = {}
  /\ phase' = [phase EXCEPT ![t] = "running"]
  /\ UNCHANGED needs

\* o finishes, and nobody waits for it any longer.
Settle(o) ==
  /\ phase' = [phase EXCEPT ![o] = "finished"]
  /\ needs' = [t \in Task |-> needs[t] \ {o}]

Finish(t) == phase[t] = "running" /\ Settle(t)

Complete(f) == phase[f] = "waiting" /\ Settle(f)

\* Slots return to their pool when nobody refers to them any longer; only a
\* future may go unfinished, and only if no task waits for it.
Recycle(O) ==
  /\ O # {}
  /\ \A o \in O :
       \/ phase[o] = "finished"
       \/ o \in Future /\ phase[o] = "waiting" /\ \A t \in Task : o \notin needs[t]
  /\ phase' = [o \in Gated |-> IF o \in O THEN "free" ELSE phase[o]]
  /\ UNCHANGED needs

GraphNext ==
  \/ \E t \in Task : Start(t) \/ Finish(t) \/ \E P \in SUBSET Gated : NewTask(t, P)
  \/ \E f \in Future : NewFuture(f) \/ Complete(f)
  \/ \E O \in SUBSET Gated : Recycle(O)

GraphSpec == GraphInit /\ [][GraphNext]_graphVars
=============================================================================
