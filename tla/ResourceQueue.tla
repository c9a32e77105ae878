--------------------------- MODULE ResourceQueue ---------------------------
(***************************************************************************)
(* What the access synchroniser promises to those who ask for a resource:  *)
(* a first-come, first-served lock for readers and writers.  Requests form *)
(* a queue of groups; an exclusive request is a group of its own, shared   *)
(* requests that follow each other are one.  Who is in a group may use the *)
(* resource once every group before it has gone.                           *)
(***************************************************************************)
EXTENDS Naturals, Sequences, FiniteSets

CONSTANT Task    \* the tasks that ask and use the resource

VARIABLES queue,  \* the groups: [mode, tasks], first come first
          inside  \* the tasks that use the resource

Group == [mode : {"exclusive", "shared"}, tasks : SUBSET Task]

TypeOK == queue \in Seq(Group) /\ inside \subseteq Task

Init == queue = <<>> /\ inside = {}

Queued == UNION {queue[i].tasks : i \in 1..Len(queue)}

\* The queue after t has asked.
Joined(q, t, mode) ==
  IF mode = "shared" /\ q # <<>> /\ q[Len(q)].mode = "shared"
  THEN [q EXCEPT ![Len(q)].tasks = @ \cup {t}]
  ELSE Append(q, [mode |-> mode, tasks |-> {t}])

\* The queue after t has gone; a group goes with its last task.
Without(q, t) ==
  LET remaining == [i \in 1..Len(q) |-> [q[i] EXCEPT !.tasks = @ \ {t}]]
      NotEmpty(g) == g.tasks # {}
  IN SelectSeq(remaining, NotEmpty)

\* t asks, and may use the resource at once if it is in the first group.
Request(t, mode) ==
  /\ t \notin Queued
  /\ queue' = Joined(queue, t, mode)
  /\ \/ UNCHANGED inside
     \/ t \in queue'[1].tasks /\ inside' = inside \cup {t}

Enter(t) ==
  /\ queue # <<>> /\ t \in queue[1].tasks \ inside
  /\ inside' = inside \cup {t}
  /\ UNCHANGED queue

Leave(t) ==
  /\ t \in inside
  /\ inside' = inside \ {t}
  /\ queue' = Without(queue, t)

Next ==
  \E t \in Task :
    \/ \E mode \in {"exclusive", "shared"} : Request(t, mode)
    \/ Enter(t) \/ Leave(t)

Spec == Init /\ [][Next]_<<queue, inside>>
=============================================================================
