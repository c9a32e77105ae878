---------------------- MODULE AccessSynchronizerQueue ----------------------
(***************************************************************************)
(* AccessSynchronizer with a history variable, queue, that records in      *)
(* which order the requests took effect, and the refinement of             *)
(* ResourceQueue that it makes possible.                                   *)
(***************************************************************************)
EXTENDS AccessSynchronizer

VARIABLE queue

Scope == {"exclusive", "shared"}
Inside == {t \in Task : pc[t] \in Scope}

Lock == INSTANCE ResourceQueue WITH inside <- Inside

\* The task that has become the last task, or has joined the collection.
NewExclusive == IF last_task' # last_task THEN {last_task'} \ {None} ELSE {}
NewShared == {g.task : g \in shared' \ shared}
\* The task that has left its scope.
Left == {t \in Inside : pc'[t] \notin Scope}

Record ==
  queue' = IF NewExclusive # {} THEN Lock!Joined(queue, CHOOSE t \in NewExclusive : TRUE, "exclusive")
           ELSE IF NewShared # {} THEN Lock!Joined(queue, CHOOSE t \in NewShared : TRUE, "shared")
           ELSE IF Left # {} THEN Lock!Without(queue, CHOOSE t \in Left : TRUE)
           ELSE queue

HistorySpec == Init /\ queue = <<>> /\ [][Next /\ Record]_<<vars, queue>>

\* The synchroniser is a first-come, first-served lock: requests are granted in
\* the order of their compare-and-swaps, whatever the threads do in between, and
\* shared requests that follow each other share (SyncExclusive, SyncShared,
\* ReleaseExclusive, ReleaseShared).
ImplementsResourceQueue == Lock!Spec
=============================================================================
