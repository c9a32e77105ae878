----------------------------- MODULE Coroutines -----------------------------
(***************************************************************************)
(* Coroutines, the futures they await and the tasks that resume them       *)
(* (Coroutine.h, CoroutineHandle.h, Future.h, AnyValue.h and               *)
(* SimpleAllocator.h).  A strand is the main thread or the function of a   *)
(* task on some worker; it carries the stack of the coroutines that have   *)
(* called one another on it.  A coroutine that awaits another one leaves   *)
(* its handle in the continuation word of that one (TrySet), which empties *)
(* the word when it finishes (Close) and resumes what it has found.  The   *)
(* frames are blocks of one size class of the SimpleAllocator.  Adding a   *)
(* node to the gate of a future and unblocking its nodes are single steps  *)
(* here (TaskSystem takes them apart), the references to a future are the  *)
(* set of its holders, and the future of a task has a slot of its own.     *)
(* A call for which a pool has no slot left is not made.  Every future has *)
(* a result; void ones, generators and awaits of a resource are left out.  *)
(***************************************************************************)
EXTENDS Naturals, FiniteSets, SequencesExt

CONSTANTS Frame,   \* memory blocks that become coroutine frames
          Future,  \* slots of the future and task pools that carry a result
          Task,    \* tasks that have not ended
          Main,    \* the thread that uses the library
          Calls,   \* bound: calls the program makes in one run
          None     \* null handles and pointers

ASSUME CoroutinesAssumption ==
  /\ IsFiniteSet(Frame) /\ IsFiniteSet(Future) /\ IsFiniteSet(Task)
  /\ Frame \cap Future = {} /\ Frame \cap Task = {} /\ Main \notin Task \cup Frame
  /\ None \notin Frame \cup Future /\ Calls \in Nat

Strand == Task \cup {Main}
Holder == Strand \cup Frame

VARIABLES
  \* frames
  memory,      \* memory[f]: "system" until malloc returns it, then "free" or "used"
  detached,    \* detached[f]: its promise is a TDetachPromise
  pc,          \* where the coroutine in f is
  awaits,      \* what its awaiter holds: awaited_ or inner_task_
  param,       \* the future it has got as a parameter
  returned,    \* HasReturnValue
  word,        \* continuation_: the handle and the gate
  \* threads
  child,       \* child[h]: the coroutine behind the TUniqueHandle that h keeps
  stack,       \* stack[s]: coroutines that run or wait for a call on s, last on top
  at,          \* where the strand is, outside the coroutines
  job,         \* job[s]: what the task's function, or main's call, does to what
  \* futures
  state,       \* state of the gate
  result,      \* result_.HasValue()
  dependents,  \* tasks whose nodes are in the gate
  handles,     \* <<h, u>>: h holds a reference to u
  use,         \* how the program uses the result: ShareResult or DropResult
  left,        \* calls that may still be made
  failed       \* the assertion that failed
frameVars == <<memory, detached, param, returned>>
coroutineVars == <<frameVars, pc, awaits, word, child, stack>>
threadVars == <<at, job>>
futureVars == <<state, result, dependents, handles, use>>
vars == <<coroutineVars, threadVars, futureVars, left, failed>>

FrameOrNone == Frame \cup {None}
NoJob == [kind |-> "none", on |-> None]
Open == [value |-> None, gate |-> "Unfinished"]

TypeOK ==
  /\ memory \in [Frame -> {"system", "free", "used"}]
  /\ detached \in [Frame -> BOOLEAN] /\ returned \in [Frame -> BOOLEAN]
  /\ pc \in [Frame -> {"none", "body", "trySet", "ready", "then", "suspended", "resume",
                       "close", "done"}]
  /\ awaits \in [Frame -> FrameOrNone \cup Future]
  /\ param \in [Frame -> Future \cup {None}]
  /\ word \in [Frame -> [value : FrameOrNone, gate : {"Unfinished", "Done"}]]
  /\ child \in [Frame \cup {Main} -> FrameOrNone]
  /\ stack \in [Strand -> Seq(Frame)]
  /\ at \in [Strand -> {"idle", "waiting", "ready", "run", "unblock", "reset", "end"}]
  /\ job \in [Strand -> [kind : {"none", "resume", "produce", "read", "consume"},
                         on : FrameOrNone \cup Future]]
  /\ state \in [Future -> {"Pooled", "Pending", "Done", "Unconsumed"}]
  /\ result \in [Future -> BOOLEAN]
  /\ dependents \in [Future -> SUBSET Task]
  /\ handles \subseteq Holder \X Future
  /\ use \in [Future -> {"any", "share", "drop"}]
  /\ left \in 0..Calls
  /\ failed \in {"none", "no_return_value", "unfinished", "no_result", "set_twice"}

Init ==
  /\ memory = [f \in Frame |-> "system"]
  /\ detached = [f \in Frame |-> FALSE] /\ returned = [f \in Frame |-> FALSE]
  /\ pc = [f \in Frame |-> "none"]
  /\ awaits = [f \in Frame |-> None] /\ param = [f \in Frame |-> None]
  /\ word = [f \in Frame |-> Open]
  /\ child = [h \in Frame \cup {Main} |-> None]
  /\ stack = [s \in Strand |-> <<>>]
  /\ at = [s \in Strand |-> "idle"] /\ job = [s \in Strand |-> NoJob]
  /\ state = [u \in Future |-> "Pooled"] /\ result = [u \in Future |-> FALSE]
  /\ dependents = [u \in Future |-> {}]
  /\ handles = {} /\ use = [u \in Future |-> "any"]
  /\ left = Calls /\ failed = "none"
-----------------------------------------------------------------------------
(* Who runs, and what is free. *)

\* Main runs its own code, and f runs its own on s.
InMain == at[Main] = "idle" /\ stack[Main] = <<>>
Runs(s, f, label) == stack[s] # <<>> /\ Last(stack[s]) = f /\ pc[f] = label
InUserCode(h) ==
  IF h = Main THEN InMain ELSE \E s \in Strand : Runs(s, h, "body")

\* The program makes one call more.
Call == left > 0 /\ left' = left - 1

\* Some slot of a pool; which one it is makes no difference.
Some(S) == CHOOSE x \in S : TRUE
FreeTasks == {t \in Task : at[t] = "idle"}
FreeFutures == {u \in Future : state[u] = "Pooled"}

\* SimpleAllocator::allocate: a block of the free list, or else of the system.
Allocate ==
  LET S == {f \in Frame : memory[f] = "free"} IN
  IF S # {} THEN S ELSE {f \in Frame : memory[f] = "system"}

\* OnRefCountZero of a version that forgets the result.
PooledResultMutant(u) == result[u]

\* OnRefCountZero resets a result that no one has consumed.
PooledResult(u) == result[u] /\ state[u] # "Unconsumed"

\* The references in R are released; futures without any go back to the pool.
Release(R) ==
  LET unused == {u \in Future : (\E h \in Holder : <<h, u>> \in handles)
                                /\ \A h \in Holder : <<h, u>> \in handles => <<h, u>> \in R}
  IN
  /\ handles' = handles \ R
  /\ state' = [u \in Future |-> IF u \in unused THEN "Pooled" ELSE state[u]]
  /\ result' = [u \in Future |-> IF u \in unused THEN PooledResult(u) ELSE result[u]]
  /\ use' = [u \in Future |-> IF u \in unused THEN "any" ELSE use[u]]

\* Frame f is destroyed with its parameters, and its block goes to the free list.
Destroy(f) ==
  /\ memory' = [memory EXCEPT ![f] = "free"]
  /\ param' = [param EXCEPT ![f] = None]
  /\ returned' = [returned EXCEPT ![f] = FALSE]
  /\ word' = [word EXCEPT ![f] = Open]
  /\ UNCHANGED detached

\* Then: task t does this job when u is done; its node enters u's gate, or it is
\* ready at once.
QueueAfter(u, t, kind, on) ==
  /\ job' = [job EXCEPT ![t] = [kind |-> kind, on |-> on]]
  /\ IF state[u] = "Pending"
     THEN /\ at' = [at EXCEPT ![t] = "waiting"]
          /\ dependents' = [dependents EXCEPT ![u] = @ \cup {t}]
     ELSE at' = [at EXCEPT ![t] = "ready"] /\ UNCHANGED dependents
-----------------------------------------------------------------------------
(* Calls of the program on futures and tasks. *)

\* MakeFuture.
MakeFuture ==
  LET u == Some(FreeFutures) IN
  /\ InMain /\ Call /\ FreeFutures # {}
  /\ state' = [state EXCEPT ![u] = "Pending"]
  /\ handles' = handles \cup {<<Main, u>>}
  /\ UNCHANGED <<coroutineVars, threadVars, result, dependents, use, failed>>

\* A task that produces a result; h gets its future.
NewTask(h, t, u) ==
  /\ Call /\ FreeTasks # {} /\ FreeFutures # {}
  /\ t = Some(FreeTasks) /\ u = Some(FreeFutures)
  /\ job' = [job EXCEPT ![t] = [kind |-> "produce", on |-> u]]
  /\ at' = [at EXCEPT ![t] = "ready"]
  /\ state' = [state EXCEPT ![u] = "Pending"]
  /\ handles' = handles \cup {<<h, u>>, <<t, u>>}
  /\ UNCHANGED <<result, dependents, failed>>

InitializeTask(t, u) ==
  /\ InMain /\ NewTask(Main, t, u)
  /\ UNCHANGED <<coroutineVars, use>>

\* Done of a future that no task produces: the result is stored, ...
StoreDone(u) ==
  /\ InMain /\ <<Main, u>> \in handles /\ state[u] = "Pending"
  /\ \A t \in Task : job[t] # [kind |-> "produce", on |-> u]
  /\ result' = [result EXCEPT ![u] = TRUE]
  /\ at' = [at EXCEPT ![Main] = "unblock"]
  /\ job' = [job EXCEPT ![Main] = [kind |-> "produce", on |-> u]]
  /\ UNCHANGED <<coroutineVars, state, dependents, handles, use, left, failed>>

\* The state a gate gets with the result of u.
DoneState(u) == IF result[u] THEN "Unconsumed" ELSE "Done"

\* ... and the gate is unblocked: every task behind it is ready.
Unblock(s) ==
  LET u == job[s].on IN
  /\ at[s] = "unblock"
  /\ state' = [state EXCEPT ![u] = DoneState(u)]
  /\ dependents' = [dependents EXCEPT ![u] = {}]
  /\ at' = [x \in Strand |-> IF x \in dependents[u] THEN "ready"
                             ELSE IF x # s THEN at[x]
                             ELSE IF s = Main THEN "idle" ELSE "end"]
  /\ job' = [job EXCEPT ![s] = IF s = Main THEN NoJob ELSE @]
  /\ UNCHANGED <<coroutineVars, result, handles, use, left, failed>>

\* ThenRead and ThenConsume: the lambda keeps a reference to its source.
ThenUse(u, kind) ==
  LET t == Some(FreeTasks) IN
  /\ InMain /\ Call /\ FreeTasks # {} /\ <<Main, u>> \in handles
  /\ use[u] \in {"any"} \cup (IF kind = "read" THEN {"share"} ELSE {})
  /\ use' = [use EXCEPT ![u] = IF kind = "read" THEN "share" ELSE "drop"]
  /\ QueueAfter(u, t, kind, u)
  /\ handles' = handles \cup {<<t, u>>}
  /\ UNCHANGED <<coroutineVars, state, result, failed>>

\* The program forgets a future, one of its own only when it is done.
DropFuture(u) ==
  /\ InMain /\ <<Main, u>> \in handles
  /\ state[u] # "Pending" \/ \E t \in Task : job[t] = [kind |-> "produce", on |-> u]
  /\ Release({<<Main, u>>})
  /\ UNCHANGED <<coroutineVars, threadVars, dependents, left, failed>>
-----------------------------------------------------------------------------
(* The functions of tasks. *)

\* The task's function is called: it resumes a coroutine, ...
RunResume(t) ==
  LET f == job[t].on IN
  /\ at[t] = "ready" /\ job[t].kind = "resume"
  /\ at' = [at EXCEPT ![t] = "run"]
  /\ job' = [job EXCEPT ![t] = NoJob]
  /\ stack' = [stack EXCEPT ![t] = <<f>>]
  /\ pc' = [pc EXCEPT ![f] = IF awaits[f] = None THEN "body" ELSE "resume"]
  /\ UNCHANGED <<frameVars, awaits, word, child, futureVars, left, failed>>

\* ... or returns a value that is stored, ...
RunProduce(t) ==
  /\ at[t] = "ready" /\ job[t].kind = "produce"
  /\ result' = [result EXCEPT ![job[t].on] = TRUE]
  /\ at' = [at EXCEPT ![t] = "unblock"]
  /\ UNCHANGED <<coroutineVars, job, state, dependents, handles, use, left, failed>>

\* ... or shares the result of its source, ...
RunRead(t) ==
  /\ at[t] = "ready" /\ job[t].kind = "read"
  /\ failed' = IF state[job[t].on] = "Unconsumed" THEN "none" ELSE "no_result"
  /\ at' = [at EXCEPT ![t] = "end"]
  /\ UNCHANGED <<coroutineVars, job, futureVars, left>>

\* ... or drops it: DropResult takes the state first, and the value after it.
RunConsume(t) ==
  LET u == job[t].on IN
  /\ at[t] = "ready" /\ job[t].kind = "consume"
  /\ failed' = IF state[u] = "Unconsumed" THEN "none" ELSE "no_result"
  /\ state' = [state EXCEPT ![u] = "Done"]
  /\ at' = [at EXCEPT ![t] = "reset"]
  /\ UNCHANGED <<coroutineVars, job, result, dependents, handles, use, left>>

ResetResult(t) ==
  /\ at[t] = "reset"
  /\ result' = [result EXCEPT ![job[t].on] = FALSE]
  /\ at' = [at EXCEPT ![t] = "end"]
  /\ UNCHANGED <<coroutineVars, job, state, dependents, handles, use, left, failed>>

\* The function has returned; its captures and the task's own reference go.
EndTask(t) ==
  /\ at[t] = "end" \/ (at[t] = "run" /\ stack[t] = <<>>)
  /\ Release({t} \X Future)
  /\ at' = [at EXCEPT ![t] = "idle"]
  /\ job' = [job EXCEPT ![t] = NoJob]
  /\ UNCHANGED <<coroutineVars, dependents, left, failed>>
-----------------------------------------------------------------------------
(* Coroutines start. *)

\* A parameter that is counted as a reference even when it is null.
ParameterHandlesMutant(f, u) == {<<f, u>>}
ParameterHandles(f, u) == {f} \X ({u} \cap Future)

\* A frame in a new block; u is the future it gets, or None.
Create(f, is_detached, u, label) ==
  /\ Call /\ Allocate # {} /\ f = Some(Allocate)
  /\ memory' = [memory EXCEPT ![f] = "used"]
  /\ detached' = [detached EXCEPT ![f] = is_detached]
  /\ param' = [param EXCEPT ![f] = u]
  /\ pc' = [pc EXCEPT ![f] = label]
  /\ handles' = handles \cup ParameterHandles(f, u)
  /\ UNCHANGED <<awaits, returned, word, state, result, dependents, use, failed>>

\* The futures the program can pass to a coroutine.
Parameters(h) ==
  {None} \cup {u \in Future : <<h, u>> \in handles /\ use[u] # "drop"}

\* A call of a coroutine with a TAttachPromise: it starts at once, and its handle
\* is the caller's.
StartAttached(f, u) ==
  /\ InMain /\ child[Main] = None /\ u \in Parameters(Main)
  /\ Create(f, FALSE, u, "body")
  /\ child' = [child EXCEPT ![Main] = f]
  /\ stack' = [stack EXCEPT ![Main] = <<f>>]
  /\ UNCHANGED threadVars

\* The same inside a coroutine g.
CallCoroutine(s, g, f) ==
  /\ Runs(s, g, "body") /\ child[g] = None
  /\ Create(f, FALSE, None, "body")
  /\ child' = [child EXCEPT ![g] = f]
  /\ stack' = [stack EXCEPT ![s] = Append(@, f)]
  /\ UNCHANGED threadVars

\* StartAndDetach: main resumes the new coroutine.
StartAndDetach(f, u) ==
  /\ InMain /\ u \in Parameters(Main)
  /\ Create(f, TRUE, u, "body")
  /\ stack' = [stack EXCEPT ![Main] = <<f>>]
  /\ UNCHANGED <<child, threadVars>>

\* AsyncResume: a task resumes it.
AsyncResume(f, u) ==
  LET t == Some(FreeTasks) IN
  /\ InMain /\ FreeTasks # {} /\ u \in Parameters(Main)
  /\ Create(f, TRUE, u, "suspended")
  /\ job' = [job EXCEPT ![t] = [kind |-> "resume", on |-> f]]
  /\ at' = [at EXCEPT ![t] = "ready"]
  /\ UNCHANGED <<child, stack>>
-----------------------------------------------------------------------------
(* Coroutines await. *)

\* A promise that calls itself done when the value is there.
IsDoneMutant(f) == returned[f]
IsDone(f) == word[f].gate = "Done"

\* The coroutine on top of s gives the strand back to whoever resumed it.
Leave(s) == stack' = [stack EXCEPT ![s] = Front(@)]

\* co_await of a coroutine, up to await_ready.
AwaitChild(s, f) ==
  /\ Runs(s, f, "body") /\ child[f] # None
  /\ awaits' = [awaits EXCEPT ![f] = child[f]]
  /\ child' = [child EXCEPT ![f] = None]
  /\ pc' = [pc EXCEPT ![f] = IF IsDone(child[f]) THEN "resume" ELSE "trySet"]
  /\ UNCHANGED <<frameVars, word, stack, threadVars, futureVars, left, failed>>

\* A TrySet that does not look at the gate.
GateOpenMutant(f) == TRUE
GateOpen(f) == word[f].gate = "Unfinished"

\* await_suspend: TrySet, unless the awaited coroutine has finished meanwhile;
\* then the awaiting one goes on at once.
TrySet(s, f) ==
  LET g == awaits[f] IN
  /\ Runs(s, f, "trySet")
  /\ IF GateOpen(g)
     THEN /\ failed' = IF word[g].value = None THEN "none" ELSE "set_twice"
          /\ word' = [word EXCEPT ![g].value = f]
          /\ pc' = [pc EXCEPT ![f] = "suspended"]
          /\ Leave(s)
     ELSE /\ pc' = [pc EXCEPT ![f] = "resume"]
          /\ UNCHANGED <<failed, word, stack>>
  /\ UNCHANGED <<frameVars, awaits, child, threadVars, futureVars, left>>

\* co_await of a future that is a parameter; it stays one.
AwaitFuture(s, f) ==
  LET u == param[f] IN
  /\ Runs(s, f, "body") /\ u # None /\ use[u] # "drop"
  /\ Call
  /\ awaits' = [awaits EXCEPT ![f] = u]
  /\ pc' = [pc EXCEPT ![f] = "ready"]
  /\ use' = [use EXCEPT ![u] = "share"]
  /\ UNCHANGED <<frameVars, word, child, stack, threadVars, state, result, dependents,
                 handles, failed>>

\* co_await of InitializeTask: the future is a temporary object.
AwaitTask(s, f, t, u) ==
  /\ Runs(s, f, "body") /\ NewTask(f, t, u)
  /\ awaits' = [awaits EXCEPT ![f] = u]
  /\ pc' = [pc EXCEPT ![f] = "ready"]
  /\ use' = [use EXCEPT ![u] = "share"]
  /\ UNCHANGED <<frameVars, word, child, stack>>

\* await_ready of a future.
AwaitReady(s, f) ==
  /\ Runs(s, f, "ready")
  /\ pc' = [pc EXCEPT ![f] = IF state[awaits[f]] = "Pending" THEN "then" ELSE "resume"]
  /\ UNCHANGED <<frameVars, awaits, word, child, stack, threadVars, futureVars, left, failed>>

\* await_suspend: a task behind the future will resume the coroutine.  What is left of
\* the call, once the node is in the gate, touches the new task only, and the return
\* of await_suspend is in the same step.
Then(s, f) ==
  LET t == Some(FreeTasks) IN
  /\ Runs(s, f, "then") /\ FreeTasks # {}
  /\ QueueAfter(awaits[f], t, "resume", f)
  /\ pc' = [pc EXCEPT ![f] = "suspended"]
  /\ Leave(s)
  /\ UNCHANGED <<frameVars, awaits, word, child, state, result, handles, use, left, failed>>

\* await_resume of a future: its result is copied, and a temporary one released.
ResumeFuture(s, f) ==
  LET u == awaits[f] IN
  /\ Runs(s, f, "resume") /\ u \in Future
  /\ failed' = IF state[u] = "Unconsumed" THEN "none" ELSE "no_result"
  /\ Release(IF param[f] = u THEN {} ELSE {<<f, u>>})
  /\ awaits' = [awaits EXCEPT ![f] = None]
  /\ pc' = [pc EXCEPT ![f] = "body"]
  /\ UNCHANGED <<frameVars, word, child, stack, threadVars, dependents, left>>

\* A TUniqueHandle to g is destroyed: an assertion on Status, and Destroy.
DestroyChild(g) ==
  /\ Destroy(g)
  /\ Release({g} \X Future)

\* await_resume of a coroutine: its value is consumed, and its frame destroyed.
ResumeChild(s, f) ==
  LET g == awaits[f] IN
  /\ Runs(s, f, "resume") /\ g \in Frame
  /\ failed' = IF ~returned[g] THEN "no_return_value"
               ELSE IF ~IsDone(g) THEN "unfinished" ELSE "none"
  /\ DestroyChild(g)
  /\ awaits' = [awaits EXCEPT ![f] = None]
  /\ pc' = [pc EXCEPT ![f] = "body", ![g] = "none"]
  /\ UNCHANGED <<child, stack, threadVars, dependents, left>>

\* h destroys the handle of a coroutine without awaiting it.  That it has finished is
\* asserted by ~TUniqueHandle, and is for the program to see to.
DropHandle(h) ==
  LET g == child[h] IN
  /\ InUserCode(h) /\ g # None /\ IsDone(g)
  /\ DestroyChild(g)
  /\ child' = [child EXCEPT ![h] = None]
  /\ pc' = [pc EXCEPT ![g] = "none"]
  /\ UNCHANGED <<awaits, stack, threadVars, dependents, left, failed>>
-----------------------------------------------------------------------------
(* Coroutines end. *)

\* co_return with every handle it had used up: the value is there.
Return(s, f) ==
  /\ Runs(s, f, "body") /\ ~detached[f] /\ child[f] = None
  /\ returned' = [returned EXCEPT ![f] = TRUE]
  /\ pc' = [pc EXCEPT ![f] = "close"]
  /\ UNCHANGED <<memory, detached, param, awaits, word, child, stack, threadVars, futureVars,
                 left, failed>>

\* A final_suspend that leaves the gate open.
ClosedMutant == Open
Closed == [value |-> None, gate |-> "Done"]

\* final_suspend: Close, and the coroutine that awaits this one goes on.
Close(s, f) ==
  LET continuation == word[f].value IN
  /\ Runs(s, f, "close")
  /\ word' = [word EXCEPT ![f] = Closed]
  /\ IF continuation = None
     THEN Leave(s) /\ pc' = [pc EXCEPT ![f] = "done"]
     ELSE /\ stack' = [stack EXCEPT ![s] = Append(Front(@), continuation)]
          /\ pc' = [pc EXCEPT ![f] = "done", ![continuation] = "resume"]
  /\ UNCHANGED <<frameVars, awaits, child, threadVars, futureVars, left, failed>>

\* The end of a detached coroutine with the final_suspend of an attached one.
EndDetachedMutant(s, f) ==
  /\ Runs(s, f, "body") /\ detached[f] /\ child[f] = None
  /\ pc' = [pc EXCEPT ![f] = "done"]
  /\ Leave(s)
  /\ UNCHANGED <<frameVars, awaits, word, child, threadVars, futureVars, left, failed>>

\* The end of a detached coroutine: it does not suspend, so that its frame goes.
EndDetached(s, f) ==
  /\ Runs(s, f, "body") /\ detached[f] /\ child[f] = None
  /\ DestroyChild(f)
  /\ pc' = [pc EXCEPT ![f] = "none"]
  /\ Leave(s)
  /\ UNCHANGED <<awaits, child, threadVars, dependents, left, failed>>
-----------------------------------------------------------------------------
\* A coroutine that has made its calls awaits what it has started, and ends.
RunCoroutine(s, f) ==
  \/ AwaitChild(s, f) \/ TrySet(s, f) \/ AwaitReady(s, f) \/ Then(s, f)
  \/ ResumeFuture(s, f) \/ ResumeChild(s, f)
  \/ Return(s, f) \/ Close(s, f) \/ EndDetached(s, f)

RunTask(t) ==
  RunResume(t) \/ RunProduce(t) \/ RunRead(t) \/ RunConsume(t) \/ ResetResult(t) \/ EndTask(t)

\* What a strand does without a choice of the program; main completes the futures
\* it has made.
Proceed(s) ==
  \/ \E f \in Frame : RunCoroutine(s, f)
  \/ Unblock(s)
  \/ s \in Task /\ RunTask(s)
  \/ s = Main /\ \E u \in Future : StoreDone(u)

\* What the program may call.
Program ==
  \/ MakeFuture
  \/ \E t \in Task, u \in Future : InitializeTask(t, u)
  \/ \E u \in Future : ThenUse(u, "read") \/ ThenUse(u, "consume") \/ DropFuture(u)
  \/ \E f \in Frame, u \in Future \cup {None} :
       StartAttached(f, u) \/ StartAndDetach(f, u) \/ AsyncResume(f, u)
  \/ \E h \in Frame \cup {Main} : DropHandle(h)
  \/ \E s \in Strand, f \in Frame :
       \/ AwaitFuture(s, f)
       \/ \E g \in Frame : CallCoroutine(s, f, g)
       \/ \E t \in Task, u \in Future : AwaitTask(s, f, t, u)

Next ==
  /\ failed = "none"
  /\ Program \/ \E s \in Strand : Proceed(s)

Spec == Init /\ [][Next]_vars

\* As long as some thread can go on, some thread does; no more is needed, because
\* no strand goes on for ever without a call of the program.
FairSpec == Spec /\ WF_vars(failed = "none" /\ \E s \in Strand : Proceed(s))
-----------------------------------------------------------------------------
\* Where a coroutine runs, waits for a call, or will be resumed from.
Places(f) ==
  ({"stack"} \X {s \in Strand : f \in Range(stack[s])})
  \cup ({"task"} \X {t \in Task : job[t] = [kind |-> "resume", on |-> f]})
  \cup ({"word"} \X {g \in Frame : word[g] = [value |-> f, gate |-> "Unfinished"]})

\* A coroutine that has not finished is in exactly one place that carries it on:
\* on one stack, with one task, or in the word of one coroutine that has not
\* finished either.  One that has, or whose frame is freed, is in none: TrySet and
\* Close, from two threads, neither lose a coroutine nor resume it twice.
OneResumer ==
  \A f \in Frame :
    Cardinality(Places(f)) = IF pc[f] \in {"none", "done"} THEN 0 ELSE 1

\* The assertions of await_resume and TrySet, and of ~TUniqueHandle where an awaiter
\* ends: who awaits a coroutine finds its value, destroys it only when it has
\* finished, and is alone.  (A handle that is dropped is another matter: DropHandle.)
AwaitedFinished == failed \notin {"no_return_value", "unfinished", "set_twice"}

\* The assertions of ShareResult, DropResult and OnRefCountZero: whoever reads or
\* takes a result finds it, and none is left behind in a pooled future.
ResultsReadable ==
  /\ failed # "no_result"
  /\ \A u \in Future :
       /\ state[u] = "Pooled" => ~result[u] /\ dependents[u] = {}
       /\ state[u] = "Unconsumed" => result[u]

\* Main holds nothing and no task is left.
Quiet ==
  /\ InMain /\ child[Main] = None /\ \A u \in Future : <<Main, u>> \notin handles
  /\ \A t \in Task : at[t] = "idle"

\* ensure_allocator_free: when all is over, every block malloc has returned is in
\* the free list again, and every future in its pool.
NothingLeaks ==
  Quiet => /\ \A f \in Frame : memory[f] # "used"
           /\ \A u \in Future : state[u] = "Pooled"

\* Some coroutine is suspended.
Suspended == \E f \in Frame : pc[f] = "suspended"

\* Every coroutine that suspends goes on: what it awaits is done some day, and the
\* one that completes it finds it.  (There are finitely many calls, so that in the
\* end no coroutine is suspended.)
SuspendedResume == Suspended ~> ~Suspended
=============================================================================
