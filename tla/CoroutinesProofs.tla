-------------------------- MODULE CoroutinesProofs --------------------------
(***************************************************************************)
(* Proofs about Coroutines: a coroutine that has not finished is in one    *)
(* place that carries it on, results are read while they are there, and    *)
(* frames and futures are given back, for any number of frames, futures,   *)
(* tasks and calls.  CoroutineInv is the inductive invariant.              *)
(***************************************************************************)
EXTENDS Coroutines, FiniteSetTheorems, TLAPS

Owner == Frame \cup {Main}

\* The places where a coroutine is on a stack.
Running == {"body", "trySet", "ready", "then", "resume", "close"}

\* The coroutine on top of s is f.
Tops(s, f) == stack[s] # <<>> /\ Last(stack[s]) = f

\* h keeps the handle of g, in a variable or to await it.
Owns(h, g) == child[h] = g \/ (h \in Frame /\ awaits[h] = g)

\* The future whose result the task t uses, or on which the coroutine it resumes
\* waits.
Source(t) == IF job[t].on \in Frame THEN awaits[job[t].on] ELSE job[t].on

\* What a strand does at each of its stages.
JobsAt ==
  [idle |-> {"none"}, run |-> {"none"},
   waiting |-> {"resume", "read", "consume"},
   ready |-> {"resume", "produce", "read", "consume"},
   unblock |-> {"produce"}, reset |-> {"consume"},
   end |-> {"produce", "read", "consume"}]

\* What a frame is like at each stage of its coroutine.
FrameFits(f) ==
  /\ memory[f] = "used" <=> pc[f] # "none"
  /\ returned[f] <=> pc[f] \in {"close", "done"}
  /\ IsDone(f) <=> pc[f] = "done"
  /\ pc[f] \in {"none", "done"} => word[f].value = None
  /\ pc[f] = "none" => param[f] = None
  /\ pc[f] \in {"none", "close", "done"} => child[f] = None
  /\ pc[f] \in {"close", "done"} => ~detached[f]
  /\ pc[f] \in {"none", "body", "close", "done"} => awaits[f] = None
  /\ pc[f] = "trySet" => awaits[f] \in Frame
  /\ pc[f] \in {"ready", "then"} => awaits[f] \in Future
  /\ pc[f] = "resume" => awaits[f] # None
  /\ pc[f] = "resume" /\ awaits[f] \in Frame => pc[awaits[f]] = "done"

FramesByStage == \A f \in Frame : FrameFits(f)

\* The handle of each attached coroutine is in one place, those of others nowhere.
FramesOwned ==
  /\ \A h \in Owner, g \in Frame : Owns(h, g) => pc[g] # "none" /\ ~detached[g]
  /\ \A h1, h2 \in Owner, g \in Frame : Owns(h1, g) /\ Owns(h2, g) => h1 = h2
  /\ \A f, g \in Frame : ~(child[f] = g /\ awaits[f] = g)
  /\ \A g \in Frame : pc[g] # "none" /\ ~detached[g] => \E h \in Owner : Owns(h, g)

\* No coroutines own one another in a circle.
NoCircle ==
  \A S \in SUBSET Frame : S # {} => \E f \in S : \A g \in S : ~Owns(f, g)

\* A coroutine that runs is on one stack, and there once.
OnStacks ==
  /\ \A s \in Strand : IsInjective(stack[s])
  /\ \A s1, s2 \in Strand, f \in Frame :
       f \in Range(stack[s1]) /\ f \in Range(stack[s2]) => s1 = s2
  /\ \A f \in Frame : pc[f] \in Running <=> \E s \in Strand : f \in Range(stack[s])

\* f waits for a task to start it, or to resume it when a future is done.
AwaitsTask(f) == pc[f] = "suspended" /\ awaits[f] \notin Frame

\* There is one such task.
InTasks ==
  /\ \A t \in Task : job[t].kind = "resume" => AwaitsTask(job[t].on)
  /\ \A t1, t2 \in Task :
       job[t1].kind = "resume" /\ job[t2].kind = "resume" /\ job[t1].on = job[t2].on
       => t1 = t2
  /\ \A f \in Frame : AwaitsTask(f) => \E t \in Task : job[t].kind = "resume" /\ job[t].on = f

\* One that waits for another one is in the word of that.
InWords ==
  \A f, g \in Frame : word[g].value = f <=> pc[f] = "suspended" /\ awaits[f] = g

\* A strand has the job of its stage, and a stack only while it runs.
StrandFits(s) ==
  /\ s = Main => at[s] \in {"idle", "unblock"}
  /\ job[s].kind \in JobsAt[at[s]]
  /\ job[s].kind = "none" => job[s] = NoJob
  /\ job[s].kind = "resume" => job[s].on \in Frame
  /\ job[s].kind \in {"produce", "read", "consume"} => job[s].on \in Future
  /\ stack[s] # <<>> => at[s] = IF s = Main THEN "idle" ELSE "run"

StrandsByStage == \A s \in Strand : StrandFits(s)

\* Who has a reference, apart from main: tasks to what they work on, frames to their
\* parameter and to what they await.
HandlesHeld ==
  /\ \A t \in Task, u \in Future : <<t, u>> \in handles <=> job[t].on = u
  /\ \A f \in Frame, u \in Future : <<f, u>> \in handles <=> param[f] = u \/ awaits[f] = u
  /\ \A u \in Future : job[Main].on = u => <<Main, u>> \in handles

\* A future is in its pool while nobody has a reference to it, and what is in it
\* fits its state.
FutureFits(u) ==
  /\ state[u] = "Pooled" <=> \A h \in Holder : <<h, u>> \notin handles
  /\ state[u] = "Pooled" => ~result[u] /\ use[u] = "any"
  /\ state[u] = "Unconsumed" => result[u]
  /\ state[u] = "Done" => use[u] = "drop"
  /\ state[u] # "Pending" => dependents[u] = {}
  /\ state[u] = "Pending" /\ result[u] => \E s \in Strand : at[s] = "unblock" /\ job[s].on = u
  /\ state[u] = "Done" /\ result[u] => \E t \in Task : at[t] = "reset" /\ job[t].on = u

FuturesByState == \A u \in Future : FutureFits(u)

\* A future is completed once: it is pending until the end of that.
ProducerFits(s) ==
  job[s].kind = "produce" =>
    /\ at[s] = "ready" => state[job[s].on] = "Pending" /\ ~result[job[s].on]
    /\ at[s] = "unblock" => state[job[s].on] = "Pending" /\ result[job[s].on]

Producers ==
  /\ \A s \in Strand : ProducerFits(s)
  /\ \A s1, s2 \in Strand :
       job[s1].kind = "produce" /\ job[s2].kind = "produce" /\ job[s1].on = job[s2].on
       => s1 = s2

\* A result is shared, or dropped by one task, and there for the one whose turn it
\* is.
TaskFits(t) ==
  /\ job[t].kind = "read" => use[job[t].on] = "share"
  /\ job[t].kind = "consume" => use[job[t].on] = "drop"
  /\ at[t] = "ready" /\ job[t].kind # "produce" /\ Source(t) \in Future =>
       state[Source(t)] = "Unconsumed"
  /\ at[t] = "reset" => state[job[t].on] = "Done"

AwaiterFits(f) ==
  awaits[f] \in Future =>
    /\ use[awaits[f]] = "share"
    /\ pc[f] = "resume" => state[awaits[f]] = "Unconsumed"

Users ==
  /\ \A t \in Task : TaskFits(t)
  /\ \A f \in Frame : AwaiterFits(f)
  /\ \A t1, t2 \in Task :
       job[t1].kind = "consume" /\ job[t2].kind = "consume" /\ job[t1].on = job[t2].on
       => t1 = t2

\* The nodes in a gate are those of the tasks that wait for it.
NodesOfWaiting ==
  \A t \in Task, u \in Future : t \in dependents[u] <=> at[t] = "waiting" /\ Source(t) = u

CoroutineInv ==
  /\ TypeOK /\ failed = "none"
  /\ FramesByStage /\ FramesOwned /\ NoCircle
  /\ OnStacks /\ InTasks /\ InWords
  /\ StrandsByStage /\ HandlesHeld
  /\ FuturesByState /\ Producers /\ Users /\ NodesOfWaiting
-----------------------------------------------------------------------------
(* What is taken from a pool, and what happens to a stack. *)

LEMMA SomeIsIn ==
  ASSUME NEW S, S # {}
  PROVE  Some(S) \in S
<1> QED
  BY DEF Some

LEMMA SomeTaskIdle ==
  FreeTasks # {} => Some(FreeTasks) \in Task /\ at[Some(FreeTasks)] = "idle"
<1> SUFFICES ASSUME FreeTasks # {} PROVE Some(FreeTasks) \in FreeTasks
  BY DEF FreeTasks
<1> QED
  BY SomeIsIn

LEMMA SomeFuturePooled ==
  FreeFutures # {} => Some(FreeFutures) \in Future /\ state[Some(FreeFutures)] = "Pooled"
<1> SUFFICES ASSUME FreeFutures # {} PROVE Some(FreeFutures) \in FreeFutures
  BY DEF FreeFutures
<1> QED
  BY SomeIsIn

LEMMA SomeBlockFree ==
  Allocate # {} => Some(Allocate) \in Frame /\ memory[Some(Allocate)] # "used"
<1> SUFFICES ASSUME Allocate # {} PROVE Some(Allocate) \in Allocate
  BY DEF Allocate
<1> QED
  BY SomeIsIn

\* The frame on top of a stack leaves it.
LEMMA TopLeaves ==
  ASSUME NEW S, NEW q \in Seq(S), q # <<>>, IsInjective(q)
  PROVE  /\ Last(q) \in Range(q) /\ Last(q) \in S
         /\ Front(q) \in Seq(S) /\ IsInjective(Front(q))
         /\ Range(Front(q)) = Range(q) \ {Last(q)}
<1> DEFINE n == Len(q)
<1>1. n \in Nat \ {0} /\ DOMAIN q = 1..n /\ \A i \in 1..n : q[i] \in S
  OBVIOUS
<1>2. Last(q) = q[n] /\ n \in 1..n
  BY <1>1 DEF Last
<1>3. Front(q) \in Seq(S) /\ DOMAIN Front(q) = 1..(n - 1)
      /\ \A i \in 1..(n - 1) : Front(q)[i] = q[i]
  BY <1>1 DEF Front
<1>4. \A i, j \in 1..n : q[i] = q[j] => i = j
  BY <1>1 DEF IsInjective
<1> HIDE DEF n
<1>5. \A i \in 1..n : i \in 1..(n - 1) \/ i = n
  BY <1>1
<1>6. \A i \in 1..(n - 1) : i \in 1..n /\ i # n
  BY <1>1
<1>7. IsInjective(Front(q))
  BY <1>3, <1>4, <1>6 DEF IsInjective
<1>8. Range(Front(q)) = Range(q) \ {Last(q)}
  <2>1. ASSUME NEW x \in Range(Front(q)) PROVE x \in Range(q) /\ x # Last(q)
    BY <1>1, <1>2, <1>3, <1>4, <1>6 DEF Range
  <2>2. ASSUME NEW x \in Range(q), x # Last(q) PROVE x \in Range(Front(q))
    BY <1>1, <1>2, <1>3, <1>5, <2>2 DEF Range
  <2> QED
    BY <2>1, <2>2
<1> QED
  BY <1>1, <1>2, <1>3, <1>7, <1>8 DEF Range

\* A frame is put on top of a stack.
LEMMA TopComes ==
  ASSUME NEW S, NEW q \in Seq(S), IsInjective(q), NEW x \in S, x \notin Range(q)
  PROVE  /\ Append(q, x) \in Seq(S) /\ IsInjective(Append(q, x))
         /\ Range(Append(q, x)) = Range(q) \cup {x} /\ Append(q, x) # <<>>
<1> DEFINE n == Len(q)
           r == Append(q, x)
<1>1. n \in Nat /\ DOMAIN q = 1..n
  OBVIOUS
<1>2. r \in Seq(S) /\ DOMAIN r = 1..(n + 1) /\ r[n + 1] = x /\ \A i \in 1..n : r[i] = q[i]
  BY <1>1
<1>3. \A i \in 1..(n + 1) : i \in 1..n \/ i = n + 1
  BY <1>1
<1>4. \A i \in 1..n : i \in 1..(n + 1) /\ q[i] # x
  BY <1>1 DEF Range
<1>5. \A i, j \in 1..n : q[i] = q[j] => i = j
  BY <1>1 DEF IsInjective
<1>6. n + 1 \in 1..(n + 1) /\ r # <<>>
  BY <1>1
<1> HIDE DEF n, r
<1>7. IsInjective(r)
  BY <1>2, <1>3, <1>4, <1>5 DEF IsInjective
<1>8. Range(r) = Range(q) \cup {x}
  <2>1. ASSUME NEW y \in Range(r) PROVE y \in Range(q) \cup {x}
    BY <1>1, <1>2, <1>3 DEF Range
  <2>2. ASSUME NEW y \in Range(q) \cup {x} PROVE y \in Range(r)
    BY <1>1, <1>2, <1>4, <1>6 DEF Range
  <2> QED
    BY <2>1, <2>2
<1> QED
  BY <1>2, <1>6, <1>7, <1>8 DEF r

\* A stack with one frame.
LEMMA OnlyOne ==
  ASSUME NEW S, NEW x \in S
  PROVE  <<x>> \in Seq(S) /\ IsInjective(<<x>>) /\ Range(<<x>>) = {x} /\ <<x>> # <<>>
<1>1. <<x>> \in Seq(S) /\ DOMAIN <<x>> = 1..1 /\ <<x>>[1] = x /\ <<x>> # <<>>
  OBVIOUS
<1>2. \A i \in 1..1 : i = 1
  OBVIOUS
<1>3. 1 \in 1..1
  OBVIOUS
<1> QED
  BY <1>1, <1>2, <1>3 DEF IsInjective, Range

LEMMA EmptyStack == IsInjective(<<>>) /\ Range(<<>>) = {}
<1>1. DOMAIN <<>> = {}
  OBVIOUS
<1> QED
  BY <1>1 DEF IsInjective, Range
-----------------------------------------------------------------------------
(* Types. *)

\* The stack of a strand on which a coroutine runs, with and without its top.
LEMMA StackFacts ==
  TypeOK /\ OnStacks =>
    \A s \in Strand :
      /\ stack[s] \in Seq(Frame) /\ IsInjective(stack[s])
      /\ stack[s] # <<>> =>
           /\ Last(stack[s]) \in Range(stack[s]) /\ Last(stack[s]) \in Frame
           /\ Front(stack[s]) \in Seq(Frame) /\ IsInjective(Front(stack[s]))
           /\ Range(Front(stack[s])) = Range(stack[s]) \ {Last(stack[s])}
<1> SUFFICES ASSUME TypeOK, OnStacks, NEW s \in Strand
             PROVE  /\ stack[s] \in Seq(Frame) /\ IsInjective(stack[s])
                    /\ stack[s] # <<>> =>
                         /\ Last(stack[s]) \in Range(stack[s]) /\ Last(stack[s]) \in Frame
                         /\ Front(stack[s]) \in Seq(Frame) /\ IsInjective(Front(stack[s]))
                         /\ Range(Front(stack[s])) = Range(stack[s]) \ {Last(stack[s])}
  OBVIOUS
<1>1. stack[s] \in Seq(Frame) /\ IsInjective(stack[s])
  BY DEF TypeOK, OnStacks
<1> QED
  BY <1>1, TopLeaves

\* Releasing references keeps the types of the futures.
LEMMA ReleaseTypes ==
  ASSUME TypeOK, NEW R, Release(R)
  PROVE  /\ state' \in [Future -> {"Pooled", "Pending", "Done", "Unconsumed"}]
         /\ result' \in [Future -> BOOLEAN]
         /\ handles' \subseteq Holder \X Future
         /\ use' \in [Future -> {"any", "share", "drop"}]
<1> QED
  BY DEF Release, TypeOK, PooledResult

\* Destroying a frame keeps the types of the frames.
LEMMA DestroyTypes ==
  ASSUME TypeOK, NEW f \in Frame, Destroy(f)
  PROVE  /\ memory' \in [Frame -> {"system", "free", "used"}]
         /\ detached' \in [Frame -> BOOLEAN] /\ returned' \in [Frame -> BOOLEAN]
         /\ param' \in [Frame -> Future \cup {None}]
         /\ word' \in [Frame -> [value : FrameOrNone, gate : {"Unfinished", "Done"}]]
<1> QED
  BY DEF Destroy, TypeOK, Open, FrameOrNone

\* So does creating one.
CreateTyped ==
  /\ memory' \in [Frame -> {"system", "free", "used"}]
  /\ detached' \in [Frame -> BOOLEAN]
  /\ param' \in [Frame -> Future \cup {None}]
  /\ pc' \in [Frame -> {"none", "body", "trySet", "ready", "then", "suspended", "resume",
                        "close", "done"}]
  /\ handles' \subseteq Holder \X Future
  /\ left' \in 0..Calls
  /\ UNCHANGED <<awaits, returned, word, state, result, dependents, use, failed>>

LEMMA CreateTypes ==
  ASSUME TypeOK, NEW f, NEW d, NEW u, NEW l, Create(f, d, u, l),
         d \in BOOLEAN, u \in Future \cup {None}, l = "body" \/ l = "suspended"
  PROVE  f \in Frame /\ memory[f] # "used" /\ CreateTyped
<1>1. f \in Frame /\ memory[f] # "used"
  BY SomeBlockFree DEF Create
<1>2. left' \in 0..Calls
  BY CoroutinesAssumption DEF Create, Call, TypeOK
<1>3. handles' \subseteq Holder \X Future
  BY <1>1 DEF Create, ParameterHandles, TypeOK, Holder
<1> QED
  BY <1>1, <1>2, <1>3 DEF Create, TypeOK, CreateTyped

LEMMA CallTypes ==
  ASSUME TypeOK, Call
  PROVE  left' \in 0..Calls
<1> QED
  BY CoroutinesAssumption DEF Call, TypeOK

\* So do a new task and a node or a task behind a future.
LEMMA NewTaskTypes ==
  ASSUME TypeOK, NEW h \in Holder, NEW t, NEW u, NewTask(h, t, u)
  PROVE  /\ t \in Task /\ at[t] = "idle" /\ u \in Future /\ state[u] = "Pooled"
         /\ at' \in [Strand -> {"idle", "waiting", "ready", "run", "unblock", "reset", "end"}]
         /\ job' \in [Strand -> [kind : {"none", "resume", "produce", "read", "consume"},
                                 on : FrameOrNone \cup Future]]
         /\ state' \in [Future -> {"Pooled", "Pending", "Done", "Unconsumed"}]
         /\ handles' \subseteq Holder \X Future
         /\ left' \in 0..Calls
<1>1. t \in Task /\ at[t] = "idle" /\ u \in Future /\ state[u] = "Pooled"
  BY SomeTaskIdle, SomeFuturePooled DEF NewTask
<1>2. left' \in 0..Calls
  BY CallTypes DEF NewTask
<1>3. t \in Strand /\ t \in Holder
  BY <1>1 DEF Strand, Holder
<1> QED
  BY <1>1, <1>2, <1>3 DEF NewTask, TypeOK

LEMMA QueueAfterTypes ==
  ASSUME TypeOK, NEW u \in Future, NEW t \in Task, NEW k \in {"resume", "read", "consume"},
         NEW o \in FrameOrNone \cup Future, QueueAfter(u, t, k, o)
  PROVE  /\ at' \in [Strand -> {"idle", "waiting", "ready", "run", "unblock", "reset", "end"}]
         /\ job' \in [Strand -> [kind : {"none", "resume", "produce", "read", "consume"},
                                 on : FrameOrNone \cup Future]]
         /\ dependents' \in [Future -> SUBSET Task]
<1>1. t \in Strand
  BY DEF Strand
<1>2. [kind |-> k, on |-> o] \in [kind : {"none", "resume", "produce", "read", "consume"},
                                  on : FrameOrNone \cup Future]
  OBVIOUS
<1>3. job' \in [Strand -> [kind : {"none", "resume", "produce", "read", "consume"},
                           on : FrameOrNone \cup Future]]
  BY <1>1, <1>2 DEF QueueAfter, TypeOK
<1>4. at' \in [Strand -> {"idle", "waiting", "ready", "run", "unblock", "reset", "end"}]
  BY <1>1 DEF QueueAfter, TypeOK
<1>5. dependents' \in [Future -> SUBSET Task]
  <2>1. dependents \in [Future -> SUBSET Task]
    BY DEF TypeOK
  <2>2. dependents[u] \cup {t} \in SUBSET Task
    BY <2>1
  <2>3. [dependents EXCEPT ![u] = @ \cup {t}] \in [Future -> SUBSET Task]
    BY <2>1, <2>2
  <2> QED
    BY <2>1, <2>3 DEF QueueAfter
<1> QED
  BY <1>3, <1>4, <1>5

\* What a strand that runs f is like.
LEMMA RunsFacts ==
  ASSUME TypeOK, OnStacks, StrandsByStage, NEW s \in Strand, NEW f, NEW l, Runs(s, f, l)
  PROVE  /\ f \in Frame /\ f \in Range(stack[s]) /\ f = Last(stack[s]) /\ stack[s] # <<>>
         /\ pc[f] = l /\ job[s] = NoJob
         /\ at[s] = IF s = Main THEN "idle" ELSE "run"
<1>1. stack[s] # <<>> /\ Last(stack[s]) = f /\ pc[f] = l
  BY DEF Runs
<1>2. at[s] = IF s = Main THEN "idle" ELSE "run"
  BY <1>1 DEF StrandsByStage, StrandFits
<1>3. job[s].kind = "none"
  BY <1>2 DEF StrandsByStage, StrandFits, JobsAt
<1> QED
  BY <1>1, <1>2, <1>3, StackFacts DEF StrandsByStage, StrandFits

\* The types stay: calls of the program on futures and tasks.
LEMMA TypesStepOutside ==
  ASSUME TypeOK, StrandsByStage,
         \/ MakeFuture \/ \E t \in Task, u \in Future : InitializeTask(t, u)
         \/ \E u \in Future : \/ StoreDone(u) \/ DropFuture(u)
                              \/ ThenUse(u, "read") \/ ThenUse(u, "consume")
         \/ \E s \in Strand : Unblock(s)
         \/ \E t \in Task : \/ RunProduce(t) \/ RunRead(t) \/ RunConsume(t)
                            \/ ResetResult(t) \/ EndTask(t)
  PROVE  TypeOK'
<1>m. Main \in Strand /\ Main \in Holder
  BY DEF Strand, Holder
<1>1. CASE MakeFuture
  BY <1>1, <1>m, SomeFuturePooled, CallTypes
  DEF MakeFuture, TypeOK, coroutineVars, frameVars, threadVars
<1>2. ASSUME NEW t \in Task, NEW u \in Future, InitializeTask(t, u) PROVE TypeOK'
  BY <1>2, <1>m, NewTaskTypes, Zenon DEF InitializeTask, NewTask, TypeOK, coroutineVars, frameVars
<1>3. ASSUME NEW u \in Future, StoreDone(u) PROVE TypeOK'
  BY <1>3, <1>m DEF StoreDone, TypeOK, coroutineVars, frameVars
<1>4. ASSUME NEW u \in Future, DropFuture(u) PROVE TypeOK'
  BY <1>4, ReleaseTypes DEF DropFuture, TypeOK, coroutineVars, frameVars, threadVars
<1>5. ASSUME NEW u \in Future, NEW k \in {"read", "consume"}, ThenUse(u, k) PROVE TypeOK'
  <2> DEFINE t == Some(FreeTasks)
  <2>1. t \in Task /\ t \in Holder
    BY <1>5, SomeTaskIdle DEF ThenUse, Holder, Strand
  <2>2. QueueAfter(u, t, k, u) /\ left' \in 0..Calls
    BY <1>5, CallTypes DEF ThenUse
  <2> HIDE DEF t
  <2>3. /\ use' \in [Future -> {"any", "share", "drop"}]
        /\ handles' \subseteq Holder \X Future
    BY <1>5, <2>1 DEF ThenUse, TypeOK, t
  <2> QED
    BY <1>5, <2>1, <2>2, <2>3, QueueAfterTypes
    DEF ThenUse, TypeOK, coroutineVars, frameVars
<1>6. ASSUME NEW s \in Strand, Unblock(s) PROVE TypeOK'
  BY <1>6 DEF Unblock, TypeOK, DoneState, NoJob, FrameOrNone, coroutineVars, frameVars
<1>7. ASSUME NEW t \in Task, RunProduce(t) PROVE TypeOK'
  BY <1>7 DEF RunProduce, TypeOK, Strand, coroutineVars, frameVars
<1>8. ASSUME NEW t \in Task, RunRead(t) PROVE TypeOK'
  BY <1>8 DEF RunRead, TypeOK, Strand, coroutineVars, frameVars, futureVars
<1>9. ASSUME NEW t \in Task, RunConsume(t) PROVE TypeOK'
  BY <1>9 DEF RunConsume, TypeOK, Strand, coroutineVars, frameVars
<1>10. ASSUME NEW t \in Task, ResetResult(t) PROVE TypeOK'
  BY <1>10 DEF ResetResult, TypeOK, Strand, coroutineVars, frameVars
<1>11. ASSUME NEW t \in Task, EndTask(t) PROVE TypeOK'
  BY <1>11, ReleaseTypes
  DEF EndTask, TypeOK, Strand, NoJob, FrameOrNone, coroutineVars, frameVars
<1> QED
  BY <1>1, <1>2, <1>3, <1>4, <1>5, <1>6, <1>7, <1>8, <1>9, <1>10, <1>11

\* The types stay: coroutines start.
LEMMA TypesStepStart ==
  ASSUME TypeOK, OnStacks, StrandsByStage,
         \/ \E f \in Frame, u \in Future \cup {None} :
              StartAttached(f, u) \/ StartAndDetach(f, u) \/ AsyncResume(f, u)
         \/ \E s \in Strand, f \in Frame, g \in Frame : CallCoroutine(s, f, g)
         \/ \E t \in Task : RunResume(t)
  PROVE  TypeOK'
<1>m. Main \in Strand
  BY DEF Strand
<1>1. ASSUME NEW f \in Frame, NEW u \in Future \cup {None}, StartAttached(f, u) PROVE TypeOK'
  <2>1. CreateTyped
    BY <1>1, CreateTypes DEF StartAttached
  <2>2. <<f>> \in Seq(Frame)
    OBVIOUS
  <2>3. stack' \in [Strand -> Seq(Frame)] /\ child' \in [Frame \cup {Main} -> FrameOrNone]
    BY <1>1, <2>2 DEF StartAttached, TypeOK, FrameOrNone
  <2> QED
    BY <1>1, <2>1, <2>3 DEF StartAttached, CreateTyped, TypeOK, threadVars
<1>2. ASSUME NEW f \in Frame, NEW u \in Future \cup {None}, StartAndDetach(f, u) PROVE TypeOK'
  <2>1. CreateTyped
    BY <1>2, CreateTypes DEF StartAndDetach
  <2>2. <<f>> \in Seq(Frame)
    OBVIOUS
  <2>3. stack' \in [Strand -> Seq(Frame)]
    BY <1>2, <2>2 DEF StartAndDetach, TypeOK
  <2> QED
    BY <1>2, <2>1, <2>3 DEF StartAndDetach, CreateTyped, TypeOK, threadVars
<1>3. ASSUME NEW f \in Frame, NEW u \in Future \cup {None}, AsyncResume(f, u) PROVE TypeOK'
  <2>1. CreateTyped /\ Some(FreeTasks) \in Task
    BY <1>3, CreateTypes, SomeTaskIdle DEF AsyncResume
  <2>2. /\ at' \in [Strand -> {"idle", "waiting", "ready", "run", "unblock", "reset", "end"}]
        /\ job' \in [Strand -> [kind : {"none", "resume", "produce", "read", "consume"},
                                on : FrameOrNone \cup Future]]
    BY <1>3, <2>1 DEF AsyncResume, TypeOK, FrameOrNone, Strand
  <2> QED
    BY <1>3, <2>1, <2>2 DEF AsyncResume, CreateTyped, TypeOK
<1>4. ASSUME NEW s \in Strand, NEW f \in Frame, NEW g \in Frame, CallCoroutine(s, f, g)
      PROVE TypeOK'
  <2>1. CreateTyped
    BY <1>4, CreateTypes DEF CallCoroutine
  <2>2. Append(stack[s], g) \in Seq(Frame)
    BY StackFacts
  <2>3. stack' \in [Strand -> Seq(Frame)] /\ child' \in [Frame \cup {Main} -> FrameOrNone]
    BY <1>4, <2>2 DEF CallCoroutine, TypeOK, FrameOrNone
  <2> QED
    BY <1>4, <2>1, <2>3 DEF CallCoroutine, CreateTyped, TypeOK, threadVars
<1>5. ASSUME NEW t \in Task, RunResume(t) PROVE TypeOK'
  <2>1. t \in Strand /\ job[t].on \in Frame
    BY <1>5 DEF RunResume, StrandsByStage, StrandFits, Strand
  <2>2. <<job[t].on>> \in Seq(Frame)
    BY <2>1
  <2>3. stack' \in [Strand -> Seq(Frame)]
    BY <1>5, <2>2 DEF RunResume, TypeOK
  <2> QED
    BY <1>5, <2>1, <2>3
    DEF RunResume, TypeOK, NoJob, FrameOrNone, frameVars, futureVars
<1> QED
  BY <1>1, <1>2, <1>3, <1>4, <1>5

\* Leaving a stack, or handing it over, keeps its type.
LEMMA LeaveTypes ==
  ASSUME TypeOK, OnStacks, NEW s \in Strand, stack[s] # <<>>
  PROVE  /\ Leave(s) => stack' \in [Strand -> Seq(Frame)]
         /\ \A g \in Frame : stack' = [stack EXCEPT ![s] = Append(Front(@), g)]
                             => stack' \in [Strand -> Seq(Frame)]
<1>1. stack \in [Strand -> Seq(Frame)] /\ Front(stack[s]) \in Seq(Frame)
  BY StackFacts DEF TypeOK
<1>2. \A g \in Frame : Append(Front(stack[s]), g) \in Seq(Frame)
  BY <1>1
<1> QED
  BY <1>1, <1>2 DEF Leave

\* The types stay: coroutines await and end.
LEMMA TypesStepAwait ==
  ASSUME TypeOK, OnStacks, FramesByStage,
         NEW s \in Strand, NEW f \in Frame,
         \/ AwaitChild(s, f) \/ TrySet(s, f) \/ AwaitReady(s, f) \/ Then(s, f)
         \/ AwaitFuture(s, f) \/ \E t \in Task, u \in Future : AwaitTask(s, f, t, u)
  PROVE  TypeOK'
<1>h. f \in Holder /\ None \in FrameOrNone /\ \A g \in Frame : g \in FrameOrNone
  BY DEF Holder, FrameOrNone
<1>1. CASE AwaitChild(s, f)
  BY <1>1, <1>h DEF AwaitChild, TypeOK, frameVars, threadVars, futureVars
<1>2. CASE TrySet(s, f)
  <2>1. Runs(s, f, "trySet") /\ stack[s] # <<>>
    BY <1>2 DEF TrySet, Runs
  <2>2. CASE GateOpen(awaits[f])
    <3>1. stack' \in [Strand -> Seq(Frame)]
      BY <1>2, <2>1, <2>2, LeaveTypes DEF TrySet
    <3>2. word' = [word EXCEPT ![awaits[f]].value = f]
      BY <1>2, <2>2 DEF TrySet
    <3>3. awaits[f] \in Frame
      BY <2>1 DEF FramesByStage, FrameFits, Runs
    <3>4. [word[awaits[f]] EXCEPT !.value = f]
            \in [value : FrameOrNone, gate : {"Unfinished", "Done"}]
      <4>1. word[awaits[f]] \in [value : FrameOrNone, gate : {"Unfinished", "Done"}]
        BY <3>3 DEF TypeOK
      <4> QED
        BY <4>1, <1>h
    <3>5. word' \in [Frame -> [value : FrameOrNone, gate : {"Unfinished", "Done"}]]
      BY <3>2, <3>3, <3>4 DEF TypeOK
    <3>6. failed' \in {"none", "no_return_value", "unfinished", "no_result", "set_twice"}
      BY <1>2, <2>2 DEF TrySet
    <3>7. pc' \in [Frame -> {"none", "body", "trySet", "ready", "then", "suspended",
                             "resume", "close", "done"}]
      BY <1>2, <2>2 DEF TrySet, TypeOK
    <3> QED
      BY <1>2, <3>1, <3>5, <3>6, <3>7 DEF TrySet, TypeOK, frameVars, threadVars, futureVars
  <2>3. CASE ~GateOpen(awaits[f])
    BY <1>2, <2>3 DEF TrySet, TypeOK, frameVars, threadVars, futureVars
  <2> QED
    BY <2>2, <2>3
<1>3. CASE AwaitReady(s, f)
  BY <1>3 DEF AwaitReady, TypeOK, frameVars, threadVars, futureVars
<1>5. CASE AwaitFuture(s, f)
  BY <1>5, CallTypes DEF AwaitFuture, TypeOK, frameVars, threadVars
<1>6. ASSUME NEW t \in Task, NEW u \in Future, AwaitTask(s, f, t, u) PROVE TypeOK'
  <2>1. NewTask(f, t, u)
    BY <1>6 DEF AwaitTask
  <2>2. /\ at' \in [Strand -> {"idle", "waiting", "ready", "run", "unblock", "reset", "end"}]
        /\ job' \in [Strand -> [kind : {"none", "resume", "produce", "read", "consume"},
                                on : FrameOrNone \cup Future]]
        /\ state' \in [Future -> {"Pooled", "Pending", "Done", "Unconsumed"}]
        /\ handles' \subseteq Holder \X Future
        /\ left' \in 0..Calls
    BY <2>1, <1>h, NewTaskTypes
  <2>3. UNCHANGED <<result, dependents, failed>>
    BY <2>1 DEF NewTask
  <2>4. /\ pc' \in [Frame -> {"none", "body", "trySet", "ready", "then", "suspended",
                              "resume", "close", "done"}]
        /\ awaits' \in [Frame -> FrameOrNone \cup Future]
        /\ use' \in [Future -> {"any", "share", "drop"}]
    BY <1>6 DEF AwaitTask, TypeOK
  <2> QED
    BY <1>6, <2>2, <2>3, <2>4 DEF AwaitTask, TypeOK, frameVars
<1>4. CASE Then(s, f)
  <2> DEFINE t == Some(FreeTasks)
  <2>1. t \in Task
    BY <1>4, SomeTaskIdle DEF Then
  <2>2. Runs(s, f, "then") /\ stack[s] # <<>> /\ pc[f] = "then"
    BY <1>4 DEF Then, Runs
  <2>3. awaits[f] \in Future
    BY <1>4, <2>2 DEF FramesByStage, FrameFits
  <2>4. QueueAfter(awaits[f], t, "resume", f) /\ stack' \in [Strand -> Seq(Frame)]
    BY <1>4, <2>2, LeaveTypes DEF Then
  <2> HIDE DEF t
  <2> QED
    BY <1>4, <1>h, <2>1, <2>3, <2>4, QueueAfterTypes
    DEF Then, TypeOK, frameVars
<1> QED
  BY <1>1, <1>2, <1>3, <1>4, <1>5, <1>6

\* The types stay: coroutines go on and end, and their frames are destroyed.
LEMMA TypesStepEnd ==
  ASSUME TypeOK, OnStacks, FramesByStage, NEW s \in Strand, NEW f \in Frame,
         \/ ResumeFuture(s, f) \/ ResumeChild(s, f)
         \/ Return(s, f) \/ Close(s, f) \/ EndDetached(s, f)
  PROVE  TypeOK'
<1>1. CASE ResumeFuture(s, f)
  <2>1. Release(IF param[f] = awaits[f] THEN {} ELSE {<<f, awaits[f]>>})
    BY <1>1 DEF ResumeFuture
  <2>2. /\ state' \in [Future -> {"Pooled", "Pending", "Done", "Unconsumed"}]
        /\ result' \in [Future -> BOOLEAN]
        /\ handles' \subseteq Holder \X Future
        /\ use' \in [Future -> {"any", "share", "drop"}]
    BY <2>1, ReleaseTypes
  <2>3. /\ failed' \in {"none", "no_return_value", "unfinished", "no_result", "set_twice"}
        /\ pc' \in [Frame -> {"none", "body", "trySet", "ready", "then", "suspended",
                              "resume", "close", "done"}]
        /\ awaits' \in [Frame -> FrameOrNone \cup Future]
    BY <1>1 DEF ResumeFuture, TypeOK, FrameOrNone
  <2> QED
    BY <1>1, <2>2, <2>3 DEF ResumeFuture, TypeOK, frameVars, threadVars
<1>2. CASE ResumeChild(s, f)
  <2>1. awaits[f] \in Frame /\ Destroy(awaits[f]) /\ Release({awaits[f]} \X Future)
    BY <1>2 DEF ResumeChild, DestroyChild
  <2>2. /\ state' \in [Future -> {"Pooled", "Pending", "Done", "Unconsumed"}]
        /\ result' \in [Future -> BOOLEAN]
        /\ handles' \subseteq Holder \X Future
        /\ use' \in [Future -> {"any", "share", "drop"}]
    BY <2>1, ReleaseTypes
  <2>3. /\ failed' \in {"none", "no_return_value", "unfinished", "no_result", "set_twice"}
        /\ pc' \in [Frame -> {"none", "body", "trySet", "ready", "then", "suspended",
                              "resume", "close", "done"}]
        /\ awaits' \in [Frame -> FrameOrNone \cup Future]
    BY <1>2 DEF ResumeChild, TypeOK, FrameOrNone
  <2> QED
    BY <1>2, <2>1, <2>2, <2>3, DestroyTypes DEF ResumeChild, TypeOK, threadVars
<1>3. CASE Return(s, f)
  BY <1>3 DEF Return, TypeOK, threadVars, futureVars
<1>4. CASE Close(s, f)
  <2>1. Runs(s, f, "close") /\ stack[s] # <<>>
    BY <1>4 DEF Close, Runs
  <2>2. word' \in [Frame -> [value : FrameOrNone, gate : {"Unfinished", "Done"}]]
    BY <1>4 DEF Close, Closed, TypeOK, FrameOrNone
  <2>3. CASE word[f].value = None
    <3>1. stack' \in [Strand -> Seq(Frame)]
      BY <1>4, <2>1, <2>3, LeaveTypes DEF Close
    <3>3. pc' \in [Frame -> {"none", "body", "trySet", "ready", "then", "suspended",
                             "resume", "close", "done"}]
      BY <1>4, <2>3 DEF Close, TypeOK
    <3> QED
      BY <1>4, <2>2, <3>1, <3>3 DEF Close, TypeOK, frameVars, threadVars, futureVars
  <2>4. CASE word[f].value # None
    <3>1. word[f].value \in Frame
      BY <2>4 DEF TypeOK, FrameOrNone
    <3>2. stack' \in [Strand -> Seq(Frame)]
      BY <1>4, <2>1, <2>4, <3>1, LeaveTypes DEF Close
    <3>3. pc' \in [Frame -> {"none", "body", "trySet", "ready", "then", "suspended",
                             "resume", "close", "done"}]
      BY <1>4, <2>4 DEF Close, TypeOK
    <3> QED
      BY <1>4, <2>2, <3>2, <3>3 DEF Close, TypeOK, frameVars, threadVars, futureVars
  <2> QED
    BY <2>3, <2>4
<1>5. CASE EndDetached(s, f)
  <2>1. Destroy(f) /\ Release({f} \X Future) /\ stack[s] # <<>>
    BY <1>5 DEF EndDetached, DestroyChild, Runs
  <2>2. stack' \in [Strand -> Seq(Frame)]
    BY <1>5, <2>1, LeaveTypes DEF EndDetached
  <2> QED
    BY <1>5, <2>1, <2>2, ReleaseTypes, DestroyTypes DEF EndDetached, TypeOK, threadVars
<1> QED
  BY <1>1, <1>2, <1>3, <1>4, <1>5

LEMMA TypesStepDrop ==
  ASSUME TypeOK, NEW h \in Owner, DropHandle(h)
  PROVE  TypeOK'
<1>1. child[h] \in Frame /\ Destroy(child[h]) /\ Release({child[h]} \X Future)
  BY DEF DropHandle, DestroyChild, TypeOK, Owner, FrameOrNone
<1> QED
  BY <1>1, ReleaseTypes, DestroyTypes
  DEF DropHandle, TypeOK, threadVars, Owner, FrameOrNone

LEMMA TypesStep ==
  CoroutineInv /\ [Next]_vars => TypeOK'
<1> SUFFICES ASSUME CoroutineInv, [Next]_vars PROVE TypeOK'
  OBVIOUS
<1>1. TypeOK /\ OnStacks /\ FramesByStage /\ StrandsByStage
  BY DEF CoroutineInv
<1>2. CASE UNCHANGED vars
  BY <1>1, <1>2
  DEF TypeOK, vars, coroutineVars, frameVars, threadVars, futureVars
<1>3. ASSUME NEW s \in Strand, Proceed(s) PROVE TypeOK'
  BY <1>1, <1>3, TypesStepOutside, TypesStepStart, TypesStepAwait, TypesStepEnd
  DEF Proceed, RunCoroutine, RunTask
<1>4. CASE Program
  BY <1>1, <1>4, TypesStepOutside, TypesStepStart, TypesStepAwait, TypesStepDrop
  DEF Program, Owner
<1> QED
  BY <1>2, <1>3, <1>4 DEF Next
-----------------------------------------------------------------------------
(* Frames at the stages of their coroutines. *)

\* Steps that are none of the coroutines.
LEMMA OutsideSteps ==
  ASSUME \/ MakeFuture \/ \E t \in Task, u \in Future : InitializeTask(t, u)
         \/ \E u \in Future : \/ StoreDone(u) \/ DropFuture(u)
                              \/ ThenUse(u, "read") \/ ThenUse(u, "consume")
         \/ \E s \in Strand : Unblock(s)
         \/ \E t \in Task : \/ RunProduce(t) \/ RunRead(t) \/ RunConsume(t)
                            \/ ResetResult(t) \/ EndTask(t)
         \/ UNCHANGED vars
  PROVE  UNCHANGED coroutineVars
<1> QED
  BY DEF MakeFuture, InitializeTask, StoreDone, DropFuture, ThenUse, Unblock, RunProduce,
         RunRead, RunConsume, ResetResult, EndTask, vars

\* The frame that is created was free, and has nothing in it.
LEMMA CreatedFrame ==
  ASSUME CoroutineInv, NEW f, NEW d, NEW u, NEW l, Create(f, d, u, l)
  PROVE  f \in Frame /\ pc[f] = "none" /\ FrameFits(f)
<1>1. f \in Frame /\ memory[f] # "used"
  BY SomeBlockFree DEF Create
<1>2. FrameFits(f)
  BY <1>1 DEF CoroutineInv, FramesByStage
<1> QED
  BY <1>1, <1>2 DEF FrameFits

LEMMA FramesStepCreate ==
  ASSUME CoroutineInv, NEW f, NEW d, NEW u, NEW l, Create(f, d, u, l),
         d \in BOOLEAN, u \in Future \cup {None}, l = "body" \/ l = "suspended",
         \A x \in Frame : child'[x] = child[x] \/ (pc[x] = "body" /\ x # f)
  PROVE  FramesByStage'
<1> SUFFICES ASSUME NEW x \in Frame PROVE FrameFits(x)'
  BY DEF FramesByStage
<1>1. f \in Frame /\ pc[f] = "none" /\ FrameFits(f)
  BY CreatedFrame
<1>2. FrameFits(x) /\ TypeOK
  BY DEF CoroutineInv, FramesByStage
<1>3. CASE x = f
  BY <1>1, <1>2, <1>3 DEF FrameFits, Create, IsDone, TypeOK
<1>4. CASE x # f
  BY <1>1, <1>2, <1>4 DEF FrameFits, Create, IsDone, TypeOK
<1> QED
  BY <1>3, <1>4

\* A frame that nobody awaits is destroyed.
LEMMA FramesStepDestroy ==
  ASSUME CoroutineInv, NEW g \in Frame, Destroy(g),
         child[g] = None, awaits'[g] = None, pc' [g] = "none",
         \A x \in Frame \ {g} :
           /\ pc'[x] = pc[x] \/ (pc[x] = "resume" /\ pc'[x] = "body" /\ awaits'[x] = None)
           /\ awaits'[x] = awaits[x] \/ (pc[x] = "resume" /\ pc'[x] = "body" /\ awaits'[x] = None)
           /\ child'[x] = child[x] \/ pc'[x] = "body",
         \A x \in Frame \ {g} : pc'[x] = "resume" => awaits[x] # g,
         child'[g] = None
  PROVE  FramesByStage'
<1> SUFFICES ASSUME NEW x \in Frame PROVE FrameFits(x)'
  BY DEF FramesByStage
<1>2. FrameFits(x) /\ TypeOK
  BY DEF CoroutineInv, FramesByStage
<1>3. CASE x = g
  BY <1>2, <1>3 DEF FrameFits, Destroy, IsDone, TypeOK, Open
<1>4. CASE x # g
  BY <1>2, <1>4 DEF FrameFits, Destroy, IsDone, TypeOK
<1> QED
  BY <1>3, <1>4

\* Whom somebody owns: an attached frame that exists, and the only owner of it.
LEMMA OwnedFacts ==
  ASSUME CoroutineInv
  PROVE  /\ \A f, g \in Frame : awaits[f] = g => pc[g] # "none" /\ ~detached[g] /\ child[f] # g
         /\ \A f1, f2, g \in Frame : awaits[f1] = g /\ awaits[f2] = g => f1 = f2
         /\ \A h \in Owner, g \in Frame : child[h] = g => pc[g] # "none" /\ ~detached[g]
         /\ \A h \in Owner, f, g \in Frame : ~(child[h] = g /\ awaits[f] = g)
         /\ \A h1, h2 \in Owner, g \in Frame : child[h1] = g /\ child[h2] = g => h1 = h2
         /\ \A f \in Frame : awaits[f] # f /\ child[f] # f
<1>1. FramesOwned
  BY DEF CoroutineInv
<1>2. \A f \in Frame : f \in Owner
  BY DEF Owner
<1>3. ASSUME NEW f \in Frame PROVE ~Owns(f, f)
  <2>1. {f} \in SUBSET Frame /\ {f} # {}
    BY <1>3
  <2>2. PICK x \in {f} : \A y \in {f} : ~Owns(x, y)
    BY <2>1 DEF CoroutineInv, NoCircle
  <2> QED
    BY <2>2
<1>4. \A f \in Frame : awaits[f] # f /\ child[f] # f
  BY <1>3 DEF Owns
<1>5. /\ \A f, g \in Frame : awaits[f] = g => Owns(f, g)
      /\ \A h \in Owner, g \in Frame : child[h] = g => Owns(h, g)
  BY DEF Owns
<1>6. \A h \in Owner, g \in Frame : Owns(h, g) => pc[g] # "none" /\ ~detached[g]
  BY <1>1 DEF FramesOwned
<1>7. \A h1, h2 \in Owner, g \in Frame : Owns(h1, g) /\ Owns(h2, g) => h1 = h2
  BY <1>1 DEF FramesOwned
<1>8. \A f, g \in Frame : ~(child[f] = g /\ awaits[f] = g)
  BY <1>1 DEF FramesOwned
<1>9. ASSUME NEW h \in Owner, NEW f \in Frame, NEW g \in Frame, child[h] = g, awaits[f] = g
      PROVE FALSE
  <2>1. h = f
    BY <1>2, <1>5, <1>7, <1>9
  <2> QED
    BY <1>8, <1>9, <2>1
<1> QED
  BY <1>2, <1>4, <1>5, <1>6, <1>7, <1>8, <1>9

LEMMA FramesStepProgram ==
  ASSUME CoroutineInv, Program
  PROVE  FramesByStage'
<1>t. TypeOK /\ OnStacks /\ StrandsByStage /\ \A x \in Frame : FrameFits(x)
  BY DEF CoroutineInv, FramesByStage
<1>m. Main \notin Frame
  BY CoroutinesAssumption
<1>0. CASE UNCHANGED coroutineVars
  BY <1>0, <1>t DEF FramesByStage, FrameFits, IsDone, coroutineVars, frameVars
<1>1. ASSUME NEW f \in Frame, NEW u \in Future \cup {None}, StartAttached(f, u)
      PROVE  FramesByStage'
  <2>1. Create(f, FALSE, u, "body") /\ \A x \in Frame : child'[x] = child[x]
    BY <1>1, <1>m, <1>t DEF StartAttached, TypeOK
  <2> QED
    BY <2>1, FramesStepCreate
<1>2. ASSUME NEW f \in Frame, NEW u \in Future \cup {None}, StartAndDetach(f, u)
      PROVE  FramesByStage'
  <2>1. Create(f, TRUE, u, "body") /\ \A x \in Frame : child'[x] = child[x]
    BY <1>2 DEF StartAndDetach
  <2> QED
    BY <2>1, FramesStepCreate
<1>3. ASSUME NEW f \in Frame, NEW u \in Future \cup {None}, AsyncResume(f, u)
      PROVE  FramesByStage'
  <2>1. Create(f, TRUE, u, "suspended") /\ \A x \in Frame : child'[x] = child[x]
    BY <1>3 DEF AsyncResume
  <2> QED
    BY <2>1, FramesStepCreate
<1>4. ASSUME NEW s \in Strand, NEW f \in Frame, NEW g \in Frame, CallCoroutine(s, f, g)
      PROVE  FramesByStage'
  <2>1. Create(g, FALSE, None, "body")
    BY <1>4 DEF CallCoroutine
  <2>2. pc[g] = "none" /\ pc[f] = "body"
    BY <1>4, <2>1, CreatedFrame DEF CallCoroutine, Runs
  <2>3. \A x \in Frame : child'[x] = child[x] \/ (pc[x] = "body" /\ x # g)
    BY <1>4, <1>t, <2>2 DEF CallCoroutine, TypeOK
  <2> QED
    BY <2>1, <2>3, FramesStepCreate
<1>5. ASSUME NEW h \in Owner, DropHandle(h) PROVE FramesByStage'
  <2> DEFINE g == child[h]
  <2>1. g \in Frame /\ IsDone(g) /\ Destroy(g)
    BY <1>5, <1>t DEF DropHandle, DestroyChild, TypeOK, Owner, FrameOrNone
  <2>2. pc[g] = "done" /\ child[g] = None /\ awaits[g] = None
    BY <1>t, <2>1 DEF FrameFits
  <2>3. /\ \A x \in Frame : awaits[x] # g
        /\ pc' = [pc EXCEPT ![g] = "none"] /\ child' = [child EXCEPT ![h] = None]
        /\ awaits' = awaits
    BY <1>5, <2>1, OwnedFacts DEF DropHandle
  <2>4. \A x \in Frame : child'[x] = child[x] \/ (x = h /\ child'[x] = None)
    BY <1>t, <2>3 DEF TypeOK
  <2>5. h \in Frame => pc[h] = "body" /\ h # g
    BY <1>5, <1>t, <1>m, <2>1, <2>2 DEF DropHandle, InUserCode, Runs
  <2> HIDE DEF g
  <2> QED
    BY <1>t, <2>1, <2>2, <2>3, <2>4, <2>5, FramesStepDestroy DEF TypeOK
<1>6. ASSUME NEW s \in Strand, NEW f \in Frame, AwaitFuture(s, f) PROVE FramesByStage'
  <2>1. pc[f] = "body" /\ param[f] \in Future /\ FrameFits(f)
    BY <1>6, <1>t DEF AwaitFuture, Runs, TypeOK
  <2> SUFFICES ASSUME NEW x \in Frame PROVE FrameFits(x)'
    BY DEF FramesByStage
  <2> QED
    BY <1>6, <1>t, <2>1, CoroutinesAssumption
    DEF AwaitFuture, FrameFits, IsDone, frameVars, TypeOK
<1>7. ASSUME NEW s \in Strand, NEW f \in Frame, NEW t \in Task, NEW u \in Future,
             AwaitTask(s, f, t, u)
      PROVE  FramesByStage'
  <2>1. pc[f] = "body" /\ FrameFits(f)
    BY <1>7, <1>t DEF AwaitTask, Runs
  <2> SUFFICES ASSUME NEW x \in Frame PROVE FrameFits(x)'
    BY DEF FramesByStage
  <2> QED
    BY <1>7, <1>t, <2>1, CoroutinesAssumption
    DEF AwaitTask, FrameFits, IsDone, frameVars, TypeOK
<1> QED
  BY <1>0, <1>1, <1>2, <1>3, <1>4, <1>5, <1>6, <1>7, OutsideSteps DEF Program, Owner

\* Who is in a word waits for the one whose word it is, which has not finished.
LEMMA WordFacts ==
  ASSUME CoroutineInv, NEW g \in Frame, word[g].value # None
  PROVE  /\ word[g].value \in Frame /\ word[g].value # g
         /\ pc[word[g].value] = "suspended" /\ awaits[word[g].value] = g
<1>1. word[g].value \in Frame
  BY DEF CoroutineInv, TypeOK, FrameOrNone
<1>2. pc[word[g].value] = "suspended" /\ awaits[word[g].value] = g
  BY <1>1 DEF CoroutineInv, InWords
<1> QED
  BY <1>1, <1>2, OwnedFacts

\* The frame a task resumes.
LEMMA TaskFacts ==
  ASSUME CoroutineInv, NEW t \in Task, job[t].kind = "resume"
  PROVE  /\ job[t].on \in Frame /\ pc[job[t].on] = "suspended"
         /\ awaits[job[t].on] \in Future \cup {None}
<1>1. job[t].on \in Frame
  BY DEF CoroutineInv, StrandsByStage, StrandFits, Strand
<1> QED
  BY <1>1 DEF CoroutineInv, InTasks, AwaitsTask, TypeOK, FrameOrNone

LEMMA FramesStepProceed ==
  ASSUME CoroutineInv, TypeOK', NEW s \in Strand, Proceed(s)
  PROVE  FramesByStage'
<1>t. TypeOK /\ OnStacks /\ StrandsByStage /\ \A x \in Frame : FrameFits(x)
  BY DEF CoroutineInv, FramesByStage
<1>0. CASE UNCHANGED coroutineVars
  BY <1>0, <1>t DEF FramesByStage, FrameFits, IsDone, coroutineVars, frameVars
<1>1. ASSUME NEW f \in Frame, AwaitChild(s, f) PROVE FramesByStage'
  <2>1. pc[f] = "body" /\ FrameFits(f) /\ child[f] \in Frame /\ FrameFits(child[f])
    BY <1>1, <1>t DEF AwaitChild, Runs, TypeOK, FrameOrNone
  <2>2. child[f] # f
    BY <2>1, OwnedFacts
  <2> SUFFICES ASSUME NEW x \in Frame PROVE FrameFits(x)'
    BY DEF FramesByStage
  <2> QED
    BY <1>1, <1>t, <2>1, <2>2, CoroutinesAssumption
    DEF AwaitChild, FrameFits, IsDone, frameVars, TypeOK
<1>2. ASSUME NEW f \in Frame, TrySet(s, f) PROVE FramesByStage'
  <2>1. pc[f] = "trySet" /\ FrameFits(f) /\ awaits[f] \in Frame /\ FrameFits(awaits[f])
    BY <1>2, <1>t DEF TrySet, Runs, FrameFits
  <2>2. awaits[f] # f /\ pc[awaits[f]] # "none"
    BY <2>1, OwnedFacts
  <2> SUFFICES ASSUME NEW x \in Frame PROVE FrameFits(x)'
    BY DEF FramesByStage
  <2>3. CASE GateOpen(awaits[f])
    <3>1. pc[awaits[f]] # "done"
      BY <2>1, <2>3 DEF FrameFits, IsDone, GateOpen
    <3>2. /\ word' = [word EXCEPT ![awaits[f]].value = f]
          /\ pc' = [pc EXCEPT ![f] = "suspended"]
          /\ UNCHANGED <<frameVars, awaits, child>>
      BY <1>2, <2>3 DEF TrySet
    <3>3. word'[x].gate = word[x].gate /\ (x # awaits[f] => word'[x] = word[x])
      BY <1>t, <2>1, <3>2 DEF TypeOK
    <3>4. FrameFits(x)
      BY <1>t
    <3> QED
      BY <1>t, <2>1, <2>2, <3>1, <3>2, <3>3, <3>4 DEF FrameFits, IsDone, frameVars, TypeOK
  <2>4. CASE ~GateOpen(awaits[f])
    <3>1. pc[awaits[f]] = "done"
      BY <1>t, <2>1, <2>4 DEF FrameFits, IsDone, GateOpen, TypeOK
    <3>2. pc' = [pc EXCEPT ![f] = "resume"] /\ UNCHANGED <<frameVars, awaits, word, child>>
      BY <1>2, <2>4 DEF TrySet
    <3>3. FrameFits(x)
      BY <1>t
    <3> QED
      BY <1>t, <2>1, <2>2, <3>1, <3>2, <3>3, CoroutinesAssumption
      DEF FrameFits, IsDone, frameVars, TypeOK
  <2> QED
    BY <2>3, <2>4
<1>3. ASSUME NEW f \in Frame, AwaitReady(s, f) PROVE FramesByStage'
  <2>1. pc[f] = "ready" /\ FrameFits(f) /\ awaits[f] \in Future
    BY <1>3, <1>t DEF AwaitReady, Runs, FrameFits
  <2> SUFFICES ASSUME NEW x \in Frame PROVE FrameFits(x)'
    BY DEF FramesByStage
  <2> QED
    BY <1>3, <1>t, <2>1, CoroutinesAssumption
    DEF AwaitReady, FrameFits, IsDone, frameVars, TypeOK
<1>4. ASSUME NEW f \in Frame, Then(s, f) PROVE FramesByStage'
  <2>1. pc[f] = "then" /\ FrameFits(f)
    BY <1>4, <1>t DEF Then, Runs
  <2> SUFFICES ASSUME NEW x \in Frame PROVE FrameFits(x)'
    BY DEF FramesByStage
  <2> QED
    BY <1>4, <1>t, <2>1 DEF Then, FrameFits, IsDone, frameVars, TypeOK
<1>5. ASSUME NEW f \in Frame, ResumeFuture(s, f) PROVE FramesByStage'
  <2>1. pc[f] = "resume" /\ FrameFits(f)
    BY <1>5, <1>t DEF ResumeFuture, Runs
  <2> SUFFICES ASSUME NEW x \in Frame PROVE FrameFits(x)'
    BY DEF FramesByStage
  <2> QED
    BY <1>5, <1>t, <2>1 DEF ResumeFuture, FrameFits, IsDone, frameVars, TypeOK
<1>6. ASSUME NEW f \in Frame, ResumeChild(s, f) PROVE FramesByStage'
  <2> DEFINE g == awaits[f]
  <2>1. pc[f] = "resume" /\ g \in Frame /\ Destroy(g) /\ FrameFits(f) /\ FrameFits(g)
    BY <1>6, <1>t DEF ResumeChild, Runs, DestroyChild
  <2>2. pc[g] = "done" /\ child[g] = None /\ awaits[g] = None /\ f # g
    BY <2>1 DEF FrameFits
  <2>3. \A x \in Frame : awaits[x] = g => x = f
    BY <2>1, OwnedFacts
  <2>4. /\ pc' = [pc EXCEPT ![f] = "body", ![g] = "none"]
        /\ awaits' = [awaits EXCEPT ![f] = None] /\ child' = child
    BY <1>6 DEF ResumeChild
  <2> HIDE DEF g
  <2>5. /\ pc'[g] = "none" /\ awaits'[g] = None /\ child'[g] = None
        /\ pc'[f] = "body" /\ awaits'[f] = None
        /\ \A x \in Frame \ {f, g} : pc'[x] = pc[x] /\ awaits'[x] = awaits[x]
    BY <1>t, <2>1, <2>2, <2>4 DEF TypeOK
  <2>6. \A x \in Frame \ {g} : pc'[x] = "resume" => awaits[x] # g
    BY <2>3, <2>5
  <2> QED
    BY <2>1, <2>2, <2>4, <2>5, <2>6, FramesStepDestroy
<1>7. ASSUME NEW f \in Frame, Return(s, f) PROVE FramesByStage'
  <2>1. pc[f] = "body" /\ FrameFits(f)
    BY <1>7, <1>t DEF Return, Runs
  <2> SUFFICES ASSUME NEW x \in Frame PROVE FrameFits(x)'
    BY DEF FramesByStage
  <2> QED
    BY <1>7, <1>t, <2>1 DEF Return, FrameFits, IsDone, TypeOK
<1>8. ASSUME NEW f \in Frame, Close(s, f) PROVE FramesByStage'
  <2>1. pc[f] = "close" /\ FrameFits(f)
    BY <1>8, <1>t DEF Close, Runs
  <2> SUFFICES ASSUME NEW x \in Frame PROVE FrameFits(x)'
    BY DEF FramesByStage
  <2>2. word' = [word EXCEPT ![f] = Closed] /\ UNCHANGED <<frameVars, awaits, child>>
    BY <1>8 DEF Close
  <2>3. CASE word[f].value = None
    <3>1. pc' = [pc EXCEPT ![f] = "done"]
      BY <1>8, <2>3 DEF Close
    <3> QED
      BY <1>t, <2>1, <2>2, <3>1 DEF FrameFits, IsDone, Closed, frameVars, TypeOK
  <2>4. CASE word[f].value # None
    <3> DEFINE c == word[f].value
    <3>1. c \in Frame /\ c # f /\ pc[c] = "suspended" /\ awaits[c] = f /\ FrameFits(c)
      BY <1>t, <2>4, WordFacts
    <3>2. pc' = [pc EXCEPT ![f] = "done", ![c] = "resume"]
      BY <1>8, <2>4 DEF Close
    <3> HIDE DEF c
    <3>3. pc'[f] = "done" /\ pc'[c] = "resume" /\ \A y \in Frame \ {f, c} : pc'[y] = pc[y]
      BY <1>t, <3>1, <3>2 DEF TypeOK
    <3>4. word'[f] = Closed /\ \A y \in Frame \ {f} : word'[y] = word[y]
      BY <1>t, <2>2 DEF TypeOK
    <3>5. FrameFits(x)
      BY <1>t
    <3> QED
      BY <2>1, <2>2, <3>1, <3>3, <3>4, <3>5, CoroutinesAssumption
      DEF FrameFits, IsDone, Closed, frameVars
  <2> QED
    BY <2>3, <2>4
<1>9. ASSUME NEW f \in Frame, EndDetached(s, f) PROVE FramesByStage'
  <2>1. pc[f] = "body" /\ FrameFits(f) /\ Destroy(f) /\ detached[f] /\ child[f] = None
    BY <1>9, <1>t DEF EndDetached, Runs, DestroyChild
  <2>2. awaits[f] = None /\ \A x \in Frame : awaits[x] # f
    BY <2>1, OwnedFacts DEF FrameFits
  <2>3. pc' = [pc EXCEPT ![f] = "none"] /\ UNCHANGED <<awaits, child>>
    BY <1>9 DEF EndDetached
  <2> QED
    BY <1>t, <2>1, <2>2, <2>3, FramesStepDestroy DEF TypeOK
<1>10. ASSUME s \in Task, RunResume(s) PROVE FramesByStage'
  <2> DEFINE f == job[s].on
  <2>1. f \in Frame /\ pc[f] = "suspended" /\ awaits[f] \in Future \cup {None}
    BY <1>10, TaskFacts DEF RunResume
  <2>2. /\ pc' = [pc EXCEPT ![f] = IF awaits[f] = None THEN "body" ELSE "resume"]
        /\ UNCHANGED <<frameVars, awaits, word, child>>
    BY <1>10 DEF RunResume
  <2> HIDE DEF f
  <2> SUFFICES ASSUME NEW x \in Frame PROVE FrameFits(x)'
    BY DEF FramesByStage
  <2>3. FrameFits(x) /\ FrameFits(f)
    BY <1>t, <2>1
  <2> QED
    BY <1>t, <2>1, <2>2, <2>3, CoroutinesAssumption DEF FrameFits, IsDone, frameVars, TypeOK
<1> QED
  BY <1>0, <1>1, <1>2, <1>3, <1>4, <1>5, <1>6, <1>7, <1>8, <1>9, <1>10, OutsideSteps
  DEF Proceed, RunCoroutine, RunTask

LEMMA FramesStep ==
  CoroutineInv /\ TypeOK' /\ [Next]_vars => FramesByStage'
<1> SUFFICES ASSUME CoroutineInv, TypeOK', [Next]_vars PROVE FramesByStage'
  OBVIOUS
<1>1. CASE UNCHANGED vars
  BY <1>1
  DEF CoroutineInv, FramesByStage, FrameFits, IsDone, vars, coroutineVars, frameVars
<1> QED
  BY <1>1, FramesStepProceed, FramesStepProgram DEF Next
-----------------------------------------------------------------------------
(* Owners of frames. *)

\* Nothing is created or destroyed, and who owns whom stays.
LEMMA OwnersStay ==
  ASSUME CoroutineInv,
         \A h \in Owner, g \in Frame : Owns(h, g)' <=> Owns(h, g),
         \A g \in Frame : pc'[g] = "none" <=> pc[g] = "none",
         \A f, g \in Frame : ~(child'[f] = g /\ awaits'[f] = g),
         detached' = detached
  PROVE  FramesOwned' /\ NoCircle'
<1>1. FramesOwned /\ NoCircle /\ \A f \in Frame : f \in Owner
  BY DEF CoroutineInv, Owner
<1>2. FramesOwned'
  BY <1>1 DEF FramesOwned
<1>3. ASSUME NEW S \in SUBSET Frame, S # {} PROVE \E f \in S : \A g \in S : ~Owns(f, g)'
  BY <1>1, <1>3 DEF NoCircle
<1> QED
  BY <1>2, <1>3 DEF NoCircle

\* A frame is created, for an owner that is not the frame itself, or detached.
LEMMA OwnerComes ==
  ASSUME CoroutineInv, NEW f \in Frame, FrameFits(f), pc[f] = "none", pc'[f] # "none",
         \A g \in Frame \ {f} : pc'[g] = "none" <=> pc[g] = "none",
         \A g \in Frame \ {f} : detached'[g] = detached[g],
         NEW h \in Owner, h # f,
         \A k \in Owner, g \in Frame :
           Owns(k, g)' <=> Owns(k, g) \/ (~detached'[f] /\ k = h /\ g = f),
         \A x, g \in Frame : child'[x] = g => awaits'[x] # g
  PROVE  FramesOwned' /\ NoCircle'
<1>1. FramesOwned /\ NoCircle /\ \A x \in Frame : x \in Owner
  BY DEF CoroutineInv, Owner
<1>2. \A k \in Owner : ~Owns(k, f)
  BY <1>1 DEF FramesOwned
<1>3. \A g \in Frame : ~Owns(f, g)
  <2>1. child[f] = None /\ awaits[f] = None
    BY DEF FrameFits
  <2> QED
    BY <2>1, CoroutinesAssumption DEF Owns
<1>4. ASSUME NEW k \in Owner, NEW g \in Frame, Owns(k, g)'
      PROVE  pc'[g] # "none" /\ ~detached'[g]
  BY <1>1, <1>2, <1>4 DEF FramesOwned
<1>5. ASSUME NEW k1 \in Owner, NEW k2 \in Owner, NEW g \in Frame, Owns(k1, g)', Owns(k2, g)'
      PROVE  k1 = k2
  BY <1>1, <1>2, <1>5 DEF FramesOwned
<1>6. ASSUME NEW g \in Frame, pc'[g] # "none", ~detached'[g]
      PROVE  \E k \in Owner : Owns(k, g)'
  <2>1. CASE g = f
    BY <1>6, <2>1
  <2>2. CASE g # f
    BY <1>1, <1>6, <2>2 DEF FramesOwned
  <2> QED
    BY <2>1, <2>2
<1>7. ASSUME NEW S \in SUBSET Frame, S # {} PROVE \E x \in S : \A g \in S : ~Owns(x, g)'
  <2>1. CASE f \in S
    <3>1. \A g \in S : ~Owns(f, g)'
      BY <1>1, <1>3
    <3> QED
      BY <2>1, <3>1
  <2>2. CASE f \notin S
    <3>1. PICK x \in S : \A g \in S : ~Owns(x, g)
      BY <1>1, <1>7 DEF NoCircle
    <3>2. \A g \in S : ~Owns(x, g)'
      BY <1>1, <2>2, <3>1
    <3> QED
      BY <3>2
  <2> QED
    BY <2>1, <2>2
<1>8. FramesOwned'
  BY <1>4, <1>5, <1>6 DEF FramesOwned
<1> QED
  BY <1>7, <1>8 DEF NoCircle

\* A frame is destroyed, and with it the handle of its owner.
LEMMA OwnerGoes ==
  ASSUME CoroutineInv, NEW f \in Frame, pc'[f] = "none",
         \A g \in Frame \ {f} : pc'[g] = "none" <=> pc[g] = "none",
         detached' = detached,
         \A k \in Owner, g \in Frame : Owns(k, g)' <=> Owns(k, g) /\ g # f,
         \A x, g \in Frame : child'[x] = g => awaits'[x] # g
  PROVE  FramesOwned' /\ NoCircle'
<1>1. FramesOwned /\ NoCircle /\ \A x \in Frame : x \in Owner
  BY DEF CoroutineInv, Owner
<1>2. FramesOwned'
  BY <1>1 DEF FramesOwned
<1>3. ASSUME NEW S \in SUBSET Frame, S # {} PROVE \E x \in S : \A g \in S : ~Owns(x, g)'
  BY <1>1, <1>3 DEF NoCircle
<1> QED
  BY <1>2, <1>3 DEF NoCircle

\* An attached frame gets the caller for its owner.
LEMMA OwnersStepCreate ==
  ASSUME CoroutineInv, NEW f, NEW u, NEW l, Create(f, FALSE, u, l),
         l = "body" \/ l = "suspended",
         NEW h \in Owner, h # f, child[h] = None, h \in Frame => pc[h] = "body",
         child' = [child EXCEPT ![h] = f]
  PROVE  FramesOwned' /\ NoCircle'
<1>1. f \in Frame /\ pc[f] = "none" /\ FrameFits(f)
  BY CreatedFrame
<1>2. TypeOK /\ CoroutineInv /\ None \notin Frame
  BY CoroutinesAssumption DEF CoroutineInv
<1>3. pc'[f] # "none" /\ \A g \in Frame \ {f} : pc'[g] = pc[g] /\ detached'[g] = detached[g]
  BY <1>1, <1>2 DEF Create, TypeOK
<1>4. awaits' = awaits /\ ~detached'[f]
  BY <1>1, <1>2 DEF Create, TypeOK
<1>5. \A k \in Owner : child'[k] = IF k = h THEN f ELSE child[k]
  BY <1>2 DEF TypeOK, Owner
<1>6. \A k \in Owner, g \in Frame :
        Owns(k, g)' <=> Owns(k, g) \/ (~detached'[f] /\ k = h /\ g = f)
  BY <1>1, <1>2, <1>4, <1>5 DEF Owns
<1>7. \A x, g \in Frame : child'[x] = g => awaits'[x] # g
  <2>1. \A x, g \in Frame : child[x] = g => awaits[x] # g
    BY OwnedFacts
  <2>2. h \in Frame => awaits[h] = None
    BY DEF CoroutineInv, FramesByStage, FrameFits
  <2>3. \A x \in Frame : x \in Owner
    BY DEF Owner
  <2> QED
    BY <1>2, <1>4, <1>5, <2>1, <2>2, <2>3
<1> QED
  BY <1>1, <1>2, <1>3, <1>6, <1>7, OwnerComes

\* Most steps leave the handles where they are.
LEMMA OwnersUntouched ==
  ASSUME CoroutineInv, UNCHANGED <<child, awaits, detached>>,
         \A g \in Frame : pc'[g] = "none" <=> pc[g] = "none"
  PROVE  FramesOwned' /\ NoCircle'
<1>1. \A h \in Owner, g \in Frame : Owns(h, g)' <=> Owns(h, g)
  BY DEF Owns
<1>2. \A f, g \in Frame : ~(child'[f] = g /\ awaits'[f] = g)
  BY OwnedFacts
<1> QED
  BY <1>1, <1>2, OwnersStay

\* A coroutine begins, or ends, to await a future.
LEMMA OwnersOfFutures ==
  ASSUME CoroutineInv, NEW f \in Frame, awaits[f] \notin Frame,
         NEW a, a \notin Frame, awaits' = [awaits EXCEPT ![f] = a],
         UNCHANGED <<child, detached>>,
         \A g \in Frame : pc'[g] = "none" <=> pc[g] = "none"
  PROVE  FramesOwned' /\ NoCircle'
<1>0. \A x \in Frame : awaits'[x] = IF x = f THEN a ELSE awaits[x]
  BY DEF CoroutineInv, TypeOK
<1>1. \A h \in Owner, g \in Frame : Owns(h, g)' <=> Owns(h, g)
  BY <1>0 DEF Owns
<1>2. \A x, g \in Frame : ~(child'[x] = g /\ awaits'[x] = g)
  BY <1>0, OwnedFacts
<1> QED
  BY <1>1, <1>2, OwnersStay

\* A detached frame has no owner.
LEMMA OwnersStepCreateDetached ==
  ASSUME CoroutineInv, NEW f, NEW u, NEW l, Create(f, TRUE, u, l),
         l = "body" \/ l = "suspended", child' = child
  PROVE  FramesOwned' /\ NoCircle'
<1>1. f \in Frame /\ pc[f] = "none" /\ FrameFits(f)
  BY CreatedFrame
<1>2. TypeOK /\ Main \in Owner /\ Main # f
  BY <1>1, CoroutinesAssumption DEF CoroutineInv, Owner
<1>3. /\ pc'[f] # "none" /\ \A g \in Frame \ {f} : pc'[g] = pc[g] /\ detached'[g] = detached[g]
      /\ awaits' = awaits /\ detached'[f]
  BY <1>1, <1>2 DEF Create, TypeOK
<1>4. \A k \in Owner, g \in Frame :
        Owns(k, g)' <=> Owns(k, g) \/ (~detached'[f] /\ k = Main /\ g = f)
  BY <1>3 DEF Owns
<1>5. \A x, g \in Frame : child'[x] = g => awaits'[x] # g
  BY <1>3, OwnedFacts
<1> QED
  BY <1>1, <1>2, <1>3, <1>4, <1>5, OwnerComes

LEMMA OwnersStepProgram ==
  ASSUME CoroutineInv, Program
  PROVE  FramesOwned' /\ NoCircle'
<1>t. TypeOK /\ OnStacks /\ StrandsByStage /\ \A x \in Frame : FrameFits(x)
  BY DEF CoroutineInv, FramesByStage
<1>m. Main \notin Frame /\ Main \in Owner /\ None \notin Frame /\ \A x \in Frame : x \in Owner
  BY CoroutinesAssumption DEF Owner
<1>0. CASE UNCHANGED coroutineVars
  BY <1>0, OwnersUntouched DEF coroutineVars, frameVars
<1>1. ASSUME NEW f \in Frame, NEW u \in Future \cup {None}, StartAttached(f, u)
      PROVE  FramesOwned' /\ NoCircle'
  <2>1. Create(f, FALSE, u, "body") /\ child[Main] = None
        /\ child' = [child EXCEPT ![Main] = f]
    BY <1>1 DEF StartAttached
  <2> QED
    BY <2>1, <1>m, OwnersStepCreate
<1>2. ASSUME NEW f \in Frame, NEW u \in Future \cup {None}, StartAndDetach(f, u)
      PROVE  FramesOwned' /\ NoCircle'
  <2>1. Create(f, TRUE, u, "body") /\ child' = child
    BY <1>2 DEF StartAndDetach
  <2> QED
    BY <2>1, OwnersStepCreateDetached
<1>3. ASSUME NEW f \in Frame, NEW u \in Future \cup {None}, AsyncResume(f, u)
      PROVE  FramesOwned' /\ NoCircle'
  <2>1. Create(f, TRUE, u, "suspended") /\ child' = child
    BY <1>3 DEF AsyncResume
  <2> QED
    BY <2>1, OwnersStepCreateDetached
<1>4. ASSUME NEW s \in Strand, NEW f \in Frame, NEW g \in Frame, CallCoroutine(s, f, g)
      PROVE  FramesOwned' /\ NoCircle'
  <2>1. Create(g, FALSE, None, "body") /\ child[f] = None /\ pc[f] = "body"
        /\ child' = [child EXCEPT ![f] = g]
    BY <1>4 DEF CallCoroutine, Runs
  <2>2. f # g
    BY <2>1, CreatedFrame
  <2> QED
    BY <2>1, <2>2, <1>m, OwnersStepCreate
<1>5. ASSUME NEW h \in Owner, DropHandle(h) PROVE FramesOwned' /\ NoCircle'
  <2> DEFINE g == child[h]
  <2>1. /\ g \in Frame /\ Destroy(g) /\ pc' = [pc EXCEPT ![g] = "none"]
        /\ child' = [child EXCEPT ![h] = None] /\ awaits' = awaits
    BY <1>5, <1>t DEF DropHandle, DestroyChild, TypeOK, Owner, FrameOrNone
  <2> HIDE DEF g
  <2>2. pc'[g] = "none" /\ \A x \in Frame \ {g} : pc'[x] = pc[x]
    BY <1>t, <2>1 DEF TypeOK
  <2>3. \A k \in Owner : child'[k] = IF k = h THEN None ELSE child[k]
    BY <1>t, <2>1 DEF TypeOK, Owner
  <2>4. /\ \A k \in Owner : child[k] = g => k = h
        /\ \A k \in Frame : awaits[k] # g
    BY <2>1, OwnedFacts DEF g
  <2>5. \A k \in Owner, x \in Frame : Owns(k, x)' <=> Owns(k, x) /\ x # g
    <3> SUFFICES ASSUME NEW k \in Owner, NEW x \in Frame
                 PROVE  Owns(k, x)' <=> Owns(k, x) /\ x # g
      OBVIOUS
    <3>1. child[h] = g
      BY DEF g
    <3>2. k = h => ~(k \in Frame /\ awaits[k] = x /\ x = g)
      BY <2>4
    <3> QED
      BY <1>m, <2>1, <2>3, <2>4, <3>1, <3>2 DEF Owns
  <2>6. \A x, y \in Frame : child'[x] = y => awaits'[x] # y
    BY <1>m, <2>1, <2>3, OwnedFacts
  <2> QED
    BY <2>1, <2>2, <2>5, <2>6, OwnerGoes DEF Destroy
<1>6. ASSUME NEW s \in Strand, NEW f \in Frame, AwaitFuture(s, f)
      PROVE  FramesOwned' /\ NoCircle'
  <2>1. pc[f] = "body" /\ param[f] \in Future /\ awaits[f] = None
    BY <1>6, <1>t DEF AwaitFuture, Runs, TypeOK, FrameFits
  <2>2. /\ awaits' = [awaits EXCEPT ![f] = param[f]] /\ UNCHANGED <<child, detached>>
        /\ pc' = [pc EXCEPT ![f] = "ready"]
    BY <1>6 DEF AwaitFuture, frameVars
  <2>3. \A x \in Frame : pc'[x] = "none" <=> pc[x] = "none"
    BY <1>t, <2>1, <2>2 DEF TypeOK
  <2> QED
    BY <1>m, <2>1, <2>2, <2>3, OwnersOfFutures, CoroutinesAssumption
<1>7. ASSUME NEW s \in Strand, NEW f \in Frame, NEW t \in Task, NEW u \in Future,
             AwaitTask(s, f, t, u)
      PROVE  FramesOwned' /\ NoCircle'
  <2>1. pc[f] = "body" /\ awaits[f] = None
    BY <1>7, <1>t DEF AwaitTask, Runs, FrameFits
  <2>2. /\ awaits' = [awaits EXCEPT ![f] = u] /\ UNCHANGED <<child, detached>>
        /\ pc' = [pc EXCEPT ![f] = "ready"]
    BY <1>7 DEF AwaitTask, frameVars
  <2>3. \A x \in Frame : pc'[x] = "none" <=> pc[x] = "none"
    BY <1>t, <2>1, <2>2 DEF TypeOK
  <2> QED
    BY <1>m, <2>1, <2>2, <2>3, OwnersOfFutures, CoroutinesAssumption
<1> QED
  BY <1>0, <1>1, <1>2, <1>3, <1>4, <1>5, <1>6, <1>7, OutsideSteps DEF Program, Owner

LEMMA OwnersStepProceed ==
  ASSUME CoroutineInv, NEW s \in Strand, Proceed(s)
  PROVE  FramesOwned' /\ NoCircle'
<1>t. TypeOK /\ OnStacks /\ StrandsByStage /\ \A x \in Frame : FrameFits(x)
  BY DEF CoroutineInv, FramesByStage
<1>m. None \notin Frame /\ \A x \in Frame : x \in Owner
  BY CoroutinesAssumption DEF Owner
<1>0. CASE UNCHANGED coroutineVars
  BY <1>0, OwnersUntouched DEF coroutineVars, frameVars
<1>1. ASSUME NEW f \in Frame, AwaitChild(s, f) PROVE FramesOwned' /\ NoCircle'
  <2> DEFINE g == child[f]
  <2>1. pc[f] = "body" /\ awaits[f] = None /\ g \in Frame
    BY <1>1, <1>t DEF AwaitChild, Runs, TypeOK, FrameOrNone, FrameFits
  <2>2. /\ awaits' = [awaits EXCEPT ![f] = g] /\ child' = [child EXCEPT ![f] = None]
        /\ detached' = detached
        /\ pc' = [pc EXCEPT ![f] = IF IsDone(g) THEN "resume" ELSE "trySet"]
    BY <1>1 DEF AwaitChild, frameVars
  <2>3. child[f] = g
    OBVIOUS
  <2> HIDE DEF g
  <2>4. \A x \in Frame : pc'[x] = "none" <=> pc[x] = "none"
    BY <1>t, <2>1, <2>2 DEF TypeOK
  <2>5. /\ \A x \in Frame : awaits'[x] = IF x = f THEN g ELSE awaits[x]
        /\ \A x \in Owner : child'[x] = IF x = f THEN None ELSE child[x]
    BY <1>t, <2>2 DEF TypeOK, Owner
  <2>6. \A k \in Owner, x \in Frame : Owns(k, x)' <=> Owns(k, x)
    BY <1>m, <2>1, <2>3, <2>5 DEF Owns
  <2>7. \A x, y \in Frame : ~(child'[x] = y /\ awaits'[x] = y)
    BY <1>m, <2>5, OwnedFacts
  <2> QED
    BY <2>2, <2>4, <2>6, <2>7, OwnersStay
<1>2. ASSUME NEW f \in Frame,
             TrySet(s, f) \/ AwaitReady(s, f) \/ Then(s, f) \/ Return(s, f)
      PROVE  FramesOwned' /\ NoCircle'
  <2>1. UNCHANGED <<child, awaits, detached>>
    BY <1>2 DEF TrySet, AwaitReady, Then, Return, frameVars
  <2>2. pc[f] # "none" /\ \E l \in {"suspended", "resume", "then", "close"} :
                            pc' = [pc EXCEPT ![f] = l]
    BY <1>2 DEF TrySet, AwaitReady, Then, Return, Runs
  <2>3. \A x \in Frame : pc'[x] = "none" <=> pc[x] = "none"
    BY <1>t, <2>2 DEF TypeOK
  <2> QED
    BY <2>1, <2>3, OwnersUntouched
<1>3. ASSUME NEW f \in Frame, ResumeFuture(s, f) PROVE FramesOwned' /\ NoCircle'
  <2>1. pc[f] = "resume" /\ awaits[f] \in Future
    BY <1>3 DEF ResumeFuture, Runs
  <2>2. /\ awaits' = [awaits EXCEPT ![f] = None] /\ UNCHANGED <<child, detached>>
        /\ pc' = [pc EXCEPT ![f] = "body"]
    BY <1>3 DEF ResumeFuture, frameVars
  <2>3. \A x \in Frame : pc'[x] = "none" <=> pc[x] = "none"
    BY <1>t, <2>1, <2>2 DEF TypeOK
  <2> QED
    BY <1>m, <2>1, <2>2, <2>3, OwnersOfFutures, CoroutinesAssumption
<1>4. ASSUME NEW f \in Frame, ResumeChild(s, f) PROVE FramesOwned' /\ NoCircle'
  <2> DEFINE g == awaits[f]
  <2>1. pc[f] = "resume" /\ g \in Frame /\ Destroy(g) /\ f # g
    BY <1>4, OwnedFacts DEF ResumeChild, Runs, DestroyChild
  <2>2. /\ pc' = [pc EXCEPT ![f] = "body", ![g] = "none"]
        /\ awaits' = [awaits EXCEPT ![f] = None] /\ child' = child
    BY <1>4 DEF ResumeChild
  <2>3. awaits[f] = g
    OBVIOUS
  <2> HIDE DEF g
  <2>4. /\ \A x \in Frame : awaits[x] = g => x = f
        /\ \A k \in Owner : child[k] # g
    BY <2>1, <2>3, OwnedFacts
  <2>5. /\ pc'[g] = "none" /\ \A x \in Frame \ {g} : pc'[x] = "none" <=> pc[x] = "none"
        /\ \A x \in Frame : awaits'[x] = IF x = f THEN None ELSE awaits[x]
    BY <1>t, <2>1, <2>2 DEF TypeOK
  <2>6. \A k \in Owner, x \in Frame : Owns(k, x)' <=> Owns(k, x) /\ x # g
    BY <1>m, <2>2, <2>3, <2>4, <2>5 DEF Owns
  <2>7. \A x, y \in Frame : child'[x] = y => awaits'[x] # y
    BY <1>m, <2>2, <2>5, OwnedFacts
  <2> QED
    BY <2>1, <2>5, <2>6, <2>7, OwnerGoes DEF Destroy
<1>5. ASSUME NEW f \in Frame, Close(s, f) PROVE FramesOwned' /\ NoCircle'
  <2>1. UNCHANGED <<child, awaits, detached>> /\ pc[f] = "close"
    BY <1>5 DEF Close, Runs, frameVars
  <2>2. \A x \in Frame : pc'[x] = "none" <=> pc[x] = "none"
    <3>1. CASE word[f].value = None
      BY <1>5, <1>t, <2>1, <3>1 DEF Close, TypeOK
    <3>2. CASE word[f].value # None
      <4> DEFINE c == word[f].value
      <4>1. c \in Frame /\ pc[c] = "suspended"
        BY <3>2, WordFacts
      <4>2. pc' = [pc EXCEPT ![f] = "done", ![c] = "resume"]
        BY <1>5, <3>2 DEF Close
      <4> HIDE DEF c
      <4> QED
        BY <1>t, <2>1, <4>1, <4>2 DEF TypeOK
    <3> QED
      BY <3>1, <3>2
  <2> QED
    BY <2>1, <2>2, OwnersUntouched
<1>6. ASSUME NEW f \in Frame, EndDetached(s, f) PROVE FramesOwned' /\ NoCircle'
  <2>1. detached[f] /\ Destroy(f) /\ pc' = [pc EXCEPT ![f] = "none"]
        /\ UNCHANGED <<child, awaits>>
    BY <1>6 DEF EndDetached, DestroyChild
  <2>2. \A k \in Owner : ~Owns(k, f)
    BY <2>1, OwnedFacts DEF Owns
  <2>3. \A k \in Owner, x \in Frame : Owns(k, x)' <=> Owns(k, x) /\ x # f
    BY <2>1, <2>2 DEF Owns
  <2>4. pc'[f] = "none" /\ \A x \in Frame \ {f} : pc'[x] = pc[x]
    BY <1>t, <2>1 DEF TypeOK
  <2>5. \A x, y \in Frame : child'[x] = y => awaits'[x] # y
    BY <2>1, OwnedFacts
  <2> QED
    BY <2>1, <2>3, <2>4, <2>5, OwnerGoes DEF Destroy
<1>7. ASSUME s \in Task, RunResume(s) PROVE FramesOwned' /\ NoCircle'
  <2>1. job[s].on \in Frame /\ pc[job[s].on] = "suspended"
    BY <1>7, TaskFacts DEF RunResume
  <2>2. UNCHANGED <<child, awaits, detached>>
        /\ pc' = [pc EXCEPT ![job[s].on] = IF awaits[job[s].on] = None THEN "body" ELSE "resume"]
    BY <1>7 DEF RunResume, frameVars
  <2>3. \A x \in Frame : pc'[x] = "none" <=> pc[x] = "none"
    BY <1>t, <2>1, <2>2 DEF TypeOK
  <2> QED
    BY <2>2, <2>3, OwnersUntouched
<1> QED
  BY <1>0, <1>1, <1>2, <1>3, <1>4, <1>5, <1>6, <1>7, OutsideSteps
  DEF Proceed, RunCoroutine, RunTask

LEMMA OwnersStep ==
  CoroutineInv /\ [Next]_vars => FramesOwned' /\ NoCircle'
<1> SUFFICES ASSUME CoroutineInv, [Next]_vars PROVE FramesOwned' /\ NoCircle'
  OBVIOUS
<1>1. CASE UNCHANGED vars
  BY <1>1, OwnersUntouched DEF vars, coroutineVars, frameVars
<1> QED
  BY <1>1, OwnersStepProceed, OwnersStepProgram DEF Next
-----------------------------------------------------------------------------
(* Stacks. *)

LEMMA StacksStay ==
  ASSUME CoroutineInv, stack' = stack,
         \A f \in Frame : pc'[f] \in Running <=> pc[f] \in Running
  PROVE  OnStacks'
<1> QED
  BY DEF CoroutineInv, OnStacks

\* A stack is replaced by q: who is in q only did not run, and runs now; who is not
\* in it any more stops.
LEMMA StackReplaced ==
  ASSUME CoroutineInv, NEW s \in Strand, NEW q, stack' = [stack EXCEPT ![s] = q],
         IsInjective(q),
         \A f \in Frame : f \in Range(q) => f \in Range(stack[s]) \/ pc[f] \notin Running,
         \A f \in Frame : f \in Range(q) => pc'[f] \in Running,
         \A f \in Frame : f \in Range(stack[s]) /\ f \notin Range(q) => pc'[f] \notin Running,
         \A f \in Frame : f \notin Range(stack[s]) /\ f \notin Range(q) =>
           (pc'[f] \in Running <=> pc[f] \in Running)
  PROVE  OnStacks'
<1>1. stack'[s] = q /\ \A x \in Strand \ {s} : stack'[x] = stack[x]
  BY DEF CoroutineInv, TypeOK
<1>2. /\ \A x \in Strand : IsInjective(stack[x])
      /\ \A s1, s2 \in Strand, f \in Frame :
           f \in Range(stack[s1]) /\ f \in Range(stack[s2]) => s1 = s2
      /\ \A f \in Frame : pc[f] \in Running <=> \E x \in Strand : f \in Range(stack[x])
  BY DEF CoroutineInv, OnStacks
<1>3. \A x \in Strand : IsInjective(stack'[x])
  BY <1>1, <1>2
<1>4. ASSUME NEW s1 \in Strand, NEW s2 \in Strand, NEW f \in Frame,
             f \in Range(stack'[s1]), f \in Range(stack'[s2])
      PROVE  s1 = s2
  <2>1. \A x \in Strand \ {s} : f \in Range(stack[x]) => f \notin Range(q)
    BY <1>2
  <2> QED
    BY <1>1, <1>2, <1>4, <2>1
<1>5. ASSUME NEW f \in Frame
      PROVE  pc'[f] \in Running <=> \E x \in Strand : f \in Range(stack'[x])
  <2>1. CASE f \in Range(q)
    BY <1>1, <2>1
  <2>2. CASE f \notin Range(q) /\ f \in Range(stack[s])
    BY <1>1, <1>2, <2>2
  <2>3. CASE f \notin Range(q) /\ f \notin Range(stack[s])
    BY <1>1, <1>2, <2>3
  <2> QED
    BY <2>1, <2>2, <2>3
<1> QED
  BY <1>3, <1>4, <1>5 DEF OnStacks

\* The coroutine on top gives the strand back.
LEMMA StackLeft ==
  ASSUME CoroutineInv, NEW s \in Strand, stack[s] # <<>>, Leave(s),
         pc'[Last(stack[s])] \notin Running,
         \A f \in Frame : f # Last(stack[s]) => pc'[f] = pc[f]
  PROVE  OnStacks'
<1>1. /\ IsInjective(Front(stack[s]))
      /\ Range(Front(stack[s])) = Range(stack[s]) \ {Last(stack[s])}
  BY StackFacts DEF CoroutineInv
<1>2. \A f \in Frame : f \in Range(stack[s]) => pc[f] \in Running
  BY DEF CoroutineInv, OnStacks
<1> DEFINE q == Front(stack[s])
<1>3. stack' = [stack EXCEPT ![s] = q]
  BY DEF Leave
<1>4. \A f \in Frame : f \in Range(q) => f \in Range(stack[s]) /\ f # Last(stack[s])
  BY <1>1
<1>5. \A f \in Frame : f \in Range(stack[s]) /\ f \notin Range(q) => f = Last(stack[s])
  BY <1>1
<1>6. \A f \in Frame : f \notin Range(stack[s]) => f # Last(stack[s])
  BY StackFacts DEF CoroutineInv
<1>7. IsInjective(q)
  BY <1>1
<1> HIDE DEF q
<1>8. \A f \in Frame : f \in Range(q) => pc'[f] \in Running
  BY <1>2, <1>4
<1>9. \A f \in Frame : f \in Range(stack[s]) /\ f \notin Range(q) => pc'[f] \notin Running
  BY <1>5
<1>10. \A f \in Frame : f \notin Range(stack[s]) /\ f \notin Range(q) =>
         (pc'[f] \in Running <=> pc[f] \in Running)
  BY <1>6
<1> QED
  BY <1>3, <1>4, <1>7, <1>8, <1>9, <1>10, StackReplaced

\* A strand without coroutines gets one.
LEMMA StackBegun ==
  ASSUME CoroutineInv, NEW s \in Strand, stack[s] = <<>>,
         NEW f \in Frame, pc[f] \notin Running, pc'[f] \in Running,
         stack' = [stack EXCEPT ![s] = <<f>>],
         \A x \in Frame : x # f => pc'[x] = pc[x]
  PROVE  OnStacks'
<1>1. Range(stack[s]) = {}
  BY EmptyStack
<1>2. IsInjective(<<f>>) /\ Range(<<f>>) = {f}
  BY OnlyOne
<1> DEFINE q == <<f>>
<1> HIDE DEF q
<1> QED
  BY <1>1, <1>2, StackReplaced DEF q

LEMMA StacksStepProgram ==
  ASSUME CoroutineInv, Program
  PROVE  OnStacks'
<1>t. TypeOK /\ OnStacks /\ StrandsByStage /\ Main \in Strand
  BY DEF CoroutineInv, Strand
<1>0. CASE UNCHANGED coroutineVars
  BY <1>0, StacksStay DEF coroutineVars
<1>1. ASSUME NEW f \in Frame, NEW u \in Future \cup {None}, NEW d,
             Create(f, d, u, "body"), stack[Main] = <<>>,
             stack' = [stack EXCEPT ![Main] = <<f>>]
      PROVE  OnStacks'
  <2>1. pc[f] = "none" /\ pc' = [pc EXCEPT ![f] = "body"]
    BY <1>1, CreatedFrame DEF Create
  <2>2. pc'[f] = "body" /\ \A x \in Frame : x # f => pc'[x] = pc[x]
    BY <1>t, <2>1 DEF TypeOK
  <2> QED
    BY <1>1, <1>t, <2>1, <2>2, StackBegun DEF Running
<1>2. ASSUME NEW f \in Frame, NEW u \in Future \cup {None},
             StartAttached(f, u) \/ StartAndDetach(f, u)
      PROVE  OnStacks'
  BY <1>1, <1>2 DEF StartAttached, StartAndDetach, InMain
<1>3. ASSUME NEW f \in Frame, NEW u \in Future \cup {None}, AsyncResume(f, u)
      PROVE  OnStacks'
  <2>1. Create(f, TRUE, u, "suspended") /\ stack' = stack
    BY <1>3 DEF AsyncResume
  <2>2. pc[f] = "none" /\ pc' = [pc EXCEPT ![f] = "suspended"]
    BY <2>1, CreatedFrame DEF Create
  <2> QED
    BY <1>t, <2>1, <2>2, StacksStay DEF TypeOK, Running
<1>4. ASSUME NEW s \in Strand, NEW f \in Frame, NEW g \in Frame, CallCoroutine(s, f, g)
      PROVE  OnStacks'
  <2>1. Create(g, FALSE, None, "body") /\ stack' = [stack EXCEPT ![s] = Append(stack[s], g)]
    BY <1>4 DEF CallCoroutine
  <2>2. pc[g] = "none" /\ pc' = [pc EXCEPT ![g] = "body"]
    BY <2>1, CreatedFrame DEF Create
  <2>3. pc'[g] = "body" /\ \A x \in Frame : x # g => pc'[x] = pc[x]
    BY <1>t, <2>2 DEF TypeOK
  <2>4. \A x \in Frame : x \in Range(stack[s]) => pc[x] \in Running
    BY <1>t DEF OnStacks
  <2>5. g \notin Range(stack[s])
    BY <2>2, <2>4 DEF Running
  <2> DEFINE q == Append(stack[s], g)
  <2>6. IsInjective(q) /\ Range(q) = Range(stack[s]) \cup {g}
    BY <1>t, <2>5, StackFacts, TopComes
  <2> HIDE DEF q
  <2> QED
    BY <2>1, <2>2, <2>3, <2>4, <2>6, StackReplaced DEF q, Running
<1>5. ASSUME NEW h \in Owner, DropHandle(h) PROVE OnStacks'
  <2>1. child[h] \in Frame /\ pc[child[h]] = "done"
    BY <1>5, <1>t
    DEF DropHandle, TypeOK, Owner, FrameOrNone, CoroutineInv, FramesByStage, FrameFits
  <2>2. stack' = stack /\ pc' = [pc EXCEPT ![child[h]] = "none"]
    BY <1>5 DEF DropHandle
  <2> QED
    BY <1>t, <2>1, <2>2, StacksStay DEF TypeOK, Running
<1>6. ASSUME NEW s \in Strand, NEW f \in Frame,
             \/ AwaitFuture(s, f)
             \/ \E t \in Task, u \in Future : AwaitTask(s, f, t, u)
      PROVE  OnStacks'
  <2>1. stack' = stack /\ pc[f] = "body" /\ pc' = [pc EXCEPT ![f] = "ready"]
    BY <1>6 DEF AwaitFuture, AwaitTask, Runs
  <2> QED
    BY <1>t, <2>1, StacksStay DEF TypeOK, Running
<1> QED
  BY <1>0, <1>2, <1>3, <1>4, <1>5, <1>6, OutsideSteps DEF Program, Owner

LEMMA StacksStepProceed ==
  ASSUME CoroutineInv, NEW s \in Strand, Proceed(s)
  PROVE  OnStacks'
<1>t. TypeOK /\ OnStacks /\ StrandsByStage /\ FramesByStage
  BY DEF CoroutineInv
<1>0. CASE UNCHANGED coroutineVars
  BY <1>0, StacksStay DEF coroutineVars
<1>1. ASSUME NEW f \in Frame,
             AwaitChild(s, f) \/ AwaitReady(s, f) \/ ResumeFuture(s, f) \/ Return(s, f)
      PROVE  OnStacks'
  <2>1. /\ stack' = stack /\ pc[f] \in Running
        /\ \E l \in Running : pc' = [pc EXCEPT ![f] = l]
    BY <1>1 DEF AwaitChild, AwaitReady, ResumeFuture, Return, Runs, Running
  <2> QED
    BY <1>t, <2>1, StacksStay DEF TypeOK
<1>2. ASSUME NEW f \in Frame, Runs(s, f, "trySet") \/ Runs(s, f, "then")
                              \/ Runs(s, f, "close") \/ Runs(s, f, "body"),
             Leave(s), NEW l \in {"suspended", "done", "none"},
             pc' = [pc EXCEPT ![f] = l]
      PROVE  OnStacks'
  <2>1. stack[s] # <<>> /\ f = Last(stack[s])
    BY <1>2 DEF Runs
  <2>2. pc'[f] \notin Running /\ \A x \in Frame : x # f => pc'[x] = pc[x]
    BY <1>2, <1>t DEF TypeOK, Running
  <2> QED
    BY <1>2, <2>1, <2>2, StackLeft
<1>3. ASSUME NEW f \in Frame, TrySet(s, f) PROVE OnStacks'
  <2>1. CASE GateOpen(awaits[f])
    BY <1>2, <1>3, <2>1 DEF TrySet
  <2>2. CASE ~GateOpen(awaits[f])
    <3>1. stack' = stack /\ pc[f] = "trySet" /\ pc' = [pc EXCEPT ![f] = "resume"]
      BY <1>3, <2>2 DEF TrySet, Runs
    <3> QED
      BY <1>t, <3>1, StacksStay DEF TypeOK, Running
  <2> QED
    BY <2>1, <2>2
<1>4. ASSUME NEW f \in Frame, Then(s, f) PROVE OnStacks'
  BY <1>2, <1>4 DEF Then
<1>5. ASSUME NEW f \in Frame, EndDetached(s, f) PROVE OnStacks'
  BY <1>2, <1>5 DEF EndDetached
<1>6. ASSUME NEW f \in Frame, ResumeChild(s, f) PROVE OnStacks'
  <2>1. /\ stack' = stack /\ pc[f] = "resume" /\ awaits[f] \in Frame
        /\ pc' = [pc EXCEPT ![f] = "body", ![awaits[f]] = "none"]
    BY <1>6 DEF ResumeChild, Runs
  <2>2. pc[awaits[f]] = "done"
    BY <1>t, <2>1 DEF FramesByStage, FrameFits
  <2> QED
    BY <1>t, <2>1, <2>2, StacksStay DEF TypeOK, Running
<1>7. ASSUME NEW f \in Frame, Close(s, f) PROVE OnStacks'
  <2>1. CASE word[f].value = None
    BY <1>2, <1>7, <2>1 DEF Close
  <2>2. CASE word[f].value # None
    <3> DEFINE c == word[f].value
               p == Front(stack[s])
               q == Append(p, c)
    <3>1. c \in Frame /\ c # f /\ pc[c] = "suspended"
      BY <2>2, WordFacts
    <3>2. /\ stack[s] # <<>> /\ f = Last(stack[s])
          /\ stack' = [stack EXCEPT ![s] = q] /\ pc' = [pc EXCEPT ![f] = "done", ![c] = "resume"]
      BY <1>7, <2>2 DEF Close, Runs
    <3> HIDE DEF c
    <3>3. /\ p \in Seq(Frame) /\ IsInjective(p) /\ Range(p) = Range(stack[s]) \ {f}
      BY <1>t, <3>2, StackFacts
    <3>4. \A x \in Frame : x \in Range(stack[s]) => pc[x] \in Running
      BY <1>t DEF OnStacks
    <3>5. c \notin Range(stack[s])
      BY <3>1, <3>4 DEF Running
    <3> HIDE DEF p
    <3>6. IsInjective(q) /\ Range(q) = Range(p) \cup {c}
      BY <3>1, <3>3, <3>5, TopComes
    <3> HIDE DEF q
    <3>7. pc'[f] = "done" /\ pc'[c] = "resume" /\ \A x \in Frame \ {f, c} : pc'[x] = pc[x]
      BY <1>t, <3>1, <3>2 DEF TypeOK
    <3>8. f \in Range(stack[s])
      BY <1>t, <3>2, StackFacts
    <3>9. /\ \A x \in Frame : x \in Range(q) => x \in Range(stack[s]) \/ pc[x] \notin Running
          /\ \A x \in Frame : x \in Range(q) => pc'[x] \in Running
          /\ \A x \in Frame : x \in Range(stack[s]) /\ x \notin Range(q) => pc'[x] \notin Running
          /\ \A x \in Frame : x \notin Range(stack[s]) /\ x \notin Range(q) =>
               (pc'[x] \in Running <=> pc[x] \in Running)
      BY <3>1, <3>3, <3>4, <3>5, <3>6, <3>7, <3>8 DEF Running
    <3> QED
      BY <3>2, <3>6, <3>9, StackReplaced
  <2> QED
    BY <2>1, <2>2
<1>8. ASSUME s \in Task, RunResume(s) PROVE OnStacks'
  <2> DEFINE f == job[s].on
  <2>1. f \in Frame /\ pc[f] = "suspended"
    BY <1>8, TaskFacts DEF RunResume
  <2>2. /\ pc' = [pc EXCEPT ![f] = IF awaits[f] = None THEN "body" ELSE "resume"]
        /\ stack' = [stack EXCEPT ![s] = <<f>>] /\ at[s] = "ready"
    BY <1>8 DEF RunResume
  <2> HIDE DEF f
  <2>3. stack[s] = <<>>
    BY <1>t, <2>2 DEF StrandsByStage, StrandFits
  <2>4. pc'[f] \in Running /\ pc[f] \notin Running /\ \A x \in Frame : x # f => pc'[x] = pc[x]
    BY <1>t, <2>1, <2>2 DEF TypeOK, Running
  <2> QED
    BY <2>1, <2>2, <2>3, <2>4, StackBegun
<1> QED
  BY <1>0, <1>1, <1>3, <1>4, <1>5, <1>6, <1>7, <1>8, OutsideSteps
  DEF Proceed, RunCoroutine, RunTask

LEMMA StacksStep ==
  CoroutineInv /\ [Next]_vars => OnStacks'
<1> SUFFICES ASSUME CoroutineInv, [Next]_vars PROVE OnStacks'
  OBVIOUS
<1>1. CASE UNCHANGED vars
  BY <1>1, StacksStay DEF vars, coroutineVars
<1> QED
  BY <1>1, StacksStepProceed, StacksStepProgram DEF Next
-----------------------------------------------------------------------------
(* Suspended coroutines. *)

\* Most steps suspend nobody and carry nobody on.
LEMMA SuspendedStay ==
  ASSUME CoroutineInv,
         \A f \in Frame : pc'[f] = "suspended" <=> pc[f] = "suspended",
         \A f \in Frame : pc[f] = "suspended" => awaits'[f] = awaits[f],
         \A g \in Frame : word'[g].value = word[g].value,
         \A t \in Task : \/ job'[t] = job[t]
                         \/ job[t].kind # "resume" /\ job'[t].kind # "resume"
  PROVE  InTasks' /\ InWords'
<1>1. InTasks /\ InWords /\ \A t \in Task : job[t].kind = "resume" => job[t].on \in Frame
  BY DEF CoroutineInv, StrandsByStage, StrandFits, Strand
<1>2. \A f \in Frame : AwaitsTask(f)' <=> AwaitsTask(f)
  BY DEF AwaitsTask
<1>3. \A t \in Task : /\ job'[t].kind = "resume" <=> job[t].kind = "resume"
                      /\ job[t].kind = "resume" => job'[t] = job[t]
  OBVIOUS
<1>4. InTasks'
  <2>2. ASSUME NEW t \in Task, (job[t].kind = "resume")' PROVE AwaitsTask(job[t].on)'
    <3>1. job'[t] = job[t] /\ AwaitsTask(job[t].on) /\ job[t].on \in Frame
      BY <1>1, <1>3, <2>2 DEF InTasks
    <3> QED
      BY <3>1 DEF AwaitsTask
  <2>3. ASSUME NEW f \in Frame, AwaitsTask(f)'
        PROVE  \E t \in Task : job'[t].kind = "resume" /\ job'[t].on = f
    BY <1>1, <1>2, <1>3, <2>3 DEF InTasks
  <2> QED
    BY <1>1, <1>3, <2>2, <2>3 DEF InTasks
<1>5. InWords'
  BY <1>1 DEF InWords
<1> QED
  BY <1>4, <1>5

\* f begins to wait for the task t.
LEMMA TaskSuspends ==
  ASSUME CoroutineInv, NEW f \in Frame, pc[f] # "suspended", NEW t \in Task,
         job[t].kind # "resume", job' = [job EXCEPT ![t] = [kind |-> "resume", on |-> f]],
         pc'[f] = "suspended", \A x \in Frame : x # f => pc'[x] = pc[x],
         awaits' = awaits, word' = word, awaits[f] \notin Frame
  PROVE  InTasks' /\ InWords'
<1>1. InTasks /\ InWords /\ \A x \in Task : job[x].kind = "resume" => job[x].on \in Frame
  BY DEF CoroutineInv, StrandsByStage, StrandFits, Strand
<1>2. /\ job'[t].kind = "resume" /\ job'[t].on = f
      /\ \A x \in Task \ {t} : job'[x] = job[x]
  BY DEF CoroutineInv, TypeOK, Strand
<1>3. AwaitsTask(f)' /\ \A x \in Frame : x # f => (AwaitsTask(x)' <=> AwaitsTask(x))
  BY DEF AwaitsTask
<1>4. \A x \in Task : job[x].kind = "resume" => job[x].on # f
  BY <1>1 DEF InTasks, AwaitsTask
<1>5. InTasks'
  <2>1. ASSUME NEW x \in Task, (job[x].kind = "resume")' PROVE AwaitsTask(job[x].on)'
    <3>1. CASE x = t
      BY <1>2, <1>3, <3>1 DEF AwaitsTask
    <3>2. CASE x # t
      <4>1. job'[x] = job[x] /\ AwaitsTask(job[x].on) /\ job[x].on \in Frame /\ job[x].on # f
        BY <1>1, <1>2, <1>4, <2>1, <3>2 DEF InTasks
      <4> QED
        BY <4>1 DEF AwaitsTask
    <3> QED
      BY <3>1, <3>2
  <2>2. ASSUME NEW x1 \in Task, NEW x2 \in Task, job'[x1].kind = "resume",
               job'[x2].kind = "resume", job'[x1].on = job'[x2].on
        PROVE  x1 = x2
    BY <1>1, <1>2, <1>4, <2>2 DEF InTasks
  <2>3. ASSUME NEW x \in Frame, AwaitsTask(x)'
        PROVE  \E y \in Task : job'[y].kind = "resume" /\ job'[y].on = x
    <3>1. CASE x = f
      BY <1>2, <3>1
    <3>2. CASE x # f
      <4>1. PICK y \in Task : job[y].kind = "resume" /\ job[y].on = x
        BY <1>1, <1>3, <2>3, <3>2 DEF InTasks
      <4>2. y # t
        BY <4>1
      <4> QED
        BY <1>2, <4>1, <4>2
    <3> QED
      BY <3>1, <3>2
  <2> QED
    BY <2>1, <2>2, <2>3 DEF InTasks
<1>6. InWords'
  <2> SUFFICES ASSUME NEW x \in Frame, NEW g \in Frame
               PROVE  word'[g].value = x <=> pc'[x] = "suspended" /\ awaits'[x] = g
    BY DEF InWords
  <2>1. word[g].value = x <=> pc[x] = "suspended" /\ awaits[x] = g
    BY <1>1 DEF InWords
  <2> QED
    BY <2>1
<1> QED
  BY <1>5, <1>6

\* A task carries on the coroutine f that waits for it.
LEMMA TaskResumes ==
  ASSUME CoroutineInv, NEW t \in Task, job[t].kind = "resume",
         job' = [job EXCEPT ![t] = NoJob], NEW l, l # "suspended",
         pc' = [pc EXCEPT ![job[t].on] = l], awaits' = awaits, word' = word
  PROVE  InTasks' /\ InWords'
<1> DEFINE f == job[t].on
<1>1. InTasks /\ InWords /\ f \in Frame /\ AwaitsTask(f)
  BY DEF CoroutineInv, StrandsByStage, StrandFits, Strand, InTasks
<1>2. job'[t].kind = "none" /\ \A x \in Task \ {t} : job'[x] = job[x]
  BY DEF CoroutineInv, TypeOK, Strand, NoJob
<1>3. pc'[f] = l /\ \A x \in Frame \ {f} : pc'[x] = pc[x]
  BY <1>1 DEF CoroutineInv, TypeOK
<1>4. \A x \in Task \ {t} : job[x].kind = "resume" => job[x].on # f
  BY <1>1 DEF InTasks
<1>o. \A x \in Task : job[x].kind = "resume" => job[x].on \in Frame
  BY DEF CoroutineInv, StrandsByStage, StrandFits, Strand
<1> HIDE DEF f
<1>5. \A x \in Frame : AwaitsTask(x)' <=> AwaitsTask(x) /\ x # f
  BY <1>3 DEF AwaitsTask
<1>6. InTasks'
  <2>1. ASSUME NEW x \in Task, (job[x].kind = "resume")' PROVE AwaitsTask(job[x].on)'
    <3>1. x # t /\ job'[x] = job[x]
      BY <1>2, <2>1
    <3>2. AwaitsTask(job[x].on) /\ job[x].on \in Frame /\ job[x].on # f
      BY <1>1, <1>4, <1>o, <2>1, <3>1 DEF InTasks
    <3> QED
      BY <1>3, <3>1, <3>2 DEF AwaitsTask
  <2>2. ASSUME NEW x1 \in Task, NEW x2 \in Task, job'[x1].kind = "resume",
               job'[x2].kind = "resume", job'[x1].on = job'[x2].on
        PROVE  x1 = x2
    BY <1>1, <1>2, <2>2 DEF InTasks
  <2>3. ASSUME NEW x \in Frame, AwaitsTask(x)'
        PROVE  \E y \in Task : job'[y].kind = "resume" /\ job'[y].on = x
    <3>1. PICK y \in Task : job[y].kind = "resume" /\ job[y].on = x
      BY <1>1, <1>5, <2>3 DEF InTasks
    <3>2. y # t
      BY <1>5, <2>3, <3>1 DEF f
    <3> QED
      BY <1>2, <3>1, <3>2
  <2> QED
    BY <2>1, <2>2, <2>3 DEF InTasks
<1>7. InWords'
  <2> SUFFICES ASSUME NEW x \in Frame, NEW g \in Frame
               PROVE  word'[g].value = x <=> pc'[x] = "suspended" /\ awaits'[x] = g
    BY DEF InWords
  <2>1. word[g].value = x <=> pc[x] = "suspended" /\ awaits[x] = g
    BY <1>1 DEF InWords
  <2>2. awaits[f] # g
    BY <1>1 DEF AwaitsTask
  <2> QED
    BY <1>3, <2>1, <2>2
<1> QED
  BY <1>6, <1>7

\* f begins to wait for g, whose word is empty.
LEMMA WordSuspends ==
  ASSUME CoroutineInv, NEW f \in Frame, pc[f] # "suspended", NEW g \in Frame,
         awaits[f] = g, word[g].value = None, word' = [word EXCEPT ![g].value = f],
         pc' = [pc EXCEPT ![f] = "suspended"], awaits' = awaits, job' = job
  PROVE  InTasks' /\ InWords'
<1>1. InTasks /\ InWords /\ \A x \in Task : job[x].kind = "resume" => job[x].on \in Frame
  BY DEF CoroutineInv, StrandsByStage, StrandFits, Strand
<1>2. pc'[f] = "suspended" /\ \A x \in Frame \ {f} : pc'[x] = pc[x]
  BY DEF CoroutineInv, TypeOK
<1>3. word'[g].value = f /\ \A x \in Frame \ {g} : word'[x] = word[x]
  BY DEF CoroutineInv, TypeOK
<1>4. \A x \in Frame : AwaitsTask(x)' <=> AwaitsTask(x)
  BY <1>2 DEF AwaitsTask
<1>5. InTasks'
  <2>2. ASSUME NEW x \in Task, (job[x].kind = "resume")' PROVE AwaitsTask(job[x].on)'
    <3>1. AwaitsTask(job[x].on) /\ job[x].on \in Frame
      BY <1>1, <2>2 DEF InTasks
    <3> QED
      BY <1>2, <3>1 DEF AwaitsTask
  <2> QED
    BY <1>1, <1>4, <2>2 DEF InTasks
<1>6. InWords'
  <2> SUFFICES ASSUME NEW x \in Frame, NEW y \in Frame
               PROVE  word'[y].value = x <=> pc'[x] = "suspended" /\ awaits'[x] = y
    BY DEF InWords
  <2>1. word[y].value = x <=> pc[x] = "suspended" /\ awaits[x] = y
    BY <1>1 DEF InWords
  <2>2. awaits[x] = g => x = f
    BY OwnedFacts
  <2>3. x # None
    BY CoroutinesAssumption
  <2> QED
    BY <1>2, <1>3, <2>1, <2>2, <2>3
<1> QED
  BY <1>5, <1>6

\* Who waits for f is carried on when f ends.
LEMMA WordResumes ==
  ASSUME CoroutineInv, NEW f \in Frame, pc[f] # "suspended", word[f].value # None,
         word' = [word EXCEPT ![f] = Closed],
         pc' = [pc EXCEPT ![f] = "done", ![word[f].value] = "resume"],
         awaits' = awaits, job' = job
  PROVE  InTasks' /\ InWords'
<1> DEFINE c == word[f].value
<1>1. c \in Frame /\ c # f /\ pc[c] = "suspended" /\ awaits[c] = f
  BY WordFacts
<1>2. InTasks /\ InWords /\ \A x \in Task : job[x].kind = "resume" => job[x].on \in Frame
  BY DEF CoroutineInv, StrandsByStage, StrandFits, Strand
<1>3. word'[f].value = None /\ \A x \in Frame \ {f} : word'[x] = word[x]
  BY DEF CoroutineInv, TypeOK, Closed
<1>c. word[f].value = c
  OBVIOUS
<1> HIDE DEF c
<1>4. pc'[f] = "done" /\ pc'[c] = "resume" /\ \A x \in Frame \ {f, c} : pc'[x] = pc[x]
  BY <1>1, <1>c DEF CoroutineInv, TypeOK
<1>5. \A x \in Frame : AwaitsTask(x)' <=> AwaitsTask(x)
  BY <1>1, <1>4 DEF AwaitsTask
<1>6. InTasks'
  <2>2. ASSUME NEW x \in Task, (job[x].kind = "resume")' PROVE AwaitsTask(job[x].on)'
    <3>1. AwaitsTask(job[x].on) /\ job[x].on \in Frame
      BY <1>2, <2>2 DEF InTasks
    <3> QED
      BY <1>1, <1>4, <3>1 DEF AwaitsTask
  <2> QED
    BY <1>2, <1>5, <2>2 DEF InTasks
<1>7. InWords'
  <2> SUFFICES ASSUME NEW x \in Frame, NEW y \in Frame
               PROVE  word'[y].value = x <=> pc'[x] = "suspended" /\ awaits'[x] = y
    BY DEF InWords
  <2>1. word[y].value = x <=> pc[x] = "suspended" /\ awaits[x] = y
    BY <1>2 DEF InWords
  <2>2. awaits[x] = f => x = c
    BY <1>1, OwnedFacts
  <2>3. x # None
    BY CoroutinesAssumption
  <2> QED
    BY <1>1, <1>3, <1>4, <2>1, <2>2, <2>3
<1> QED
  BY <1>6, <1>7

\* An idle task, or one that ends, has nobody to resume.
LEMMA IdleJobs ==
  ASSUME CoroutineInv
  PROVE  \A s \in Strand : /\ at[s] \in {"idle", "run"} => job[s] = NoJob
                           /\ at[s] \in {"idle", "run", "end"} => job[s].kind # "resume"
<1> SUFFICES ASSUME NEW s \in Strand
             PROVE  /\ at[s] \in {"idle", "run"} => job[s] = NoJob
                    /\ at[s] \in {"idle", "run", "end"} => job[s].kind # "resume"
  OBVIOUS
<1>1. job[s].kind \in JobsAt[at[s]] /\ (job[s].kind = "none" => job[s] = NoJob)
  BY DEF CoroutineInv, StrandsByStage, StrandFits
<1> QED
  BY <1>1 DEF JobsAt

\* A task of another kind changes nothing for those that are suspended.
LEMMA SuspendedStayOutside ==
  ASSUME CoroutineInv, UNCHANGED coroutineVars, NEW t \in Strand, NEW k,
         job[t].kind # "resume", k.kind # "resume", job' = [job EXCEPT ![t] = k]
  PROVE  InTasks' /\ InWords'
<1>1. \A x \in Task : job'[x] = job[x] \/ (job[x].kind # "resume" /\ job'[x].kind # "resume")
  BY DEF CoroutineInv, TypeOK, Strand
<1> QED
  BY <1>1, SuspendedStay DEF coroutineVars

LEMMA SuspendedStepOutside ==
  ASSUME CoroutineInv,
         \/ MakeFuture \/ \E t \in Task, u \in Future : InitializeTask(t, u)
         \/ \E u \in Future : \/ StoreDone(u) \/ DropFuture(u)
                              \/ ThenUse(u, "read") \/ ThenUse(u, "consume")
         \/ \E s \in Strand : Unblock(s)
         \/ \E t \in Task : \/ RunProduce(t) \/ RunRead(t) \/ RunConsume(t)
                            \/ ResetResult(t) \/ EndTask(t)
         \/ UNCHANGED vars
  PROVE  InTasks' /\ InWords'
<1>u. UNCHANGED coroutineVars
  BY OutsideSteps
<1>m. Main \in Strand /\ \A t \in Task : t \in Strand
  BY DEF Strand
<1>0. CASE job' = job
  BY <1>0, <1>u, SuspendedStay DEF coroutineVars
<1>1. CASE MakeFuture
  BY <1>0, <1>1 DEF MakeFuture, threadVars
<1>2. ASSUME NEW t \in Task, NEW u \in Future, InitializeTask(t, u) PROVE InTasks' /\ InWords'
  <2>1. job[t].kind # "resume"
    BY <1>2, <1>m, SomeTaskIdle, IdleJobs DEF InitializeTask, NewTask
  <2>2. job' = [job EXCEPT ![t] = [kind |-> "produce", on |-> u]]
    BY <1>2 DEF InitializeTask, NewTask
  <2> QED
    BY <1>m, <1>u, <2>1, <2>2, SuspendedStayOutside
<1>3. ASSUME NEW u \in Future, StoreDone(u) PROVE InTasks' /\ InWords'
  <2>1. job[Main].kind # "resume"
    BY <1>3, <1>m, IdleJobs DEF StoreDone, InMain
  <2>2. job' = [job EXCEPT ![Main] = [kind |-> "produce", on |-> u]]
    BY <1>3 DEF StoreDone
  <2> QED
    BY <1>m, <1>u, <2>1, <2>2, SuspendedStayOutside
<1>4. ASSUME NEW u \in Future, DropFuture(u) PROVE InTasks' /\ InWords'
  BY <1>0, <1>4 DEF DropFuture, threadVars
<1>5. ASSUME NEW u \in Future, NEW k \in {"read", "consume"}, ThenUse(u, k)
      PROVE  InTasks' /\ InWords'
  <2> DEFINE t == Some(FreeTasks)
  <2>1. t \in Task /\ job[t].kind # "resume"
    BY <1>5, <1>m, SomeTaskIdle, IdleJobs DEF ThenUse
  <2>2. job' = [job EXCEPT ![t] = [kind |-> k, on |-> u]]
    BY <1>5 DEF ThenUse, QueueAfter
  <2> HIDE DEF t
  <2> QED
    BY <1>m, <1>u, <2>1, <2>2, SuspendedStayOutside
<1>6. ASSUME NEW s \in Strand, Unblock(s) PROVE InTasks' /\ InWords'
  <2>1. at[s] = "unblock" /\ job' = [job EXCEPT ![s] = IF s = Main THEN NoJob ELSE job[s]]
    BY <1>6 DEF Unblock
  <2>2. job[s].kind # "resume" /\ (IF s = Main THEN NoJob ELSE job[s]).kind # "resume"
    BY <2>1 DEF CoroutineInv, StrandsByStage, StrandFits, JobsAt, NoJob
  <2> QED
    BY <1>u, <2>1, <2>2, SuspendedStayOutside
<1>7. ASSUME NEW t \in Task, RunProduce(t) \/ RunRead(t) \/ RunConsume(t) \/ ResetResult(t)
      PROVE  InTasks' /\ InWords'
  BY <1>0, <1>7 DEF RunProduce, RunRead, RunConsume, ResetResult
<1>8. ASSUME NEW t \in Task, EndTask(t) PROVE InTasks' /\ InWords'
  <2>1. job[t].kind # "resume" /\ NoJob.kind # "resume"
    BY <1>8, <1>m, IdleJobs DEF EndTask, NoJob
  <2>2. job' = [job EXCEPT ![t] = NoJob]
    BY <1>8 DEF EndTask
  <2> QED
    BY <1>m, <1>u, <2>1, <2>2, SuspendedStayOutside
<1>9. CASE UNCHANGED vars
  BY <1>0, <1>9 DEF vars, threadVars
<1> QED
  BY <1>1, <1>2, <1>3, <1>4, <1>5, <1>6, <1>7, <1>8, <1>9

LEMMA SuspendedStepProgram ==
  ASSUME CoroutineInv, Program
  PROVE  InTasks' /\ InWords'
<1>t. TypeOK /\ \A x \in Frame : FrameFits(x)
  BY DEF CoroutineInv, FramesByStage
<1>m. None \notin Frame /\ \A t \in Task : t \in Strand
  BY CoroutinesAssumption DEF Strand
<1>1. ASSUME NEW f \in Frame, NEW d, NEW u, Create(f, d, u, "body"), job' = job
      PROVE  InTasks' /\ InWords'
  <2>1. pc[f] = "none" /\ pc' = [pc EXCEPT ![f] = "body"] /\ UNCHANGED <<awaits, word>>
    BY <1>1, CreatedFrame DEF Create
  <2>2. \A x \in Frame : pc'[x] = "suspended" <=> pc[x] = "suspended"
    BY <1>t, <2>1 DEF TypeOK
  <2> QED
    BY <1>1, <2>1, <2>2, SuspendedStay
<1>2. ASSUME NEW f \in Frame, NEW u \in Future \cup {None},
             StartAttached(f, u) \/ StartAndDetach(f, u)
      PROVE  InTasks' /\ InWords'
  BY <1>1, <1>2 DEF StartAttached, StartAndDetach, threadVars
<1>3. ASSUME NEW f \in Frame, NEW u \in Future \cup {None}, AsyncResume(f, u)
      PROVE  InTasks' /\ InWords'
  <2> DEFINE t == Some(FreeTasks)
  <2>1. Create(f, TRUE, u, "suspended") /\ job' = [job EXCEPT ![t] = [kind |-> "resume", on |-> f]]
    BY <1>3 DEF AsyncResume
  <2>2. t \in Task /\ job[t].kind # "resume"
    BY <1>3, <1>m, SomeTaskIdle, IdleJobs DEF AsyncResume
  <2> HIDE DEF t
  <2>3. pc[f] = "none" /\ awaits[f] = None
        /\ pc' = [pc EXCEPT ![f] = "suspended"] /\ UNCHANGED <<awaits, word>>
    BY <2>1, CreatedFrame DEF Create, FrameFits
  <2>4. pc'[f] = "suspended" /\ \A x \in Frame : x # f => pc'[x] = pc[x]
    BY <1>t, <2>3 DEF TypeOK
  <2> QED
    BY <1>m, <2>1, <2>2, <2>3, <2>4, TaskSuspends
<1>4. ASSUME NEW s \in Strand, NEW f \in Frame, NEW g \in Frame, CallCoroutine(s, f, g)
      PROVE  InTasks' /\ InWords'
  BY <1>1, <1>4 DEF CallCoroutine, threadVars
<1>5. ASSUME NEW h \in Owner, DropHandle(h) PROVE InTasks' /\ InWords'
  <2> DEFINE g == child[h]
  <2>1. g \in Frame /\ Destroy(g) /\ pc' = [pc EXCEPT ![g] = "none"] /\ UNCHANGED <<awaits, job>>
        /\ IsDone(g)
    BY <1>5, <1>t
    DEF DropHandle, DestroyChild, TypeOK, Owner, FrameOrNone, threadVars
  <2> HIDE DEF g
  <2>2. pc[g] = "done" /\ word[g].value = None /\ word' = [word EXCEPT ![g] = Open]
    BY <1>t, <2>1 DEF FrameFits, Destroy
  <2>3. /\ \A x \in Frame : pc'[x] = "suspended" <=> pc[x] = "suspended"
        /\ \A x \in Frame : word'[x].value = word[x].value
    BY <1>t, <2>1, <2>2 DEF TypeOK, Open
  <2> QED
    BY <2>1, <2>3, SuspendedStay
<1>6. ASSUME NEW s \in Strand, NEW f \in Frame, AwaitFuture(s, f) PROVE InTasks' /\ InWords'
  <2>1. /\ pc[f] = "body" /\ pc' = [pc EXCEPT ![f] = "ready"]
        /\ awaits' = [awaits EXCEPT ![f] = param[f]] /\ UNCHANGED <<word, job>>
    BY <1>6 DEF AwaitFuture, Runs, threadVars
  <2>2. /\ \A x \in Frame : pc'[x] = "suspended" <=> pc[x] = "suspended"
        /\ \A x \in Frame : pc[x] = "suspended" => awaits'[x] = awaits[x]
    BY <1>t, <2>1 DEF TypeOK
  <2> QED
    BY <2>1, <2>2, SuspendedStay
<1>7. ASSUME NEW s \in Strand, NEW f \in Frame, NEW t \in Task, NEW u \in Future,
             AwaitTask(s, f, t, u)
      PROVE  InTasks' /\ InWords'
  <2>1. /\ pc[f] = "body" /\ pc' = [pc EXCEPT ![f] = "ready"]
        /\ awaits' = [awaits EXCEPT ![f] = u] /\ word' = word
        /\ job' = [job EXCEPT ![t] = [kind |-> "produce", on |-> u]]
    BY <1>7 DEF AwaitTask, NewTask, Runs
  <2>2. job[t].kind # "resume"
    BY <1>7, <1>m, SomeTaskIdle, IdleJobs DEF AwaitTask, NewTask
  <2>3. /\ \A x \in Frame : pc'[x] = "suspended" <=> pc[x] = "suspended"
        /\ \A x \in Frame : pc[x] = "suspended" => awaits'[x] = awaits[x]
    BY <1>t, <2>1 DEF TypeOK
  <2>4. job'[t].kind = "produce" /\ \A x \in Task : x # t => job'[x] = job[x]
    BY <1>t, <1>m, <2>1 DEF TypeOK
  <2>5. \A x \in Task : job'[x] = job[x] \/ (job[x].kind # "resume" /\ job'[x].kind # "resume")
    BY <2>2, <2>4
  <2> QED
    BY <2>1, <2>3, <2>5, SuspendedStay
<1> QED
  BY <1>2, <1>3, <1>4, <1>5, <1>6, <1>7, SuspendedStepOutside DEF Program, Owner

LEMMA SuspendedStepProceed ==
  ASSUME CoroutineInv, NEW s \in Strand, Proceed(s)
  PROVE  InTasks' /\ InWords'
<1>t. TypeOK /\ \A x \in Frame : FrameFits(x)
  BY DEF CoroutineInv, FramesByStage
<1>m. None \notin Frame /\ Frame \cap Future = {}
  BY CoroutinesAssumption
<1>1. ASSUME NEW f \in Frame, AwaitChild(s, f) \/ ResumeFuture(s, f)
      PROVE  InTasks' /\ InWords'
  <2>1. /\ pc[f] # "suspended" /\ UNCHANGED <<word, job>>
        /\ \E l \in {"resume", "trySet", "body"} : pc' = [pc EXCEPT ![f] = l]
        /\ \E a : awaits' = [awaits EXCEPT ![f] = a]
    BY <1>1 DEF AwaitChild, ResumeFuture, Runs, threadVars
  <2>2. /\ \A x \in Frame : pc'[x] = "suspended" <=> pc[x] = "suspended"
        /\ \A x \in Frame : pc[x] = "suspended" => awaits'[x] = awaits[x]
    BY <1>t, <2>1 DEF TypeOK
  <2> QED
    BY <2>1, <2>2, SuspendedStay
<1>2. ASSUME NEW f \in Frame, AwaitReady(s, f) \/ Return(s, f)
      PROVE  InTasks' /\ InWords'
  <2>1. /\ pc[f] # "suspended" /\ UNCHANGED <<word, job, awaits>>
        /\ \E l \in {"resume", "then", "close"} : pc' = [pc EXCEPT ![f] = l]
    BY <1>2 DEF AwaitReady, Return, Runs, threadVars
  <2>2. \A x \in Frame : pc'[x] = "suspended" <=> pc[x] = "suspended"
    BY <1>t, <2>1 DEF TypeOK
  <2> QED
    BY <2>1, <2>2, SuspendedStay
<1>3. ASSUME NEW f \in Frame, TrySet(s, f) PROVE InTasks' /\ InWords'
  <2> DEFINE g == awaits[f]
  <2>1. pc[f] = "trySet" /\ g \in Frame /\ UNCHANGED <<awaits, job>>
    BY <1>3, <1>t DEF TrySet, Runs, FrameFits, threadVars
  <2>2. CASE GateOpen(g)
    <3>1. /\ word' = [word EXCEPT ![g].value = f] /\ pc' = [pc EXCEPT ![f] = "suspended"]
      BY <1>3, <2>2 DEF TrySet
    <3>2. word[g].value = None
      BY <2>1, WordFacts, OwnedFacts
    <3> HIDE DEF g
    <3> QED
      BY <2>1, <3>1, <3>2, WordSuspends DEF g
  <2>3. CASE ~GateOpen(g)
    <3>1. word' = word /\ pc' = [pc EXCEPT ![f] = "resume"]
      BY <1>3, <2>3 DEF TrySet
    <3>2. \A x \in Frame : pc'[x] = "suspended" <=> pc[x] = "suspended"
      BY <1>t, <2>1, <3>1 DEF TypeOK
    <3> QED
      BY <2>1, <3>1, <3>2, SuspendedStay
  <2> QED
    BY <2>2, <2>3
<1>4. ASSUME NEW f \in Frame, Then(s, f) PROVE InTasks' /\ InWords'
  <2> DEFINE t == Some(FreeTasks)
  <2>1. pc[f] = "then" /\ awaits[f] \in Future /\ pc' = [pc EXCEPT ![f] = "suspended"]
        /\ UNCHANGED <<awaits, word>>
    BY <1>4, <1>t DEF Then, Runs, FrameFits
  <2>2. job' = [job EXCEPT ![t] = [kind |-> "resume", on |-> f]]
    BY <1>4 DEF Then, QueueAfter
  <2>3. t \in Task /\ job[t].kind # "resume"
    BY <1>4, SomeTaskIdle, IdleJobs DEF Then, Strand
  <2> HIDE DEF t
  <2>4. pc'[f] = "suspended" /\ \A x \in Frame : x # f => pc'[x] = pc[x]
    BY <1>t, <2>1 DEF TypeOK
  <2> QED
    BY <1>m, <2>1, <2>2, <2>3, <2>4, TaskSuspends
<1>5. ASSUME NEW f \in Frame, ResumeChild(s, f) PROVE InTasks' /\ InWords'
  <2> DEFINE g == awaits[f]
  <2>1. /\ pc[f] = "resume" /\ g \in Frame /\ Destroy(g) /\ job' = job
        /\ pc' = [pc EXCEPT ![f] = "body", ![g] = "none"]
        /\ awaits' = [awaits EXCEPT ![f] = None]
    BY <1>5 DEF ResumeChild, DestroyChild, Runs, threadVars
  <2>2. pc[g] = "done" /\ word[g].value = None /\ word' = [word EXCEPT ![g] = Open]
    BY <1>t, <2>1 DEF FrameFits, Destroy
  <2> HIDE DEF g
  <2>3. /\ \A x \in Frame : pc'[x] = "suspended" <=> pc[x] = "suspended"
        /\ \A x \in Frame : pc[x] = "suspended" => awaits'[x] = awaits[x]
        /\ \A x \in Frame : word'[x].value = word[x].value
    BY <1>t, <2>1, <2>2 DEF TypeOK, Open
  <2> QED
    BY <2>1, <2>3, SuspendedStay
<1>6. ASSUME NEW f \in Frame, Close(s, f) PROVE InTasks' /\ InWords'
  <2>1. pc[f] = "close" /\ word' = [word EXCEPT ![f] = Closed] /\ UNCHANGED <<awaits, job>>
    BY <1>6 DEF Close, Runs, threadVars
  <2>2. CASE word[f].value = None
    <3>1. pc' = [pc EXCEPT ![f] = "done"]
      BY <1>6, <2>2 DEF Close
    <3>2. /\ \A x \in Frame : pc'[x] = "suspended" <=> pc[x] = "suspended"
          /\ \A x \in Frame : word'[x].value = word[x].value
      BY <1>t, <2>1, <2>2, <3>1 DEF TypeOK, Closed
    <3> QED
      BY <2>1, <3>2, SuspendedStay
  <2>3. CASE word[f].value # None
    <3>1. pc' = [pc EXCEPT ![f] = "done", ![word[f].value] = "resume"]
      BY <1>6, <2>3 DEF Close
    <3> QED
      BY <2>1, <2>3, <3>1, WordResumes
  <2> QED
    BY <2>2, <2>3
<1>7. ASSUME NEW f \in Frame, EndDetached(s, f) PROVE InTasks' /\ InWords'
  <2>1. /\ pc[f] = "body" /\ detached[f] /\ word' = [word EXCEPT ![f] = Open]
        /\ UNCHANGED <<awaits, job>> /\ pc' = [pc EXCEPT ![f] = "none"]
    BY <1>7 DEF EndDetached, Runs, DestroyChild, Destroy, threadVars
  <2>2. word[f].value = None
    BY <2>1, WordFacts, OwnedFacts
  <2>3. /\ \A x \in Frame : pc'[x] = "suspended" <=> pc[x] = "suspended"
        /\ \A x \in Frame : word'[x].value = word[x].value
    BY <1>t, <2>1, <2>2 DEF TypeOK, Open
  <2> QED
    BY <2>1, <2>3, SuspendedStay
<1>8. ASSUME s \in Task, RunResume(s) PROVE InTasks' /\ InWords'
  <2>1. /\ job[s].kind = "resume" /\ job' = [job EXCEPT ![s] = NoJob]
        /\ pc' = [pc EXCEPT ![job[s].on] = IF awaits[job[s].on] = None THEN "body" ELSE "resume"]
        /\ UNCHANGED <<awaits, word>>
    BY <1>8 DEF RunResume
  <2> DEFINE l == IF awaits[job[s].on] = None THEN "body" ELSE "resume"
  <2>2. l # "suspended" /\ pc' = [pc EXCEPT ![job[s].on] = l]
    BY <2>1
  <2> HIDE DEF l
  <2> QED
    BY <1>8, <2>1, <2>2, TaskResumes
<1> QED
  BY <1>1, <1>2, <1>3, <1>4, <1>5, <1>6, <1>7, <1>8, SuspendedStepOutside
  DEF Proceed, RunCoroutine, RunTask

LEMMA SuspendedStep ==
  CoroutineInv /\ [Next]_vars => InTasks' /\ InWords'
<1> QED
  BY SuspendedStepProceed, SuspendedStepProgram, SuspendedStepOutside DEF Next
-----------------------------------------------------------------------------
(* Strands. *)

\* Coroutines run on the strand where one has run already, or on main.
LEMMA StrandsStay ==
  ASSUME CoroutineInv, at' = at, job' = job,
         \A s \in Strand : stack'[s] # <<>> => stack[s] # <<>> \/ (s = Main /\ InMain)
  PROVE  StrandsByStage'
<1> SUFFICES ASSUME NEW s \in Strand PROVE StrandFits(s)'
  BY DEF StrandsByStage
<1>1. StrandFits(s)
  BY DEF CoroutineInv, StrandsByStage
<1> QED
  BY <1>1 DEF StrandFits, InMain

\* One strand has another job and another stage.
LEMMA StrandChanges ==
  ASSUME CoroutineInv, NEW s \in Strand, NEW a, NEW k,
         at' = [at EXCEPT ![s] = a], job' = [job EXCEPT ![s] = k], stack' = stack,
         s = Main => a \in {"idle", "unblock"}, k.kind \in JobsAt[a],
         k.kind = "none" => k = NoJob,
         k.kind = "resume" => k.on \in Frame,
         k.kind \in {"produce", "read", "consume"} => k.on \in Future,
         stack[s] = <<>>
  PROVE  StrandsByStage'
<1> SUFFICES ASSUME NEW x \in Strand PROVE StrandFits(x)'
  BY DEF StrandsByStage
<1>1. StrandFits(x) /\ at'[s] = a /\ job'[s] = k
      /\ (x # s => at'[x] = at[x] /\ job'[x] = job[x])
  BY DEF CoroutineInv, StrandsByStage, TypeOK
<1>2. CASE x = s
  BY <1>1, <1>2 DEF StrandFits
<1>3. CASE x # s
  BY <1>1, <1>3 DEF StrandFits
<1> QED
  BY <1>2, <1>3

\* A strand that is none of a coroutine has no stack.
LEMMA NoStack ==
  ASSUME CoroutineInv, NEW s \in Strand,
         at[s] \notin {"idle", "run"} \/ (s # Main /\ at[s] # "run")
  PROVE  stack[s] = <<>>
<1> QED
  BY DEF CoroutineInv, StrandsByStage, StrandFits

LEMMA StrandsStepOutside ==
  ASSUME CoroutineInv,
         \/ MakeFuture \/ \E t \in Task, u \in Future : InitializeTask(t, u)
         \/ \E u \in Future : \/ StoreDone(u) \/ DropFuture(u)
                              \/ ThenUse(u, "read") \/ ThenUse(u, "consume")
         \/ \E s \in Strand : Unblock(s)
         \/ \E t \in Task : \/ RunProduce(t) \/ RunRead(t) \/ RunConsume(t)
                            \/ ResetResult(t) \/ EndTask(t)
         \/ UNCHANGED vars
  PROVE  StrandsByStage'
<1>u. stack' = stack
  BY OutsideSteps DEF coroutineVars
<1>m. Main \in Strand /\ \A t \in Task : t \in Strand /\ t # Main
  BY CoroutinesAssumption DEF Strand
<1>t. TypeOK /\ \A s \in Strand : StrandFits(s)
  BY DEF CoroutineInv, StrandsByStage
<1>0. CASE at' = at /\ job' = job
  BY <1>0, <1>u, StrandsStay
<1>1. CASE MakeFuture
  BY <1>0, <1>1 DEF MakeFuture, threadVars
<1>2. ASSUME NEW t \in Task, NEW u \in Future, InitializeTask(t, u) PROVE StrandsByStage'
  <2>1. t \in Strand /\ t # Main /\ stack[t] = <<>>
    BY <1>2, <1>m, SomeTaskIdle, NoStack DEF InitializeTask, NewTask
  <2> DEFINE k == [kind |-> "produce", on |-> u]
  <2>2. at' = [at EXCEPT ![t] = "ready"] /\ job' = [job EXCEPT ![t] = k]
    BY <1>2 DEF InitializeTask, NewTask
  <2>3. k.kind = "produce" /\ k.on = u
    OBVIOUS
  <2> HIDE DEF k
  <2> QED
    BY <1>u, <2>1, <2>2, <2>3, StrandChanges DEF JobsAt
<1>3. ASSUME NEW u \in Future, StoreDone(u) PROVE StrandsByStage'
  <2> DEFINE k == [kind |-> "produce", on |-> u]
  <2>1. at' = [at EXCEPT ![Main] = "unblock"] /\ job' = [job EXCEPT ![Main] = k]
        /\ stack[Main] = <<>>
    BY <1>3 DEF StoreDone, InMain
  <2>2. k.kind = "produce" /\ k.on = u
    OBVIOUS
  <2> HIDE DEF k
  <2> QED
    BY <1>m, <1>u, <2>1, <2>2, StrandChanges DEF JobsAt
<1>4. ASSUME NEW u \in Future, DropFuture(u) PROVE StrandsByStage'
  BY <1>0, <1>4 DEF DropFuture, threadVars
<1>5. ASSUME NEW u \in Future, NEW k \in {"read", "consume"}, ThenUse(u, k)
      PROVE  StrandsByStage'
  <2> DEFINE t == Some(FreeTasks)
             j == [kind |-> k, on |-> u]
  <2>1. t \in Task /\ t \in Strand /\ t # Main /\ at[t] = "idle"
    BY <1>5, <1>m, SomeTaskIdle DEF ThenUse
  <2>2. \E a \in {"waiting", "ready"} : at' = [at EXCEPT ![t] = a] /\ job' = [job EXCEPT ![t] = j]
    BY <1>5 DEF ThenUse, QueueAfter
  <2>3. j.kind \in {"read", "consume"} /\ j.on = u
    OBVIOUS
  <2> HIDE DEF t, j
  <2>4. stack[t] = <<>>
    BY <2>1, NoStack
  <2>5. PICK a \in {"waiting", "ready"} : at' = [at EXCEPT ![t] = a]
    BY <2>2
  <2>6. job' = [job EXCEPT ![t] = j] /\ j.kind \in JobsAt[a]
    BY <2>2, <2>3 DEF JobsAt
  <2> QED
    BY <1>u, <2>1, <2>3, <2>4, <2>5, <2>6, StrandChanges
<1>6. ASSUME NEW s \in Strand, Unblock(s) PROVE StrandsByStage'
  <2> DEFINE u == job[s].on
  <2>1. /\ at[s] = "unblock" /\ u \in Future
        /\ at' = [x \in Strand |-> IF x \in dependents[u] THEN "ready"
                                   ELSE IF x # s THEN at[x]
                                   ELSE IF s = Main THEN "idle" ELSE "end"]
        /\ job' = [job EXCEPT ![s] = IF s = Main THEN NoJob ELSE job[s]]
    BY <1>6, <1>t DEF Unblock, StrandFits, JobsAt
  <2>2. \A x \in Strand : x \in dependents[u] => x \in Task /\ at[x] = "waiting"
    BY <2>1 DEF CoroutineInv, NodesOfWaiting, TypeOK
  <2>3. job[s].kind = "produce"
    BY <1>t, <2>1 DEF StrandFits, JobsAt
  <2> HIDE DEF u
  <2> SUFFICES ASSUME NEW x \in Strand PROVE StrandFits(x)'
    BY DEF StrandsByStage
  <2>4. StrandFits(x) /\ stack'[x] = stack[x]
    BY <1>t, <1>u
  <2>5. CASE x \in dependents[u]
    <3>1. at'[x] = "ready" /\ at[x] = "waiting" /\ job'[x] = job[x] /\ x # Main
      BY <1>t, <1>m, <2>1, <2>2, <2>5 DEF TypeOK
    <3> QED
      BY <2>4, <3>1 DEF StrandFits, JobsAt
  <2>6. CASE x \notin dependents[u] /\ x # s
    <3>1. at'[x] = at[x] /\ job'[x] = job[x]
      BY <1>t, <2>1, <2>6 DEF TypeOK
    <3> QED
      BY <2>4, <3>1 DEF StrandFits
  <2>7. CASE x = s /\ s = Main
    <3>1. at'[x] = "idle" /\ job'[x] = NoJob
      BY <1>t, <2>1, <2>2, <2>7 DEF TypeOK
    <3> QED
      BY <2>4, <2>7, <3>1 DEF StrandFits, JobsAt, NoJob
  <2>8. CASE x = s /\ s # Main
    <3>1. at'[x] = "end" /\ job'[x] = job[x] /\ at[x] = "unblock"
      BY <1>t, <2>1, <2>2, <2>8 DEF TypeOK
    <3> QED
      BY <2>3, <2>4, <2>8, <3>1 DEF StrandFits, JobsAt
  <2> QED
    BY <2>5, <2>6, <2>7, <2>8
<1>7. ASSUME NEW t \in Task,
             RunProduce(t) \/ RunRead(t) \/ RunConsume(t) \/ ResetResult(t)
      PROVE  StrandsByStage'
  <2> SUFFICES ASSUME NEW x \in Strand PROVE StrandFits(x)'
    BY DEF StrandsByStage
  <2>1. /\ StrandFits(x) /\ stack'[x] = stack[x] /\ job' = job /\ t \in Strand /\ t # Main
        /\ StrandFits(t)
    BY <1>7, <1>m, <1>t, <1>u DEF RunProduce, RunRead, RunConsume, ResetResult
  <2>2. \/ /\ at[t] = "ready" /\ job[t].kind = "produce"
           /\ at' = [at EXCEPT ![t] = "unblock"]
        \/ /\ at[t] = "ready" /\ job[t].kind \in {"read", "consume"}
           /\ at' = [at EXCEPT ![t] = IF job[t].kind = "read" THEN "end" ELSE "reset"]
        \/ at[t] = "reset" /\ at' = [at EXCEPT ![t] = "end"]
    BY <1>7 DEF RunProduce, RunRead, RunConsume, ResetResult
  <2>3. CASE x = t
    BY <1>t, <2>1, <2>2, <2>3 DEF StrandFits, JobsAt, TypeOK
  <2>4. CASE x # t
    BY <1>t, <2>1, <2>2, <2>4 DEF StrandFits, TypeOK
  <2> QED
    BY <2>3, <2>4
<1>8. ASSUME NEW t \in Task, EndTask(t) PROVE StrandsByStage'
  <2>1. t \in Strand /\ t # Main /\ stack[t] = <<>>
    BY <1>8, <1>m, NoStack DEF EndTask
  <2>2. at' = [at EXCEPT ![t] = "idle"] /\ job' = [job EXCEPT ![t] = NoJob]
    BY <1>8 DEF EndTask
  <2>3. NoJob.kind = "none"
    BY DEF NoJob
  <2> QED
    BY <1>u, <2>1, <2>2, <2>3, StrandChanges DEF JobsAt
<1>9. CASE UNCHANGED vars
  BY <1>0, <1>9 DEF vars, threadVars
<1> QED
  BY <1>1, <1>2, <1>3, <1>4, <1>5, <1>6, <1>7, <1>8, <1>9

\* Steps of coroutines that have nothing to do with tasks.
LEMMA StrandsStepCoroutines ==
  ASSUME CoroutineInv, NEW s \in Strand, NEW f \in Frame, stack[s] # <<>>,
         at' = at, job' = job,
         stack' = stack \/ \E q : stack' = [stack EXCEPT ![s] = q]
  PROVE  StrandsByStage'
<1>1. \A x \in Strand : x # s => stack'[x] = stack[x]
  BY DEF CoroutineInv, TypeOK
<1> QED
  BY <1>1, StrandsStay

LEMMA StrandsStep ==
  CoroutineInv /\ [Next]_vars => StrandsByStage'
<1> SUFFICES ASSUME CoroutineInv, [Next]_vars PROVE StrandsByStage'
  OBVIOUS
<1>t. TypeOK /\ \A s \in Strand : StrandFits(s)
  BY DEF CoroutineInv, StrandsByStage
<1>m. Main \in Strand /\ \A t \in Task : t \in Strand /\ t # Main
  BY CoroutinesAssumption DEF Strand
<1>1. ASSUME NEW f \in Frame, NEW u \in Future \cup {None},
             StartAttached(f, u) \/ StartAndDetach(f, u)
      PROVE  StrandsByStage'
  <2>1. at' = at /\ job' = job /\ InMain /\ stack' = [stack EXCEPT ![Main] = <<f>>]
    BY <1>1 DEF StartAttached, StartAndDetach, threadVars
  <2>2. \A x \in Strand : x # Main => stack'[x] = stack[x]
    BY <1>t, <2>1 DEF TypeOK
  <2> QED
    BY <2>1, <2>2, StrandsStay
<1>2. ASSUME NEW f \in Frame, NEW u \in Future \cup {None}, AsyncResume(f, u)
      PROVE  StrandsByStage'
  <2> DEFINE t == Some(FreeTasks)
             j == [kind |-> "resume", on |-> f]
  <2>1. t \in Task /\ at[t] = "idle"
    BY <1>2, SomeTaskIdle DEF AsyncResume
  <2>2. at' = [at EXCEPT ![t] = "ready"] /\ job' = [job EXCEPT ![t] = j] /\ stack' = stack
    BY <1>2 DEF AsyncResume
  <2>3. j.kind = "resume" /\ j.on = f
    OBVIOUS
  <2> HIDE DEF t, j
  <2>4. stack[t] = <<>> /\ t \in Strand /\ t # Main
    BY <1>m, <2>1, NoStack
  <2> QED
    BY <2>2, <2>3, <2>4, StrandChanges DEF JobsAt
<1>3. ASSUME NEW h \in Owner, DropHandle(h) PROVE StrandsByStage'
  BY <1>3, StrandsStay DEF DropHandle, threadVars
<1>4. ASSUME NEW s \in Strand, NEW f \in Frame,
             \/ \E g \in Frame : CallCoroutine(s, f, g)
             \/ AwaitFuture(s, f) \/ AwaitChild(s, f) \/ TrySet(s, f) \/ AwaitReady(s, f)
             \/ ResumeFuture(s, f) \/ ResumeChild(s, f)
             \/ Return(s, f) \/ Close(s, f) \/ EndDetached(s, f)
      PROVE  StrandsByStage'
  <2>1. /\ stack[s] # <<>> /\ at' = at /\ job' = job
        /\ stack' = stack \/ \E q : stack' = [stack EXCEPT ![s] = q]
    BY <1>4 DEF CallCoroutine, AwaitFuture, AwaitChild, TrySet, AwaitReady, ResumeFuture,
                ResumeChild, Return, Close, EndDetached, Leave, Runs, threadVars
  <2> QED
    BY <2>1, StrandsStepCoroutines
<1>5. ASSUME NEW s \in Strand, NEW f \in Frame, NEW t \in Task, NEW u \in Future,
             AwaitTask(s, f, t, u)
      PROVE  StrandsByStage'
  <2> DEFINE j == [kind |-> "produce", on |-> u]
  <2>1. at[t] = "idle" /\ at' = [at EXCEPT ![t] = "ready"] /\ job' = [job EXCEPT ![t] = j]
        /\ stack' = stack
    BY <1>5, SomeTaskIdle DEF AwaitTask, NewTask
  <2>2. j.kind = "produce" /\ j.on = u
    OBVIOUS
  <2> HIDE DEF j
  <2>3. stack[t] = <<>> /\ t \in Strand /\ t # Main
    BY <1>m, <2>1, NoStack
  <2> QED
    BY <2>1, <2>2, <2>3, StrandChanges DEF JobsAt
<1>6. ASSUME NEW s \in Strand, NEW f \in Frame, Then(s, f) PROVE StrandsByStage'
  <2> DEFINE t == Some(FreeTasks)
             j == [kind |-> "resume", on |-> f]
  <2>1. t \in Task /\ at[t] = "idle" /\ t \in Strand /\ t # Main
    BY <1>6, <1>m, SomeTaskIdle DEF Then
  <2>2. \E a \in {"waiting", "ready"} : at' = [at EXCEPT ![t] = a] /\ job' = [job EXCEPT ![t] = j]
    BY <1>6 DEF Then, QueueAfter
  <2>3. stack[s] # <<>> /\ stack' = [stack EXCEPT ![s] = Front(stack[s])]
    BY <1>6 DEF Then, Leave, Runs
  <2>4. j.kind = "resume" /\ j.on = f
    OBVIOUS
  <2> HIDE DEF t, j
  <2>5. stack[t] = <<>>
    BY <2>1, NoStack
  <2> SUFFICES ASSUME NEW x \in Strand PROVE StrandFits(x)'
    BY DEF StrandsByStage
  <2>6. StrandFits(x)
    BY <1>t
  <2>7. CASE x = t
    <3>1. x # s /\ stack'[x] = <<>> /\ job'[x] = j /\ at'[x] \in {"waiting", "ready"}
      BY <1>t, <2>1, <2>2, <2>3, <2>5, <2>7 DEF TypeOK
    <3> QED
      BY <2>1, <2>4, <2>7, <3>1 DEF StrandFits, JobsAt
  <2>8. CASE x # t
    <3>1. job'[x] = job[x] /\ at'[x] = at[x] /\ (stack'[x] # <<>> => stack[x] # <<>>)
      BY <1>t, <2>1, <2>2, <2>3, <2>8 DEF TypeOK
    <3> QED
      BY <2>6, <3>1 DEF StrandFits
  <2> QED
    BY <2>7, <2>8
<1>7. ASSUME NEW t \in Task, RunResume(t) PROVE StrandsByStage'
  <2> SUFFICES ASSUME NEW x \in Strand PROVE StrandFits(x)'
    BY DEF StrandsByStage
  <2>1. StrandFits(x) /\ t \in Strand /\ t # Main
    BY <1>m, <1>t
  <2>2. CASE x = t
    BY <1>7, <1>t, <2>1, <2>2 DEF RunResume, StrandFits, JobsAt, NoJob, TypeOK
  <2>3. CASE x # t
    BY <1>7, <1>t, <2>1, <2>3 DEF RunResume, StrandFits, TypeOK
  <2> QED
    BY <2>2, <2>3
<1>8. ASSUME NEW s \in Strand, Proceed(s) PROVE StrandsByStage'
  BY <1>4, <1>6, <1>7, <1>8, StrandsStepOutside DEF Proceed, RunCoroutine, RunTask
<1>9. CASE Program
  BY <1>1, <1>2, <1>3, <1>4, <1>5, <1>9, StrandsStepOutside DEF Program, Owner
<1> QED
  BY <1>8, <1>9, StrandsStepOutside DEF Next
-----------------------------------------------------------------------------
(* References. *)

\* Main, tasks and frames are different.
LEMMA Disjoint ==
  /\ Main \notin Task /\ Main \notin Frame /\ None \notin Frame /\ None \notin Future
  /\ \A t \in Task : t \notin Frame /\ t # Main
  /\ \A f \in Frame : f \notin Future /\ f \notin Task /\ f # Main /\ f # None
  /\ \A u \in Future : u \notin Frame /\ u # None
<1> QED
  BY CoroutinesAssumption

\* Calls of the program, and the functions of tasks.
LEMMA HandlesStepOutside ==
  ASSUME CoroutineInv,
         \/ MakeFuture \/ \E t \in Task, u \in Future : InitializeTask(t, u)
         \/ \E u \in Future : \/ StoreDone(u) \/ DropFuture(u)
                              \/ ThenUse(u, "read") \/ ThenUse(u, "consume")
         \/ \E s \in Strand : Unblock(s)
         \/ \E t \in Task : \/ RunProduce(t) \/ RunRead(t) \/ RunConsume(t)
                            \/ ResetResult(t) \/ EndTask(t)
         \/ UNCHANGED vars
  PROVE  HandlesHeld'
<1>u. UNCHANGED <<param, awaits>>
  BY OutsideSteps DEF coroutineVars, frameVars
<1>m. Main \in Strand /\ \A t \in Task : t \in Strand
  BY DEF Strand
<1>t. TypeOK /\ HandlesHeld /\ \A s \in Strand : StrandFits(s)
  BY DEF CoroutineInv, StrandsByStage
<1>n. NoJob.on = None
  BY DEF NoJob
<1>0. CASE handles' = handles /\ job' = job
  BY <1>0, <1>u, <1>t DEF HandlesHeld
<1>1. CASE MakeFuture
  <2>1. handles' = handles \cup {<<Main, Some(FreeFutures)>>} /\ job' = job
    BY <1>1 DEF MakeFuture, threadVars
  <2> QED
    BY <1>t, <1>u, <2>1, Disjoint DEF HandlesHeld
<1>2. ASSUME NEW t \in Task, NEW u \in Future, InitializeTask(t, u) PROVE HandlesHeld'
  <2> DEFINE k == [kind |-> "produce", on |-> u]
  <2>1. job[t] = NoJob
    BY <1>2, <1>m, SomeTaskIdle, IdleJobs DEF InitializeTask, NewTask
  <2>2. handles' = handles \cup {<<Main, u>>, <<t, u>>} /\ job' = [job EXCEPT ![t] = k]
    BY <1>2 DEF InitializeTask, NewTask
  <2>3. k.on = u
    OBVIOUS
  <2> HIDE DEF k
  <2>4. job'[t].on = u /\ \A x \in Strand : x # t => job'[x] = job[x]
    BY <1>t, <1>m, <2>2, <2>3 DEF TypeOK
  <2> QED
    BY <1>t, <1>u, <1>m, <1>n, <2>1, <2>2, <2>4, Disjoint DEF HandlesHeld
<1>3. ASSUME NEW u \in Future, StoreDone(u) PROVE HandlesHeld'
  <2>1. handles' = handles /\ <<Main, u>> \in handles
        /\ job' = [job EXCEPT ![Main] = [kind |-> "produce", on |-> u]]
    BY <1>3 DEF StoreDone
  <2>2. job'[Main].on = u /\ \A x \in Strand : x # Main => job'[x] = job[x]
    BY <1>t, <1>m, <2>1 DEF TypeOK
  <2> QED
    BY <1>t, <1>u, <1>m, <2>1, <2>2, Disjoint DEF HandlesHeld
<1>4. ASSUME NEW u \in Future, DropFuture(u) PROVE HandlesHeld'
  <2>1. handles' = handles \ {<<Main, u>>} /\ job' = job
    BY <1>4 DEF DropFuture, Release, threadVars
  <2>2. job[Main] = NoJob
    BY <1>4, <1>m, IdleJobs DEF DropFuture, InMain
  <2> QED
    BY <1>t, <1>u, <1>n, <2>1, <2>2, Disjoint DEF HandlesHeld
<1>5. ASSUME NEW u \in Future, NEW k \in {"read", "consume"}, ThenUse(u, k) PROVE HandlesHeld'
  <2> DEFINE t == Some(FreeTasks)
  <2>1. t \in Task /\ t \in Strand /\ job[t] = NoJob
    BY <1>5, <1>m, SomeTaskIdle, IdleJobs DEF ThenUse
  <2>2. job' = [job EXCEPT ![t] = [kind |-> k, on |-> u]] /\ handles' = handles \cup {<<t, u>>}
    BY <1>5 DEF ThenUse, QueueAfter
  <2> HIDE DEF t
  <2>3. job'[t].on = u /\ \A x \in Strand : x # t => job'[x] = job[x]
    BY <1>t, <2>1, <2>2 DEF TypeOK
  <2> QED
    BY <1>t, <1>u, <1>m, <1>n, <2>1, <2>2, <2>3, Disjoint DEF HandlesHeld
<1>6. ASSUME NEW s \in Strand, Unblock(s) PROVE HandlesHeld'
  <2>1. job' = [job EXCEPT ![s] = IF s = Main THEN NoJob ELSE job[s]] /\ handles' = handles
    BY <1>6 DEF Unblock
  <2>2. (\A x \in Task : job'[x] = job[x]) /\ (job'[Main] = job[Main] \/ job'[Main] = NoJob)
    BY <1>t, <1>m, <2>1, Disjoint DEF TypeOK
  <2> QED
    BY <1>t, <1>u, <1>n, <2>1, <2>2, Disjoint DEF HandlesHeld
<1>7. ASSUME NEW t \in Task,
             RunProduce(t) \/ RunRead(t) \/ RunConsume(t) \/ ResetResult(t)
      PROVE  HandlesHeld'
  BY <1>0, <1>7 DEF RunProduce, RunRead, RunConsume, ResetResult, futureVars
<1>8. ASSUME NEW t \in Task, EndTask(t) PROVE HandlesHeld'
  <2>1. job' = [job EXCEPT ![t] = NoJob] /\ handles' = handles \ ({t} \X Future)
    BY <1>8 DEF EndTask, Release
  <2>2. job'[t] = NoJob /\ \A x \in Strand : x # t => job'[x] = job[x]
    BY <1>t, <1>m, <2>1 DEF TypeOK
  <2>3. \A h, u : <<h, u>> \in {t} \X Future <=> h = t /\ u \in Future
    OBVIOUS
  <2> QED
    BY <1>t, <1>u, <1>m, <1>n, <2>1, <2>2, <2>3, Disjoint DEF HandlesHeld
<1>9. CASE UNCHANGED vars
  BY <1>0, <1>9 DEF vars, threadVars, futureVars
<1> QED
  BY <1>1, <1>2, <1>3, <1>4, <1>5, <1>6, <1>7, <1>8, <1>9

\* The parameter comes with the frame.
LEMMA HandlesStepCreate ==
  ASSUME CoroutineInv, NEW f, NEW d, NEW u \in Future \cup {None}, NEW l, Create(f, d, u, l),
         \A s \in Strand : job'[s].on = job[s].on \/ (job[s].on = None /\ job'[s].on \in Frame)
  PROVE  HandlesHeld'
<1>1. f \in Frame /\ param[f] = None /\ awaits[f] = None
  BY CreatedFrame DEF FrameFits
<1>2. /\ awaits' = awaits /\ param' = [param EXCEPT ![f] = u]
      /\ handles' = handles \cup ({f} \X ({u} \cap Future))
  BY DEF Create, ParameterHandles
<1>3. param'[f] = u /\ \A x \in Frame : x # f => param'[x] = param[x]
  BY <1>1, <1>2 DEF CoroutineInv, TypeOK
<1>4. \A h, v : <<h, v>> \in {f} \X ({u} \cap Future) <=> h = f /\ v = u /\ v \in Future
  OBVIOUS
<1>5. Main \in Strand /\ \A t \in Task : t \in Strand
  BY DEF Strand
<1> QED
  BY <1>1, <1>2, <1>3, <1>4, <1>5, Disjoint DEF CoroutineInv, HandlesHeld

\* The references of a frame go with it.
LEMMA HandlesStepDestroy ==
  ASSUME CoroutineInv, NEW g \in Frame, Destroy(g), Release({g} \X Future), job' = job,
         awaits'[g] = None,
         \A x \in Frame : awaits'[x] = awaits[x] \/ (awaits[x] \in Frame /\ awaits'[x] = None)
  PROVE  HandlesHeld'
<1>1. handles' = handles \ ({g} \X Future) /\ param' = [param EXCEPT ![g] = None]
  BY DEF Release, Destroy
<1>2. param'[g] = None /\ \A x \in Frame : x # g => param'[x] = param[x]
  BY <1>1 DEF CoroutineInv, TypeOK
<1>3. \A h, v : <<h, v>> \in {g} \X Future <=> h = g /\ v \in Future
  OBVIOUS
<1>4. \A x \in Frame, v \in Future : x # g => (awaits'[x] = v <=> awaits[x] = v)
  BY Disjoint
<1> QED
  BY <1>1, <1>2, <1>3, <1>4, Disjoint DEF CoroutineInv, HandlesHeld

LEMMA HandlesStep ==
  CoroutineInv /\ [Next]_vars => HandlesHeld'
<1> SUFFICES ASSUME CoroutineInv, [Next]_vars PROVE HandlesHeld'
  OBVIOUS
<1>t. TypeOK /\ HandlesHeld /\ \A x \in Frame : FrameFits(x)
  BY DEF CoroutineInv, FramesByStage
<1>m. Main \in Strand /\ \A t \in Task : t \in Strand
  BY DEF Strand
<1>n. NoJob.on = None
  BY DEF NoJob
<1>1. ASSUME NEW f \in Frame, NEW u \in Future \cup {None},
             StartAttached(f, u) \/ StartAndDetach(f, u)
      PROVE  HandlesHeld'
  <2>1. job' = job /\ \E d : Create(f, d, u, "body")
    BY <1>1 DEF StartAttached, StartAndDetach, threadVars
  <2> QED
    BY <2>1, HandlesStepCreate
<1>2. ASSUME NEW f \in Frame, NEW u \in Future \cup {None}, AsyncResume(f, u)
      PROVE  HandlesHeld'
  <2> DEFINE t == Some(FreeTasks)
  <2>1. t \in Task /\ job[t] = NoJob
    BY <1>2, <1>m, SomeTaskIdle, IdleJobs DEF AsyncResume
  <2>2. Create(f, TRUE, u, "suspended") /\ job' = [job EXCEPT ![t] = [kind |-> "resume", on |-> f]]
    BY <1>2 DEF AsyncResume
  <2> HIDE DEF t
  <2>3. job'[t].on = f /\ \A x \in Strand : x # t => job'[x] = job[x]
    BY <1>t, <1>m, <2>1, <2>2 DEF TypeOK
  <2>4. \A s \in Strand : job'[s].on = job[s].on \/ (job[s].on = None /\ job'[s].on \in Frame)
    BY <1>n, <2>1, <2>3
  <2> QED
    BY <2>2, <2>4, HandlesStepCreate
<1>3. ASSUME NEW s \in Strand, NEW f \in Frame, NEW g \in Frame, CallCoroutine(s, f, g)
      PROVE  HandlesHeld'
  <2>1. job' = job /\ Create(g, FALSE, None, "body")
    BY <1>3 DEF CallCoroutine, threadVars
  <2> QED
    BY <2>1, HandlesStepCreate
<1>4. ASSUME NEW h \in Owner, DropHandle(h) PROVE HandlesHeld'
  <2> DEFINE g == child[h]
  <2>1. g \in Frame /\ Destroy(g) /\ Release({g} \X Future) /\ IsDone(g) /\ UNCHANGED <<awaits, job>>
    BY <1>4, <1>t DEF DropHandle, DestroyChild, TypeOK, Owner, FrameOrNone, threadVars
  <2> HIDE DEF g
  <2>2. awaits[g] = None
    BY <1>t, <2>1 DEF FrameFits
  <2> QED
    BY <2>1, <2>2, HandlesStepDestroy
<1>5. ASSUME NEW s \in Strand, NEW f \in Frame, AwaitFuture(s, f) PROVE HandlesHeld'
  <2>1. /\ pc[f] = "body" /\ awaits' = [awaits EXCEPT ![f] = param[f]]
        /\ UNCHANGED <<param, handles, job>>
    BY <1>5 DEF AwaitFuture, Runs, frameVars, threadVars
  <2>2. awaits[f] = None /\ awaits'[f] = param[f] /\ \A x \in Frame : x # f => awaits'[x] = awaits[x]
    BY <1>t, <2>1 DEF FrameFits, TypeOK
  <2> QED
    BY <1>t, <2>1, <2>2, Disjoint DEF HandlesHeld
<1>6. ASSUME NEW s \in Strand, NEW f \in Frame, NEW t \in Task, NEW u \in Future,
             AwaitTask(s, f, t, u)
      PROVE  HandlesHeld'
  <2>1. /\ pc[f] = "body" /\ awaits' = [awaits EXCEPT ![f] = u] /\ param' = param
        /\ handles' = handles \cup {<<f, u>>, <<t, u>>}
        /\ job' = [job EXCEPT ![t] = [kind |-> "produce", on |-> u]]
    BY <1>6 DEF AwaitTask, NewTask, Runs, frameVars
  <2>2. job[t] = NoJob
    BY <1>6, <1>m, SomeTaskIdle, IdleJobs DEF AwaitTask, NewTask
  <2>3. job'[t].on = u /\ \A x \in Strand : x # t => job'[x] = job[x]
    BY <1>t, <1>m, <2>1 DEF TypeOK
  <2>4. awaits[f] = None /\ awaits'[f] = u /\ \A x \in Frame : x # f => awaits'[x] = awaits[x]
    BY <1>t, <2>1 DEF FrameFits, TypeOK
  <2>a. \A h, v : <<h, v>> \in handles' <=>
          <<h, v>> \in handles \/ (h = f /\ v = u) \/ (h = t /\ v = u)
    BY <2>1
  <2>5. \A x \in Task, v \in Future : <<x, v>> \in handles' <=> job'[x].on = v
    <3> SUFFICES ASSUME NEW x \in Task, NEW v \in Future
                 PROVE  <<x, v>> \in handles' <=> job'[x].on = v
      OBVIOUS
    <3>1. x # f /\ None # v
      BY Disjoint
    <3>2. <<x, v>> \in handles <=> job[x].on = v
      BY <1>t DEF HandlesHeld
    <3>3. x # t => job'[x] = job[x]
      BY <1>m, <2>3
    <3> QED
      BY <1>n, <2>a, <2>2, <2>3, <3>1, <3>2, <3>3
  <2>6. \A x \in Frame, v \in Future : <<x, v>> \in handles' <=> param'[x] = v \/ awaits'[x] = v
    <3> SUFFICES ASSUME NEW x \in Frame, NEW v \in Future
                 PROVE  <<x, v>> \in handles' <=> param'[x] = v \/ awaits'[x] = v
      OBVIOUS
    <3>1. x # t /\ None # v
      BY Disjoint
    <3>2. <<x, v>> \in handles <=> param[x] = v \/ awaits[x] = v
      BY <1>t DEF HandlesHeld
    <3> QED
      BY <2>1, <2>a, <2>4, <3>1, <3>2
  <2>7. \A v \in Future : job'[Main].on = v => <<Main, v>> \in handles'
    BY <1>t, <1>m, <2>1, <2>3, Disjoint DEF HandlesHeld
  <2> QED
    BY <2>5, <2>6, <2>7 DEF HandlesHeld
<1>7. ASSUME NEW s \in Strand, NEW f \in Frame,
             TrySet(s, f) \/ AwaitReady(s, f) \/ Return(s, f) \/ Close(s, f)
      PROVE  HandlesHeld'
  <2>1. UNCHANGED <<param, awaits, job, handles>>
    BY <1>7 DEF TrySet, AwaitReady, Return, Close, frameVars, threadVars, futureVars
  <2> QED
    BY <1>t, <2>1 DEF HandlesHeld
<1>8. ASSUME NEW s \in Strand, NEW f \in Frame, AwaitChild(s, f) PROVE HandlesHeld'
  <2>1. /\ pc[f] = "body" /\ child[f] \in Frame /\ awaits' = [awaits EXCEPT ![f] = child[f]]
        /\ UNCHANGED <<param, job, handles>>
    BY <1>8, <1>t DEF AwaitChild, Runs, TypeOK, FrameOrNone, frameVars, threadVars, futureVars
  <2>2. awaits[f] = None /\ awaits'[f] \in Frame /\ \A x \in Frame : x # f => awaits'[x] = awaits[x]
    BY <1>t, <2>1 DEF FrameFits, TypeOK
  <2> QED
    BY <1>t, <2>1, <2>2, Disjoint DEF HandlesHeld
<1>9. ASSUME NEW s \in Strand, NEW f \in Frame, Then(s, f) PROVE HandlesHeld'
  <2> DEFINE t == Some(FreeTasks)
  <2>1. t \in Task /\ job[t] = NoJob
    BY <1>9, <1>m, SomeTaskIdle, IdleJobs DEF Then
  <2>2. job' = [job EXCEPT ![t] = [kind |-> "resume", on |-> f]] /\ UNCHANGED <<param, awaits, handles>>
    BY <1>9 DEF Then, QueueAfter, frameVars
  <2> HIDE DEF t
  <2>3. job'[t].on = f /\ \A x \in Strand : x # t => job'[x] = job[x]
    BY <1>t, <1>m, <2>1, <2>2 DEF TypeOK
  <2> QED
    BY <1>t, <1>m, <1>n, <2>1, <2>2, <2>3, Disjoint DEF HandlesHeld
<1>10. ASSUME NEW s \in Strand, NEW f \in Frame, ResumeFuture(s, f) PROVE HandlesHeld'
  <2> DEFINE u == awaits[f]
  <2>1. /\ u \in Future /\ awaits' = [awaits EXCEPT ![f] = None] /\ UNCHANGED <<param, job>>
        /\ handles' = handles \ (IF param[f] = u THEN {} ELSE {<<f, u>>})
    BY <1>10 DEF ResumeFuture, Release, frameVars, threadVars
  <2>2. awaits'[f] = None /\ \A x \in Frame : x # f => awaits'[x] = awaits[x]
    BY <1>t, <2>1 DEF TypeOK
  <2>3. awaits[f] = u
    OBVIOUS
  <2> HIDE DEF u
  <2>4. \A x \in Task, v \in Future : <<x, v>> \in handles' <=> job'[x].on = v
    BY <1>t, <2>1, Disjoint DEF HandlesHeld
  <2>5. \A x \in Frame, v \in Future : <<x, v>> \in handles' <=> param'[x] = v \/ awaits'[x] = v
    <3> SUFFICES ASSUME NEW x \in Frame, NEW v \in Future
                 PROVE  <<x, v>> \in handles' <=> param'[x] = v \/ awaits'[x] = v
      OBVIOUS
    <3>1. <<x, v>> \in handles <=> param[x] = v \/ awaits[x] = v
      BY <1>t DEF HandlesHeld
    <3>2. <<x, v>> \in handles' <=>
            <<x, v>> \in handles /\ ~(x = f /\ v = u /\ param[f] # u)
      BY <2>1
    <3>3. None # v /\ param'[x] = param[x]
      BY <2>1, Disjoint
    <3> QED
      BY <2>2, <2>3, <3>1, <3>2, <3>3
  <2>6. \A v \in Future : job'[Main].on = v => <<Main, v>> \in handles'
    BY <1>t, <2>1, Disjoint DEF HandlesHeld
  <2> QED
    BY <2>4, <2>5, <2>6 DEF HandlesHeld
<1>11. ASSUME NEW s \in Strand, NEW f \in Frame, ResumeChild(s, f) PROVE HandlesHeld'
  <2> DEFINE g == awaits[f]
  <2>1. /\ pc[f] = "resume" /\ g \in Frame /\ Destroy(g) /\ Release({g} \X Future) /\ job' = job
        /\ awaits' = [awaits EXCEPT ![f] = None]
    BY <1>11 DEF ResumeChild, DestroyChild, Runs, threadVars
  <2>2. awaits[f] = g
    OBVIOUS
  <2> HIDE DEF g
  <2>3. pc[g] = "done" /\ awaits[g] = None
    BY <1>t, <2>1, <2>2 DEF FrameFits
  <2>4. /\ awaits'[g] = None
        /\ \A x \in Frame : awaits'[x] = awaits[x] \/ (awaits[x] \in Frame /\ awaits'[x] = None)
    BY <1>t, <2>1, <2>2, <2>3 DEF TypeOK
  <2> QED
    BY <2>1, <2>4, HandlesStepDestroy
<1>12. ASSUME NEW s \in Strand, NEW f \in Frame, EndDetached(s, f) PROVE HandlesHeld'
  <2>1. /\ pc[f] = "body" /\ Destroy(f) /\ Release({f} \X Future) /\ UNCHANGED <<job, awaits>>
    BY <1>12 DEF EndDetached, DestroyChild, Runs, threadVars
  <2>2. awaits[f] = None
    BY <1>t, <2>1 DEF FrameFits
  <2> QED
    BY <2>1, <2>2, HandlesStepDestroy
<1>13. ASSUME NEW t \in Task, RunResume(t) PROVE HandlesHeld'
  <2>1. job[t].on \in Frame /\ job' = [job EXCEPT ![t] = NoJob] /\ UNCHANGED <<param, awaits, handles>>
    BY <1>13, TaskFacts DEF RunResume, frameVars, futureVars
  <2>2. job'[t] = NoJob /\ \A x \in Strand : x # t => job'[x] = job[x]
    BY <1>t, <1>m, <2>1 DEF TypeOK
  <2> QED
    BY <1>t, <1>m, <1>n, <2>1, <2>2, Disjoint DEF HandlesHeld
<1>14. ASSUME NEW s \in Strand, Proceed(s) PROVE HandlesHeld'
  BY <1>7, <1>8, <1>9, <1>10, <1>11, <1>12, <1>13, <1>14, HandlesStepOutside
  DEF Proceed, RunCoroutine, RunTask
<1>15. CASE Program
  BY <1>1, <1>2, <1>3, <1>4, <1>5, <1>6, <1>15, HandlesStepOutside DEF Program, Owner
<1> QED
  BY <1>14, <1>15, HandlesStepOutside DEF Next
-----------------------------------------------------------------------------
(* Futures. *)

FuturesInv == FuturesByState /\ Producers /\ Users /\ NodesOfWaiting

\* Nobody has anything to do with a future in the pool.
LEMMA PooledUnused ==
  ASSUME CoroutineInv, NEW u \in Future, state[u] = "Pooled"
  PROVE  /\ \A h \in Holder : <<h, u>> \notin handles
         /\ \A s \in Strand : job[s].on # u
         /\ \A f \in Frame : param[f] # u /\ awaits[f] # u
         /\ dependents[u] = {} /\ ~result[u]
<1>1. FutureFits(u)
  BY DEF CoroutineInv, FuturesByState
<1>2. \A h \in Holder : <<h, u>> \notin handles
  BY <1>1 DEF FutureFits
<1> QED
  BY <1>1, <1>2 DEF CoroutineInv, HandlesHeld, FutureFits, Holder, Strand

\* What a strand does at the stages at which it has a future.
LEMMA StageFacts ==
  ASSUME CoroutineInv, NEW s \in Strand
  PROVE  /\ at[s] = "unblock" => job[s].kind = "produce" /\ job[s].on \in Future
         /\ at[s] = "reset" => job[s].kind = "consume" /\ job[s].on \in Future
         /\ at[s] = "waiting" => job[s].kind \in {"resume", "read", "consume"}
         /\ at[s] \in {"idle", "run"} => job[s].kind = "none"
         /\ job[s].kind \in {"produce", "read", "consume"} => job[s].on \in Future
         /\ job[s].kind = "resume" => job[s].on \in Frame
         /\ job[s].kind \in {"none", "resume", "produce", "read", "consume"}
         /\ job[s].kind = "none" => job[s].on = None
<1>1. StrandFits(s)
  BY DEF CoroutineInv, StrandsByStage
<1> QED
  BY <1>1 DEF StrandFits, JobsAt, CoroutineInv, TypeOK, NoJob

\* The tasks whose source is a frame's future resume that frame, which is suspended.
LEMMA SourceFacts ==
  ASSUME CoroutineInv, NEW t \in Task
  PROVE  /\ job[t].kind = "resume" => /\ Source(t) = awaits[job[t].on]
                                      /\ pc[job[t].on] = "suspended"
         /\ job[t].kind \in {"produce", "read", "consume"} => Source(t) = job[t].on
         /\ job[t].kind = "none" => Source(t) \notin Future
<1>1. t \in Strand
  BY DEF Strand
<1> QED
  BY <1>1, StageFacts, TaskFacts, Disjoint DEF Source

\* Futures to which somebody has a reference after the step are as they were, and the
\* others are in their pool.
KeptOrPooled ==
  /\ dependents' = dependents
  /\ \A u \in Future :
       \/ /\ \E h \in Holder : <<h, u>> \in handles'
          /\ state[u] # "Pooled"
          /\ state'[u] = state[u] /\ result'[u] = result[u] /\ use'[u] = use[u]
       \/ /\ \A h \in Holder : <<h, u>> \notin handles'
          /\ state'[u] = "Pooled" /\ ~result'[u] /\ use'[u] = "any" /\ dependents[u] = {}

\* A task starts to resume a coroutine that awaits nothing, or ends that.
Resumes(t) ==
  /\ t \in Task
  /\ at[t] \notin {"waiting", "unblock", "reset"}
  /\ at'[t] \notin {"waiting", "unblock", "reset"}
  /\ job'[t].kind \in {"none", "resume"}
  /\ at'[t] = "ready" => job'[t].on \in Frame /\ awaits'[job'[t].on] = None

\* A strand goes on without a change to a future.
StrandMoves(s) ==
  \/ at'[s] = at[s] /\ job'[s] = job[s]
  \/ at[s] = "ready" /\ at'[s] = "end" /\ job'[s] = job[s]
  \/ Resumes(s)

\* A coroutine goes on: it awaits no other future, and resumes only with a result.
AwaiterMoves(f) ==
  /\ pc[f] = "suspended" => awaits'[f] = awaits[f]
  /\ awaits'[f] \in Future =>
       /\ awaits'[f] = awaits[f]
       /\ pc'[f] = "resume" => pc[f] = "resume" \/ state[awaits[f]] = "Unconsumed"

\* The source of a task that keeps its job stays.
LEMMA SourceStays ==
  ASSUME CoroutineInv, NEW t \in Task, job'[t] = job[t],
         \A f \in Frame : pc[f] = "suspended" => awaits'[f] = awaits[f]
  PROVE  job[t].kind # "none" => Source(t)' = Source(t)
<1> SUFFICES ASSUME job[t].kind # "none" PROVE Source(t)' = Source(t)
  OBVIOUS
<1>1. t \in Strand
  BY DEF Strand
<1>2. CASE job[t].kind = "resume"
  <2>1. job[t].on \in Frame /\ pc[job[t].on] = "suspended"
    BY <1>2, TaskFacts
  <2>2. awaits'[job[t].on] = awaits[job[t].on]
    BY <2>1
  <2> QED
    BY <2>1, <2>2 DEF Source
<1>3. CASE job[t].kind \in {"produce", "read", "consume"}
  <2>1. job[t].on \notin Frame
    BY <1>1, <1>3, StageFacts, Disjoint
  <2> QED
    BY <2>1 DEF Source
<1> QED
  BY <1>1, <1>2, <1>3, StageFacts

\* Who has a future after the step has a reference to it.
LEMMA UserHasReference ==
  ASSUME HandlesHeld', NEW u \in Future
  PROVE  /\ \A s \in Strand : job'[s].on = u => \E h \in Holder : <<h, u>> \in handles'
         /\ \A f \in Frame : awaits'[f] = u => \E h \in Holder : <<h, u>> \in handles'
<1> QED
  BY DEF HandlesHeld, Holder, Strand

LEMMA FuturesKept ==
  ASSUME CoroutineInv, HandlesHeld', KeptOrPooled,
         \A s \in Strand : StrandMoves(s), \A f \in Frame : AwaiterMoves(f)
  PROVE  FuturesInv'
<1>t. /\ \A u \in Future : FutureFits(u)
      /\ \A s \in Strand : ProducerFits(s)
      /\ \A t \in Task : TaskFits(t) /\ t \in Strand
      /\ \A f \in Frame : AwaiterFits(f)
  BY DEF CoroutineInv, FuturesByState, Producers, Users, Strand
<1>a. \A f \in Frame : pc[f] = "suspended" => awaits'[f] = awaits[f]
  BY DEF AwaiterMoves
\* A future somebody has is as it was.
<1>k. ASSUME NEW u \in Future, \E h \in Holder : <<h, u>> \in handles'
      PROVE  state'[u] = state[u] /\ result'[u] = result[u] /\ use'[u] = use[u]
  BY <1>k DEF KeptOrPooled
<1>1. ASSUME NEW u \in Future PROVE FutureFits(u)'
  <2>1. \A s \in Strand : at[s] \in {"unblock", "reset"} => at'[s] = at[s] /\ job'[s] = job[s]
    BY DEF StrandMoves, Resumes
  <2>2. FutureFits(u)
    BY <1>t
  <2>3. CASE \E h \in Holder : <<h, u>> \in handles'
    <3>1. state'[u] = state[u] /\ result'[u] = result[u] /\ use'[u] = use[u] /\ state[u] # "Pooled"
      BY <2>3 DEF KeptOrPooled
    <3>2. state'[u] = "Pending" /\ result'[u] =>
            \E s \in Strand : at'[s] = "unblock" /\ job'[s].on = u
      BY <2>1, <2>2, <3>1 DEF FutureFits
    <3>3. state'[u] = "Done" /\ result'[u] => \E t \in Task : at'[t] = "reset" /\ job'[t].on = u
      BY <1>t, <2>1, <2>2, <3>1 DEF FutureFits
    <3>4. dependents'[u] = dependents[u]
      BY DEF KeptOrPooled
    <3> QED
      BY <2>2, <2>3, <3>1, <3>2, <3>3, <3>4 DEF FutureFits
  <2>4. CASE \A h \in Holder : <<h, u>> \notin handles'
    <3>1. state'[u] = "Pooled" /\ ~result'[u] /\ use'[u] = "any" /\ dependents'[u] = {}
      BY <2>4 DEF KeptOrPooled
    <3> QED
      BY <2>4, <3>1 DEF FutureFits
  <2> QED
    BY <2>3, <2>4
<1>2. ASSUME NEW s \in Strand, job'[s].kind = "produce"
      PROVE  job'[s] = job[s] /\ (at'[s] = at[s] \/ at'[s] = "end")
  BY <1>2 DEF StrandMoves, Resumes
<1>3. Producers'
  <2>1. ASSUME NEW s \in Strand PROVE ProducerFits(s)'
    <3> SUFFICES ASSUME job'[s].kind = "produce", at'[s] \in {"ready", "unblock"}
                 PROVE  ProducerFits(s)'
      BY DEF ProducerFits
    <3>1. job'[s] = job[s] /\ at'[s] = at[s] /\ job[s].on \in Future
      BY <1>2, StageFacts
    <3>2. ProducerFits(s)
      BY <1>t
    <3>3. state'[job[s].on] = state[job[s].on] /\ result'[job[s].on] = result[job[s].on]
      BY <1>k, <3>1, UserHasReference
    <3> QED
      BY <3>1, <3>2, <3>3 DEF ProducerFits
  <2>2. \A s1, s2 \in Strand :
          job'[s1].kind = "produce" /\ job'[s2].kind = "produce" /\ job'[s1].on = job'[s2].on
          => s1 = s2
    BY <1>2 DEF CoroutineInv, Producers
  <2> QED
    BY <2>1, <2>2 DEF Producers
<1>4. ASSUME NEW t \in Task, job'[t] = job[t], job[t].kind # "none", Source(t) \in Future
      PROVE  /\ Source(t)' = Source(t) /\ use'[Source(t)] = use[Source(t)]
             /\ state'[Source(t)] = state[Source(t)]
  <2>1. Source(t)' = Source(t)
    BY <1>4, <1>a, SourceStays
  <2>2. CASE job[t].kind = "resume"
    <3>1. job[t].on \in Frame /\ pc[job[t].on] = "suspended" /\ Source(t) = awaits[job[t].on]
      BY <2>2, TaskFacts, SourceFacts
    <3>2. awaits'[job[t].on] = Source(t)
      BY <1>a, <3>1
    <3> QED
      BY <1>4, <1>k, <2>1, <3>1, <3>2, UserHasReference
  <2>3. CASE job[t].kind # "resume"
    <3>1. job'[t].on = Source(t)
      BY <1>4, <1>t, <2>3, StageFacts, SourceFacts
    <3> QED
      BY <1>4, <1>k, <1>t, <2>1, <3>1, UserHasReference
  <2> QED
    BY <2>2, <2>3
<1>5. ASSUME NEW t \in Task PROVE TaskFits(t)'
  <2>1. CASE job'[t] = job[t] /\ (at'[t] = at[t] \/ at'[t] = "end")
    <3>1. TaskFits(t)
      BY <1>t
    <3>2. CASE job[t].kind = "none"
      <4>1. at[t] \notin {"ready", "reset"}
        BY <1>t, <3>2 DEF CoroutineInv, StrandsByStage, StrandFits, JobsAt
      <4> QED
        BY <2>1, <3>2, <4>1 DEF TaskFits
    <3>3. CASE job[t].kind # "none"
      <4>1. Source(t)' = Source(t)
        BY <1>a, <2>1, <3>3, SourceStays
      <4>2. job[t].kind \in {"produce", "read", "consume"} =>
              Source(t) = job[t].on /\ Source(t) \in Future
        BY <1>t, SourceFacts, StageFacts
      <4>3. at[t] = "reset" => job[t].kind = "consume"
        BY <1>t, StageFacts
      <4> QED
        BY <1>4, <2>1, <3>1, <3>3, <4>1, <4>2, <4>3 DEF TaskFits
    <3> QED
      BY <3>2, <3>3
  <2>2. CASE Resumes(t)
    BY <2>2, Disjoint DEF Resumes, TaskFits, Source
  <2> QED
    BY <1>t, <2>1, <2>2 DEF StrandMoves
<1>6. ASSUME NEW f \in Frame PROVE AwaiterFits(f)'
  <2> SUFFICES ASSUME awaits'[f] \in Future PROVE AwaiterFits(f)'
    BY DEF AwaiterFits
  <2>1. /\ awaits'[f] = awaits[f]
        /\ pc'[f] = "resume" => pc[f] = "resume" \/ state[awaits[f]] = "Unconsumed"
    BY DEF AwaiterMoves
  <2>2. state'[awaits[f]] = state[awaits[f]] /\ use'[awaits[f]] = use[awaits[f]]
    BY <1>k, <2>1, UserHasReference
  <2>3. AwaiterFits(f)
    BY <1>t
  <2> QED
    BY <2>1, <2>2, <2>3 DEF AwaiterFits
<1>7. Users'
  <2>1. \A t \in Task : job'[t].kind = "consume" => job'[t] = job[t]
    BY <1>t DEF StrandMoves, Resumes
  <2>2. \A t1, t2 \in Task :
          job'[t1].kind = "consume" /\ job'[t2].kind = "consume" /\ job'[t1].on = job'[t2].on
          => t1 = t2
    BY <2>1 DEF CoroutineInv, Users
  <2> QED
    BY <1>5, <1>6, <2>2 DEF Users
<1>8. NodesOfWaiting'
  <2> SUFFICES ASSUME NEW t \in Task, NEW u \in Future
               PROVE  t \in dependents'[u] <=> at'[t] = "waiting" /\ Source(t)' = u
    BY DEF NodesOfWaiting
  <2>1. t \in dependents[u] <=> at[t] = "waiting" /\ Source(t) = u
    BY DEF CoroutineInv, NodesOfWaiting
  <2>2. /\ at'[t] = "waiting" <=> at[t] = "waiting"
        /\ at[t] = "waiting" => job'[t] = job[t]
    BY <1>t DEF StrandMoves, Resumes
  <2>3. at[t] = "waiting" => job[t].kind # "none"
    BY <1>t, StageFacts
  <2>4. at[t] = "waiting" => Source(t)' = Source(t)
    BY <1>a, <2>2, <2>3, SourceStays
  <2>5. dependents' = dependents
    BY DEF KeptOrPooled
  <2> QED
    BY <2>1, <2>2, <2>4, <2>5
<1> QED
  BY <1>1, <1>3, <1>7, <1>8 DEF FuturesInv, FuturesByState

\* A step that touches no future, and takes none its last reference.
LEMMA NothingTouched ==
  ASSUME CoroutineInv, UNCHANGED <<state, result, use, dependents>>,
         \A u \in Future : (\E h \in Holder : <<h, u>> \in handles')
                           <=> (\E h \in Holder : <<h, u>> \in handles)
  PROVE  KeptOrPooled
<1> SUFFICES ASSUME NEW u \in Future
             PROVE  \/ /\ \E h \in Holder : <<h, u>> \in handles'
                       /\ state[u] # "Pooled"
                       /\ state'[u] = state[u] /\ result'[u] = result[u] /\ use'[u] = use[u]
                    \/ /\ \A h \in Holder : <<h, u>> \notin handles'
                       /\ state'[u] = "Pooled" /\ ~result'[u] /\ use'[u] = "any"
                       /\ dependents[u] = {}
  BY DEF KeptOrPooled
<1>1. FutureFits(u)
  BY DEF CoroutineInv, FuturesByState
<1> QED
  BY <1>1 DEF FutureFits

\* References are released by a holder that is not in the middle of a completion or
\* of a drop, and does not wait.
LEMMA ReleaseKept ==
  ASSUME CoroutineInv, dependents' = dependents,
         NEW h0 \in Holder, NEW R \in SUBSET ({h0} \X Future), Release(R),
         h0 \in Strand => at[h0] \in {"idle", "run", "end"},
         h0 \in Frame => pc[h0] # "suspended"
  PROVE  KeptOrPooled
<1> SUFFICES ASSUME NEW u \in Future
             PROVE  \/ /\ \E h \in Holder : <<h, u>> \in handles'
                       /\ state[u] # "Pooled"
                       /\ state'[u] = state[u] /\ result'[u] = result[u] /\ use'[u] = use[u]
                    \/ /\ \A h \in Holder : <<h, u>> \notin handles'
                       /\ state'[u] = "Pooled" /\ ~result'[u] /\ use'[u] = "any"
                       /\ dependents[u] = {}
  BY DEF KeptOrPooled
<1> DEFINE held == \E h \in Holder : <<h, u>> \in handles
           kept == \E h \in Holder : <<h, u>> \in handles'
<1>1. FutureFits(u) /\ TypeOK /\ HandlesHeld
  BY DEF CoroutineInv, FuturesByState
<1>2. \A h \in Holder : <<h, u>> \in handles' <=> <<h, u>> \in handles /\ <<h, u>> \notin R
  BY DEF Release
<1>3. IF held /\ ~kept
      THEN state'[u] = "Pooled" /\ result'[u] = PooledResult(u) /\ use'[u] = "any"
      ELSE state'[u] = state[u] /\ result'[u] = result[u] /\ use'[u] = use[u]
  BY <1>1, <1>2 DEF Release, TypeOK
<1>4. state[u] = "Pooled" <=> ~held
  BY <1>1 DEF FutureFits
<1>5. CASE kept
  <2>1. held
    BY <1>2, <1>5
  <2> QED
    BY <1>3, <1>4, <1>5, <2>1
<1>6. CASE ~held
  <2>1. ~kept
    BY <1>2, <1>6
  <2>2. state[u] = "Pooled"
    BY <1>4, <1>6
  <2>3. ~result[u] /\ use[u] = "any" /\ dependents[u] = {}
    BY <1>1, <2>2 DEF FutureFits
  <2> QED
    BY <1>3, <1>6, <2>1, <2>2, <2>3
<1>7. CASE held /\ ~kept
  \* Any other holder of u would keep it.
  <2>1. \A h \in Holder : <<h, u>> \in handles => h = h0
    BY <1>2, <1>7
  <2>2. \A s \in Strand : s \in Holder /\ (job[s].on = u => <<s, u>> \in handles)
    BY <1>1 DEF HandlesHeld, Strand, Holder
  <2>3. \A s \in Strand : job[s].on = u => s = h0 /\ at[s] \notin {"unblock", "reset", "waiting"}
    BY <2>1, <2>2
  <2>4. ~PooledResult(u)
    <3>1. \A t \in Task : t \in Strand
      BY DEF Strand
    <3>2. state[u] \in {"Pooled", "Pending", "Done", "Unconsumed"}
      BY <1>1 DEF TypeOK
    <3>3. state[u] = "Pending" => ~result[u]
      BY <1>1, <2>3 DEF FutureFits
    <3>4. state[u] = "Done" => ~result[u]
      BY <1>1, <2>3, <3>1 DEF FutureFits
    <3>5. state[u] = "Pooled" => ~result[u]
      BY <1>1 DEF FutureFits
    <3> QED
      BY <3>2, <3>3, <3>4, <3>5 DEF PooledResult
  <2>5. ASSUME NEW t \in dependents[u] PROVE FALSE
    <3>1. t \in Task /\ t \in Strand
      BY <1>1 DEF TypeOK, Strand
    <3>2. at[t] = "waiting" /\ Source(t) = u
      BY <3>1, <2>5 DEF CoroutineInv, NodesOfWaiting
    <3>3. CASE job[t].kind = "resume"
      <4> DEFINE f == job[t].on
      <4>1. f \in Frame /\ pc[f] = "suspended" /\ awaits[f] = u
        BY <3>1, <3>2, <3>3, TaskFacts, SourceFacts
      <4> HIDE DEF f
      <4>2. <<f, u>> \in handles /\ f \in Holder
        BY <1>1, <4>1 DEF HandlesHeld, Holder
      <4>3. f = h0
        BY <2>1, <4>2
      <4> QED
        BY <4>1, <4>3
    <3>4. CASE job[t].kind \in {"read", "consume"}
      BY <2>3, <3>1, <3>2, <3>4, SourceFacts
    <3> QED
      BY <3>1, <3>2, <3>3, <3>4, StageFacts
  <2> QED
    BY <1>3, <1>7, <2>4, <2>5
<1> QED
  BY <1>5, <1>6, <1>7

\* Steps that touch no future.
LEMMA FuturesStepUntouched ==
  ASSUME CoroutineInv, HandlesHeld',
         \/ \E f \in Frame, u \in Future \cup {None} :
              StartAttached(f, u) \/ StartAndDetach(f, u) \/ AsyncResume(f, u)
         \/ \E s \in Strand, f, g \in Frame : CallCoroutine(s, f, g)
         \/ \E s \in Strand, f \in Frame :
              \/ AwaitChild(s, f) \/ TrySet(s, f) \/ AwaitReady(s, f)
              \/ Return(s, f) \/ Close(s, f)
         \/ \E t \in Task : RunResume(t) \/ RunRead(t)
         \/ UNCHANGED vars
  PROVE  FuturesInv'
<1>t. /\ TypeOK /\ HandlesHeld
      /\ \A x \in Frame : FrameFits(x) /\ AwaiterFits(x) /\ x \in Holder
      /\ \A u \in Future : FutureFits(u)
      /\ \A t \in Task : TaskFits(t) /\ t \in Strand
  BY DEF CoroutineInv, FramesByStage, FuturesByState, Users, Holder, Strand
<1>m. Main \in Holder
  BY DEF Holder, Strand
\* Creating a frame adds a reference to a future that has one.
<1>c. ASSUME NEW f, NEW d, NEW u \in Future \cup {None}, NEW l, Create(f, d, u, l),
             l = "body" \/ l = "suspended",
             u \in Future => \E h \in Holder : <<h, u>> \in handles
      PROVE  KeptOrPooled /\ \A x \in Frame : AwaiterMoves(x)
  <2>1. f \in Frame /\ awaits[f] = None
    BY <1>c, CreatedFrame DEF FrameFits
  <2>2. /\ UNCHANGED <<awaits, state, result, use, dependents>>
        /\ pc' = [pc EXCEPT ![f] = l]
        /\ handles' = handles \cup ({f} \X ({u} \cap Future))
    BY <1>c DEF Create, ParameterHandles
  <2>3. \A h, v : <<h, v>> \in {f} \X ({u} \cap Future) <=> h = f /\ v = u /\ v \in Future
    OBVIOUS
  <2>4. \A v \in Future : (\E h \in Holder : <<h, v>> \in handles')
                          <=> (\E h \in Holder : <<h, v>> \in handles)
    BY <1>c, <2>2, <2>3
  <2>5. KeptOrPooled
    BY <2>2, <2>4, NothingTouched
  <2>6. \A x \in Frame : AwaiterMoves(x)
    BY <1>c, <1>t, <2>1, <2>2 DEF AwaiterMoves, TypeOK
  <2> QED
    BY <2>5, <2>6
<1>p. \A u \in Future : u \in Parameters(Main) => \E h \in Holder : <<h, u>> \in handles
  BY <1>m, Disjoint DEF Parameters
<1>0. ASSUME UNCHANGED <<handles, state, result, use, dependents>> PROVE KeptOrPooled
  BY <1>0, NothingTouched
<1>1. ASSUME NEW f \in Frame, NEW u \in Future \cup {None},
             StartAttached(f, u) \/ StartAndDetach(f, u)
      PROVE  FuturesInv'
  <2>1. /\ UNCHANGED threadVars /\ u \in Parameters(Main)
        /\ \E d : Create(f, d, u, "body")
    BY <1>1 DEF StartAttached, StartAndDetach
  <2>2. \A s \in Strand : StrandMoves(s)
    BY <2>1 DEF StrandMoves, threadVars
  <2> QED
    BY <1>c, <1>p, <2>1, <2>2, FuturesKept
<1>2. ASSUME NEW f \in Frame, NEW u \in Future \cup {None}, AsyncResume(f, u)
      PROVE  FuturesInv'
  <2> DEFINE t == Some(FreeTasks)
  <2>1. t \in Task /\ at[t] = "idle"
    BY <1>2, SomeTaskIdle DEF AsyncResume
  <2>2. /\ u \in Parameters(Main) /\ Create(f, TRUE, u, "suspended")
        /\ job' = [job EXCEPT ![t] = [kind |-> "resume", on |-> f]]
        /\ at' = [at EXCEPT ![t] = "ready"]
    BY <1>2 DEF AsyncResume
  <2> HIDE DEF t
  <2>3. awaits[f] = None /\ awaits' = awaits
    BY <2>2, CreatedFrame DEF FrameFits, Create
  <2>4. /\ at'[t] = "ready" /\ job'[t].kind = "resume" /\ job'[t].on = f
        /\ \A s \in Strand : s # t => at'[s] = at[s] /\ job'[s] = job[s]
    BY <1>t, <2>1, <2>2 DEF TypeOK
  <2>5. Resumes(t)
    BY <2>1, <2>3, <2>4 DEF Resumes
  <2>6. \A s \in Strand : StrandMoves(s)
    BY <2>4, <2>5 DEF StrandMoves
  <2> QED
    BY <1>c, <1>p, <2>2, <2>6, FuturesKept
<1>3. ASSUME NEW s \in Strand, NEW f \in Frame, NEW g \in Frame, CallCoroutine(s, f, g)
      PROVE  FuturesInv'
  <2>1. UNCHANGED threadVars /\ Create(g, FALSE, None, "body")
    BY <1>3 DEF CallCoroutine
  <2>2. \A x \in Strand : StrandMoves(x)
    BY <2>1 DEF StrandMoves, threadVars
  <2> QED
    BY <1>c, <2>1, <2>2, FuturesKept, Disjoint
<1>4. ASSUME NEW s \in Strand, NEW f \in Frame, AwaitChild(s, f) PROVE FuturesInv'
  <2>1. /\ pc[f] = "body" /\ child[f] \in Frame /\ awaits' = [awaits EXCEPT ![f] = child[f]]
        /\ \E l : pc' = [pc EXCEPT ![f] = l]
        /\ UNCHANGED <<threadVars, futureVars>>
    BY <1>4, <1>t DEF AwaitChild, Runs, TypeOK, FrameOrNone
  <2>2. \A x \in Frame : AwaiterMoves(x)
    BY <1>t, <2>1, Disjoint DEF AwaiterMoves, TypeOK
  <2>3. (\A x \in Strand : StrandMoves(x)) /\ KeptOrPooled
    BY <1>0, <2>1 DEF StrandMoves, threadVars, futureVars
  <2> QED
    BY <2>2, <2>3, FuturesKept
<1>5. ASSUME NEW s \in Strand, NEW f \in Frame, TrySet(s, f) PROVE FuturesInv'
  <2>1. /\ pc[f] = "trySet" /\ awaits' = awaits /\ \E l : pc' = [pc EXCEPT ![f] = l]
        /\ UNCHANGED <<threadVars, futureVars>>
    BY <1>5 DEF TrySet, Runs
  <2>2. awaits[f] \in Frame
    BY <1>t, <2>1 DEF FrameFits
  <2>3. \A x \in Frame : AwaiterMoves(x)
    BY <1>t, <2>1, <2>2, Disjoint DEF AwaiterMoves, TypeOK
  <2>4. (\A x \in Strand : StrandMoves(x)) /\ KeptOrPooled
    BY <1>0, <2>1 DEF StrandMoves, threadVars, futureVars
  <2> QED
    BY <2>3, <2>4, FuturesKept
<1>6. ASSUME NEW s \in Strand, NEW f \in Frame, AwaitReady(s, f) PROVE FuturesInv'
  <2>1. /\ pc[f] = "ready" /\ awaits' = awaits /\ UNCHANGED <<threadVars, futureVars>>
        /\ pc' = [pc EXCEPT ![f] = IF state[awaits[f]] = "Pending" THEN "then" ELSE "resume"]
    BY <1>6 DEF AwaitReady, Runs
  <2>2. awaits[f] \in Future /\ <<f, awaits[f]>> \in handles
    BY <1>t, <2>1 DEF FrameFits, HandlesHeld
  <2>3. state[awaits[f]] \in {"Pending", "Unconsumed"}
    BY <1>t, <2>2 DEF FutureFits, AwaiterFits, TypeOK
  <2>4. \A x \in Frame : AwaiterMoves(x)
    BY <1>t, <2>1, <2>2, <2>3, Disjoint DEF AwaiterMoves, TypeOK
  <2>5. (\A x \in Strand : StrandMoves(x)) /\ KeptOrPooled
    BY <1>0, <2>1 DEF StrandMoves, threadVars, futureVars
  <2> QED
    BY <2>4, <2>5, FuturesKept
<1>7. ASSUME NEW s \in Strand, NEW f \in Frame, Return(s, f) PROVE FuturesInv'
  <2>1. /\ awaits' = awaits /\ pc' = [pc EXCEPT ![f] = "close"]
        /\ UNCHANGED <<threadVars, futureVars>>
    BY <1>7 DEF Return
  <2>2. \A x \in Frame : AwaiterMoves(x)
    BY <1>t, <2>1 DEF AwaiterMoves, TypeOK
  <2>3. (\A x \in Strand : StrandMoves(x)) /\ KeptOrPooled
    BY <1>0, <2>1 DEF StrandMoves, threadVars, futureVars
  <2> QED
    BY <2>2, <2>3, FuturesKept
<1>8. ASSUME NEW s \in Strand, NEW f \in Frame, Close(s, f) PROVE FuturesInv'
  <2> DEFINE c == word[f].value
  <2>1. /\ awaits' = awaits /\ UNCHANGED <<threadVars, futureVars>>
        /\ \/ c = None /\ pc' = [pc EXCEPT ![f] = "done"]
           \/ c # None /\ pc' = [pc EXCEPT ![f] = "done", ![c] = "resume"]
    BY <1>8 DEF Close
  <2>2. c # None => c \in Frame /\ awaits[c] = f
    BY WordFacts
  <2> HIDE DEF c
  <2>3. \A x \in Frame : AwaiterMoves(x)
    BY <1>t, <2>1, <2>2, Disjoint DEF AwaiterMoves, TypeOK
  <2>4. (\A x \in Strand : StrandMoves(x)) /\ KeptOrPooled
    BY <1>0, <2>1 DEF StrandMoves, threadVars, futureVars
  <2> QED
    BY <2>3, <2>4, FuturesKept
<1>9. ASSUME NEW t \in Task, RunResume(t) PROVE FuturesInv'
  <2> DEFINE f == job[t].on
  <2>1. /\ at[t] = "ready" /\ job[t].kind = "resume" /\ UNCHANGED <<awaits, futureVars>>
        /\ at' = [at EXCEPT ![t] = "run"] /\ job' = [job EXCEPT ![t] = NoJob]
        /\ \E l : pc' = [pc EXCEPT ![f] = l]
    BY <1>9 DEF RunResume
  <2>2. f \in Frame /\ Source(t) = awaits[f]
    BY <2>1, TaskFacts, SourceFacts
  <2>3. awaits[f] \in Future => state[awaits[f]] = "Unconsumed"
    BY <1>t, <2>1, <2>2 DEF TaskFits
  <2> HIDE DEF f
  <2>4. \A x \in Frame : AwaiterMoves(x)
    BY <1>t, <2>1, <2>2, <2>3 DEF AwaiterMoves, TypeOK
  <2>5. /\ at'[t] = "run" /\ job'[t] = NoJob
        /\ \A s \in Strand : s # t => at'[s] = at[s] /\ job'[s] = job[s]
    BY <1>t, <2>1 DEF TypeOK
  <2>6. \A x \in Strand : StrandMoves(x)
    BY <2>1, <2>5 DEF StrandMoves, Resumes, NoJob
  <2>7. KeptOrPooled
    BY <1>0, <2>1 DEF futureVars
  <2> QED
    BY <2>4, <2>6, <2>7, FuturesKept
<1>10. ASSUME NEW t \in Task, RunRead(t) PROVE FuturesInv'
  <2>1. /\ at[t] = "ready" /\ UNCHANGED <<awaits, pc, job, futureVars>>
        /\ at' = [at EXCEPT ![t] = "end"]
    BY <1>10 DEF RunRead, coroutineVars
  <2>2. \A x \in Strand : StrandMoves(x)
    BY <1>t, <2>1 DEF StrandMoves, TypeOK
  <2>3. (\A x \in Frame : AwaiterMoves(x)) /\ KeptOrPooled
    BY <1>0, <2>1 DEF AwaiterMoves, futureVars
  <2> QED
    BY <2>2, <2>3, FuturesKept
<1>11. CASE UNCHANGED vars
  <2>1. /\ \A x \in Strand : StrandMoves(x)
        /\ \A x \in Frame : AwaiterMoves(x)
    BY <1>11 DEF StrandMoves, AwaiterMoves, vars, threadVars, coroutineVars
  <2>2. KeptOrPooled
    BY <1>0, <1>11 DEF vars, futureVars
  <2> QED
    BY <2>1, <2>2, FuturesKept
<1> QED
  BY <1>1, <1>2, <1>3, <1>4, <1>5, <1>6, <1>7, <1>8, <1>9, <1>10, <1>11

\* Steps that release references.
LEMMA FuturesStepRelease ==
  ASSUME CoroutineInv, HandlesHeld',
         \/ \E u \in Future : DropFuture(u)
         \/ \E t \in Task : EndTask(t)
         \/ \E h \in Owner : DropHandle(h)
         \/ \E s \in Strand, f \in Frame :
              ResumeFuture(s, f) \/ ResumeChild(s, f) \/ EndDetached(s, f)
  PROVE  FuturesInv'
<1>t. /\ TypeOK /\ \A x \in Frame : FrameFits(x) /\ x \in Holder /\ x \notin Strand
      /\ \A t \in Task : t \in Strand /\ t \in Holder /\ t \notin Frame
  BY Disjoint DEF CoroutineInv, FramesByStage, Holder, Strand
<1>m. Main \in Holder /\ Main \in Strand /\ Main \notin Frame
  BY Disjoint DEF Holder, Strand
<1>1. ASSUME NEW u \in Future, DropFuture(u) PROVE FuturesInv'
  <2>1. /\ at[Main] = "idle" /\ Release({<<Main, u>>})
        /\ UNCHANGED <<awaits, pc, at, job, dependents>>
    BY <1>1 DEF DropFuture, InMain, coroutineVars, threadVars
  <2>2. {<<Main, u>>} \in SUBSET ({Main} \X Future)
    OBVIOUS
  <2>3. KeptOrPooled
    BY <1>m, <2>1, <2>2, ReleaseKept
  <2>4. (\A x \in Strand : StrandMoves(x)) /\ \A x \in Frame : AwaiterMoves(x)
    BY <2>1 DEF StrandMoves, AwaiterMoves
  <2> QED
    BY <2>3, <2>4, FuturesKept
<1>2. ASSUME NEW t \in Task, EndTask(t) PROVE FuturesInv'
  <2>1. /\ at[t] \in {"end", "run"} /\ Release({t} \X Future)
        /\ at' = [at EXCEPT ![t] = "idle"] /\ job' = [job EXCEPT ![t] = NoJob]
        /\ UNCHANGED <<awaits, pc, dependents>>
    BY <1>2 DEF EndTask, coroutineVars
  <2>2. KeptOrPooled
    BY <1>t, <2>1, ReleaseKept
  <2>3. /\ at'[t] = "idle" /\ job'[t] = NoJob
        /\ \A s \in Strand : s # t => at'[s] = at[s] /\ job'[s] = job[s]
    BY <1>t, <2>1 DEF TypeOK
  <2>4. Resumes(t)
    BY <2>1, <2>3 DEF Resumes, NoJob
  <2>5. (\A x \in Strand : StrandMoves(x)) /\ \A x \in Frame : AwaiterMoves(x)
    BY <2>1, <2>3, <2>4 DEF StrandMoves, AwaiterMoves
  <2> QED
    BY <2>2, <2>5, FuturesKept
\* A frame is destroyed that has finished, or ends on its own.
<1>3. ASSUME NEW g \in Frame, pc[g] \in {"done", "body"}, Release({g} \X Future),
             UNCHANGED <<at, job, dependents>>, \A x \in Frame : AwaiterMoves(x)
      PROVE  FuturesInv'
  <2>1. KeptOrPooled
    BY <1>t, <1>3, ReleaseKept
  <2>2. \A x \in Strand : StrandMoves(x)
    BY <1>3 DEF StrandMoves
  <2> QED
    BY <1>3, <2>1, <2>2, FuturesKept
<1>4. ASSUME NEW h \in Owner, DropHandle(h) PROVE FuturesInv'
  <2> DEFINE g == child[h]
  <2>1. /\ g \in Frame /\ IsDone(g) /\ Release({g} \X Future)
        /\ UNCHANGED <<at, job, dependents, awaits>> /\ pc' = [pc EXCEPT ![g] = "none"]
    BY <1>4, <1>t DEF DropHandle, DestroyChild, TypeOK, Owner, FrameOrNone, threadVars
  <2> HIDE DEF g
  <2>2. pc[g] = "done"
    BY <1>t, <2>1 DEF FrameFits
  <2>3. \A x \in Frame : AwaiterMoves(x)
    BY <1>t, <2>1 DEF AwaiterMoves, TypeOK
  <2> QED
    BY <1>3, <2>1, <2>2, <2>3
<1>5. ASSUME NEW s \in Strand, NEW f \in Frame, ResumeFuture(s, f) PROVE FuturesInv'
  <2> DEFINE R == IF param[f] = awaits[f] THEN {} ELSE {<<f, awaits[f]>>}
  <2>1. /\ pc[f] = "resume" /\ awaits[f] \in Future /\ Release(R)
        /\ awaits' = [awaits EXCEPT ![f] = None] /\ pc' = [pc EXCEPT ![f] = "body"]
        /\ UNCHANGED <<at, job, dependents>>
    BY <1>5 DEF ResumeFuture, Runs, threadVars
  <2>2. R \in SUBSET ({f} \X Future)
    BY <2>1
  <2> HIDE DEF R
  <2>3. KeptOrPooled
    BY <1>t, <2>1, <2>2, ReleaseKept
  <2>4. \A x \in Frame : AwaiterMoves(x)
    BY <1>t, <2>1, Disjoint DEF AwaiterMoves, TypeOK
  <2>5. \A x \in Strand : StrandMoves(x)
    BY <2>1 DEF StrandMoves
  <2> QED
    BY <2>3, <2>4, <2>5, FuturesKept
<1>6. ASSUME NEW s \in Strand, NEW f \in Frame, ResumeChild(s, f) PROVE FuturesInv'
  <2> DEFINE g == awaits[f]
  <2>1. /\ pc[f] = "resume" /\ g \in Frame /\ Release({g} \X Future)
        /\ awaits' = [awaits EXCEPT ![f] = None] /\ pc' = [pc EXCEPT ![f] = "body", ![g] = "none"]
        /\ UNCHANGED <<at, job, dependents>>
    BY <1>6 DEF ResumeChild, DestroyChild, Runs, threadVars
  <2>2. pc[g] = "done"
    BY <1>t, <2>1 DEF FrameFits
  <2> HIDE DEF g
  <2>3. \A x \in Frame : AwaiterMoves(x)
    BY <1>t, <2>1, <2>2, Disjoint DEF AwaiterMoves, TypeOK
  <2> QED
    BY <1>3, <2>1, <2>2, <2>3
<1>7. ASSUME NEW s \in Strand, NEW f \in Frame, EndDetached(s, f) PROVE FuturesInv'
  <2>1. /\ pc[f] = "body" /\ Release({f} \X Future) /\ pc' = [pc EXCEPT ![f] = "none"]
        /\ UNCHANGED <<at, job, dependents, awaits>>
    BY <1>7 DEF EndDetached, DestroyChild, Runs, threadVars
  <2>2. \A x \in Frame : AwaiterMoves(x)
    BY <1>t, <2>1 DEF AwaiterMoves, TypeOK
  <2> QED
    BY <1>3, <2>1, <2>2
<1> QED
  BY <1>1, <1>2, <1>4, <1>5, <1>6, <1>7

\* A future is taken from its pool, with or without a task that will complete it.
LEMMA FuturesStepFresh ==
  ASSUME CoroutineInv, NEW u \in Future, state[u] = "Pooled", NEW t \in Strand,
         state' = [state EXCEPT ![u] = "Pending"], UNCHANGED <<result, dependents>>,
         \A v \in Future : v # u => use'[v] = use[v],
         \E h \in Holder : <<h, u>> \in handles',
         \A h \in Holder, v \in Future : v # u => (<<h, v>> \in handles' <=> <<h, v>> \in handles),
         \A s \in Strand : s # t => at'[s] = at[s] /\ job'[s] = job[s],
         \/ at'[t] = at[t] /\ job'[t] = job[t]
         \/ at[t] = "idle" /\ at'[t] = "ready" /\ job'[t] = [kind |-> "produce", on |-> u],
         \A f \in Frame : \/ /\ awaits'[f] = awaits[f]
                             /\ pc'[f] = "resume" => pc[f] = "resume"
                          \/ /\ pc[f] # "suspended" /\ awaits'[f] = u
                             /\ pc'[f] # "resume" /\ use'[u] = "share"
  PROVE  FuturesInv'
<1>t. /\ TypeOK /\ \A v \in Future : FutureFits(v)
      /\ \A s \in Strand : ProducerFits(s)
      /\ \A x \in Task : TaskFits(x) /\ x \in Strand
      /\ \A f \in Frame : AwaiterFits(f)
  BY DEF CoroutineInv, FuturesByState, Producers, Users, Strand
<1>u. /\ \A s \in Strand : job[s].on # u
      /\ \A f \in Frame : awaits[f] # u
      /\ dependents[u] = {} /\ ~result[u]
  BY PooledUnused
<1>v. state'[u] = "Pending" /\ \A v \in Future : v # u => state'[v] = state[v]
  BY <1>t DEF TypeOK
<1>a. \A f \in Frame : pc[f] = "suspended" => awaits'[f] = awaits[f]
  OBVIOUS
<1>j. \A s \in Strand :
        \/ at'[s] = at[s] /\ job'[s] = job[s]
        \/ s = t /\ at[s] = "idle" /\ at'[s] = "ready" /\ job'[s].kind = "produce" /\ job'[s].on = u
  OBVIOUS
<1>1. ASSUME NEW v \in Future PROVE FutureFits(v)'
  <2>1. FutureFits(v)
    BY <1>t
  <2>2. CASE v = u
    BY <1>u, <1>v, <2>2 DEF FutureFits
  <2>3. CASE v # u
    <3>1. \A s \in Strand : at[s] \in {"unblock", "reset"} => at'[s] = at[s] /\ job'[s] = job[s]
      BY <1>j
    <3>2. state'[v] = state[v] /\ use'[v] = use[v] /\ result'[v] = result[v]
          /\ dependents'[v] = dependents[v]
      BY <1>v, <2>3
    <3>3. state'[v] = "Pending" /\ result'[v] =>
            \E s \in Strand : at'[s] = "unblock" /\ job'[s].on = v
      BY <2>1, <3>1, <3>2 DEF FutureFits
    <3>4. state'[v] = "Done" /\ result'[v] => \E x \in Task : at'[x] = "reset" /\ job'[x].on = v
      BY <1>t, <2>1, <3>1, <3>2 DEF FutureFits
    <3>5. (\A h \in Holder : <<h, v>> \notin handles') <=> \A h \in Holder : <<h, v>> \notin handles
      BY <2>3
    <3> QED
      BY <2>1, <3>2, <3>3, <3>4, <3>5 DEF FutureFits
  <2> QED
    BY <2>2, <2>3
<1>2. Producers'
  <2>1. ASSUME NEW s \in Strand PROVE ProducerFits(s)'
    <3>1. CASE at'[s] = at[s] /\ job'[s] = job[s]
      <4>1. ProducerFits(s) /\ (job[s].kind = "produce" => job[s].on \in Future /\ job[s].on # u)
        BY <1>t, <1>u, StageFacts
      <4> QED
        BY <1>v, <3>1, <4>1 DEF ProducerFits
    <3>2. CASE at'[s] = "ready" /\ job'[s].on = u
      BY <1>u, <1>v, <3>2 DEF ProducerFits
    <3> QED
      BY <1>j, <3>1, <3>2
  <2>2. ASSUME NEW s1 \in Strand, NEW s2 \in Strand, job'[s1].kind = "produce",
               job'[s2].kind = "produce", job'[s1].on = job'[s2].on
        PROVE  s1 = s2
    <3>1. CASE job'[s1] = job[s1] /\ job'[s2] = job[s2]
      BY <2>2, <3>1 DEF CoroutineInv, Producers
    <3>2. CASE job'[s1] # job[s1]
      BY <1>j, <1>u, <2>2, <3>2
    <3>3. CASE job'[s2] # job[s2]
      BY <1>j, <1>u, <2>2, <3>3
    <3> QED
      BY <3>1, <3>2, <3>3
  <2> QED
    BY <2>1, <2>2 DEF Producers
<1>s. ASSUME NEW x \in Task, at'[x] = at[x], job'[x] = job[x], job[x].kind # "none"
      PROVE  Source(x)' = Source(x) /\ Source(x) # u
  <2>1. Source(x)' = Source(x)
    BY <1>a, <1>s, SourceStays
  <2>2. Source(x) # u
    BY <1>t, <1>u DEF Source
  <2> QED
    BY <2>1, <2>2
<1>3. ASSUME NEW x \in Task PROVE TaskFits(x)'
  <2>1. CASE at'[x] = at[x] /\ job'[x] = job[x]
    <3>1. TaskFits(x)
      BY <1>t
    <3>2. CASE job[x].kind = "none"
      <4>1. at[x] \notin {"ready", "reset"}
        BY <1>t, <3>2 DEF CoroutineInv, StrandsByStage, StrandFits, JobsAt
      <4> QED
        BY <2>1, <3>2, <4>1 DEF TaskFits
    <3>3. CASE job[x].kind # "none"
      <4>1. Source(x)' = Source(x) /\ Source(x) # u
        BY <1>s, <2>1, <3>3
      <4>2. Source(x) \in Future =>
              state'[Source(x)] = state[Source(x)] /\ use'[Source(x)] = use[Source(x)]
        BY <1>v, <4>1
      <4>3. job[x].kind \in {"produce", "read", "consume"} =>
              Source(x) = job[x].on /\ Source(x) \in Future
        BY <1>t, SourceFacts, StageFacts
      <4>4. at[x] = "reset" => job[x].kind = "consume"
        BY <1>t, StageFacts
      <4> QED
        BY <2>1, <3>1, <4>1, <4>2, <4>3, <4>4 DEF TaskFits
    <3> QED
      BY <3>2, <3>3
  <2>2. CASE at'[x] = "ready" /\ job'[x].kind = "produce"
    BY <2>2 DEF TaskFits
  <2> QED
    BY <1>j, <1>t, <2>1, <2>2
<1>4. ASSUME NEW f \in Frame PROVE AwaiterFits(f)'
  <2>1. AwaiterFits(f)
    BY <1>t
  <2>2. CASE awaits'[f] = awaits[f] /\ (pc'[f] = "resume" => pc[f] = "resume")
    BY <1>u, <1>v, <2>1, <2>2 DEF AwaiterFits
  <2>3. CASE awaits'[f] = u /\ pc'[f] # "resume" /\ use'[u] = "share"
    BY <2>3 DEF AwaiterFits
  <2> QED
    BY <2>2, <2>3
<1>5. Users'
  <2>1. \A x \in Task : job'[x].kind = "consume" => job'[x] = job[x]
    BY <1>j, <1>t
  <2>2. \A t1, t2 \in Task :
          job'[t1].kind = "consume" /\ job'[t2].kind = "consume" /\ job'[t1].on = job'[t2].on
          => t1 = t2
    BY <2>1 DEF CoroutineInv, Users
  <2> QED
    BY <1>3, <1>4, <2>2 DEF Users
<1>6. NodesOfWaiting'
  <2> SUFFICES ASSUME NEW x \in Task, NEW v \in Future
               PROVE  x \in dependents'[v] <=> at'[x] = "waiting" /\ Source(x)' = v
    BY DEF NodesOfWaiting
  <2>1. x \in dependents[v] <=> at[x] = "waiting" /\ Source(x) = v
    BY DEF CoroutineInv, NodesOfWaiting
  <2>2. CASE at'[x] = at[x] /\ job'[x] = job[x]
    <3>1. at[x] = "waiting" => job[x].kind # "none"
      BY <1>t, StageFacts
    <3>2. at[x] = "waiting" => Source(x)' = Source(x)
      BY <1>s, <2>2, <3>1
    <3> QED
      BY <2>1, <2>2, <3>2
  <2>3. CASE at[x] = "idle" /\ at'[x] = "ready"
    BY <2>1, <2>3
  <2> QED
    BY <1>j, <1>t, <2>2, <2>3
<1> QED
  BY <1>1, <1>2, <1>5, <1>6 DEF FuturesInv, FuturesByState

\* The future u leaves its pool, and t gets the job to complete it.
Taken(t, u) ==
  /\ state[u] = "Pooled" /\ state' = [state EXCEPT ![u] = "Pending"]
  /\ UNCHANGED <<result, dependents>>
  /\ \E h \in Holder : <<h, u>> \in handles'
  /\ \A h \in Holder, v \in Future : v # u => (<<h, v>> \in handles' <=> <<h, v>> \in handles)
  /\ \A s \in Strand : s # t => at'[s] = at[s] /\ job'[s] = job[s]
  /\ at[t] = "idle" /\ at'[t] = "ready" /\ job'[t] = [kind |-> "produce", on |-> u]

\* MakeFuture and InitializeTask, in main and in a coroutine.
LEMMA FuturesStepNew ==
  ASSUME CoroutineInv,
         \/ MakeFuture
         \/ \E t \in Task, u \in Future : InitializeTask(t, u)
         \/ \E s \in Strand, f \in Frame, t \in Task, u \in Future : AwaitTask(s, f, t, u)
  PROVE  FuturesInv'
<1>t. TypeOK /\ \A x \in Task : x \in Strand
  BY DEF CoroutineInv, Strand
<1>m. Main \in Holder /\ Main \in Strand /\ \A x \in Frame : x \in Holder
  BY DEF Holder, Strand
<1>1. CASE MakeFuture
  <2> DEFINE u == Some(FreeFutures)
  <2>1. u \in Future /\ state[u] = "Pooled"
    BY <1>1, SomeFuturePooled DEF MakeFuture
  <2>2. /\ state' = [state EXCEPT ![u] = "Pending"] /\ handles' = handles \cup {<<Main, u>>}
        /\ UNCHANGED <<awaits, pc, at, job, result, dependents, use>>
    BY <1>1 DEF MakeFuture, coroutineVars, threadVars
  <2> HIDE DEF u
  <2> QED
    BY <1>m, <2>1, <2>2, FuturesStepFresh
<1>2. ASSUME NEW h \in Holder, NEW t \in Task, NEW u \in Future, NewTask(h, t, u)
      PROVE  Taken(t, u)
  <2>1. state[u] = "Pooled" /\ at[t] = "idle"
    BY <1>2, SomeTaskIdle, SomeFuturePooled DEF NewTask
  <2>2. /\ job' = [job EXCEPT ![t] = [kind |-> "produce", on |-> u]]
        /\ at' = [at EXCEPT ![t] = "ready"] /\ state' = [state EXCEPT ![u] = "Pending"]
        /\ handles' = handles \cup {<<h, u>>, <<t, u>>}
        /\ UNCHANGED <<result, dependents>>
    BY <1>2 DEF NewTask
  <2>3. /\ \A s \in Strand : s # t => at'[s] = at[s] /\ job'[s] = job[s]
        /\ at'[t] = "ready" /\ job'[t] = [kind |-> "produce", on |-> u]
    BY <1>t, <2>2 DEF TypeOK
  <2> QED
    BY <2>1, <2>2, <2>3 DEF Taken
<1>3. ASSUME NEW t \in Task, NEW u \in Future, InitializeTask(t, u) PROVE FuturesInv'
  <2>1. NewTask(Main, t, u) /\ UNCHANGED <<awaits, pc, use>>
    BY <1>3 DEF InitializeTask, coroutineVars
  <2>2. Taken(t, u)
    BY <1>2, <1>m, <2>1
  <2>3. /\ \A v \in Future : v # u => use'[v] = use[v]
        /\ \A x \in Frame : awaits'[x] = awaits[x] /\ (pc'[x] = "resume" => pc[x] = "resume")
    BY <2>1
  <2> QED
    BY <1>t, <2>2, <2>3, FuturesStepFresh DEF Taken
<1>4. ASSUME NEW s \in Strand, NEW f \in Frame, NEW t \in Task, NEW u \in Future,
             AwaitTask(s, f, t, u)
      PROVE  FuturesInv'
  <2>1. /\ NewTask(f, t, u) /\ pc[f] = "body"
        /\ awaits' = [awaits EXCEPT ![f] = u] /\ pc' = [pc EXCEPT ![f] = "ready"]
        /\ use' = [use EXCEPT ![u] = "share"]
    BY <1>4 DEF AwaitTask, Runs
  <2>2. \A x \in Frame : \/ /\ awaits'[x] = awaits[x]
                            /\ pc'[x] = "resume" => pc[x] = "resume"
                         \/ /\ pc[x] # "suspended" /\ awaits'[x] = u
                            /\ pc'[x] # "resume" /\ use'[u] = "share"
    BY <1>t, <2>1 DEF TypeOK
  <2>3. \A v \in Future : v # u => use'[v] = use[v]
    BY <1>t, <2>1 DEF TypeOK
  <2>4. Taken(t, u)
    BY <1>2, <1>m, <2>1
  <2> QED
    BY <1>t, <2>2, <2>3, <2>4, FuturesStepFresh DEF Taken
<1> QED
  BY <1>1, <1>3, <1>4

\* What is the same for a task that keeps its stage and its job, or its job alone, when
\* no coroutine that is suspended awaits something else.
LEMMA SourcesStay ==
  ASSUME CoroutineInv, NEW x \in Task, job'[x] = job[x], awaits' = awaits
  PROVE  /\ Source(x)' = Source(x)
         /\ job[x].kind \in {"produce", "read", "consume"} => Source(x) = job[x].on
         /\ at[x] = "reset" => job[x].kind = "consume"
<1>1. x \in Strand
  BY DEF Strand
<1> QED
  BY <1>1, StageFacts, SourceFacts DEF Source

\* A result is stored by the strand that completes the future.
LEMMA FuturesStepStore ==
  ASSUME CoroutineInv, NEW s \in Strand, NEW u \in Future, state[u] = "Pending",
         at[s] = "idle" \/ (at[s] = "ready" /\ job[s].kind = "produce"),
         \A x \in Strand : x # s => ~(job[x].kind = "produce" /\ job[x].on = u),
         at' = [at EXCEPT ![s] = "unblock"],
         job' = [job EXCEPT ![s] = [kind |-> "produce", on |-> u]],
         result' = [result EXCEPT ![u] = TRUE],
         UNCHANGED <<state, dependents, handles, use, awaits, pc>>
  PROVE  FuturesInv'
<1>t. /\ TypeOK /\ \A v \in Future : FutureFits(v)
      /\ \A x \in Strand : ProducerFits(x)
      /\ \A x \in Task : TaskFits(x) /\ x \in Strand
      /\ \A f \in Frame : AwaiterFits(f)
  BY DEF CoroutineInv, FuturesByState, Producers, Users, Strand
<1>s. /\ at'[s] = "unblock" /\ job'[s].kind = "produce" /\ job'[s].on = u
      /\ \A x \in Strand : x # s => at'[x] = at[x] /\ job'[x] = job[x]
  BY <1>t DEF TypeOK
<1>r. result'[u] = TRUE /\ \A v \in Future : v # u => result'[v] = result[v]
  BY <1>t DEF TypeOK
<1>1. ASSUME NEW v \in Future PROVE FutureFits(v)'
  <2>1. FutureFits(v)
    BY <1>t
  <2>2. CASE v = u
    <3>1. \E x \in Strand : at'[x] = "unblock" /\ job'[x].on = v
      BY <1>s, <2>2
    <3> QED
      BY <1>r, <2>1, <2>2, <3>1 DEF FutureFits
  <2>3. CASE v # u
    <3>1. \A x \in Strand : at[x] \in {"unblock", "reset"} => at'[x] = at[x] /\ job'[x] = job[x]
      BY <1>s
    <3>2. state'[v] = "Pending" /\ result'[v] =>
            \E x \in Strand : at'[x] = "unblock" /\ job'[x].on = v
      BY <1>r, <2>1, <2>3, <3>1 DEF FutureFits
    <3>3. state'[v] = "Done" /\ result'[v] => \E x \in Task : at'[x] = "reset" /\ job'[x].on = v
      BY <1>r, <1>t, <2>1, <2>3, <3>1 DEF FutureFits
    <3> QED
      BY <1>r, <2>1, <2>3, <3>2, <3>3 DEF FutureFits
  <2> QED
    BY <2>2, <2>3
<1>2. Producers'
  <2>1. ASSUME NEW x \in Strand PROVE ProducerFits(x)'
    <3>1. CASE x = s
      BY <1>r, <1>s, <3>1 DEF ProducerFits
    <3>2. CASE x # s
      <4>1. ProducerFits(x) /\ (job[x].kind = "produce" => job[x].on \in Future /\ job[x].on # u)
        BY <1>t, <3>2, StageFacts
      <4> QED
        BY <1>r, <1>s, <3>2, <4>1 DEF ProducerFits
    <3> QED
      BY <3>1, <3>2
  <2>2. \A s1, s2 \in Strand :
          job'[s1].kind = "produce" /\ job'[s2].kind = "produce" /\ job'[s1].on = job'[s2].on
          => s1 = s2
    BY <1>s DEF CoroutineInv, Producers
  <2> QED
    BY <2>1, <2>2 DEF Producers
<1>3. ASSUME NEW x \in Task PROVE TaskFits(x)'
  <2>1. CASE x = s
    BY <1>s, <2>1 DEF TaskFits
  <2>2. CASE x # s
    <3>1. TaskFits(x) /\ at'[x] = at[x] /\ job'[x] = job[x]
      BY <1>s, <1>t, <2>2
    <3>2. Source(x)' = Source(x)
      BY <3>1, SourcesStay
    <3> QED
      BY <3>1, <3>2 DEF TaskFits
  <2> QED
    BY <2>1, <2>2
<1>4. ASSUME NEW f \in Frame PROVE AwaiterFits(f)'
  BY <1>t DEF AwaiterFits
<1>5. Users'
  <2>1. \A x \in Task : job'[x].kind = "consume" => job'[x] = job[x]
    BY <1>s, <1>t
  <2>2. \A t1, t2 \in Task :
          job'[t1].kind = "consume" /\ job'[t2].kind = "consume" /\ job'[t1].on = job'[t2].on
          => t1 = t2
    BY <2>1 DEF CoroutineInv, Users
  <2> QED
    BY <1>3, <1>4, <2>2 DEF Users
<1>6. NodesOfWaiting'
  <2> SUFFICES ASSUME NEW x \in Task, NEW v \in Future
               PROVE  x \in dependents'[v] <=> at'[x] = "waiting" /\ Source(x)' = v
    BY DEF NodesOfWaiting
  <2>1. x \in dependents[v] <=> at[x] = "waiting" /\ Source(x) = v
    BY DEF CoroutineInv, NodesOfWaiting
  <2>2. x # s => Source(x)' = Source(x)
    BY <1>s, <1>t, SourcesStay
  <2> QED
    BY <1>s, <1>t, <2>1, <2>2
<1> QED
  BY <1>1, <1>2, <1>5, <1>6 DEF FuturesInv, FuturesByState

\* The gate of a future is unblocked.
LEMMA FuturesStepUnblock ==
  ASSUME CoroutineInv, NEW s \in Strand, Unblock(s)
  PROVE  FuturesInv'
<1>t. /\ TypeOK /\ \A v \in Future : FutureFits(v)
      /\ \A x \in Strand : ProducerFits(x)
      /\ \A x \in Task : TaskFits(x) /\ x \in Strand /\ x # Main
      /\ \A f \in Frame : AwaiterFits(f)
  BY Disjoint DEF CoroutineInv, FuturesByState, Producers, Users, Strand
<1> DEFINE u == job[s].on
<1>u. /\ at[s] = "unblock" /\ job[s].kind = "produce" /\ u \in Future
      /\ state[u] = "Pending" /\ result[u]
  BY <1>t, StageFacts DEF Unblock, ProducerFits
<1>e. job[s].on = u
  OBVIOUS
<1>d. \A x \in dependents[u] : x \in Task /\ at[x] = "waiting" /\ Source(x) = u
  BY <1>t, <1>u DEF CoroutineInv, NodesOfWaiting, TypeOK
<1>n. /\ state' = [state EXCEPT ![u] = "Unconsumed"]
      /\ dependents' = [dependents EXCEPT ![u] = {}]
      /\ at' = [x \in Strand |-> IF x \in dependents[u] THEN "ready"
                                 ELSE IF x # s THEN at[x]
                                 ELSE IF s = Main THEN "idle" ELSE "end"]
      /\ job' = [job EXCEPT ![s] = IF s = Main THEN NoJob ELSE job[s]]
      /\ UNCHANGED <<result, handles, use, awaits, pc>>
  BY <1>u DEF Unblock, DoneState, coroutineVars
<1> HIDE DEF u
<1>s. /\ state'[u] = "Unconsumed" /\ dependents'[u] = {}
      /\ \A v \in Future : v # u => state'[v] = state[v] /\ dependents'[v] = dependents[v]
      /\ \A x \in dependents[u] : at'[x] = "ready"
      /\ \A x \in Strand : x \notin dependents[u] /\ x # s => at'[x] = at[x]
      /\ \A x \in Strand : x # s => job'[x] = job[x]
      /\ at'[s] = IF s = Main THEN "idle" ELSE "end"
      /\ job'[s] = IF s = Main THEN NoJob ELSE job[s]
  BY <1>t, <1>u, <1>n, <1>d DEF TypeOK, Strand
<1>p. \A x \in Strand : x # s /\ job[x].kind = "produce" => job[x].on # u
  BY <1>u, <1>e DEF CoroutineInv, Producers
<1>1. ASSUME NEW v \in Future PROVE FutureFits(v)'
  <2>1. FutureFits(v)
    BY <1>t
  <2>2. CASE v = u
    BY <1>n, <1>s, <1>u, <2>1, <2>2 DEF FutureFits
  <2>3. CASE v # u
    <3>1. \A x \in Strand : at[x] \in {"unblock", "reset"} /\ job[x].on = v
                            => at'[x] = at[x] /\ job'[x] = job[x]
      BY <1>s, <1>d, <1>e, <2>3
    <3>2. state'[v] = state[v] /\ result'[v] = result[v] /\ use'[v] = use[v]
          /\ dependents'[v] = dependents[v] /\ handles' = handles
      BY <1>n, <1>s, <2>3
    <3>3. state'[v] = "Pending" /\ result'[v] =>
            \E x \in Strand : at'[x] = "unblock" /\ job'[x].on = v
      BY <2>1, <3>1, <3>2 DEF FutureFits
    <3>4. state'[v] = "Done" /\ result'[v] => \E x \in Task : at'[x] = "reset" /\ job'[x].on = v
      BY <1>t, <2>1, <3>1, <3>2 DEF FutureFits
    <3> QED
      BY <2>1, <3>2, <3>3, <3>4 DEF FutureFits
  <2> QED
    BY <2>2, <2>3
<1>2. Producers'
  <2>1. ASSUME NEW x \in Strand, x # s PROVE ProducerFits(x)'
    <3> SUFFICES ASSUME job'[x].kind = "produce", at'[x] \in {"ready", "unblock"}
                 PROVE  ProducerFits(x)'
      BY DEF ProducerFits
    <3>1. job'[x] = job[x] /\ job[x].kind = "produce" /\ job[x].on # u /\ job[x].on \in Future
      BY <1>p, <1>s, <2>1, StageFacts
    <3>2. x \notin dependents[u]
      BY <1>d, <3>1, StageFacts
    <3>3. at'[x] = at[x] /\ state'[job[x].on] = state[job[x].on] /\ result' = result
      BY <1>n, <1>s, <2>1, <3>1, <3>2
    <3>4. ProducerFits(x)
      BY <1>t
    <3> QED
      BY <3>1, <3>3, <3>4 DEF ProducerFits
  <2>2. ProducerFits(s)'
    BY <1>s DEF ProducerFits
  <2>3. \A x \in Strand : job'[x].kind = "produce" => job'[x] = job[x]
    BY <1>s DEF NoJob
  <2>4. \A s1, s2 \in Strand :
          job'[s1].kind = "produce" /\ job'[s2].kind = "produce" /\ job'[s1].on = job'[s2].on
          => s1 = s2
    BY <2>3 DEF CoroutineInv, Producers
  <2> QED
    BY <2>1, <2>2, <2>4 DEF Producers
<1>j. \A x \in Task : job'[x] = job[x]
  BY <1>s, <1>t
<1>3. ASSUME NEW x \in Task PROVE TaskFits(x)'
  <2>0. job'[x] = job[x] /\ Source(x)' = Source(x) /\ TaskFits(x) /\ use' = use
    BY <1>j, <1>n, <1>t, SourcesStay
  <2>1. CASE x \in dependents[u]
    BY <1>d, <1>s, <2>0, <2>1 DEF TaskFits
  <2>2. CASE x = s
    BY <1>s, <1>t, <1>u, <2>0, <2>2 DEF TaskFits
  <2>3. CASE x \notin dependents[u] /\ x # s
    <3>1. at'[x] = at[x]
      BY <1>s, <1>t, <2>3
    <3>2. \A v \in Future : state[v] # "Pending" => state'[v] = state[v]
      BY <1>s, <1>u
    <3>3. at[x] = "reset" => job[x].on \in Future
      BY <1>t, StageFacts
    <3> QED
      BY <2>0, <3>1, <3>2, <3>3 DEF TaskFits
  <2> QED
    BY <2>1, <2>2, <2>3
<1>4. ASSUME NEW f \in Frame PROVE AwaiterFits(f)'
  BY <1>n, <1>s, <1>t, <1>u DEF AwaiterFits
<1>5. Users'
  <2>1. \A t1, t2 \in Task :
          job'[t1].kind = "consume" /\ job'[t2].kind = "consume" /\ job'[t1].on = job'[t2].on
          => t1 = t2
    BY <1>j DEF CoroutineInv, Users
  <2> QED
    BY <1>3, <1>4, <2>1 DEF Users
<1>6. NodesOfWaiting'
  <2> SUFFICES ASSUME NEW x \in Task, NEW v \in Future
               PROVE  x \in dependents'[v] <=> at'[x] = "waiting" /\ Source(x)' = v
    BY DEF NodesOfWaiting
  <2>1. \A w \in Future : x \in dependents[w] <=> at[x] = "waiting" /\ Source(x) = w
    BY DEF CoroutineInv, NodesOfWaiting
  <2>2. Source(x)' = Source(x)
    BY <1>j, <1>n, SourcesStay
  <2>3. CASE x \in dependents[u]
    <3>1. at'[x] = "ready" /\ Source(x) = u
      BY <1>d, <1>s, <2>3
    <3>2. x \notin dependents'[v]
      BY <1>s, <2>1, <3>1
    <3> QED
      BY <3>1, <3>2
  <2>4. CASE x \notin dependents[u]
    <3>1. at'[x] = "waiting" <=> at[x] = "waiting"
      BY <1>s, <1>t, <1>u, <2>4
    <3>2. x \in dependents'[v] <=> x \in dependents[v]
      BY <1>s, <2>4
    <3> QED
      BY <2>1, <2>2, <3>1, <3>2
  <2> QED
    BY <2>3, <2>4
<1> QED
  BY <1>1, <1>2, <1>5, <1>6 DEF FuturesInv, FuturesByState

\* A task gets a job to do when a future is done, or now.
LEMMA FuturesStepQueue ==
  ASSUME CoroutineInv, NEW u \in Future, state[u] # "Pooled", use[u] # "drop",
         NEW t \in Task, at[t] = "idle", NEW k \in {"resume", "read", "consume"}, NEW o,
         QueueAfter(u, t, k, o), UNCHANGED <<state, result, awaits>>,
         \A v \in Future : (\E h \in Holder : <<h, v>> \in handles')
                           <=> (\E h \in Holder : <<h, v>> \in handles),
         \A v \in Future : v # u => use'[v] = use[v],
         use'[u] = use[u] \/ use[u] = "any",
         k = "resume" => o \in Frame /\ awaits[o] = u,
         k \in {"read", "consume"} => o = u,
         k = "read" => use'[u] = "share",
         k = "consume" => use'[u] = "drop" /\ use[u] = "any",
         \A f \in Frame : pc'[f] = "resume" => pc[f] = "resume"
  PROVE  FuturesInv'
<1>t. /\ TypeOK /\ \A v \in Future : FutureFits(v)
      /\ \A x \in Strand : ProducerFits(x)
      /\ \A x \in Task : TaskFits(x) /\ x \in Strand
      /\ \A f \in Frame : AwaiterFits(f)
  BY DEF CoroutineInv, FuturesByState, Producers, Users, Strand
<1>u. state[u] \in {"Pending", "Unconsumed"}
  BY <1>t DEF FutureFits, TypeOK
<1>n. /\ job'[t].kind = k /\ job'[t].on = o
      /\ at'[t] = IF state[u] = "Pending" THEN "waiting" ELSE "ready"
      /\ \A x \in Strand : x # t => at'[x] = at[x] /\ job'[x] = job[x]
      /\ \A v \in Future : v # u => dependents'[v] = dependents[v]
      /\ dependents'[u] = IF state[u] = "Pending" THEN dependents[u] \cup {t} ELSE dependents[u]
  <2>1. /\ job' = [job EXCEPT ![t] = [kind |-> k, on |-> o]]
        /\ at' = [at EXCEPT ![t] = IF state[u] = "Pending" THEN "waiting" ELSE "ready"]
        /\ IF state[u] = "Pending" THEN dependents' = [dependents EXCEPT ![u] = @ \cup {t}]
                                   ELSE dependents' = dependents
    BY DEF QueueAfter
  <2>2. \A v \in Future : v # u => dependents'[v] = dependents[v]
    BY <1>t, <2>1 DEF TypeOK
  <2>3. dependents'[u] = IF state[u] = "Pending" THEN dependents[u] \cup {t} ELSE dependents[u]
    BY <1>t, <2>1 DEF TypeOK
  <2>4. /\ job'[t] = [kind |-> k, on |-> o]
        /\ \A x \in Strand : x # t => at'[x] = at[x] /\ job'[x] = job[x]
        /\ at'[t] = IF state[u] = "Pending" THEN "waiting" ELSE "ready"
    BY <1>t, <2>1 DEF TypeOK
  <2> QED
    BY <2>2, <2>3, <2>4
<1>s. Source(t)' = u
  BY <1>n, Disjoint DEF Source
<1>x. \A x \in Task : x # t => Source(x)' = Source(x)
  BY <1>n, <1>t, SourcesStay
<1>1. ASSUME NEW v \in Future PROVE FutureFits(v)'
  <2>1. FutureFits(v)
    BY <1>t
  <2>2. \A x \in Strand : at[x] \in {"unblock", "reset"} => at'[x] = at[x] /\ job'[x] = job[x]
    BY <1>n
  <2>3. state'[v] = state[v] /\ result'[v] = result[v]
    OBVIOUS
  <2>4. state'[v] = "Pending" /\ result'[v] =>
          \E x \in Strand : at'[x] = "unblock" /\ job'[x].on = v
    BY <2>1, <2>2, <2>3 DEF FutureFits
  <2>5. state'[v] = "Done" /\ result'[v] => \E x \in Task : at'[x] = "reset" /\ job'[x].on = v
    BY <1>t, <2>1, <2>2, <2>3 DEF FutureFits
  <2>6. (\A h \in Holder : <<h, v>> \notin handles') <=> \A h \in Holder : <<h, v>> \notin handles
    OBVIOUS
  <2>7. state[v] # "Pending" => dependents'[v] = {}
    BY <1>n, <2>1 DEF FutureFits
  <2>8. v # u => use'[v] = use[v]
    OBVIOUS
  <2> QED
    BY <1>u, <2>1, <2>3, <2>4, <2>5, <2>6, <2>7, <2>8 DEF FutureFits
<1>2. Producers'
  <2>1. ASSUME NEW x \in Strand PROVE ProducerFits(x)'
    BY <1>n, <1>t DEF ProducerFits
  <2>2. \A s1, s2 \in Strand :
          job'[s1].kind = "produce" /\ job'[s2].kind = "produce" /\ job'[s1].on = job'[s2].on
          => s1 = s2
    BY <1>n DEF CoroutineInv, Producers
  <2> QED
    BY <2>1, <2>2 DEF Producers
<1>3. ASSUME NEW x \in Task PROVE TaskFits(x)'
  <2>1. CASE x = t
    BY <1>n, <1>s, <1>u, <2>1 DEF TaskFits
  <2>2. CASE x # t
    <3>1. TaskFits(x) /\ at'[x] = at[x] /\ job'[x] = job[x] /\ Source(x)' = Source(x)
      BY <1>n, <1>t, <1>x, <2>2
    <3>2. job[x].kind \in {"read", "consume"} => job[x].on \in Future
      BY <1>t, StageFacts
    <3> QED
      BY <3>1, <3>2 DEF TaskFits
  <2> QED
    BY <2>1, <2>2
<1>4. ASSUME NEW f \in Frame PROVE AwaiterFits(f)'
  BY <1>t DEF AwaiterFits
<1>5. Users'
  <2>1. ASSUME NEW t1 \in Task, NEW t2 \in Task, job'[t1].kind = "consume",
               job'[t2].kind = "consume", job'[t1].on = job'[t2].on, t1 # t2
        PROVE  FALSE
    <3>1. \A x \in Task : x # t /\ job'[x].kind = "consume" =>
            job[x].kind = "consume" /\ job'[x].on = job[x].on /\ use[job[x].on] = "drop"
      BY <1>n, <1>t DEF TaskFits
    <3>2. job'[t].kind = "consume" => job'[t].on = u /\ use[u] = "any"
      BY <1>n
    <3>3. \A x1, x2 \in Task :
            job[x1].kind = "consume" /\ job[x2].kind = "consume" /\ job[x1].on = job[x2].on
            => x1 = x2
      BY DEF CoroutineInv, Users
    <3> QED
      BY <2>1, <3>1, <3>2, <3>3
  <2> QED
    BY <1>3, <1>4, <2>1 DEF Users
<1>6. NodesOfWaiting'
  <2> SUFFICES ASSUME NEW x \in Task, NEW v \in Future
               PROVE  x \in dependents'[v] <=> at'[x] = "waiting" /\ Source(x)' = v
    BY DEF NodesOfWaiting
  <2>1. x \in dependents[v] <=> at[x] = "waiting" /\ Source(x) = v
    BY DEF CoroutineInv, NodesOfWaiting
  <2>2. CASE x = t
    BY <1>n, <1>s, <2>1, <2>2
  <2>3. CASE x # t
    BY <1>n, <1>t, <1>x, <2>1, <2>3
  <2> QED
    BY <2>2, <2>3
<1> QED
  BY <1>1, <1>2, <1>5, <1>6 DEF FuturesInv, FuturesByState

\* A result is dropped, and its state goes first.
LEMMA FuturesStepConsume ==
  ASSUME CoroutineInv, NEW t \in Task, RunConsume(t)
  PROVE  FuturesInv'
<1>t. /\ TypeOK /\ \A v \in Future : FutureFits(v)
      /\ \A x \in Strand : ProducerFits(x)
      /\ \A x \in Task : TaskFits(x) /\ x \in Strand
      /\ \A f \in Frame : AwaiterFits(f)
  BY DEF CoroutineInv, FuturesByState, Producers, Users, Strand
<1> DEFINE u == job[t].on
<1>u. /\ at[t] = "ready" /\ job[t].kind = "consume" /\ u \in Future
      /\ state[u] = "Unconsumed" /\ use[u] = "drop"
  <2>1. at[t] = "ready" /\ job[t].kind = "consume" /\ u \in Future /\ Source(t) = u
    BY <1>t, StageFacts, SourceFacts DEF RunConsume
  <2> QED
    BY <1>t, <2>1 DEF TaskFits
<1>e. job[t].on = u
  OBVIOUS
<1>n. /\ state' = [state EXCEPT ![u] = "Done"] /\ at' = [at EXCEPT ![t] = "reset"]
      /\ UNCHANGED <<job, awaits, pc, result, dependents, handles, use>>
  BY DEF RunConsume, coroutineVars
<1> HIDE DEF u
<1>s. /\ state'[u] = "Done" /\ \A v \in Future : v # u => state'[v] = state[v]
      /\ at'[t] = "reset" /\ \A x \in Strand : x # t => at'[x] = at[x]
      /\ \A x \in Task : Source(x)' = Source(x)
  BY <1>n, <1>t, <1>u, SourcesStay DEF TypeOK
<1>1. ASSUME NEW v \in Future PROVE FutureFits(v)'
  <2>1. FutureFits(v)
    BY <1>t
  <2>2. CASE v = u
    <3>1. \E x \in Task : at'[x] = "reset" /\ job'[x].on = v
      BY <1>e, <1>n, <1>s, <2>2
    <3> QED
      BY <1>n, <1>s, <1>u, <2>1, <2>2, <3>1 DEF FutureFits
  <2>3. CASE v # u
    <3>1. \A x \in Strand : at[x] \in {"unblock", "reset"} => at'[x] = at[x]
      BY <1>s, <1>u
    <3>2. state'[v] = "Pending" /\ result'[v] =>
            \E x \in Strand : at'[x] = "unblock" /\ job'[x].on = v
      BY <1>n, <1>s, <2>1, <2>3, <3>1 DEF FutureFits
    <3>3. state'[v] = "Done" /\ result'[v] => \E x \in Task : at'[x] = "reset" /\ job'[x].on = v
      BY <1>n, <1>s, <1>t, <2>1, <2>3, <3>1 DEF FutureFits
    <3> QED
      BY <1>n, <1>s, <2>1, <2>3, <3>2, <3>3 DEF FutureFits
  <2> QED
    BY <2>2, <2>3
<1>2. Producers'
  <2>1. ASSUME NEW x \in Strand PROVE ProducerFits(x)'
    <3>1. x = t => job[x].kind = "consume"
      BY <1>u
    <3>2. ProducerFits(x) /\ (job[x].kind = "produce" => job[x].on \in Future)
      BY <1>t, StageFacts
    <3> QED
      BY <1>n, <1>s, <1>u, <3>1, <3>2 DEF ProducerFits
  <2> QED
    BY <1>n, <2>1 DEF Producers, CoroutineInv
<1>3. ASSUME NEW x \in Task PROVE TaskFits(x)'
  <2>0. TaskFits(x) /\ job'[x] = job[x] /\ Source(x)' = Source(x) /\ use' = use
    BY <1>n, <1>s, <1>t
  <2>1. CASE x = t
    BY <1>e, <1>s, <2>0, <2>1 DEF TaskFits
  <2>2. CASE x # t
    <3>1. at'[x] = at[x]
      BY <1>s, <1>t, <2>2
    <3>2. ASSUME at[x] = "ready", job[x].kind # "produce", Source(x) = u PROVE FALSE
      <4>1. CASE job[x].kind = "resume"
        <5>1. job[x].on \in Frame /\ awaits[job[x].on] = u
          BY <3>2, <4>1, TaskFacts, SourceFacts
        <5> QED
          BY <1>t, <1>u, <5>1 DEF AwaiterFits
      <4>2. CASE job[x].kind = "read"
        BY <1>u, <2>0, <3>2, <4>2, SourceFacts DEF TaskFits
      <4>3. CASE job[x].kind = "consume"
        <5>1. job[x].on = u
          BY <3>2, <4>3, SourceFacts
        <5> QED
          BY <1>e, <1>u, <2>2, <4>3, <5>1 DEF CoroutineInv, Users
      <4>4. CASE job[x].kind = "none"
        BY <1>u, <3>2, <4>4, SourceFacts
      <4> QED
        BY <1>t, <3>2, <4>1, <4>2, <4>3, <4>4, StageFacts
    <3>3. at[x] = "reset" => job[x].on \in Future
      BY <1>t, StageFacts
    <3> QED
      BY <1>s, <2>0, <3>1, <3>2, <3>3 DEF TaskFits
  <2> QED
    BY <2>1, <2>2
<1>4. ASSUME NEW f \in Frame PROVE AwaiterFits(f)'
  BY <1>n, <1>s, <1>t, <1>u DEF AwaiterFits
<1>5. Users'
  BY <1>3, <1>4, <1>n DEF Users, CoroutineInv
<1>6. NodesOfWaiting'
  BY <1>n, <1>s, <1>t, <1>u DEF NodesOfWaiting, CoroutineInv
<1> QED
  BY <1>1, <1>2, <1>5, <1>6 DEF FuturesInv, FuturesByState

\* And then the value.
LEMMA FuturesStepReset ==
  ASSUME CoroutineInv, NEW t \in Task, ResetResult(t)
  PROVE  FuturesInv'
<1>t. /\ TypeOK /\ \A v \in Future : FutureFits(v)
      /\ \A x \in Strand : ProducerFits(x)
      /\ \A x \in Task : TaskFits(x) /\ x \in Strand
      /\ \A f \in Frame : AwaiterFits(f)
  BY DEF CoroutineInv, FuturesByState, Producers, Users, Strand
<1> DEFINE u == job[t].on
<1>u. at[t] = "reset" /\ job[t].kind = "consume" /\ u \in Future /\ state[u] = "Done"
  BY <1>t, StageFacts DEF ResetResult, TaskFits
<1>e. job[t].on = u
  OBVIOUS
<1>n. /\ result' = [result EXCEPT ![u] = FALSE] /\ at' = [at EXCEPT ![t] = "end"]
      /\ UNCHANGED <<job, awaits, pc, state, dependents, handles, use>>
  BY DEF ResetResult, coroutineVars
<1> HIDE DEF u
<1>s. /\ result'[u] = FALSE /\ \A v \in Future : v # u => result'[v] = result[v]
      /\ at'[t] = "end" /\ \A x \in Strand : x # t => at'[x] = at[x]
      /\ \A x \in Task : Source(x)' = Source(x)
  BY <1>n, <1>t, <1>u, SourcesStay DEF TypeOK
<1>1. ASSUME NEW v \in Future PROVE FutureFits(v)'
  <2>1. FutureFits(v)
    BY <1>t
  <2>2. CASE v = u
    BY <1>n, <1>s, <1>u, <2>1, <2>2 DEF FutureFits
  <2>3. CASE v # u
    <3>1. \A x \in Strand : job[x].on = v => at'[x] = at[x]
      BY <1>e, <1>s, <2>3
    <3>2. state'[v] = "Pending" /\ result'[v] =>
            \E x \in Strand : at'[x] = "unblock" /\ job'[x].on = v
      BY <1>n, <1>s, <2>1, <2>3, <3>1 DEF FutureFits
    <3>3. state'[v] = "Done" /\ result'[v] => \E x \in Task : at'[x] = "reset" /\ job'[x].on = v
      BY <1>n, <1>s, <1>t, <2>1, <2>3, <3>1 DEF FutureFits
    <3> QED
      BY <1>n, <1>s, <2>1, <2>3, <3>2, <3>3 DEF FutureFits
  <2> QED
    BY <2>2, <2>3
<1>2. Producers'
  <2>1. ASSUME NEW x \in Strand PROVE ProducerFits(x)'
    <3>1. x = t => job[x].kind = "consume"
      BY <1>u
    <3>2. ProducerFits(x) /\ (job[x].kind = "produce" => job[x].on \in Future)
      BY <1>t, StageFacts
    <3> QED
      BY <1>n, <1>s, <1>u, <3>1, <3>2 DEF ProducerFits
  <2> QED
    BY <1>n, <2>1 DEF Producers, CoroutineInv
<1>3. ASSUME NEW x \in Task PROVE TaskFits(x)'
  <2>1. TaskFits(x) /\ job'[x] = job[x] /\ Source(x)' = Source(x)
        /\ UNCHANGED <<use, state>> /\ (at'[x] = at[x] \/ at'[x] = "end")
    BY <1>n, <1>s, <1>t
  <2> QED
    BY <2>1 DEF TaskFits
<1>4. ASSUME NEW f \in Frame PROVE AwaiterFits(f)'
  BY <1>n, <1>t DEF AwaiterFits
<1>5. Users'
  BY <1>3, <1>4, <1>n DEF Users, CoroutineInv
<1>6. NodesOfWaiting'
  BY <1>n, <1>s, <1>t, <1>u DEF NodesOfWaiting, CoroutineInv
<1> QED
  BY <1>1, <1>2, <1>5, <1>6 DEF FuturesInv, FuturesByState

\* A coroutine begins to await its parameter, whose result is shared from now on.
LEMMA FuturesStepAwait ==
  ASSUME CoroutineInv, NEW s \in Strand, NEW f \in Frame, AwaitFuture(s, f)
  PROVE  FuturesInv'
<1>t. /\ TypeOK /\ \A v \in Future : FutureFits(v)
      /\ \A x \in Task : TaskFits(x) /\ x \in Strand
      /\ \A g \in Frame : AwaiterFits(g)
  BY DEF CoroutineInv, FuturesByState, Users, Strand
<1> DEFINE u == param[f]
<1>n. /\ pc[f] = "body" /\ u \in Future /\ use[u] # "drop"
      /\ awaits' = [awaits EXCEPT ![f] = u] /\ pc' = [pc EXCEPT ![f] = "ready"]
      /\ use' = [use EXCEPT ![u] = "share"]
      /\ UNCHANGED <<at, job, state, result, dependents, handles>>
  BY <1>t DEF AwaitFuture, Runs, TypeOK, threadVars
<1>p. state[u] # "Pooled"
  <2>1. <<f, u>> \in handles /\ f \in Holder
    BY <1>n DEF CoroutineInv, HandlesHeld, Holder
  <2> QED
    BY <1>n, <1>t, <2>1 DEF FutureFits
<1> HIDE DEF u
<1>s. /\ use'[u] = "share" /\ \A v \in Future : v # u => use'[v] = use[v]
      /\ awaits'[f] = u /\ pc'[f] = "ready"
      /\ \A g \in Frame : g # f => awaits'[g] = awaits[g] /\ pc'[g] = pc[g]
  BY <1>n, <1>t DEF TypeOK
<1>x. ASSUME NEW x \in Task, job[x].kind # "none" PROVE Source(x)' = Source(x)
  <2>1. \A g \in Frame : pc[g] = "suspended" => awaits'[g] = awaits[g]
    BY <1>n, <1>s
  <2> QED
    BY <1>n, <1>x, <2>1, SourceStays
<1>1. ASSUME NEW v \in Future PROVE FutureFits(v)'
  <2>1. FutureFits(v)
    BY <1>t
  <2> QED
    BY <1>n, <1>p, <1>s, <2>1 DEF FutureFits
<1>2. Producers'
  BY <1>n DEF Producers, ProducerFits, CoroutineInv
<1>3. ASSUME NEW x \in Task PROVE TaskFits(x)'
  <2>1. TaskFits(x) /\ UNCHANGED <<at, job, state>>
    BY <1>n, <1>t
  <2>2. job[x].kind \in {"read", "consume"} => job[x].on \in Future
    BY <1>t, StageFacts
  <2>3. at[x] = "ready" => job[x].kind # "none"
    BY <1>t DEF CoroutineInv, StrandsByStage, StrandFits, JobsAt
  <2>4. at[x] = "ready" => Source(x)' = Source(x)
    BY <1>x, <2>3
  <2> QED
    BY <1>n, <1>s, <2>1, <2>2, <2>4 DEF TaskFits
<1>4. ASSUME NEW g \in Frame PROVE AwaiterFits(g)'
  BY <1>n, <1>s, <1>t DEF AwaiterFits
<1>5. Users'
  BY <1>3, <1>4, <1>n DEF Users, CoroutineInv
<1>6. NodesOfWaiting'
  <2> SUFFICES ASSUME NEW x \in Task, NEW v \in Future
               PROVE  x \in dependents'[v] <=> at'[x] = "waiting" /\ Source(x)' = v
    BY DEF NodesOfWaiting
  <2>1. x \in dependents[v] <=> at[x] = "waiting" /\ Source(x) = v
    BY DEF CoroutineInv, NodesOfWaiting
  <2>2. at[x] = "waiting" => job[x].kind # "none"
    BY <1>t, StageFacts
  <2> QED
    BY <1>n, <1>x, <2>1, <2>2
<1> QED
  BY <1>1, <1>2, <1>5, <1>6 DEF FuturesInv, FuturesByState

LEMMA FuturesStep ==
  CoroutineInv /\ HandlesHeld' /\ [Next]_vars => FuturesInv'
<1> SUFFICES ASSUME CoroutineInv, HandlesHeld', [Next]_vars PROVE FuturesInv'
  OBVIOUS
<1>t. /\ TypeOK /\ HandlesHeld /\ \A v \in Future : FutureFits(v)
      /\ \A x \in Strand : ProducerFits(x) /\ StrandFits(x)
      /\ \A x \in Frame : AwaiterFits(x) /\ FrameFits(x)
  BY DEF CoroutineInv, FuturesByState, Producers, Users, StrandsByStage, FramesByStage
<1>m. /\ Main \in Holder /\ Main \in Strand
      /\ \A t \in Task : t \in Strand /\ t \in Holder /\ t # Main
      /\ \A f \in Frame : f \in Holder
  BY Disjoint DEF Holder, Strand
<1>1. ASSUME NEW u \in Future, StoreDone(u) PROVE FuturesInv'
  <2>1. /\ at[Main] = "idle" /\ state[u] = "Pending"
        /\ \A t \in Task : job[t] # [kind |-> "produce", on |-> u]
        /\ result' = [result EXCEPT ![u] = TRUE] /\ at' = [at EXCEPT ![Main] = "unblock"]
        /\ job' = [job EXCEPT ![Main] = [kind |-> "produce", on |-> u]]
        /\ UNCHANGED <<state, dependents, handles, use, awaits, pc>>
    BY <1>1 DEF StoreDone, InMain, coroutineVars
  <2>2. \A x \in Strand : x # Main => ~(job[x].kind = "produce" /\ job[x].on = u)
    BY <1>t, <2>1 DEF Strand, TypeOK
  <2> QED
    BY <1>m, <2>1, <2>2, FuturesStepStore
<1>2. ASSUME NEW t \in Task, RunProduce(t) PROVE FuturesInv'
  <2>1. at[t] = "ready" /\ job[t].kind = "produce" /\ job[t].on \in Future
    BY <1>2, <1>m, StageFacts DEF RunProduce
  <2>2. PICK u \in Future : job[t].on = u
    BY <2>1
  <2>3. /\ state[u] = "Pending" /\ result' = [result EXCEPT ![u] = TRUE]
        /\ at' = [at EXCEPT ![t] = "unblock"] /\ job' = job
        /\ UNCHANGED <<state, dependents, handles, use, awaits, pc>>
    BY <1>2, <1>m, <1>t, <2>1, <2>2 DEF RunProduce, ProducerFits, coroutineVars
  <2>4. \A x \in Strand : x # t => ~(job[x].kind = "produce" /\ job[x].on = u)
    BY <1>m, <2>1, <2>2 DEF CoroutineInv, Producers
  <2>5. job[t] = [kind |-> "produce", on |-> u]
    BY <1>m, <1>t, <2>1, <2>2 DEF TypeOK
  <2>6. job' = [job EXCEPT ![t] = [kind |-> "produce", on |-> u]]
    BY <1>m, <1>t, <2>3, <2>5 DEF TypeOK
  <2>7. /\ state[u] = "Pending" /\ result' = [result EXCEPT ![u] = TRUE]
        /\ at' = [at EXCEPT ![t] = "unblock"]
        /\ UNCHANGED <<state, dependents, handles, use, awaits, pc>>
    BY <2>3
  <2>8. t \in Strand /\ (at[t] = "idle" \/ (at[t] = "ready" /\ job[t].kind = "produce"))
    BY <1>m, <2>1
  <2> QED
    BY <2>4, <2>6, <2>7, <2>8, FuturesStepStore
<1>3. ASSUME NEW u \in Future, NEW k \in {"read", "consume"}, ThenUse(u, k) PROVE FuturesInv'
  <2> DEFINE t == Some(FreeTasks)
  <2>1. /\ FreeTasks # {} /\ <<Main, u>> \in handles /\ QueueAfter(u, t, k, u)
        /\ use[u] \in {"any"} \cup (IF k = "read" THEN {"share"} ELSE {})
        /\ use' = [use EXCEPT ![u] = IF k = "read" THEN "share" ELSE "drop"]
        /\ handles' = handles \cup {<<t, u>>}
        /\ UNCHANGED <<state, result, awaits, pc>>
    BY <1>3 DEF ThenUse, coroutineVars
  <2>2. t \in Task /\ at[t] = "idle"
    BY <2>1, SomeTaskIdle
  <2> HIDE DEF t
  <2>3. state[u] # "Pooled"
    BY <1>m, <1>t, <2>1 DEF FutureFits
  <2>4. /\ use[u] # "drop" /\ (\A v \in Future : v # u => use'[v] = use[v])
        /\ use'[u] = use[u] \/ use[u] = "any"
        /\ k = "read" => use'[u] = "share"
        /\ k = "consume" => use'[u] = "drop" /\ use[u] = "any"
    BY <1>t, <2>1 DEF TypeOK
  <2>5. \A v \in Future : (\E h \in Holder : <<h, v>> \in handles')
                          <=> (\E h \in Holder : <<h, v>> \in handles)
    BY <1>m, <2>1
  <2> QED
    BY <2>1, <2>2, <2>3, <2>4, <2>5, FuturesStepQueue
<1>4. ASSUME NEW s \in Strand, NEW f \in Frame, Then(s, f) PROVE FuturesInv'
  <2> DEFINE t == Some(FreeTasks)
             u == awaits[f]
  <2>1. /\ FreeTasks # {} /\ pc[f] = "then" /\ QueueAfter(u, t, "resume", f)
        /\ pc' = [pc EXCEPT ![f] = "suspended"]
        /\ UNCHANGED <<state, result, awaits, handles, use>>
    BY <1>4 DEF Then, Runs
  <2>2. t \in Task /\ at[t] = "idle"
    BY <2>1, SomeTaskIdle
  <2>3. u \in Future /\ use[u] = "share" /\ <<f, u>> \in handles
    BY <1>t, <2>1 DEF FrameFits, AwaiterFits, HandlesHeld
  <2>4. state[u] # "Pooled"
    BY <1>m, <1>t, <2>3 DEF FutureFits
  <2>5. \A g \in Frame : pc'[g] = "resume" => pc[g] = "resume"
    BY <1>t, <2>1 DEF TypeOK
  <2>6. awaits[f] = u
    OBVIOUS
  <2> HIDE DEF t, u
  <2> QED
    BY <2>1, <2>2, <2>3, <2>4, <2>5, <2>6, FuturesStepQueue
<1>5. ASSUME NEW s \in Strand, Proceed(s) PROVE FuturesInv'
  BY <1>1, <1>2, <1>4, <1>5, FuturesStepUntouched, FuturesStepRelease, FuturesStepUnblock,
     FuturesStepConsume, FuturesStepReset
  DEF Proceed, RunCoroutine, RunTask
<1>6. CASE Program
  BY <1>3, <1>6, FuturesStepUntouched, FuturesStepRelease, FuturesStepNew, FuturesStepAwait
  DEF Program, Owner
<1>7. CASE UNCHANGED vars
  BY <1>7, FuturesStepUntouched
<1> QED
  BY <1>5, <1>6, <1>7 DEF Next
-----------------------------------------------------------------------------
(* No assertion fails. *)

LEMMA NoFailureStep ==
  CoroutineInv /\ [Next]_vars => failed' = "none"
<1> SUFFICES ASSUME CoroutineInv, [Next]_vars PROVE failed' = "none"
  OBVIOUS
<1>t. /\ TypeOK /\ failed = "none" /\ HandlesHeld
      /\ \A x \in Frame : AwaiterFits(x) /\ FrameFits(x)
      /\ \A x \in Task : TaskFits(x) /\ x \in Strand
  BY DEF CoroutineInv, Users, FramesByStage, Strand
\* A result is there when it is read or dropped.
<1>1. ASSUME NEW t \in Task, RunRead(t) \/ RunConsume(t) PROVE failed' = "none"
  <2>1. at[t] = "ready" /\ job[t].kind \in {"read", "consume"}
    BY <1>1 DEF RunRead, RunConsume
  <2>2. job[t].on \in Future /\ Source(t) = job[t].on
    BY <1>t, <2>1, StageFacts, SourceFacts
  <2>3. state[job[t].on] = "Unconsumed"
    BY <1>t, <2>1, <2>2 DEF TaskFits
  <2> QED
    BY <1>1, <2>3 DEF RunRead, RunConsume
\* The word of a coroutine that is awaited by one that still runs is empty.
<1>2. ASSUME NEW s \in Strand, NEW f \in Frame, TrySet(s, f) PROVE failed' = "none"
  <2> DEFINE g == awaits[f]
  <2>1. pc[f] = "trySet" /\ g \in Frame
    BY <1>2, <1>t DEF TrySet, Runs, FrameFits
  <2>2. word[g].value = None
    <3> SUFFICES ASSUME word[g].value # None PROVE FALSE
      OBVIOUS
    <3>1. word[g].value \in Frame /\ pc[word[g].value] = "suspended" /\ awaits[word[g].value] = g
      BY <2>1, WordFacts
    <3>2. word[g].value = f
      BY <2>1, <3>1, OwnedFacts
    <3> QED
      BY <2>1, <3>1, <3>2
  <2> QED
    BY <1>2, <1>t, <2>2 DEF TrySet
\* The result that a coroutine awaits is there when it goes on.
<1>3. ASSUME NEW s \in Strand, NEW f \in Frame, ResumeFuture(s, f) PROVE failed' = "none"
  <2>1. pc[f] = "resume" /\ awaits[f] \in Future
    BY <1>3 DEF ResumeFuture, Runs
  <2>2. state[awaits[f]] = "Unconsumed"
    BY <1>t, <2>1 DEF AwaiterFits
  <2> QED
    BY <1>3, <2>2 DEF ResumeFuture
\* The coroutine that it awaits has finished.
<1>4. ASSUME NEW s \in Strand, NEW f \in Frame, ResumeChild(s, f) PROVE failed' = "none"
  <2>1. pc[f] = "resume" /\ awaits[f] \in Frame
    BY <1>4 DEF ResumeChild, Runs
  <2>2. pc[awaits[f]] = "done"
    BY <1>t, <2>1 DEF FrameFits
  <2>3. returned[awaits[f]] /\ IsDone(awaits[f])
    BY <1>t, <2>1, <2>2 DEF FrameFits
  <2> QED
    BY <1>4, <2>3 DEF ResumeChild
<1>5. ASSUME NEW s \in Strand, NEW f \in Frame,
             \/ AwaitChild(s, f) \/ AwaitReady(s, f) \/ Then(s, f)
             \/ Return(s, f) \/ Close(s, f) \/ EndDetached(s, f) \/ AwaitFuture(s, f)
             \/ \E t \in Task, u \in Future : AwaitTask(s, f, t, u)
             \/ \E g \in Frame : CallCoroutine(s, f, g)
      PROVE  failed' = "none"
  BY <1>5, <1>t
  DEF AwaitChild, AwaitReady, Then, Return, Close, EndDetached, AwaitFuture, AwaitTask, NewTask,
      CallCoroutine, Create
<1>6. ASSUME NEW t \in Task,
             RunResume(t) \/ RunProduce(t) \/ ResetResult(t) \/ EndTask(t)
      PROVE  failed' = "none"
  BY <1>6, <1>t DEF RunResume, RunProduce, ResetResult, EndTask
<1>7. ASSUME NEW s \in Strand, Proceed(s) PROVE failed' = "none"
  <2>1. Unblock(s) \/ (\E u \in Future : StoreDone(u)) => failed' = "none"
    BY <1>t DEF Unblock, StoreDone
  <2> QED
    BY <1>1, <1>2, <1>3, <1>4, <1>5, <1>6, <1>7, <2>1 DEF Proceed, RunCoroutine, RunTask
<1>8. CASE Program
  <2>1. MakeFuture \/ (\E t \in Task, u \in Future : InitializeTask(t, u)) => failed' = "none"
    BY <1>t DEF MakeFuture, InitializeTask, NewTask
  <2>2. ASSUME NEW u \in Future, ThenUse(u, "read") \/ ThenUse(u, "consume") \/ DropFuture(u)
        PROVE  failed' = "none"
    BY <1>t, <2>2 DEF ThenUse, DropFuture
  <2>3. ASSUME NEW f \in Frame, NEW u \in Future \cup {None},
               StartAttached(f, u) \/ StartAndDetach(f, u) \/ AsyncResume(f, u)
        PROVE  failed' = "none"
    BY <1>t, <2>3 DEF StartAttached, StartAndDetach, AsyncResume, Create
  <2>4. ASSUME NEW h \in Frame \cup {Main}, DropHandle(h) PROVE failed' = "none"
    BY <1>t, <2>4 DEF DropHandle
  <2> QED
    BY <1>5, <1>8, <2>1, <2>2, <2>3, <2>4 DEF Program
<1>9. CASE UNCHANGED vars
  BY <1>9, <1>t DEF vars
<1> QED
  BY <1>7, <1>8, <1>9 DEF Next
-----------------------------------------------------------------------------
(* The invariant. *)

LEMMA InvariantInit ==
  Init => CoroutineInv
<1> SUFFICES ASSUME Init PROVE CoroutineInv
  OBVIOUS
<1>1. TypeOK
  <2>1. left \in 0..Calls /\ {} \subseteq Holder \X Future
    BY CoroutinesAssumption DEF Init
  <2>2. stack \in [Strand -> Seq(Frame)]
    BY DEF Init
  <2>3. Open \in [value : FrameOrNone, gate : {"Unfinished", "Done"}]
    BY DEF Open, FrameOrNone
  <2>4. NoJob \in [kind : {"none", "resume", "produce", "read", "consume"},
                   on : FrameOrNone \cup Future]
    BY DEF NoJob, FrameOrNone
  <2>5. dependents \in [Future -> SUBSET Task]
    BY DEF Init
  <2>6. word \in [Frame -> [value : FrameOrNone, gate : {"Unfinished", "Done"}]]
    BY <2>3 DEF Init
  <2>7. job \in [Strand -> [kind : {"none", "resume", "produce", "read", "consume"},
                            on : FrameOrNone \cup Future]]
    BY <2>4 DEF Init
  <2>8. child \in [Frame \cup {Main} -> FrameOrNone]
    BY DEF Init, FrameOrNone
  <2> QED
    BY <2>1, <2>2, <2>5, <2>6, <2>7, <2>8 DEF Init, TypeOK, FrameOrNone
<1>2. FramesByStage
  BY Disjoint DEF Init, FramesByStage, FrameFits, IsDone, Open
<1>3. FramesOwned /\ NoCircle
  <2>1. \A h \in Owner, g \in Frame : ~Owns(h, g)
    BY Disjoint DEF Init, Owns, Owner
  <2> QED
    BY <2>1, Disjoint DEF Init, FramesOwned, NoCircle, Owner
<1>4. OnStacks
  BY EmptyStack DEF Init, OnStacks, Running
<1>s. \A s \in Strand : at[s] = "idle" /\ job[s].kind = "none" /\ job[s] = NoJob /\ job[s].on = None
                        /\ stack[s] = <<>>
  BY DEF Init, NoJob
<1>k. \A t \in Task : t \in Strand
  BY DEF Strand
<1>5. InTasks /\ InWords
  BY <1>k, <1>s, Disjoint DEF Init, InTasks, InWords, AwaitsTask, Open
<1>6. StrandsByStage
  BY <1>s DEF StrandsByStage, StrandFits, JobsAt
<1>7. HandlesHeld
  BY <1>k, <1>s, Disjoint DEF Init, HandlesHeld, Strand
<1>8. FuturesByState
  BY DEF Init, FuturesByState, FutureFits
<1>9. Producers
  BY <1>s DEF Producers, ProducerFits
<1>10. Users
  BY <1>k, <1>s, Disjoint DEF Init, Users, TaskFits, AwaiterFits
<1>11. NodesOfWaiting
  BY <1>k, <1>s DEF Init, NodesOfWaiting
<1>12. failed = "none"
  BY DEF Init
<1> QED
  BY <1>1, <1>2, <1>3, <1>4, <1>5, <1>6, <1>7, <1>8, <1>9, <1>10, <1>11, <1>12 DEF CoroutineInv

LEMMA InvariantStep ==
  CoroutineInv /\ [Next]_vars => CoroutineInv'
<1> SUFFICES ASSUME CoroutineInv, [Next]_vars PROVE CoroutineInv'
  OBVIOUS
<1>1. TypeOK' /\ failed' = "none"
  BY TypesStep, NoFailureStep
<1>2. FramesByStage'
  BY <1>1, FramesStep
<1>3. FramesOwned' /\ NoCircle'
  BY <1>1, OwnersStep
<1>4. OnStacks'
  BY <1>1, StacksStep
<1>5. InTasks' /\ InWords'
  BY SuspendedStep
<1>6. StrandsByStage' /\ HandlesHeld'
  BY StrandsStep, HandlesStep
<1>7. FuturesByState' /\ Producers' /\ Users' /\ NodesOfWaiting'
  BY <1>6, FuturesStep DEF FuturesInv
<1> QED
  BY <1>1, <1>2, <1>3, <1>4, <1>5, <1>6, <1>7 DEF CoroutineInv

\* Everything above holds in every state: the stages of frames, strands and futures fit
\* together, and each handle, reference and node is where the code needs it.
THEOREM CoroutineInvariance == Spec => []CoroutineInv
<1> QED
  BY InvariantInit, InvariantStep, PTL DEF Spec
-----------------------------------------------------------------------------
(* What follows from it. *)

LEMMA EachInOnePlace ==
  CoroutineInv => OneResumer
<1> SUFFICES ASSUME CoroutineInv, NEW f \in Frame
             PROVE  Cardinality(Places(f)) = IF pc[f] \in {"none", "done"} THEN 0 ELSE 1
  BY DEF OneResumer
<1>t. /\ TypeOK /\ \A g \in Frame : FrameFits(g)
      /\ \A t \in Task : t \in Strand
  BY DEF CoroutineInv, FramesByStage, Strand
<1>e. Cardinality({}) = 0 /\ \A x : Cardinality({x}) = 1
  BY FS_EmptySet, FS_Singleton
<1>p. \A x : x \in Places(f) <=>
        \/ \E s \in Strand : x = <<"stack", s>> /\ f \in Range(stack[s])
        \/ \E t \in Task : x = <<"task", t>> /\ job[t] = [kind |-> "resume", on |-> f]
        \/ \E g \in Frame : x = <<"word", g>> /\ word[g] = [value |-> f, gate |-> "Unfinished"]
  BY DEF Places
<1>s. pc[f] \in Running <=> \E s \in Strand : f \in Range(stack[s])
  BY DEF CoroutineInv, OnStacks
<1>j. \A t \in Task : job[t] = [kind |-> "resume", on |-> f]
                      <=> job[t].kind = "resume" /\ job[t].on = f
  BY <1>t DEF TypeOK
<1>k. (\E t \in Task : job[t].kind = "resume" /\ job[t].on = f) <=> AwaitsTask(f)
  BY DEF CoroutineInv, InTasks
\* The word of one that has finished is empty.
<1>w. \A g \in Frame : word[g] = [value |-> f, gate |-> "Unfinished"]
                       <=> pc[f] = "suspended" /\ awaits[f] = g
  <2> SUFFICES ASSUME NEW g \in Frame
               PROVE  word[g] = [value |-> f, gate |-> "Unfinished"]
                      <=> pc[f] = "suspended" /\ awaits[f] = g
    OBVIOUS
  <2>1. word[g].value = f <=> pc[f] = "suspended" /\ awaits[f] = g
    BY DEF CoroutineInv, InWords
  <2>2. word[g].value = f => word[g].gate = "Unfinished"
    BY <1>t, Disjoint DEF FrameFits, IsDone, TypeOK
  <2>3. word[g] \in [value : FrameOrNone, gate : {"Unfinished", "Done"}]
    BY <1>t DEF TypeOK
  <2>4. word[g] = [value |-> f, gate |-> "Unfinished"]
        <=> word[g].value = f /\ word[g].gate = "Unfinished"
    BY <2>3
  <2> QED
    BY <2>1, <2>2, <2>4
<1>1. CASE pc[f] \in Running
  <2>1. PICK s \in Strand : f \in Range(stack[s])
    BY <1>1, <1>s
  <2>2. \A r \in Strand : f \in Range(stack[r]) => r = s
    BY <2>1 DEF CoroutineInv, OnStacks
  <2>3. pc[f] # "suspended" /\ pc[f] \notin {"none", "done"}
    BY <1>1 DEF Running
  <2>4. Places(f) = {<<"stack", s>>}
    <3>1. \A x : x \in Places(f) <=> x = <<"stack", s>>
      BY <1>j, <1>k, <1>p, <1>w, <2>1, <2>2, <2>3 DEF AwaitsTask
    <3> QED
      BY <3>1
  <2> QED
    BY <1>e, <2>3, <2>4
<1>2. CASE pc[f] = "suspended" /\ awaits[f] \in Frame
  <2>1. ~AwaitsTask(f) /\ pc[f] \notin Running
    BY <1>2 DEF AwaitsTask, Running
  <2>2. Places(f) = {<<"word", awaits[f]>>}
    <3>1. \A x : x \in Places(f) <=> x = <<"word", awaits[f]>>
      BY <1>2, <1>j, <1>k, <1>p, <1>s, <1>w, <2>1
    <3> QED
      BY <3>1
  <2> QED
    BY <1>2, <1>e, <2>2
<1>3. CASE pc[f] = "suspended" /\ awaits[f] \notin Frame
  <2>1. AwaitsTask(f) /\ pc[f] \notin Running
    BY <1>3 DEF AwaitsTask, Running
  <2>2. PICK t \in Task : job[t].kind = "resume" /\ job[t].on = f
    BY <1>k, <2>1
  <2>3. \A r \in Task : job[r].kind = "resume" /\ job[r].on = f => r = t
    BY <2>2 DEF CoroutineInv, InTasks
  <2>4. Places(f) = {<<"task", t>>}
    <3>1. \A x : x \in Places(f) <=> x = <<"task", t>>
      BY <1>3, <1>j, <1>p, <1>s, <1>w, <2>1, <2>2, <2>3
    <3> QED
      BY <3>1
  <2> QED
    BY <1>3, <1>e, <2>4
<1>4. CASE pc[f] \in {"none", "done"}
  <2>1. ~AwaitsTask(f) /\ pc[f] \notin Running /\ pc[f] # "suspended"
    BY <1>4 DEF AwaitsTask, Running
  <2>2. Places(f) = {}
    <3>1. \A x : x \notin Places(f)
      BY <1>j, <1>k, <1>p, <1>s, <1>w, <2>1
    <3> QED
      BY <3>1
  <2> QED
    BY <1>4, <1>e, <2>2
<1>5. pc[f] \in Running \/ pc[f] \in {"none", "suspended", "done"}
  BY <1>t DEF TypeOK, Running
<1> QED
  BY <1>1, <1>2, <1>3, <1>4, <1>5

\* When all is over no coroutine is left: those that have not finished would wait for
\* one another in a circle, and the others have an owner that has not finished.
LEMMA NoneIsLeft ==
  CoroutineInv /\ Quiet => \A f \in Frame : pc[f] = "none"
<1> SUFFICES ASSUME CoroutineInv, Quiet PROVE \A f \in Frame : pc[f] = "none"
  OBVIOUS
<1> DEFINE S == {f \in Frame : pc[f] \notin {"none", "done"}}
<1>t. /\ TypeOK /\ \A g \in Frame : FrameFits(g)
      /\ \A t \in Task : t \in Strand /\ t # Main
  BY Disjoint DEF CoroutineInv, FramesByStage, Strand
<1>1. \A s \in Strand : stack[s] = <<>>
  BY <1>t DEF Quiet, InMain, CoroutineInv, StrandsByStage, StrandFits, Strand
<1>2. \A f \in Frame : pc[f] \notin Running
  BY <1>1, EmptyStack DEF CoroutineInv, OnStacks
<1>3. \A t \in Task : job[t].kind # "resume"
  BY <1>t, IdleJobs DEF Quiet
<1>4. \A f \in S : pc[f] = "suspended"
  BY <1>2, <1>t DEF TypeOK, Running
<1>5. ASSUME NEW f \in S PROVE \E g \in S : Owns(f, g)
  <2>1. f \in Frame /\ pc[f] = "suspended"
    BY <1>4
  <2>2. ~AwaitsTask(f)
    BY <1>3, <2>1 DEF CoroutineInv, InTasks
  <2>3. PICK g \in Frame : awaits[f] = g
    BY <2>1, <2>2 DEF AwaitsTask
  <2>4. word[g].value = f
    BY <2>1, <2>3 DEF CoroutineInv, InWords
  <2>5. pc[g] \notin {"none", "done"}
    BY <1>t, <2>1, <2>4, Disjoint DEF FrameFits
  <2> QED
    BY <2>1, <2>3, <2>5 DEF Owns
<1>6. S = {}
  BY <1>5 DEF CoroutineInv, NoCircle
<1>7. ASSUME NEW g \in Frame, pc[g] = "done" PROVE FALSE
  <2>1. ~detached[g]
    BY <1>7, <1>t DEF FrameFits
  <2>2. PICK h \in Owner : Owns(h, g)
    BY <1>7, <2>1 DEF CoroutineInv, FramesOwned
  <2>3. h # Main
    BY <2>2, Disjoint DEF Quiet, Owns
  <2>4. h \in Frame /\ pc[h] \in {"none", "done"}
    BY <1>6, <2>3 DEF Owner
  <2>5. child[h] = None /\ awaits[h] = None
    BY <1>t, <2>4 DEF FrameFits
  <2> QED
    BY <2>2, <2>5, Disjoint DEF Owns
<1> QED
  BY <1>6, <1>7

LEMMA AllIsGivenBack ==
  CoroutineInv => NothingLeaks
<1> SUFFICES ASSUME CoroutineInv, Quiet
             PROVE  /\ \A f \in Frame : memory[f] # "used"
                    /\ \A u \in Future : state[u] = "Pooled"
  BY DEF NothingLeaks
<1>t. /\ HandlesHeld
      /\ \A f \in Frame : FrameFits(f)
      /\ \A u \in Future : FutureFits(u)
      /\ \A t \in Task : t \in Strand
  BY DEF CoroutineInv, FramesByStage, FuturesByState, Strand
<1>1. \A f \in Frame : pc[f] = "none" /\ param[f] = None /\ awaits[f] = None
  BY <1>t, NoneIsLeft DEF FrameFits
<1>2. \A f \in Frame : memory[f] # "used"
  BY <1>1, <1>t DEF FrameFits
<1>3. \A t \in Task : job[t].on = None
  BY <1>t, IdleJobs DEF Quiet, NoJob
<1>4. ASSUME NEW u \in Future PROVE state[u] = "Pooled"
  <2>1. \A h \in Holder : <<h, u>> \notin handles
    BY <1>1, <1>3, <1>t, Disjoint DEF HandlesHeld, Quiet, Holder, Strand
  <2> QED
    BY <1>t, <2>1 DEF FutureFits
<1> QED
  BY <1>2, <1>4

\* Every variable keeps its type.
THEOREM CoroutineTypesCorrect == Spec => []TypeOK
<1>1. CoroutineInv => TypeOK
  BY DEF CoroutineInv
<1> QED
  BY <1>1, CoroutineInvariance, PTL

\* A coroutine that has not finished is on one stack, with one task, or in one
\* continuation word, and any other one in none: TrySet and Close of two threads, and
\* the gates of futures, neither lose a coroutine nor resume it twice.
THEOREM OneResumerEach == Spec => []OneResumer
<1> QED
  BY EachInOnePlace, CoroutineInvariance, PTL

\* The assertions of await_resume and TrySet never fail, nor that of ~TUniqueHandle when
\* an awaiter destroys its handle.
THEOREM AwaitsFinished == Spec => []AwaitedFinished
<1>1. CoroutineInv => AwaitedFinished
  BY DEF CoroutineInv, AwaitedFinished
<1> QED
  BY <1>1, CoroutineInvariance, PTL

\* The assertions of ShareResult, DropResult and OnRefCountZero never fail: who uses a
\* result finds it, and a future in its pool has none.
THEOREM ResultsAlwaysReadable == Spec => []ResultsReadable
<1>1. CoroutineInv => ResultsReadable
  <2> SUFFICES ASSUME CoroutineInv, NEW u \in Future
               PROVE  /\ failed # "no_result"
                      /\ state[u] = "Pooled" => ~result[u] /\ dependents[u] = {}
                      /\ state[u] = "Unconsumed" => result[u]
    BY DEF ResultsReadable, CoroutineInv
  <2>1. FutureFits(u) /\ failed = "none"
    BY DEF CoroutineInv, FuturesByState
  <2> QED
    BY <2>1 DEF FutureFits
<1> QED
  BY <1>1, CoroutineInvariance, PTL

\* When main holds nothing and no task is left, every frame is in the allocator again
\* and every future in its pool, as ensure_allocator_free requires.
THEOREM NothingIsLeaked == Spec => []NothingLeaks
<1> QED
  BY AllIsGivenBack, CoroutineInvariance, PTL
=============================================================================
