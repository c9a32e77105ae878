-------------------------------- MODULE Pool --------------------------------
(***************************************************************************)
(* A pool of nodes (Pool.h): the free nodes are in one lock-free stack     *)
(* that all threads share (Stack in LockFree.h), and in a small stack of   *)
(* each worker thread, which only that thread touches.  All lists run      *)
(* through NextRef of the nodes, which the rest of the program uses for    *)
(* its own lists while it has the nodes.  Head and tag of the shared stack *)
(* are one atomic word; the load of that word, the access to NextRef and   *)
(* the compare-and-swap are steps of their own, and so is what follows it. *)
(* A weak compare-and-swap that fails for no reason only repeats a step.   *)
(***************************************************************************)
EXTENDS Naturals, FiniteSets, Functions

CONSTANTS Worker,                \* threads with t_worker_thread_idx, and so a stack
          Client,                \* threads without
          Size,                  \* nodes of the pool
          ElementsPerThread,     \* nodes each worker's stack begins with
          MaxElementsPerThread,  \* nodes it may have
          MaxTag                 \* bound: operations on the shared stack in one run

Thread == Worker \cup Client
Node == 0..(Size - 1)
kInvalidIndex == 65535
Index == Node \cup {kInvalidIndex}

ASSUME PoolAssumption ==
  /\ IsFiniteSet(Worker) /\ IsFiniteSet(Client) /\ Worker \cap Client = {}
  /\ Size \in Nat \ {0} /\ Size < kInvalidIndex /\ MaxTag \in Nat
  /\ ElementsPerThread \in Nat /\ MaxElementsPerThread \in Nat
  /\ ElementsPerThread <= MaxElementsPerThread
  /\ Cardinality(Worker) * ElementsPerThread < Size

VARIABLES
  next,           \* next[n]: NextRef of node n
  free,           \* free_: the word of the shared stack
  local, size,    \* head_ and size_ of each worker's stack
  used,           \* the nodes the program has
  pc,             \* where a thread is
  node, tail,     \* first and last node of the chain it returns, or the node it popped
  state,          \* the word it has loaded
  new_head,       \* the head its compare-and-swap would store
  failed          \* Acquire has failed its assertion
listVars == <<next, free, local, size>>
frameVars == <<node, tail, state, new_head>>
vars == <<listVars, used, pc, frameVars, failed>>

Word == [head : Index, tag : 0..MaxTag]

TypeOK ==
  /\ next \in [Node -> Index] /\ free \in Word
  /\ local \in [Worker -> Index] /\ size \in [Worker -> 0..MaxElementsPerThread]
  /\ used \subseteq Node
  /\ pc \in [Thread -> {"idle", "popNext", "popSwap", "popped", "pushLink", "pushSwap"}]
  /\ node \in [Thread -> Index] /\ tail \in [Thread -> Index]
  /\ state \in [Thread -> Word] /\ new_head \in [Thread -> Index]
  /\ failed \in BOOLEAN

\* The constructor: each worker gets a run of ElementsPerThread nodes, the rest
\* is one chain in the shared stack.
Init ==
  LET given == Cardinality(Worker) * ElementsPerThread
      first(i) == i * ElementsPerThread
      last(i) == first(i) + ElementsPerThread - 1
      ends == {Size - 1} \cup {n \in Node : \E i \in 0..(Cardinality(Worker) - 1) : n = last(i)}
  IN
  /\ next = [n \in Node |-> IF n \in ends THEN kInvalidIndex ELSE n + 1]
  /\ free = [head |-> given, tag |-> 0]
  /\ \E index \in Bijection(Worker, 0..(Cardinality(Worker) - 1)) :
       local = [w \in Worker |-> IF ElementsPerThread = 0 THEN kInvalidIndex ELSE first(index[w])]
  /\ size = [w \in Worker |-> ElementsPerThread]
  /\ used = {}
  /\ pc = [th \in Thread |-> "idle"]
  /\ node = [th \in Thread |-> kInvalidIndex] /\ tail = [th \in Thread |-> kInvalidIndex]
  /\ state = [th \in Thread |-> [head |-> kInvalidIndex, tag |-> 0]]
  /\ new_head = [th \in Thread |-> kInvalidIndex]
  /\ failed = FALSE

Goto(th, label) == pc' = [pc EXCEPT ![th] = label]

\* Another operation on the shared stack stays within the bound.
WithinBound == free.tag + Cardinality({th \in Thread : pc[th] # "idle"}) < MaxTag

\* The thread loads the word of the shared stack.
Load(th) == state' = [state EXCEPT ![th] = free]
Forget(th) == state' = [state EXCEPT ![th] = [head |-> kInvalidIndex, tag |-> 0]]
-----------------------------------------------------------------------------
(* Acquire. *)

\* A worker with nodes of its own takes the first of them.
AcquireLocal(w) ==
  LET n == local[w] IN
  /\ pc[w] = "idle" /\ size[w] > 0
  /\ local' = [local EXCEPT ![w] = next[n]]
  /\ next' = [next EXCEPT ![n] = kInvalidIndex]
  /\ size' = [size EXCEPT ![w] = @ - 1]
  /\ used' = used \cup {n}
  /\ UNCHANGED <<free, pc, frameVars, failed>>

\* Everyone else pops from the shared stack: the word is loaded...
AcquireShared(th) ==
  /\ pc[th] = "idle" /\ WithinBound
  /\ th \in Worker => size[th] = 0
  /\ Load(th)
  /\ Goto(th, "popNext")
  /\ UNCHANGED <<listVars, used, node, tail, new_head, failed>>

\* ... NextRef of its head is read, which may belong to someone else by now...
ReadNext(th) ==
  /\ pc[th] = "popNext"
  /\ IF state[th].head = kInvalidIndex
     THEN failed' = TRUE /\ UNCHANGED <<new_head, pc>>
     ELSE /\ new_head' = [new_head EXCEPT ![th] = next[state[th].head]]
          /\ Goto(th, "popSwap")
          /\ UNCHANGED failed
  /\ UNCHANGED <<listVars, used, node, tail, state>>

\* A stack without tags.
UnchangedWordMutant(th) == free.head = state[th].head
UnchangedWord(th) == free = state[th]

\* A failed compare-and-swap that does not reload the word.
ReloadMutant(th, label) == UNCHANGED state /\ Goto(th, label)
Reload(th, label) == Load(th) /\ Goto(th, label)

\* ... and the compare-and-swap takes the head off, or starts again.
PopSwap(th) ==
  /\ pc[th] = "popSwap"
  /\ IF UnchangedWord(th)
     THEN /\ free' = [head |-> new_head[th], tag |-> free.tag + 1]
          /\ node' = [node EXCEPT ![th] = state[th].head]
          /\ Forget(th)
          /\ Goto(th, "popped")
     ELSE /\ Reload(th, "popNext")
          /\ UNCHANGED <<free, node>>
  /\ new_head' = [new_head EXCEPT ![th] = kInvalidIndex]
  /\ UNCHANGED <<next, local, size, used, tail, failed>>

\* The popped node is unlinked, and the program has it.
Popped(th) ==
  /\ pc[th] = "popped"
  /\ next' = [next EXCEPT ![node[th]] = kInvalidIndex]
  /\ used' = used \cup {node[th]}
  /\ node' = [node EXCEPT ![th] = kInvalidIndex]
  /\ Goto(th, "idle")
  /\ UNCHANGED <<free, local, size, tail, state, new_head, failed>>
-----------------------------------------------------------------------------
(* Return and ReturnChain: n and m are the first and the last node, and the *)
(* program has linked them; Return is the case of one node.                 *)

Chain(n, m) ==
  /\ {n, m} \subseteq used
  /\ n # m => next[n] = m /\ next[m] = kInvalidIndex

\* A room test that does not count the chain.
HasRoomMutant(w, len) == size[w] <= MaxElementsPerThread
HasRoom(w, len) == size[w] + len <= MaxElementsPerThread

\* A chain counted as one node.
GrowMutant(w, len) == size' = [size EXCEPT ![w] = @ + 1]
Grow(w, len) == size' = [size EXCEPT ![w] = @ + len]

\* A worker whose stack has room pushes the nodes there.
ReturnLocal(w, n, m) ==
  LET len == Cardinality({n, m}) IN
  /\ pc[w] = "idle" /\ Chain(n, m) /\ HasRoom(w, len)
  /\ next' = [next EXCEPT ![m] = local[w]]
  /\ local' = [local EXCEPT ![w] = n]
  /\ Grow(w, len)
  /\ used' = used \ {n, m}
  /\ UNCHANGED <<free, pc, frameVars, failed>>

\* Everyone else pushes them on the shared stack: the word is loaded...
ReturnShared(th, n, m) ==
  /\ pc[th] = "idle" /\ Chain(n, m) /\ WithinBound
  /\ th \in Worker => ~HasRoom(th, Cardinality({n, m}))
  /\ used' = used \ {n, m}
  /\ node' = [node EXCEPT ![th] = n] /\ tail' = [tail EXCEPT ![th] = m]
  /\ Load(th)
  /\ Goto(th, "pushLink")
  /\ UNCHANGED <<listVars, new_head, failed>>

\* ... the last node is linked to its head...
PushLink(th) ==
  /\ pc[th] = "pushLink"
  /\ next' = [next EXCEPT ![tail[th]] = state[th].head]
  /\ Goto(th, "pushSwap")
  /\ UNCHANGED <<free, local, size, used, frameVars, failed>>

\* ... and the compare-and-swap makes the first node the head, or starts again.
PushSwap(th) ==
  /\ pc[th] = "pushSwap"
  /\ IF UnchangedWord(th)
     THEN /\ free' = [head |-> node[th], tag |-> free.tag + 1]
          /\ node' = [node EXCEPT ![th] = kInvalidIndex]
          /\ tail' = [tail EXCEPT ![th] = kInvalidIndex]
          /\ Forget(th)
          /\ Goto(th, "idle")
     ELSE /\ Reload(th, "pushLink")
          /\ UNCHANGED <<free, node, tail>>
  /\ UNCHANGED <<next, local, size, used, new_head, failed>>

\* The program links a node it has into a list of its own (a gate, a ready stack).
Link(n, m) ==
  /\ n \in used /\ m \in (used \ {n}) \cup {kInvalidIndex}
  /\ next' = [next EXCEPT ![n] = m]
  /\ UNCHANGED <<free, local, size, used, pc, frameVars, failed>>

Proceed(th) == ReadNext(th) \/ PopSwap(th) \/ Popped(th) \/ PushLink(th) \/ PushSwap(th)

Next ==
  /\ ~failed
  /\ \/ \E th \in Thread :
          Proceed(th) \/ AcquireShared(th) \/ \E n, m \in Node : ReturnShared(th, n, m)
     \/ \E w \in Worker : AcquireLocal(w) \/ \E n, m \in Node : ReturnLocal(w, n, m)
     \/ \E n \in Node, m \in Index : Link(n, m)

Spec == Init /\ [][Next]_vars

\* A thread goes on with the operation it has begun.
FairSpec == Spec /\ \A th \in Thread : WF_vars(~failed /\ Proceed(th))
-----------------------------------------------------------------------------
\* A set of nodes that following link does not leave.
Closed(link, S) == \A n \in S : link[n] \in S \cup {kInvalidIndex}

\* The nodes of the list that begins at head: the least such set that has it.
NodesFrom(link, head) ==
  {n \in Node : \A S \in SUBSET Node :
                  Closed(link, S) /\ head \in S \cup {kInvalidIndex} => n \in S}

ListFrom(head) == NodesFrom(next, head)

Ends(list) == list = {} \/ \E n \in list : next[n] = kInvalidIndex

\* The nodes a thread is returning, or has popped and not handed over.
InHand(th) == {node[th], tail[th]} \ {kInvalidIndex}

Lists == {ListFrom(free.head)} \cup {ListFrom(local[w]) : w \in Worker}

\* Every node is in one place: no node is acquired twice, lost, or in two lists,
\* and no list runs in a circle, although Pop reads NextRef of nodes that may
\* have been acquired, used and returned since it loaded the head (the ABA
\* problem).  AssertEmpty counts the free nodes of an unused pool.
EachNodeOnce ==
  /\ \A n \in Node :
       (IF n \in used THEN 1 ELSE 0) + (IF n \in ListFrom(free.head) THEN 1 ELSE 0)
       + Cardinality({w \in Worker : n \in ListFrom(local[w])})
       + Cardinality({th \in Thread : n \in InHand(th)}) = 1
  /\ \A list \in Lists : Ends(list)

\* size_ is the length of a worker's stack, through chains and single nodes:
\* Acquire trusts it to find a node there.
SizesExact == \A w \in Worker : size[w] = Cardinality(ListFrom(local[w]))

\* A compare-and-swap that fails has lost against another one that succeeded,
\* so that with finitely many operations each of them ends.
OperationsEnd == \A th \in Thread : (pc[th] # "idle") ~> (pc[th] = "idle" \/ failed)
=============================================================================
