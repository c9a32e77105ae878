----------------------------- MODULE PoolProofs -----------------------------
(***************************************************************************)
(* Proofs about Pool: for every number of threads and nodes, each node is  *)
(* in one place, no list runs in a circle, and the sizes of the workers'   *)
(* stacks are exact.                                                       *)
(***************************************************************************)
EXTENDS Pool, FiniteSetTheorems, WellFoundedInduction, TLAPS

\* No node of the list comes again behind itself, and the list ends.
Straight(link, head) ==
  /\ \A n \in NodesFrom(link, head) : n \notin NodesFrom(link, link[n])
  /\ \/ NodesFrom(link, head) = {}
     \/ \E n \in NodesFrom(link, head) : link[n] = kInvalidIndex

FreeList == ListFrom(free.head)
LocalList(w) == ListFrom(local[w])

ListsStraight == Straight(next, free.head) /\ \A w \in Worker : Straight(next, local[w])

\* A node is with the program, in a list, or in the hands of a thread...
Covered ==
  \A n \in Node :
    \/ n \in used \/ n \in FreeList
    \/ \E w \in Worker : n \in LocalList(w)
    \/ \E th \in Thread : n \in InHand(th)

\* ... and in no second one of them.
Apart ==
  /\ used \cap FreeList = {}
  /\ \A w \in Worker : /\ LocalList(w) \cap used = {}
                       /\ LocalList(w) \cap FreeList = {}
                       /\ \A v \in Worker : v # w => LocalList(v) \cap LocalList(w) = {}
  /\ \A th \in Thread : /\ InHand(th) \cap used = {}
                        /\ InHand(th) \cap FreeList = {}
                        /\ \A w \in Worker : InHand(th) \cap LocalList(w) = {}
                        /\ \A u \in Thread : u # th => InHand(u) \cap InHand(th) = {}

Pops == {"popNext", "popSwap"}
Pushes == {"pushLink", "pushSwap"}
Busy == {th \in Thread : pc[th] \in Pops \cup Pushes}

\* What a thread has in its hands, and how its nodes are linked.
FrameFollowsPc(th) ==
  /\ pc[th] \in {"idle"} \cup Pops => node[th] = kInvalidIndex /\ tail[th] = kInvalidIndex
  /\ pc[th] = "popped" => node[th] \in Node /\ tail[th] = kInvalidIndex
  /\ pc[th] \in Pushes => /\ node[th] \in Node /\ tail[th] \in Node
                          /\ node[th] # tail[th] => next[node[th]] = tail[th]
  /\ pc[th] = "pushSwap" => next[tail[th]] = state[th].head
  /\ pc[th] = "popSwap" => state[th].head \in Node

\* The tag makes an old word recognisable: while a compare-and-swap can still
\* succeed, the head is the one that was loaded, and so is its successor.
WordCurrent(th) ==
  pc[th] \in Pops \cup Pushes =>
    /\ state[th].tag <= free.tag
    /\ state[th].tag = free.tag => state[th].head = free.head
    /\ pc[th] = "popSwap" /\ state[th].tag = free.tag => new_head[th] = next[free.head]

ThreadsInStep == \A th \in Thread : FrameFollowsPc(th) /\ WordCurrent(th)

\* Each compare-and-swap still to succeed has its place below the bound.
TagsLeft == free.tag + Cardinality(Busy) <= MaxTag

PoolInv ==
  /\ TypeOK /\ SizesExact /\ ListsStraight /\ Covered /\ Apart
  /\ ThreadsInStep /\ TagsLeft
-----------------------------------------------------------------------------
(* Lists. *)

Links == [Node -> Index]

LEMMA Indices == Node \subseteq Index /\ kInvalidIndex \in Index /\ kInvalidIndex \notin Node
<1>1. Size \in Nat /\ Size < kInvalidIndex
  BY PoolAssumption
<1> QED
  BY <1>1 DEF Node, Index, kInvalidIndex

LEMMA Bounds ==
  /\ MaxTag \in Nat /\ Size \in Nat /\ Size > 0
  /\ ElementsPerThread \in Nat /\ MaxElementsPerThread \in Nat
  /\ ElementsPerThread <= MaxElementsPerThread
  /\ IsFiniteSet(Worker) /\ IsFiniteSet(Client)
<1> QED
  BY PoolAssumption

\* The list of a head is a set of nodes that its links do not leave, and the
\* least one.
LEMMA NodesFromLeast ==
  ASSUME NEW link \in Links, NEW head \in Index
  PROVE  /\ NodesFrom(link, head) \subseteq Node /\ Closed(link, NodesFrom(link, head))
         /\ head \in NodesFrom(link, head) \cup {kInvalidIndex}
         /\ \A S \in SUBSET Node :
              Closed(link, S) /\ head \in S \cup {kInvalidIndex} => NodesFrom(link, head) \subseteq S
<1>1. ASSUME NEW n \in NodesFrom(link, head)
      PROVE  link[n] \in NodesFrom(link, head) \cup {kInvalidIndex}
  <2>1. n \in Node /\ link[n] \in Index
    BY <1>1 DEF NodesFrom, Links
  <2>2. CASE link[n] # kInvalidIndex
    <3>1. link[n] \in Node
      BY <2>1, <2>2 DEF Index
    <3>2. ASSUME NEW S \in SUBSET Node, Closed(link, S), head \in S \cup {kInvalidIndex}
          PROVE  link[n] \in S
      BY <1>1, <2>2, <3>2 DEF NodesFrom, Closed
    <3> QED
      BY <3>1, <3>2 DEF NodesFrom
  <2> QED
    BY <2>2
<1>2. head # kInvalidIndex => head \in NodesFrom(link, head)
  BY DEF NodesFrom, Index
<1> QED
  BY <1>1, <1>2 DEF NodesFrom, Closed

LEMMA EmptyList ==
  ASSUME NEW link \in Links
  PROVE  NodesFrom(link, kInvalidIndex) = {}
<1>1. {} \in SUBSET Node /\ Closed(link, {}) /\ kInvalidIndex \in Index
  BY Indices DEF Closed
<1> QED
  BY <1>1, NodesFromLeast

\* A list is its head and the list behind it.
LEMMA HeadAndTail ==
  ASSUME NEW link \in Links, NEW n \in Node
  PROVE  NodesFrom(link, n) = {n} \cup NodesFrom(link, link[n])
<1>1. n \in Index /\ link[n] \in Index /\ n # kInvalidIndex
  BY Indices DEF Links
<1> DEFINE Behind == NodesFrom(link, link[n])
<1>2. NodesFrom(link, n) \subseteq {n} \cup Behind
  <2>1. Closed(link, {n} \cup Behind) /\ {n} \cup Behind \in SUBSET Node
    BY <1>1, NodesFromLeast DEF Closed
  <2> QED
    BY <1>1, <2>1, NodesFromLeast
<1>3. Behind \subseteq NodesFrom(link, n) /\ n \in NodesFrom(link, n)
  <2>1. /\ NodesFrom(link, n) \in SUBSET Node /\ Closed(link, NodesFrom(link, n))
        /\ n \in NodesFrom(link, n)
    BY <1>1, NodesFromLeast
  <2>2. link[n] \in NodesFrom(link, n) \cup {kInvalidIndex}
    BY <2>1 DEF Closed
  <2> QED
    BY <1>1, <2>1, <2>2, NodesFromLeast
<1> QED
  BY <1>2, <1>3

\* A list does not change with the links of other nodes.
LEMMA SameList ==
  ASSUME NEW link \in Links, NEW other \in Links, NEW head \in Index,
         \A n \in NodesFrom(link, head) : other[n] = link[n]
  PROVE  NodesFrom(other, head) = NodesFrom(link, head)
<1> DEFINE L == NodesFrom(link, head)
           M == NodesFrom(other, head)
<1>1. L \subseteq Node /\ Closed(link, L) /\ head \in L \cup {kInvalidIndex}
  BY NodesFromLeast
<1>2. M \subseteq Node /\ Closed(other, M) /\ head \in M \cup {kInvalidIndex}
  BY NodesFromLeast
<1>3. Closed(other, L)
  BY <1>1 DEF Closed
<1>4. M \subseteq L
  BY <1>1, <1>3, NodesFromLeast
<1>5. Closed(link, M)
  BY <1>2, <1>4 DEF Closed
<1>6. L \subseteq M
  BY <1>2, <1>5, NodesFromLeast
<1> QED
  BY <1>4, <1>6

\* The list behind a node of a list is part of it.
LEMMA ListBehind ==
  ASSUME NEW link \in Links, NEW head \in Index, NEW n \in NodesFrom(link, head)
  PROVE  link[n] \in Index /\ NodesFrom(link, link[n]) \subseteq NodesFrom(link, head)
<1>1. n \in Node /\ link[n] \in Index /\ link[n] \in NodesFrom(link, head) \cup {kInvalidIndex}
  BY NodesFromLeast DEF Closed, Links
<1> QED
  BY <1>1, NodesFromLeast

LEMMA SameStraight ==
  ASSUME NEW link \in Links, NEW other \in Links, NEW head \in Index,
         \A n \in NodesFrom(link, head) : other[n] = link[n],
         Straight(link, head)
  PROVE  Straight(other, head)
<1>1. NodesFrom(other, head) = NodesFrom(link, head)
  BY SameList
<1>2. ASSUME NEW n \in NodesFrom(link, head)
      PROVE  NodesFrom(other, other[n]) = NodesFrom(link, link[n])
  <2>1. link[n] \in Index /\ NodesFrom(link, link[n]) \subseteq NodesFrom(link, head)
    BY ListBehind
  <2>2. NodesFrom(other, link[n]) = NodesFrom(link, link[n])
    BY <2>1, SameList
  <2> QED
    BY <2>2
<1> QED
  BY <1>1, <1>2 DEF Straight

\* The head is taken off.
LEMMA PopStraight ==
  ASSUME NEW link \in Links, NEW n \in Node, Straight(link, n)
  PROVE  /\ Straight(link, link[n])
         /\ NodesFrom(link, link[n]) = NodesFrom(link, n) \ {n}
<1>1. NodesFrom(link, n) = {n} \cup NodesFrom(link, link[n])
  BY HeadAndTail
<1>2. n \notin NodesFrom(link, link[n])
  BY <1>1 DEF Straight
<1>3. link[n] = kInvalidIndex => NodesFrom(link, link[n]) = {}
  BY EmptyList
<1>4. link[n] # kInvalidIndex => link[n] \in NodesFrom(link, link[n])
  BY NodesFromLeast DEF Links
<1> QED
  BY <1>1, <1>2, <1>3, <1>4 DEF Straight

\* A node becomes the head of a list it was not in.
LEMMA PushStraight ==
  ASSUME NEW link \in Links, NEW n \in Node, Straight(link, link[n]),
         n \notin NodesFrom(link, link[n])
  PROVE  Straight(link, n)
<1>1. NodesFrom(link, n) = {n} \cup NodesFrom(link, link[n])
  BY HeadAndTail
<1>2. link[n] # kInvalidIndex => link[n] \in NodesFrom(link, link[n])
  BY NodesFromLeast DEF Links
<1> QED
  BY <1>1, <1>2 DEF Straight

\* The link of a node that is not in the list changes.
LEMMA LinkElsewhere ==
  ASSUME NEW link \in Links, NEW head \in Index, NEW m \in Node, NEW x \in Index,
         m \notin NodesFrom(link, head)
  PROVE  LET other == [link EXCEPT ![m] = x] IN
         /\ other \in Links
         /\ NodesFrom(other, head) = NodesFrom(link, head)
         /\ Straight(link, head) => Straight(other, head)
<1> DEFINE other == [link EXCEPT ![m] = x]
<1>1. other \in Links /\ \A n \in Node : n # m => other[n] = link[n]
  BY DEF Links
<1>2. \A n \in NodesFrom(link, head) : other[n] = link[n]
  BY <1>1, NodesFromLeast
<1> HIDE DEF other
<1>3. NodesFrom(other, head) = NodesFrom(link, head) /\ (Straight(link, head) => Straight(other, head))
  BY <1>1, <1>2, SameList, SameStraight
<1> QED
  BY <1>1, <1>3 DEF other
-----------------------------------------------------------------------------
(* The state before and after a step. *)

LEMMA ListNames ==
  /\ FreeList = NodesFrom(next, free.head) /\ FreeList' = NodesFrom(next', free'.head)
  /\ \A w \in Worker : /\ LocalList(w) = NodesFrom(next, local[w])
                       /\ LocalList(w)' = NodesFrom(next', local'[w])
<1> QED
  BY DEF FreeList, LocalList, ListFrom

LEMMA Types ==
  ASSUME PoolInv
  PROVE  /\ next \in Links /\ free.head \in Index /\ free.tag \in Nat /\ free.tag <= MaxTag
         /\ free = [head |-> free.head, tag |-> free.tag]
         /\ \A w \in Worker : local[w] \in Index /\ w \in Thread
         /\ FreeList \subseteq Node /\ \A w \in Worker : LocalList(w) \subseteq Node
         /\ \A th \in Thread : InHand(th) \subseteq Node /\ state[th].tag \in Nat
<1>1. /\ next \in Links /\ free \in Word /\ local \in [Worker -> Index]
      /\ \A th \in Thread : node[th] \in Index /\ tail[th] \in Index /\ state[th] \in Word
  BY DEF PoolInv, TypeOK, Links
<1>2. free.head \in Index /\ free.tag \in 0..MaxTag /\ free = [head |-> free.head, tag |-> free.tag]
  BY <1>1 DEF Word
<1>3. \A w \in Worker : local[w] \in Index /\ w \in Thread
  BY <1>1 DEF Thread
<1>4. FreeList \subseteq Node /\ \A w \in Worker : LocalList(w) \subseteq Node
  BY <1>1, <1>2, <1>3, ListNames, NodesFromLeast
<1>5. \A th \in Thread : InHand(th) \subseteq Node
  BY <1>1 DEF InHand, Index
<1>6. MaxTag \in Nat /\ \A i \in 0..MaxTag : i \in Nat /\ i <= MaxTag
  BY Bounds
<1>7. \A th \in Thread : state[th].tag \in 0..MaxTag
  BY <1>1 DEF Word
<1> QED
  BY <1>1, <1>2, <1>3, <1>4, <1>5, <1>6, <1>7

\* A step of another thread that changes the link of a node the thread has no
\* part in, or the word of the shared stack, leaves the thread in step.
LEMMA OthersInStep ==
  ASSUME PoolInv, NEW u \in Thread, NEW m,
         \A n \in Node : n # m => next'[n] = next[n],
         m \notin InHand(u) /\ m \notin FreeList,
         free' = free \/ free'.tag = free.tag + 1,
         pc'[u] = pc[u] /\ node'[u] = node[u] /\ tail'[u] = tail[u],
         state'[u] = state[u] /\ new_head'[u] = new_head[u]
  PROVE  FrameFollowsPc(u)' /\ WordCurrent(u)'
<1>1. FrameFollowsPc(u) /\ WordCurrent(u)
  BY DEF PoolInv, ThreadsInStep
<1>2. pc[u] \in Pushes => node[u] # m /\ tail[u] # m
  BY <1>1, Indices DEF FrameFollowsPc, InHand
<1>3. FrameFollowsPc(u)'
  BY <1>1, <1>2 DEF FrameFollowsPc, Pops, Pushes
<1> SUFFICES WordCurrent(u)'
  BY <1>3
<1>4. CASE free' = free
  <2>1. ASSUME pc[u] = "popSwap", state[u].tag = free.tag PROVE next'[free.head] = next[free.head]
    <3>1. free.head \in Node
      BY <1>1, <2>1 DEF FrameFollowsPc, WordCurrent, Pops
    <3>2. free.head \in FreeList
      BY <3>1, Types, Indices, ListNames, NodesFromLeast
    <3> QED
      BY <3>1, <3>2
  <2> QED
    BY <1>1, <1>4, <2>1 DEF WordCurrent
<1>5. CASE free'.tag = free.tag + 1
  BY <1>1, <1>5, Types DEF WordCurrent
<1> QED
  BY <1>4, <1>5

LEMMA BusyCount ==
  /\ Busy \subseteq Thread /\ Busy' \subseteq Thread /\ IsFiniteSet(Thread)
  /\ \A S \in SUBSET Thread : IsFiniteSet(S) /\ Cardinality(S) \in Nat
<1>1. IsFiniteSet(Thread)
  BY Bounds, FS_Union DEF Thread
<1> QED
  BY <1>1, FS_Subset, FS_CardinalityType DEF Busy

\* Steps that leave the lists alone, or link a node that is in none of them.
LEMMA ListsKept ==
  ASSUME PoolInv, UNCHANGED <<local, size>>, free'.head = free.head,
         \/ UNCHANGED next
         \/ \E m \in Node, x \in Index :
              /\ m \notin FreeList /\ \A w \in Worker : m \notin LocalList(w)
              /\ next' = [next EXCEPT ![m] = x]
  PROVE  /\ next' \in Links /\ ListsStraight' /\ SizesExact'
         /\ FreeList' = FreeList /\ \A w \in Worker : LocalList(w)' = LocalList(w)
<1>1. ASSUME NEW head \in Index, Straight(next, head),
             \/ head = free.head
             \/ \E w \in Worker : head = local[w]
      PROVE  next' \in Links /\ NodesFrom(next', head) = NodesFrom(next, head) /\ Straight(next', head)
  <2>1. CASE UNCHANGED next
    BY <1>1, <2>1, Types
  <2>2. CASE \E m \in Node, x \in Index :
               /\ m \notin FreeList /\ \A w \in Worker : m \notin LocalList(w)
               /\ next' = [next EXCEPT ![m] = x]
    <3>1. PICK m \in Node, x \in Index :
               /\ m \notin FreeList /\ \A w \in Worker : m \notin LocalList(w)
               /\ next' = [next EXCEPT ![m] = x]
      BY <2>2
    <3>2. m \notin NodesFrom(next, head)
      BY <1>1, <3>1, ListNames
    <3>3. next \in Links
      BY Types
    <3>4. /\ next' \in Links
          /\ NodesFrom(next', head) = NodesFrom(next, head)
          /\ Straight(next, head) => Straight(next', head)
      BY <3>1, <3>2, <3>3, LinkElsewhere
    <3> QED
      BY <1>1, <3>4
  <2> QED
    BY <2>1, <2>2
<1>2. /\ free.head \in Index /\ Straight(next, free.head)
      /\ \A w \in Worker : local[w] \in Index /\ Straight(next, local[w])
  BY Types DEF PoolInv, ListsStraight
<1>3. FreeList' = FreeList /\ \A w \in Worker : LocalList(w)' = LocalList(w)
  BY <1>1, <1>2, ListNames
<1>4. ListsStraight'
  BY <1>1, <1>2 DEF ListsStraight
<1>5. SizesExact'
  BY <1>3 DEF PoolInv, SizesExact, LocalList
<1> QED
  BY <1>1, <1>2, <1>3, <1>4, <1>5

LEMMA InHandNames ==
  \A th \in Thread :
    /\ InHand(th) = {node[th], tail[th]} \ {kInvalidIndex}
    /\ InHand(th)' = {node'[th], tail'[th]} \ {kInvalidIndex}
<1> QED
  BY DEF InHand

\* Where the places of all nodes stay the same.
LEMMA PlacesKept ==
  ASSUME PoolInv, FreeList' = FreeList, \A w \in Worker : LocalList(w)' = LocalList(w),
         used' = used, \A th \in Thread : InHand(th)' = InHand(th)
  PROVE  Covered' /\ Apart'
<1> QED
  BY DEF PoolInv, Covered, Apart

\* A compare-and-swap that is begun finds its place below the bound.
LEMMA TagsKept ==
  ASSUME PoolInv, free'.tag = free.tag, NEW th \in Thread,
         \A u \in Thread : u # th => pc'[u] = pc[u],
         \/ th \in Busy \/ th \notin Busy'
         \/ pc[th] = "idle" /\ WithinBound
  PROVE  TagsLeft'
<1>1. Cardinality(Busy) \in Nat /\ Cardinality(Busy') \in Nat /\ free.tag \in Nat /\ MaxTag \in Nat
  BY BusyCount, Types, Bounds
<1>2. CASE th \in Busy \/ th \notin Busy'
  <2>1. Busy' \subseteq Busy
    BY <1>2 DEF Busy
  <2>2. Cardinality(Busy') <= Cardinality(Busy)
    BY <2>1, BusyCount, FS_Subset
  <2> QED
    BY <1>1, <2>2 DEF PoolInv, TagsLeft
<1>3. CASE pc[th] = "idle" /\ WithinBound
  <2> DEFINE Active == {u \in Thread : pc[u] # "idle"}
  <2>1. Busy' \subseteq Active \cup {th} /\ th \notin Active /\ Active \subseteq Thread
    BY <1>3 DEF Busy, Pops, Pushes
  <2>2. /\ IsFiniteSet(Active) /\ IsFiniteSet(Active \cup {th}) /\ Cardinality(Active) \in Nat
        /\ Cardinality(Active \cup {th}) = Cardinality(Active) + 1
    BY <2>1, BusyCount, FS_AddElement
  <2>3. Cardinality(Busy') <= Cardinality(Active) + 1
    BY <2>1, <2>2, FS_Subset
  <2>4. free.tag + Cardinality(Active) < MaxTag
    BY <1>3 DEF WithinBound
  <2> HIDE DEF Active
  <2> QED
    BY <1>1, <2>2, <2>3, <2>4 DEF TagsLeft
<1> QED
  BY <1>2, <1>3
-----------------------------------------------------------------------------
(* What each step keeps. *)

\* A thread that has its part in a step; the others are left in step.
LEMMA NobodyElse ==
  ASSUME PoolInv, TypeOK', NEW th \in Thread, NEW m \in Index,
         \A n \in Node : n # m => next'[n] = next[n],
         \A u \in Thread : u # th => m \notin InHand(u),
         m \notin FreeList,
         free' = free \/ free'.tag = free.tag + 1,
         \A u \in Thread : u # th =>
           /\ pc'[u] = pc[u] /\ node'[u] = node[u] /\ tail'[u] = tail[u]
           /\ state'[u] = state[u] /\ new_head'[u] = new_head[u],
         FrameFollowsPc(th)' /\ WordCurrent(th)'
  PROVE  ThreadsInStep'
<1> QED
  BY OthersInStep DEF ThreadsInStep

LEMMA InvalidNowhere ==
  ASSUME PoolInv
  PROVE  /\ kInvalidIndex \in Index
         /\ kInvalidIndex \notin FreeList /\ \A u \in Thread : kInvalidIndex \notin InHand(u)
<1> QED
  BY Indices, Types

LEMMA AcquireSharedStep ==
  ASSUME PoolInv, NEW th \in Thread, AcquireShared(th)
  PROVE  PoolInv'
<1>1. /\ UNCHANGED <<next, free, local, size, used, node, tail, new_head>>
      /\ state' = [state EXCEPT ![th] = free] /\ pc' = [pc EXCEPT ![th] = "popNext"]
      /\ pc[th] = "idle" /\ WithinBound
  BY DEF AcquireShared, Load, Goto, listVars
<1>2. TypeOK /\ TypeOK'
  BY <1>1 DEF AcquireShared, PoolInv, TypeOK
<1>3. /\ ListsStraight' /\ SizesExact' /\ FreeList' = FreeList
      /\ \A w \in Worker : LocalList(w)' = LocalList(w)
  BY <1>1, ListsKept
<1>4. Covered' /\ Apart'
  BY <1>1, <1>3, PlacesKept, InHandNames
<1>5. FrameFollowsPc(th)' /\ WordCurrent(th)'
  BY <1>1, <1>2, Types DEF PoolInv, ThreadsInStep, FrameFollowsPc, WordCurrent, Pops, Pushes, TypeOK
<1>6. ThreadsInStep'
  BY <1>1, <1>2, <1>5, InvalidNowhere, NobodyElse DEF TypeOK
<1>7. TagsLeft'
  BY <1>1, <1>2, TagsKept DEF TypeOK
<1> QED
  BY <1>2, <1>3, <1>4, <1>6, <1>7 DEF PoolInv

LEMMA ReadNextStep ==
  ASSUME PoolInv, NEW th \in Thread, ReadNext(th)
  PROVE  PoolInv'
<1>1. /\ UNCHANGED <<next, free, local, size, used, node, tail, state>> /\ pc[th] = "popNext"
      /\ \/ UNCHANGED <<new_head, pc>>
         \/ /\ state[th].head # kInvalidIndex /\ pc' = [pc EXCEPT ![th] = "popSwap"]
            /\ new_head' = [new_head EXCEPT ![th] = next[state[th].head]]
  BY DEF ReadNext, Goto, listVars
<1>2. TypeOK /\ TypeOK'
  <2>1. TypeOK /\ failed' \in BOOLEAN
    BY DEF ReadNext, PoolInv, TypeOK
  <2>2. state[th].head # kInvalidIndex => next[state[th].head] \in Index
    BY <2>1 DEF TypeOK, Word, Index
  <2> QED
    BY <1>1, <2>1, <2>2 DEF TypeOK
<1>3. /\ ListsStraight' /\ SizesExact' /\ FreeList' = FreeList
      /\ \A w \in Worker : LocalList(w)' = LocalList(w)
  BY <1>1, ListsKept
<1>4. Covered' /\ Apart'
  BY <1>1, <1>3, PlacesKept, InHandNames
<1>5. FrameFollowsPc(th)' /\ WordCurrent(th)'
  <2>1. FrameFollowsPc(th) /\ WordCurrent(th) /\ pc[th] \in Pops \cup Pushes
    BY <1>1 DEF PoolInv, ThreadsInStep, Pops
  <2>2. state[th].head # kInvalidIndex => state[th].head \in Node
    BY <1>2 DEF TypeOK, Word, Index
  <2>3. FrameFollowsPc(th)'
    BY <1>1, <1>2, <2>1, <2>2 DEF FrameFollowsPc, Pops, Pushes, TypeOK
  <2>4. WordCurrent(th)'
    BY <1>1, <1>2, <2>1 DEF WordCurrent, Pops, Pushes, TypeOK
  <2> QED
    BY <2>3, <2>4
<1>6. ThreadsInStep'
  BY <1>1, <1>2, <1>5, InvalidNowhere, NobodyElse DEF TypeOK
<1>7. TagsLeft'
  BY <1>1, <1>2, TagsKept DEF TypeOK, Busy, Pops
<1> QED
  BY <1>2, <1>3, <1>4, <1>6, <1>7 DEF PoolInv

\* The program links its own nodes: they are in no list of the pool.
LEMMA LinkStep ==
  ASSUME PoolInv, NEW n \in Node, NEW m \in Index, Link(n, m)
  PROVE  PoolInv'
<1>1. /\ UNCHANGED <<free, local, size, used, pc, node, tail, state, new_head>>
      /\ n \in used /\ next' = [next EXCEPT ![n] = m]
  BY DEF Link, frameVars
<1>2. TypeOK /\ TypeOK'
  BY DEF Link, PoolInv, TypeOK, frameVars
<1>3. /\ n \notin FreeList /\ \A w \in Worker : n \notin LocalList(w)
      /\ \A th \in Thread : n \notin InHand(th)
  BY <1>1 DEF PoolInv, Apart
<1>4. /\ ListsStraight' /\ SizesExact' /\ FreeList' = FreeList
      /\ \A w \in Worker : LocalList(w)' = LocalList(w)
  BY <1>1, <1>3, ListsKept
<1>5. Covered' /\ Apart'
  BY <1>1, <1>4, PlacesKept, InHandNames
<1>6. ThreadsInStep'
  BY <1>1, <1>2, <1>3, OthersInStep DEF ThreadsInStep, TypeOK
<1>7. TagsLeft'
  BY <1>1 DEF PoolInv, TagsLeft, Busy
<1> QED
  BY <1>2, <1>4, <1>5, <1>6, <1>7 DEF PoolInv

\* The popped node goes from the thread's hands to the program.
LEMMA PoppedStep ==
  ASSUME PoolInv, NEW th \in Thread, Popped(th)
  PROVE  PoolInv'
<1> DEFINE n == node[th]
<1>1. /\ UNCHANGED <<free, local, size, tail, state, new_head>> /\ pc[th] = "popped"
      /\ next' = [next EXCEPT ![n] = kInvalidIndex] /\ used' = used \cup {n}
      /\ node' = [node EXCEPT ![th] = kInvalidIndex] /\ pc' = [pc EXCEPT ![th] = "idle"]
  BY DEF Popped, Goto
<1>2. n \in Node /\ tail[th] = kInvalidIndex /\ InHand(th) = {n}
  BY <1>1, Indices, InHandNames DEF PoolInv, ThreadsInStep, FrameFollowsPc
<1>3. TypeOK /\ TypeOK'
  BY <1>1, <1>2, Indices DEF Popped, PoolInv, TypeOK
<1>4. /\ n \notin FreeList /\ \A w \in Worker : n \notin LocalList(w)
      /\ \A u \in Thread : u # th => n \notin InHand(u)
  BY <1>2 DEF PoolInv, Apart
<1>5. /\ ListsStraight' /\ SizesExact' /\ FreeList' = FreeList
      /\ \A w \in Worker : LocalList(w)' = LocalList(w)
  BY <1>1, <1>2, <1>4, Indices, ListsKept
<1>6. InHand(th)' = {} /\ \A u \in Thread : u # th => InHand(u)' = InHand(u)
  BY <1>1, <1>2, <1>3, InHandNames DEF TypeOK
<1>7. Covered'
  BY <1>1, <1>2, <1>5, <1>6 DEF PoolInv, Covered
<1>8. Apart'
  BY <1>1, <1>2, <1>4, <1>5, <1>6 DEF PoolInv, Apart
<1>9. FrameFollowsPc(th)' /\ WordCurrent(th)'
  BY <1>1, <1>2, <1>3 DEF FrameFollowsPc, WordCurrent, Pops, Pushes, TypeOK
<1>10. ThreadsInStep'
  BY <1>1, <1>2, <1>3, <1>4, <1>9, Indices, NobodyElse DEF TypeOK
<1>11. TagsLeft'
  BY <1>1, <1>3, TagsKept DEF TypeOK, Busy, Pops, Pushes
<1> QED
  BY <1>3, <1>5, <1>7, <1>8, <1>10, <1>11 DEF PoolInv

\* The chain goes from the program to the hands of the thread that returns it.
LEMMA ReturnSharedStep ==
  ASSUME PoolInv, NEW th \in Thread, NEW n \in Node, NEW m \in Node, ReturnShared(th, n, m)
  PROVE  PoolInv'
<1>1. /\ UNCHANGED <<next, free, local, size, new_head>> /\ pc[th] = "idle" /\ WithinBound
      /\ {n, m} \subseteq used /\ (n # m => next[n] = m) /\ used' = used \ {n, m}
      /\ node' = [node EXCEPT ![th] = n] /\ tail' = [tail EXCEPT ![th] = m]
      /\ state' = [state EXCEPT ![th] = free] /\ pc' = [pc EXCEPT ![th] = "pushLink"]
  BY DEF ReturnShared, Chain, Load, Goto, listVars
<1>2. node[th] = kInvalidIndex /\ tail[th] = kInvalidIndex
  BY <1>1 DEF PoolInv, ThreadsInStep, FrameFollowsPc
<1>3. TypeOK /\ TypeOK'
  BY <1>1, Indices DEF ReturnShared, PoolInv, TypeOK
<1>4. /\ ListsStraight' /\ SizesExact' /\ FreeList' = FreeList
      /\ \A w \in Worker : LocalList(w)' = LocalList(w)
  BY <1>1, ListsKept
<1>5. /\ InHand(th) = {} /\ InHand(th)' = {n, m}
      /\ \A u \in Thread : u # th => InHand(u)' = InHand(u)
  <2>1. /\ node'[th] = n /\ tail'[th] = m
        /\ \A u \in Thread : u # th => node'[u] = node[u] /\ tail'[u] = tail[u]
    BY <1>1, <1>3 DEF TypeOK
  <2> QED
    BY <1>2, <2>1, Indices, InHandNames
<1>6. Covered'
  BY <1>1, <1>4, <1>5 DEF PoolInv, Covered
<1>7. Apart'
  BY <1>1, <1>4, <1>5 DEF PoolInv, Apart
<1>8. FrameFollowsPc(th)' /\ WordCurrent(th)'
  BY <1>1, <1>3, Types DEF FrameFollowsPc, WordCurrent, Pops, Pushes, TypeOK
<1>9. ThreadsInStep'
  BY <1>1, <1>3, <1>8, InvalidNowhere, NobodyElse DEF TypeOK
<1>10. TagsLeft'
  BY <1>1, <1>3, TagsKept DEF TypeOK
<1> QED
  BY <1>3, <1>4, <1>6, <1>7, <1>9, <1>10 DEF PoolInv

LEMMA PushLinkStep ==
  ASSUME PoolInv, NEW th \in Thread, PushLink(th)
  PROVE  PoolInv'
<1> DEFINE m == tail[th]
<1>1. /\ UNCHANGED <<free, local, size, used, node, tail, state, new_head>> /\ pc[th] = "pushLink"
      /\ next' = [next EXCEPT ![m] = state[th].head] /\ pc' = [pc EXCEPT ![th] = "pushSwap"]
  BY DEF PushLink, Goto, frameVars
<1>2. /\ node[th] \in Node /\ m \in Node /\ m \in InHand(th) /\ state[th].head \in Index
      /\ node[th] # m => next[node[th]] = m
  BY <1>1, Indices, InHandNames
  DEF PoolInv, ThreadsInStep, FrameFollowsPc, Pushes, TypeOK, Word
<1>3. TypeOK /\ TypeOK'
  BY <1>1, <1>2 DEF PushLink, PoolInv, TypeOK
<1>4. /\ m \notin FreeList /\ \A w \in Worker : m \notin LocalList(w)
      /\ \A u \in Thread : u # th => m \notin InHand(u)
  BY <1>2 DEF PoolInv, Apart
<1>5. /\ ListsStraight' /\ SizesExact' /\ FreeList' = FreeList
      /\ \A w \in Worker : LocalList(w)' = LocalList(w)
  BY <1>1, <1>2, <1>4, ListsKept
<1>6. Covered' /\ Apart'
  BY <1>1, <1>5, PlacesKept, InHandNames
<1>7. FrameFollowsPc(th)' /\ WordCurrent(th)'
  <2>1. WordCurrent(th)
    BY DEF PoolInv, ThreadsInStep
  <2> QED
    BY <1>1, <1>2, <1>3, <2>1 DEF FrameFollowsPc, WordCurrent, Pops, Pushes, TypeOK
<1>8. ThreadsInStep'
  BY <1>1, <1>2, <1>3, <1>4, <1>7, Indices, NobodyElse DEF TypeOK
<1>9. TagsLeft'
  BY <1>1, <1>3, TagsKept DEF TypeOK, Busy, Pushes
<1> QED
  BY <1>3, <1>5, <1>6, <1>8, <1>9 DEF PoolInv

\* A compare-and-swap that fails begins again with the word it has found.
LEMMA ReloadStep ==
  ASSUME PoolInv, NEW th \in Thread,
         UNCHANGED <<next, free, local, size, used, node, tail, failed>>,
         state' = [state EXCEPT ![th] = free],
         new_head' \in [Thread -> Index],
         \A u \in Thread : u # th => new_head'[u] = new_head[u],
         \/ pc[th] = "popSwap" /\ pc' = [pc EXCEPT ![th] = "popNext"]
         \/ pc[th] = "pushSwap" /\ pc' = [pc EXCEPT ![th] = "pushLink"]
  PROVE  PoolInv'
<1>1. TypeOK /\ TypeOK'
  BY DEF PoolInv, TypeOK
<1>2. /\ ListsStraight' /\ SizesExact' /\ FreeList' = FreeList
      /\ \A w \in Worker : LocalList(w)' = LocalList(w)
  BY ListsKept
<1>3. Covered' /\ Apart'
  BY <1>2, PlacesKept, InHandNames
<1>4. FrameFollowsPc(th)' /\ WordCurrent(th)'
  <2>1. FrameFollowsPc(th)
    BY DEF PoolInv, ThreadsInStep
  <2> QED
    BY <1>1, <2>1, Types DEF FrameFollowsPc, WordCurrent, Pops, Pushes, TypeOK
<1>5. ThreadsInStep'
  BY <1>1, <1>4, InvalidNowhere, NobodyElse DEF TypeOK
<1>6. TagsLeft'
  BY <1>1, TagsKept DEF TypeOK, Busy, Pops, Pushes
<1> QED
  BY <1>1, <1>2, <1>3, <1>5, <1>6 DEF PoolInv

\* The word of a successful compare-and-swap is the current one, by its tag.
LEMMA SwapCounts ==
  ASSUME PoolInv, NEW th \in Busy, free'.tag = free.tag + 1, pc' = [pc EXCEPT ![th] = "popped"]
           \/ pc' = [pc EXCEPT ![th] = "idle"]
  PROVE  TagsLeft' /\ free'.tag \in 0..MaxTag
<1>1. pc \in [Thread -> {"idle", "popNext", "popSwap", "popped", "pushLink", "pushSwap"}] /\ th \in Thread
  BY DEF PoolInv, TypeOK, Busy
<1>2. Busy' = Busy \ {th}
  BY <1>1 DEF Busy, Pops, Pushes
<1>3. Cardinality(Busy') = Cardinality(Busy) - 1
  BY <1>2, BusyCount, FS_RemoveElement
<1>4. /\ Cardinality(Busy) \in Nat /\ Cardinality(Busy') \in Nat /\ free.tag \in Nat
      /\ MaxTag \in Nat /\ free.tag + Cardinality(Busy) <= MaxTag
  BY BusyCount, Types, Bounds DEF PoolInv, TagsLeft
<1> QED
  BY <1>3, <1>4 DEF TagsLeft

\* The head of the shared stack goes to the hands of the thread.
LEMMA PopSwapStep ==
  ASSUME PoolInv, NEW th \in Thread, PopSwap(th)
  PROVE  PoolInv'
<1>1. CASE ~UnchangedWord(th)
  BY <1>1, Indices, ReloadStep DEF PopSwap, Reload, Load, Goto, PoolInv, TypeOK
<1>2. CASE UnchangedWord(th)
  <2> DEFINE h == free.head
  <2>1. /\ UNCHANGED <<next, local, size, used, tail, failed>> /\ pc[th] = "popSwap" /\ free = state[th]
        /\ free' = [head |-> new_head[th], tag |-> free.tag + 1]
        /\ node' = [node EXCEPT ![th] = h]
        /\ state' = [state EXCEPT ![th] = [head |-> kInvalidIndex, tag |-> 0]]
        /\ pc' = [pc EXCEPT ![th] = "popped"]
        /\ new_head' = [new_head EXCEPT ![th] = kInvalidIndex]
    BY <1>2 DEF PopSwap, UnchangedWord, Forget, Goto
  <2>2. /\ h \in Node /\ new_head[th] = next[h] /\ next[h] \in Index
        /\ node[th] = kInvalidIndex /\ tail[th] = kInvalidIndex /\ th \in Busy
    BY <2>1 DEF PoolInv, ThreadsInStep, FrameFollowsPc, WordCurrent, Pops, TypeOK, Busy
  <2>3. free'.head = next[h] /\ free'.tag = free.tag + 1
    BY <2>1, <2>2
  <2>4. TagsLeft' /\ free'.tag \in 0..MaxTag
    BY <2>1, <2>2, <2>3, SwapCounts
  <2>5. TypeOK /\ TypeOK'
    <3>1. TypeOK /\ free' \in Word /\ [head |-> kInvalidIndex, tag |-> 0] \in Word
      BY <2>1, <2>2, <2>3, <2>4, Indices, Bounds DEF PoolInv, Word
    <3> QED
      BY <2>1, <2>2, <3>1, Indices DEF TypeOK
  <2>6. /\ Straight(next, h) /\ FreeList = NodesFrom(next, h)
        /\ FreeList' = NodesFrom(next, next[h])
    BY <2>1, <2>3, ListNames DEF PoolInv, ListsStraight
  <2>7. /\ Straight(next, next[h]) /\ FreeList' = FreeList \ {h} /\ h \in FreeList
    BY <2>2, <2>6, Types, PopStraight, HeadAndTail
  <2>8. \A w \in Worker : LocalList(w)' = LocalList(w)
    BY <2>1, ListNames
  <2>9. ListsStraight' /\ SizesExact'
    BY <2>1, <2>3, <2>7, <2>8 DEF PoolInv, ListsStraight, SizesExact, LocalList
  <2>10. /\ InHand(th) = {} /\ InHand(th)' = {h}
         /\ \A u \in Thread : u # th => InHand(u)' = InHand(u)
    <3>1. /\ node'[th] = h /\ tail' = tail
          /\ \A u \in Thread : u # th => node'[u] = node[u]
      BY <2>1, <2>5 DEF TypeOK
    <3> HIDE DEF h
    <3> QED
      BY <2>2, <3>1, Indices, InHandNames
  <2> HIDE DEF h
  <2>11. Covered'
    BY <2>1, <2>7, <2>8, <2>10 DEF PoolInv, Covered
  <2>12. Apart'
    BY <2>1, <2>7, <2>8, <2>10 DEF PoolInv, Apart
  <2>13. FrameFollowsPc(th)' /\ WordCurrent(th)'
    BY <2>1, <2>2, <2>5 DEF FrameFollowsPc, WordCurrent, Pops, Pushes, TypeOK
  <2>14. ThreadsInStep'
    BY <2>1, <2>3, <2>5, <2>13, InvalidNowhere, NobodyElse DEF TypeOK
  <2> QED
    BY <2>4, <2>5, <2>9, <2>11, <2>12, <2>14 DEF PoolInv
<1> QED
  BY <1>1, <1>2

\* The chain goes from the hands of the thread to the front of the shared stack.
LEMMA PushSwapStep ==
  ASSUME PoolInv, NEW th \in Thread, PushSwap(th)
  PROVE  PoolInv'
<1>1. CASE ~UnchangedWord(th)
  BY <1>1, Indices, ReloadStep DEF PushSwap, Reload, Load, Goto, PoolInv, TypeOK
<1>2. CASE UnchangedWord(th)
  <2> DEFINE n == node[th]
             m == tail[th]
  <2>1. /\ UNCHANGED <<next, local, size, used, new_head, failed>> /\ pc[th] = "pushSwap" /\ free = state[th]
        /\ free' = [head |-> n, tag |-> free.tag + 1]
        /\ node' = [node EXCEPT ![th] = kInvalidIndex]
        /\ tail' = [tail EXCEPT ![th] = kInvalidIndex]
        /\ state' = [state EXCEPT ![th] = [head |-> kInvalidIndex, tag |-> 0]]
        /\ pc' = [pc EXCEPT ![th] = "idle"]
    BY <1>2 DEF PushSwap, UnchangedWord, Forget, Goto
  <2>2. /\ n \in Node /\ m \in Node /\ next[m] = free.head /\ (n # m => next[n] = m) /\ th \in Busy
    BY <2>1 DEF PoolInv, ThreadsInStep, FrameFollowsPc, Pushes, Busy
  <2>3. free'.head = n /\ free'.tag = free.tag + 1
    BY <2>1
  <2>4. TagsLeft' /\ free'.tag \in 0..MaxTag
    BY <2>1, <2>2, <2>3, SwapCounts
  <2>5. TypeOK /\ TypeOK'
    <3>1. TypeOK /\ free' \in Word /\ [head |-> kInvalidIndex, tag |-> 0] \in Word
      BY <2>1, <2>2, <2>3, <2>4, Indices, Bounds DEF PoolInv, Word
    <3> QED
      BY <2>1, <2>2, <3>1, Indices DEF TypeOK
  <2>6. /\ InHand(th) = {n, m} /\ InHand(th)' = {}
        /\ \A u \in Thread : u # th => InHand(u)' = InHand(u)
    <3>1. /\ node'[th] = kInvalidIndex /\ tail'[th] = kInvalidIndex
          /\ \A u \in Thread : u # th => node'[u] = node[u] /\ tail'[u] = tail[u]
      BY <2>1, <2>5 DEF TypeOK
    <3>2. n # kInvalidIndex /\ m # kInvalidIndex
      BY <2>2, Indices
    <3> QED
      BY <3>1, <3>2, InHandNames
  <2>7. /\ Straight(next, next[m]) /\ FreeList = NodesFrom(next, next[m])
        /\ FreeList' = NodesFrom(next, n) /\ n \notin FreeList /\ m \notin FreeList
    BY <2>1, <2>2, <2>3, <2>6, ListNames DEF PoolInv, ListsStraight, Apart
  <2>8. Straight(next, m) /\ NodesFrom(next, m) = {m} \cup FreeList
    BY <2>2, <2>7, Types, PushStraight, HeadAndTail
  <2>9. Straight(next, n) /\ FreeList' = {n, m} \cup FreeList
    <3>1. CASE n = m
      BY <2>7, <2>8, <3>1
    <3>2. CASE n # m
      <4>1. next[n] = m /\ n \notin NodesFrom(next, m)
        BY <2>2, <2>7, <2>8, <3>2
      <4> QED
        BY <2>2, <2>7, <2>8, <4>1, Types, PushStraight, HeadAndTail
    <3> QED
      BY <3>1, <3>2
  <2>10. \A w \in Worker : LocalList(w)' = LocalList(w)
    BY <2>1, ListNames
  <2>11. ListsStraight' /\ SizesExact'
    BY <2>1, <2>3, <2>9, <2>10 DEF PoolInv, ListsStraight, SizesExact, LocalList
  <2> HIDE DEF n, m
  <2>12. Covered'
    BY <2>1, <2>9, <2>10, <2>6 DEF PoolInv, Covered
  <2>13. Apart'
    BY <2>1, <2>6, <2>9, <2>10 DEF PoolInv, Apart
  <2>14. FrameFollowsPc(th)' /\ WordCurrent(th)'
    BY <2>1, <2>5 DEF FrameFollowsPc, WordCurrent, Pops, Pushes, TypeOK
  <2>15. ThreadsInStep'
    BY <2>1, <2>3, <2>5, <2>14, InvalidNowhere, NobodyElse DEF TypeOK
  <2> QED
    BY <2>4, <2>5, <2>11, <2>12, <2>13, <2>15 DEF PoolInv
<1> QED
  BY <1>1, <1>2

LEMMA NodesFinite ==
  \A S \in SUBSET Node : IsFiniteSet(S) /\ Cardinality(S) \in Nat
<1>1. IsFiniteSet(Node)
  BY Bounds, FS_Interval DEF Node
<1> QED
  BY <1>1, FS_Subset, FS_CardinalityType

\* A step that changes one worker's list, through the link of a node that is not
\* in the lists of the others.
LEMMA OtherLists ==
  ASSUME PoolInv, NEW w \in Worker, NEW m \in Node, NEW x \in Index,
         next' = [next EXCEPT ![m] = x], free' = free,
         \A v \in Worker : v # w => local'[v] = local[v] /\ m \notin LocalList(v),
         m \notin FreeList
  PROVE  /\ FreeList' = FreeList /\ Straight(next', free'.head) /\ next' \in Links
         /\ \A v \in Worker : v # w =>
              LocalList(v)' = LocalList(v) /\ Straight(next', local'[v])
<1>1. FreeList' = FreeList /\ Straight(next', free'.head) /\ next' \in Links
  BY Types, ListNames, LinkElsewhere DEF PoolInv, ListsStraight
<1>2. ASSUME NEW v \in Worker, v # w
      PROVE  LocalList(v)' = LocalList(v) /\ Straight(next', local'[v])
  <2>1. next \in Links /\ local[v] \in Index /\ m \notin NodesFrom(next, local[v]) /\ Straight(next, local[v])
    BY <1>2, Types, ListNames DEF PoolInv, ListsStraight
  <2>2. /\ NodesFrom(next', local[v]) = NodesFrom(next, local[v])
        /\ Straight(next', local[v])
    BY <2>1, LinkElsewhere
  <2> QED
    BY <1>2, <2>2, ListNames
<1> QED
  BY <1>1, <1>2

\* A worker's own stack: its first node goes to the program.
LEMMA AcquireLocalStep ==
  ASSUME PoolInv, NEW w \in Worker, AcquireLocal(w)
  PROVE  PoolInv'
<1> DEFINE n == local[w]
<1>1. /\ UNCHANGED <<free, pc, node, tail, state, new_head>> /\ size[w] > 0
      /\ local' = [local EXCEPT ![w] = next[n]] /\ next' = [next EXCEPT ![n] = kInvalidIndex]
      /\ size' = [size EXCEPT ![w] = @ - 1] /\ used' = used \cup {n}
  BY DEF AcquireLocal, frameVars
<1>2. n \in Node
  <2>1. n = kInvalidIndex => LocalList(w) = {}
    BY Types, ListNames, EmptyList
  <2>2. size[w] = Cardinality(LocalList(w))
    BY DEF PoolInv, SizesExact, LocalList
  <2>3. n # kInvalidIndex
    <3>1. Cardinality({}) = 0
      BY FS_EmptySet
    <3> QED
      BY <1>1, <2>1, <2>2, <3>1
  <2> QED
    BY <2>3, Types DEF Index
<1>3. TypeOK /\ TypeOK'
  <2>1. TypeOK /\ next[n] \in Index /\ size[w] - 1 \in 0..MaxElementsPerThread /\ failed' \in BOOLEAN
    BY <1>1, <1>2, Bounds DEF PoolInv, TypeOK, AcquireLocal
  <2> QED
    BY <1>1, <1>2, <2>1, Indices DEF TypeOK
<1>4. /\ n \in LocalList(w) /\ Straight(next, next[n])
      /\ NodesFrom(next, next[n]) = LocalList(w) \ {n}
  BY <1>2, Types, ListNames, HeadAndTail, PopStraight DEF PoolInv, ListsStraight
<1>5. /\ n \notin FreeList /\ n \notin used /\ \A v \in Worker : v # w => n \notin LocalList(v)
      /\ \A u \in Thread : n \notin InHand(u)
  BY <1>4 DEF PoolInv, Apart
<1>6. /\ FreeList' = FreeList /\ Straight(next', free'.head)
      /\ \A v \in Worker : v # w =>
           LocalList(v)' = LocalList(v) /\ Straight(next', local'[v])
  BY <1>1, <1>2, <1>3, <1>5, Indices, OtherLists DEF TypeOK
<1>7. Straight(next', local'[w]) /\ LocalList(w)' = LocalList(w) \ {n}
  <2>1. local'[w] = next[n] /\ next[n] \in Index
    BY <1>1, <1>2, <1>3 DEF TypeOK
  <2>2. n \notin NodesFrom(next, next[n])
    BY <1>4
  <2>3. /\ NodesFrom([next EXCEPT ![n] = kInvalidIndex], next[n]) = NodesFrom(next, next[n])
        /\ Straight([next EXCEPT ![n] = kInvalidIndex], next[n])
    <3> HIDE DEF n
    <3> QED
      BY <1>2, <1>4, <2>1, <2>2, Types, Indices, LinkElsewhere
  <2> HIDE DEF n
  <2> QED
    BY <1>1, <1>4, <2>1, <2>3, ListNames
<1>8. \A u \in Thread : InHand(u)' = InHand(u)
  BY <1>1, InHandNames
<1>9. SizesExact'
  <2>1. Cardinality(LocalList(w)') = Cardinality(LocalList(w)) - 1
    BY <1>4, <1>7, Types, NodesFinite, FS_RemoveElement
  <2>2. \A v \in Worker : size[v] = Cardinality(LocalList(v))
    BY DEF PoolInv, SizesExact, LocalList
  <2>3. \A v \in Worker : size'[v] = Cardinality(LocalList(v)')
    BY <1>1, <1>3, <1>6, <2>1, <2>2 DEF TypeOK
  <2> QED
    BY <2>3 DEF SizesExact, LocalList
<1>10. ListsStraight'
  BY <1>6, <1>7 DEF ListsStraight
<1>11. ThreadsInStep'
  BY <1>1, <1>2, <1>3, <1>5, OthersInStep DEF ThreadsInStep, TypeOK
<1>12. TagsLeft'
  BY <1>1 DEF PoolInv, TagsLeft, Busy
<1> HIDE DEF n
<1>13. Covered'
  BY <1>1, <1>6, <1>7, <1>8 DEF PoolInv, Covered
<1>14. Apart'
  <2>1. Apart
    BY DEF PoolInv
  <2>2. \A v \in Worker : LocalList(v)' \subseteq LocalList(v) /\ n \notin LocalList(v)'
    BY <1>5, <1>6, <1>7
  <2> QED
    BY <1>1, <1>5, <1>6, <1>8, <2>1, <2>2 DEF Apart
<1> QED
  BY <1>3, <1>9, <1>10, <1>11, <1>12, <1>13, <1>14 DEF PoolInv

\* A worker's own stack: the chain goes from the program to its front.
LEMMA ReturnLocalStep ==
  ASSUME PoolInv, NEW w \in Worker, NEW n \in Node, NEW m \in Node, ReturnLocal(w, n, m)
  PROVE  PoolInv'
<1> DEFINE len == Cardinality({n, m})
<1>1. /\ UNCHANGED <<free, pc, node, tail, state, new_head>>
      /\ {n, m} \subseteq used /\ (n # m => next[n] = m) /\ used' = used \ {n, m}
      /\ local' = [local EXCEPT ![w] = n] /\ next' = [next EXCEPT ![m] = local[w]]
      /\ size' = [size EXCEPT ![w] = @ + len] /\ size[w] + len <= MaxElementsPerThread
  BY DEF ReturnLocal, Chain, HasRoom, Grow, frameVars
<1>2. len = IF n = m THEN 1 ELSE 2
  <2>1. n = m => Cardinality({n}) = 1 /\ {n, m} = {n}
    BY FS_Singleton
  <2>2. n # m => Cardinality({n} \cup {m}) = Cardinality({n}) + 1 /\ {n, m} = {n} \cup {m}
    BY FS_Singleton, FS_AddElement
  <2>3. Cardinality({n}) = 1
    BY FS_Singleton
  <2> QED
    BY <2>1, <2>2, <2>3
<1> HIDE DEF len
<1>3. TypeOK /\ TypeOK'
  <2>1. TypeOK /\ failed' \in BOOLEAN /\ local[w] \in Index /\ size[w] + len \in 0..MaxElementsPerThread
    <3>1. TypeOK /\ failed' \in BOOLEAN /\ local[w] \in Index /\ size[w] \in 0..MaxElementsPerThread
      BY DEF PoolInv, TypeOK, ReturnLocal
    <3> QED
      BY <1>1, <1>2, <3>1, Bounds
  <2> QED
    BY <1>1, <2>1, Indices DEF TypeOK
<1>4. /\ n \notin FreeList /\ m \notin FreeList
      /\ \A v \in Worker : n \notin LocalList(v) /\ m \notin LocalList(v)
      /\ \A u \in Thread : n \notin InHand(u) /\ m \notin InHand(u)
  BY <1>1 DEF PoolInv, Apart
<1>5. /\ FreeList' = FreeList /\ Straight(next', free'.head) /\ next' \in Links
      /\ \A v \in Worker : v # w =>
           LocalList(v)' = LocalList(v) /\ Straight(next', local'[v])
  BY <1>1, <1>3, <1>4, OtherLists DEF TypeOK
<1>6. Straight(next', local'[w]) /\ LocalList(w)' = {n, m} \cup LocalList(w)
  <2>1. /\ next'[m] = local[w] /\ local[w] \in Index /\ (n # m => next'[n] = m) /\ local'[w] = n
    BY <1>1, <1>3 DEF TypeOK
  <2>2. NodesFrom(next', local[w]) = LocalList(w) /\ Straight(next', local[w])
    <3>1. Straight(next, local[w]) /\ next \in Links /\ LocalList(w) = NodesFrom(next, local[w])
      BY Types, ListNames DEF PoolInv, ListsStraight
    <3>2. m \notin NodesFrom(next, local[w])
      BY <1>4, <3>1
    <3>3. /\ NodesFrom([next EXCEPT ![m] = local[w]], local[w]) = NodesFrom(next, local[w])
          /\ Straight([next EXCEPT ![m] = local[w]], local[w])
      BY <2>1, <3>1, <3>2, LinkElsewhere
    <3> QED
      BY <1>1, <3>1, <3>3
  <2>3. Straight(next', m) /\ NodesFrom(next', m) = {m} \cup LocalList(w)
    BY <1>4, <1>5, <2>1, <2>2, PushStraight, HeadAndTail
  <2>4. LocalList(w)' = NodesFrom(next', n)
    BY <2>1, ListNames
  <2>5. CASE n = m
    BY <2>1, <2>3, <2>4, <2>5
  <2>6. CASE n # m
    <3>1. next'[n] = m /\ n \notin NodesFrom(next', m)
      BY <1>4, <2>1, <2>3, <2>6
    <3>2. Straight(next', n) /\ NodesFrom(next', n) = {n} \cup NodesFrom(next', m)
      BY <1>5, <2>3, <3>1, PushStraight, HeadAndTail
    <3> QED
      BY <2>1, <2>3, <2>4, <3>2
  <2> QED
    BY <2>5, <2>6
<1>7. \A u \in Thread : InHand(u)' = InHand(u)
  BY <1>1, InHandNames
<1>8. SizesExact'
  <2>1. Cardinality(LocalList(w)') = Cardinality(LocalList(w)) + len
    <3>1. /\ IsFiniteSet(LocalList(w)) /\ Cardinality(LocalList(w)) \in Nat
          /\ LocalList(w) \cup {m} \in SUBSET Node
      BY Types, NodesFinite
    <3>2. Cardinality(LocalList(w) \cup {m}) = Cardinality(LocalList(w)) + 1
      BY <1>4, <3>1, FS_AddElement
    <3>3. CASE n = m
      <4>1. LocalList(w)' = LocalList(w) \cup {m}
        BY <1>6, <3>3
      <4> QED
        BY <1>2, <3>2, <3>3, <4>1
    <3>4. CASE n # m
      <4>1. LocalList(w)' = (LocalList(w) \cup {m}) \cup {n} /\ n \notin LocalList(w) \cup {m}
        BY <1>4, <1>6, <3>4
      <4>2. IsFiniteSet(LocalList(w) \cup {m})
        BY <3>1, FS_AddElement
      <4>3. Cardinality(LocalList(w)') = Cardinality(LocalList(w) \cup {m}) + 1
        <5> DEFINE L == LocalList(w) \cup {m}
        <5>1. IsFiniteSet(L) /\ n \notin L /\ LocalList(w)' = L \cup {n}
          BY <4>1, <4>2
        <5> HIDE DEF L
        <5>2. Cardinality(L \cup {n}) = Cardinality(L) + 1
          BY <5>1, FS_AddElement
        <5> QED
          BY <5>1, <5>2 DEF L
      <4> QED
        BY <1>2, <3>1, <3>2, <3>4, <4>3
    <3> QED
      BY <3>3, <3>4
  <2>2. \A v \in Worker : size[v] = Cardinality(LocalList(v))
    BY DEF PoolInv, SizesExact, LocalList
  <2>3. \A v \in Worker : size'[v] = Cardinality(LocalList(v)')
    BY <1>1, <1>3, <1>5, <2>1, <2>2 DEF TypeOK
  <2> QED
    BY <2>3 DEF SizesExact, LocalList
<1>9. ListsStraight'
  BY <1>5, <1>6 DEF ListsStraight
<1>10. ThreadsInStep'
  BY <1>1, <1>3, <1>4, OthersInStep DEF ThreadsInStep, TypeOK
<1>11. TagsLeft'
  BY <1>1 DEF PoolInv, TagsLeft, Busy
<1>12. Covered'
  BY <1>1, <1>5, <1>6, <1>7 DEF PoolInv, Covered
<1>13. Apart'
  <2>1. Apart
    BY DEF PoolInv
  <2>2. /\ LocalList(w)' = {n, m} \cup LocalList(w)
        /\ \A v \in Worker : v # w => LocalList(v)' = LocalList(v)
    BY <1>5, <1>6
  <2> QED
    BY <1>1, <1>4, <1>5, <1>7, <2>1, <2>2 DEF Apart
<1> QED
  BY <1>3, <1>8, <1>9, <1>10, <1>11, <1>12, <1>13 DEF PoolInv
-----------------------------------------------------------------------------
(* The constructor. *)

Less == {pair \in Nat \X Nat : pair[1] < pair[2]}

\* A set of numbers has a least one.
LEMMA LeastNumber ==
  ASSUME NEW T \in SUBSET Nat, T # {}
  PROVE  \E x \in T : \A y \in T : x <= y
<1>1. IsWellFoundedOn(Less, Nat)
  BY NatLessThanWellFounded DEF OpToRel, Less
<1>2. \E x \in T : \A y \in T : <<y, x>> \notin Less
  BY <1>1, WFMin
<1>3. \A x, y \in Nat : <<y, x>> \in Less <=> y < x
  <2>1. \A x, y \in Nat : <<y, x>> \in Nat \X Nat /\ <<y, x>>[1] = y /\ <<y, x>>[2] = x
    OBVIOUS
  <2> QED
    BY <2>1 DEF Less
<1>4. \A x, y \in Nat : ~(y < x) => x <= y
  OBVIOUS
<1> QED
  BY <1>2, <1>3, <1>4

\* Nodes that are linked in a row are the list of the first of them.
LEMMA RowIsList ==
  ASSUME NEW link \in Links, NEW a \in Node, NEW b \in Node, a <= b,
         \A n \in a..b : link[n] = IF n = b THEN kInvalidIndex ELSE n + 1
  PROVE  NodesFrom(link, a) = a..b /\ Straight(link, a)
<1>1. a \in Nat /\ b \in Nat /\ \A x \in a..b : x..b \in SUBSET Node /\ x \in Node /\ x \in Nat
  BY Bounds DEF Node
<1>2. ASSUME NEW x \in a..b
      PROVE  NodesFrom(link, x) = x..b
  <2>1. x \in Index /\ x # kInvalidIndex /\ x \in x..b /\ x \in Nat
    BY <1>1, Indices
  <2>2. Closed(link, x..b)
    BY <1>1, <2>1 DEF Closed
  <2>3. NodesFrom(link, x) \subseteq x..b
    BY <1>1, <2>1, <2>2, NodesFromLeast
  <2>4. x..b \subseteq NodesFrom(link, x)
    <3> DEFINE T == (x..b) \ NodesFrom(link, x)
    <3> SUFFICES ASSUME T # {} PROVE FALSE
      OBVIOUS
    <3>1. T \in SUBSET Nat
      BY <1>1, <2>1
    <3>2. PICK n \in T : \A y \in T : n <= y
      BY <3>1, LeastNumber
    <3>3. x \in NodesFrom(link, x) /\ Closed(link, NodesFrom(link, x))
      BY <2>1, NodesFromLeast
    <3>4. n \in x..b /\ n # x /\ n \in Nat
      BY <3>2, <3>3, <1>1, <2>1
    <3>5. n - 1 \in x..b /\ n - 1 \notin T /\ link[n - 1] = n
      BY <1>1, <2>1, <3>2, <3>4
    <3>6. n \in NodesFrom(link, x) \cup {kInvalidIndex}
      BY <3>3, <3>5 DEF Closed
    <3> QED
      BY <1>1, <3>2, <3>4, <3>6, Indices
  <2> QED
    BY <2>3, <2>4
<1>3. a \in a..b /\ b \in a..b
  BY <1>1
<1>4. NodesFrom(link, a) = a..b
  BY <1>2, <1>3
<1>5. ASSUME NEW n \in a..b
      PROVE  n \notin NodesFrom(link, link[n])
  <2>1. CASE n = b
    BY <2>1, <1>3, EmptyList
  <2>2. CASE n # b
    <3>1. link[n] = n + 1 /\ n + 1 \in a..b /\ n \notin (n + 1)..b
      BY <1>1, <2>2
    <3> QED
      BY <1>2, <3>1
  <2> QED
    BY <2>1, <2>2
<1> QED
  BY <1>3, <1>4, <1>5 DEF Straight

First(i) == i * ElementsPerThread
Last(i) == First(i) + ElementsPerThread - 1
Given == First(Cardinality(Worker))
RunIndices == 0..(Cardinality(Worker) - 1)

\* The runs of nodes follow each other, up to the nodes of the shared stack.
LEMMA RunsInOrder ==
  ASSUME NEW i \in Nat, NEW j \in Nat, i < j
  PROVE  First(i) \in Nat /\ First(j) \in Nat /\ First(i) + ElementsPerThread <= First(j)
<1> DEFINE d == j - i - 1
           e == ElementsPerThread
<1>1. d \in Nat /\ e \in Nat /\ j = (i + 1) + d
  BY Bounds
<1> HIDE DEF d, e
<1>2. i * e \in Nat /\ d * e \in Nat /\ j * e = (i * e + e) + d * e
  BY <1>1
<1>3. j * e \in Nat /\ i * e + e <= j * e
  BY <1>1, <1>2
<1> QED
  BY <1>2, <1>3 DEF First, e

LEMMA RunsBelowShared ==
  /\ Cardinality(Worker) \in Nat /\ Given \in Nat /\ Given < Size
  /\ \A i \in RunIndices : i \in Nat /\ First(i) \in Nat /\ First(i) + ElementsPerThread <= Given
  /\ \A i, j \in RunIndices : i < j => First(i) + ElementsPerThread <= First(j)
<1>1. Cardinality(Worker) \in Nat
  BY Bounds, FS_CardinalityType
<1>2. Given < Size
  BY PoolAssumption DEF Given, First
<1>3. Given \in Nat
  BY <1>1, Bounds DEF Given, First
<1>4. \A i \in RunIndices : i \in Nat /\ i < Cardinality(Worker)
  BY <1>1 DEF RunIndices
<1> QED
  BY <1>1, <1>2, <1>3, <1>4, RunsInOrder DEF Given

\* Each node below the shared stack's is in a run.
LEMMA RunOf ==
  ASSUME NEW n \in Nat, n < Given
  PROVE  \E i \in RunIndices : First(i) <= n /\ n <= Last(i)
<1> DEFINE T == {j \in Nat : n < First(j)}
<1>1. Cardinality(Worker) \in T /\ T \in SUBSET Nat
  BY RunsBelowShared DEF Given
<1>2. PICK j \in T : \A k \in T : j <= k
  BY <1>1, LeastNumber
<1>3. j # 0 /\ j <= Cardinality(Worker) /\ j \in Nat /\ n < First(j)
  <2>1. First(0) = 0
    BY Bounds DEF First
  <2> QED
    BY <1>1, <1>2, <2>1
<1>4. j - 1 \in Nat /\ j - 1 \in RunIndices /\ j - 1 \notin T
  BY <1>2, <1>3, RunsBelowShared DEF RunIndices
<1>5. First(j - 1) + ElementsPerThread = First(j)
  <2> DEFINE i == j - 1
             e == ElementsPerThread
  <2>1. i \in Nat /\ e \in Nat /\ j = i + 1
    BY <1>3, <1>4, Bounds
  <2> HIDE DEF i, e
  <2>2. i * e + e = (i + 1) * e
    BY <2>1
  <2> QED
    BY <2>1, <2>2 DEF i, e, First
<1>6. First(j - 1) \in Nat /\ First(j - 1) <= n
  BY <1>4, RunsBelowShared
<1> QED
  BY <1>3, <1>4, <1>5, <1>6, Bounds DEF Last

\* What the constructor leaves: a row of nodes for each worker, and one for the
\* shared stack.
LEMMA InitRows ==
  ASSUME Init
  PROVE  /\ next \in Links
         /\ \A i \in RunIndices, n \in Node :
              First(i) <= n /\ n <= Last(i) => next[n] = IF n = Last(i) THEN kInvalidIndex ELSE n + 1
         /\ \A n \in Given..(Size - 1) :
              n \in Node /\ next[n] = IF n = Size - 1 THEN kInvalidIndex ELSE n + 1
<1> DEFINE Stop(n) == n = Size - 1 \/ \E i \in RunIndices : n = Last(i)
<1>1. next = [n \in Node |-> IF Stop(n) THEN kInvalidIndex ELSE n + 1]
  <2> DEFINE first(i) == i * ElementsPerThread
             last(i) == first(i) + ElementsPerThread - 1
             ends == {Size - 1} \cup {n \in Node : \E i \in 0..(Cardinality(Worker) - 1) : n = last(i)}
  <2>1. next = [n \in Node |-> IF n \in ends THEN kInvalidIndex ELSE n + 1]
    BY DEF Init
  <2>2. \A i : last(i) = Last(i)
    BY DEF Last, First
  <2>3. \A n \in Node : n \in ends <=> Stop(n)
    BY <2>2 DEF RunIndices
  <2> HIDE DEF ends, Stop
  <2> QED
    BY <2>1, <2>3
<1>2. \A n \in Node : n \in Nat /\ n < Size
  BY Bounds DEF Node
<1>3. next \in Links
  <2>1. \A n \in Node : ~Stop(n) => n + 1 \in Node
    BY <1>2, Bounds DEF Node
  <2> HIDE DEF Stop
  <2> QED
    BY <1>1, <2>1, Indices DEF Links
<1>4. ASSUME NEW i \in RunIndices, NEW n \in Node, First(i) <= n, n <= Last(i)
      PROVE  Stop(n) <=> n = Last(i)
  <2>1. /\ i \in Nat /\ First(i) \in Nat /\ First(i) + ElementsPerThread <= Given /\ Given < Size
        /\ ElementsPerThread \in Nat /\ Size \in Nat /\ Given \in Nat /\ n \in Nat
    BY <1>2, RunsBelowShared, Bounds
  <2>2. n # Size - 1
    BY <1>4, <2>1 DEF Last
  <2>3. ASSUME NEW j \in RunIndices, n = Last(j) PROVE i = j
    <3>1. j \in Nat /\ First(j) \in Nat
      BY RunsBelowShared
    <3>2. ~(i < j)
      <4>1. i < j => First(i) + ElementsPerThread <= First(j)
        BY RunsBelowShared
      <4> QED
        BY <1>4, <2>1, <2>3, <3>1, <4>1 DEF Last
    <3>3. ~(j < i)
      <4>1. j < i => First(j) + ElementsPerThread <= First(i)
        BY RunsBelowShared
      <4> QED
        BY <1>4, <2>1, <2>3, <3>1, <4>1 DEF Last
    <3> QED
      BY <2>1, <3>1, <3>2, <3>3
  <2> QED
    BY <2>2, <2>3
<1>5. ASSUME NEW n \in Given..(Size - 1)
      PROVE  n \in Node /\ (Stop(n) <=> n = Size - 1)
  <2>1. n \in Nat /\ Given <= n /\ Given \in Nat /\ n \in Node
    BY RunsBelowShared, Bounds DEF Node
  <2>2. ASSUME NEW i \in RunIndices PROVE n # Last(i)
    BY <2>1, RunsBelowShared, Bounds DEF Last
  <2> QED
    BY <2>1, <2>2
<1> HIDE DEF Stop
<1> QED
  BY <1>1, <1>3, <1>4, <1>5

\* Each worker begins with a run of its own.
LEMMA InitLists ==
  ASSUME Init
  PROVE  \E index \in [Worker -> RunIndices] :
           /\ \A v, w \in Worker : index[v] = index[w] => v = w
           /\ \A i \in RunIndices : \E w \in Worker : index[w] = i
           /\ \A w \in Worker : /\ LocalList(w) = First(index[w])..Last(index[w])
                                /\ Straight(next, local[w]) /\ local[w] \in Index
<1>1. PICK index \in Bijection(Worker, RunIndices) :
        local = [w \in Worker |-> IF ElementsPerThread = 0 THEN kInvalidIndex ELSE First(index[w])]
  BY DEF Init, RunIndices, First
<1>2. /\ index \in [Worker -> RunIndices]
      /\ \A v, w \in Worker : index[v] = index[w] => v = w
      /\ \A i \in RunIndices : \E w \in Worker : index[w] = i
  BY <1>1 DEF Bijection, Injection, Surjection, IsInjective
<1>3. next \in Links
  BY InitRows
<1>4. ASSUME NEW w \in Worker
      PROVE  /\ LocalList(w) = First(index[w])..Last(index[w])
             /\ Straight(next, local[w]) /\ local[w] \in Index
  <2> DEFINE a == First(index[w])
             b == Last(index[w])
  <2>1. /\ index[w] \in RunIndices /\ a \in Nat /\ ElementsPerThread \in Nat
        /\ b = a + ElementsPerThread - 1 /\ a + ElementsPerThread <= Given
        /\ Given < Size /\ Given \in Nat /\ Size \in Nat
    BY <1>2, RunsBelowShared, Bounds DEF Last
  <2>2. CASE ElementsPerThread = 0
    <3>1. local[w] = kInvalidIndex /\ a..b = {}
      BY <1>1, <2>1, <2>2
    <3>2. NodesFrom(next, local[w]) = {}
      BY <1>3, <3>1, EmptyList
    <3> QED
      BY <3>1, <3>2, Indices, ListNames DEF Straight
  <2>3. CASE ElementsPerThread # 0
    <3>1. local[w] = a
      BY <1>1, <2>3
    <3>2. a \in Node /\ b \in Node /\ a <= b /\ a..b \subseteq Node
      BY <2>1, <2>3 DEF Node
    <3>3. \A n \in a..b : next[n] = IF n = b THEN kInvalidIndex ELSE n + 1
      BY <2>1, <3>2, InitRows
    <3> HIDE DEF a, b
    <3>4. NodesFrom(next, a) = a..b /\ Straight(next, a)
      BY <1>3, <3>2, <3>3, RowIsList
    <3> QED
      BY <3>1, <3>2, <3>4, Indices, ListNames DEF a, b
  <2> QED
    BY <2>2, <2>3
<1> QED
  BY <1>2, <1>4

LEMMA InitFreeList ==
  ASSUME Init
  PROVE  FreeList = Given..(Size - 1) /\ Straight(next, free.head) /\ free = [head |-> Given, tag |-> 0]
<1>1. free = [head |-> Given, tag |-> 0]
  BY DEF Init, Given, First
<1>2. Given \in Node /\ Size - 1 \in Node /\ Given <= Size - 1
  BY RunsBelowShared, Bounds DEF Node
<1>3. next \in Links /\ \A n \in Given..(Size - 1) : next[n] = IF n = Size - 1 THEN kInvalidIndex ELSE n + 1
  BY InitRows
<1>4. NodesFrom(next, Given) = Given..(Size - 1) /\ Straight(next, Given)
  BY <1>2, <1>3, RowIsList
<1> QED
  BY <1>1, <1>4, ListNames

LEMMA InitTypes ==
  ASSUME Init
  PROVE  TypeOK
<1>1. next \in [Node -> Index]
  BY InitRows DEF Links
<1>2. free \in Word /\ [head |-> kInvalidIndex, tag |-> 0] \in Word
  <2>1. Given \in Index /\ 0 \in 0..MaxTag
    BY RunsBelowShared, Bounds, Indices DEF Node
  <2> QED
    BY <2>1, Indices, InitFreeList DEF Word
<1>3. local \in [Worker -> Index]
  <2>1. PICK index \in [Worker -> RunIndices] : \A w \in Worker : local[w] \in Index
    BY InitLists
  <2>2. DOMAIN local = Worker /\ local = [w \in Worker |-> local[w]]
    BY DEF Init
  <2> QED
    BY <2>1, <2>2
<1>4. size \in [Worker -> 0..MaxElementsPerThread]
  BY Bounds DEF Init
<1> QED
  BY <1>1, <1>2, <1>3, <1>4, Indices DEF Init, TypeOK

LEMMA InitPoolInv ==
  ASSUME Init
  PROVE  PoolInv
<1>1. TypeOK
  BY InitTypes
<1>2. PICK index \in [Worker -> RunIndices] :
           /\ \A v, w \in Worker : index[v] = index[w] => v = w
           /\ \A i \in RunIndices : \E w \in Worker : index[w] = i
           /\ \A w \in Worker : /\ LocalList(w) = First(index[w])..Last(index[w])
                                /\ Straight(next, local[w]) /\ local[w] \in Index
  BY InitLists
<1>3. /\ FreeList = Given..(Size - 1) /\ Straight(next, free.head)
      /\ free = [head |-> Given, tag |-> 0]
  BY InitFreeList
<1>4. \A w \in Worker :
        /\ index[w] \in RunIndices /\ First(index[w]) \in Nat
        /\ First(index[w]) + ElementsPerThread <= Given
  BY RunsBelowShared
<1>5. SizesExact
  <2>1. ASSUME NEW w \in Worker PROVE size[w] = Cardinality(LocalList(w))
    <3> DEFINE a == First(index[w])
               b == Last(index[w])
    <3>1. a \in Nat /\ b = a + ElementsPerThread - 1 /\ ElementsPerThread \in Nat
      BY <1>4, Bounds DEF Last
    <3>2. LocalList(w) = a..b /\ size[w] = ElementsPerThread
      BY <1>2 DEF Init
    <3> HIDE DEF a, b
    <3>3. a \in Int /\ b \in Int
      BY <3>1
    <3>4. Cardinality(a..b) = IF a > b THEN 0 ELSE b - a + 1
      BY <3>3, FS_Interval
    <3> QED
      BY <3>1, <3>2, <3>4
  <2> QED
    BY <2>1 DEF SizesExact, LocalList
<1>6. ListsStraight
  BY <1>2, <1>3 DEF ListsStraight
<1>7. \A th \in Thread : InHand(th) = {}
  BY DEF InHand, Init
<1>8. Covered
  <2> SUFFICES ASSUME NEW n \in Node, n \notin FreeList
               PROVE  \E w \in Worker : n \in LocalList(w)
    BY DEF Covered
  <2>1. n \in Nat /\ n < Given
    BY <1>3, RunsBelowShared, Bounds DEF Node
  <2>2. PICK i \in RunIndices : First(i) <= n /\ n <= Last(i)
    BY <2>1, RunOf
  <2>3. PICK w \in Worker : index[w] = i
    BY <1>2
  <2>4. i \in Nat /\ First(i) \in Nat /\ Last(i) \in Int
    BY RunsBelowShared, Bounds DEF Last
  <2>5. n \in First(i)..Last(i)
    BY <2>1, <2>2, <2>4
  <2> QED
    BY <1>2, <2>3, <2>5
<1>9. Apart
  <2>1. ASSUME NEW w \in Worker, NEW n \in LocalList(w)
        PROVE  n \in Int /\ First(index[w]) <= n /\ n < First(index[w]) + ElementsPerThread
    <3>1. /\ First(index[w]) \in Nat /\ ElementsPerThread \in Nat
          /\ Last(index[w]) = First(index[w]) + ElementsPerThread - 1
          /\ n \in First(index[w])..Last(index[w])
      BY <1>2, <1>4, <2>1, Bounds DEF Last
    <3> QED
      BY <3>1
  <2>2. ASSUME NEW w \in Worker, NEW n \in LocalList(w) PROVE n \notin FreeList
    BY <1>3, <1>4, <2>1, <2>2, RunsBelowShared, Bounds
  <2>3. ASSUME NEW v \in Worker, NEW w \in Worker, v # w,
               NEW n \in LocalList(w), n \in LocalList(v)
        PROVE  FALSE
    <3>1. /\ n \in Int /\ First(index[w]) <= n /\ n < First(index[w]) + ElementsPerThread
          /\ First(index[v]) <= n /\ n < First(index[v]) + ElementsPerThread
      BY <2>1, <2>3
    <3>2. /\ index[v] \in RunIndices /\ index[w] \in RunIndices /\ index[v] # index[w]
          /\ index[v] \in Nat /\ index[w] \in Nat
      BY <1>2, <1>4, <2>3, RunsBelowShared
    <3>3. index[v] < index[w] \/ index[w] < index[v]
      BY <3>2
    <3>4. \/ First(index[v]) + ElementsPerThread <= First(index[w])
          \/ First(index[w]) + ElementsPerThread <= First(index[v])
      BY <3>2, <3>3, RunsBelowShared
    <3> QED
      BY <1>4, <3>1, <3>4, Bounds
  <2>4. used = {}
    BY DEF Init
  <2> QED
    BY <1>7, <2>2, <2>3, <2>4 DEF Apart
<1>10. ThreadsInStep
  BY DEF Init, ThreadsInStep, FrameFollowsPc, WordCurrent, Pops, Pushes
<1>11. TagsLeft
  <2>1. Busy = {}
    BY DEF Busy, Init, Pops, Pushes
  <2> QED
    BY <1>3, <2>1, FS_EmptySet, Bounds DEF TagsLeft
<1> QED
  BY <1>1, <1>5, <1>6, <1>8, <1>9, <1>10, <1>11 DEF PoolInv
-----------------------------------------------------------------------------
LEMMA Step ==
  ASSUME PoolInv, [Next]_vars
  PROVE  PoolInv'
<1>1. CASE Next
  <2>1. ASSUME NEW th \in Thread, Proceed(th) PROVE PoolInv'
    BY <2>1, ReadNextStep, PopSwapStep, PoppedStep, PushLinkStep, PushSwapStep DEF Proceed
  <2>2. ASSUME NEW th \in Thread, AcquireShared(th) PROVE PoolInv'
    BY <2>2, AcquireSharedStep
  <2>3. ASSUME NEW th \in Thread, NEW n \in Node, NEW m \in Node, ReturnShared(th, n, m) PROVE PoolInv'
    BY <2>3, ReturnSharedStep
  <2>4. ASSUME NEW w \in Worker, AcquireLocal(w) PROVE PoolInv'
    BY <2>4, AcquireLocalStep
  <2>5. ASSUME NEW w \in Worker, NEW n \in Node, NEW m \in Node, ReturnLocal(w, n, m) PROVE PoolInv'
    BY <2>5, ReturnLocalStep
  <2>6. ASSUME NEW n \in Node, NEW m \in Index, Link(n, m) PROVE PoolInv'
    BY <2>6, LinkStep
  <2> QED
    BY <1>1, <2>1, <2>2, <2>3, <2>4, <2>5, <2>6 DEF Next
<1>2. CASE UNCHANGED vars
  <2>1. UNCHANGED <<next, free, local, size, used, pc, node, tail, state, new_head, failed>>
    BY <1>2 DEF vars, listVars, frameVars
  <2>2. FreeList' = FreeList /\ \A w \in Worker : LocalList(w)' = LocalList(w)
    BY <2>1, ListNames
  <2>3. TypeOK'
    BY <2>1 DEF PoolInv, TypeOK
  <2>4. ListsStraight' /\ SizesExact'
    BY <2>1, ListsKept
  <2>5. Covered' /\ Apart'
    BY <2>1, <2>2, PlacesKept, InHandNames
  <2>6. ThreadsInStep'
    BY <2>1 DEF PoolInv, ThreadsInStep, FrameFollowsPc, WordCurrent
  <2>7. TagsLeft'
    BY <2>1 DEF PoolInv, TagsLeft, Busy
  <2> QED
    BY <2>3, <2>4, <2>5, <2>6, <2>7 DEF PoolInv
<1> QED
  BY <1>1, <1>2

\* The places of the nodes and the tags of the words, for every number of
\* threads, nodes and operations (Pool.h, Stack in LockFree.h).
THEOREM PoolInvariance == Spec => []PoolInv
<1>1. Init => PoolInv
  BY InitPoolInv
<1>2. PoolInv /\ [Next]_vars => PoolInv'
  BY Step
<1> QED
  BY <1>1, <1>2, PTL DEF Spec

\* The variables keep their types: in particular the tag of the shared stack
\* stays within the bound, and size_ of a worker's stack within its capacity,
\* through single nodes and chains (Pool.h Return and ReturnChain).
THEOREM PoolTypesCorrect == Spec => []TypeOK
<1>1. PoolInv => TypeOK
  BY DEF PoolInv
<1> QED
  BY <1>1, PoolInvariance, PTL

\* size_ of a worker's stack is the length of its list, so that a worker that
\* finds it above zero finds a node (Pool.h Acquire, Return and ReturnChain).
THEOREM StackSizesExact == Spec => []SizesExact
<1>1. PoolInv => SizesExact
  BY DEF PoolInv
<1> QED
  BY <1>1, PoolInvariance, PTL

\* Every node is in one place, although Pop reads NextRef of a node that may
\* have been acquired, used and returned since the head was loaded, and no list
\* runs in a circle (Stack::Pop and PushChain in LockFree.h, Pool.h).
THEOREM NodesInOnePlace == Spec => []EachNodeOnce
<1>1. ASSUME PoolInv PROVE EachNodeOnce
  <2>1. Apart /\ Covered /\ ListsStraight
    BY <1>1 DEF PoolInv
  <2>2. Cardinality({}) = 0 /\ \A x : Cardinality({x}) = 1
    BY FS_EmptySet, FS_Singleton
  <2>3. ASSUME NEW n \in Node
        PROVE  (IF n \in used THEN 1 ELSE 0) + (IF n \in FreeList THEN 1 ELSE 0)
               + Cardinality({w \in Worker : n \in LocalList(w)})
               + Cardinality({th \in Thread : n \in InHand(th)}) = 1
    <3> DEFINE lists == {w \in Worker : n \in LocalList(w)}
               hands == {th \in Thread : n \in InHand(th)}
    <3>1. ASSUME n \in used
          PROVE  n \notin FreeList /\ Cardinality(lists) = 0 /\ Cardinality(hands) = 0
      <4>1. n \notin FreeList /\ lists = {} /\ hands = {}
        BY <2>1, <3>1 DEF Apart
      <4> QED
        BY <2>2, <4>1
    <3>2. ASSUME n \in FreeList
          PROVE  n \notin used /\ Cardinality(lists) = 0 /\ Cardinality(hands) = 0
      <4>1. n \notin used /\ lists = {} /\ hands = {}
        BY <2>1, <3>2 DEF Apart
      <4> QED
        BY <2>2, <4>1
    <3>3. ASSUME NEW w \in Worker, n \in LocalList(w)
          PROVE  /\ n \notin used /\ n \notin FreeList
                 /\ Cardinality(lists) = 1 /\ Cardinality(hands) = 0
      <4>1. lists = {w} /\ n \notin used /\ n \notin FreeList /\ hands = {}
        BY <2>1, <3>3 DEF Apart
      <4> QED
        BY <2>2, <4>1
    <3>4. ASSUME NEW th \in Thread, n \in InHand(th)
          PROVE  /\ n \notin used /\ n \notin FreeList
                 /\ Cardinality(lists) = 0 /\ Cardinality(hands) = 1
      <4>1. hands = {th} /\ n \notin used /\ n \notin FreeList /\ lists = {}
        BY <2>1, <3>4 DEF Apart
      <4> QED
        BY <2>2, <4>1
    <3>5. \/ n \in used \/ n \in FreeList
          \/ \E w \in Worker : n \in LocalList(w)
          \/ \E th \in Thread : n \in InHand(th)
      BY <2>1 DEF Covered
    <3> SUFFICES (IF n \in used THEN 1 ELSE 0) + (IF n \in FreeList THEN 1 ELSE 0)
                 + Cardinality(lists) + Cardinality(hands) = 1
      OBVIOUS
    <3> HIDE DEF lists, hands
    <3> QED
      BY <3>1, <3>2, <3>3, <3>4, <3>5
  <2>4. \A list \in Lists : Ends(list)
    BY <2>1, ListNames DEF Lists, Ends, ListsStraight, Straight, FreeList, LocalList
  <2> QED
    BY <2>3, <2>4 DEF EachNodeOnce, FreeList, LocalList
<1> QED
  BY <1>1, PoolInvariance, PTL
=============================================================================
